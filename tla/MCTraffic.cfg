CONSTANTS
    c1 = c1
    c2 = c2
    c3 = c3
    c4 = c4
    NoLog = NoLog
    NoFirst = NoFirst
    MovedFirst = MovedFirst
    KeepLog = 1
    KeepLines = 2
    MaxWrites = 2
    MaxSyncs = 2
    MaxClears = 1
    MaxLosses = 1
    Client = {c1}
    MaxRounds = 3
    MaxConnections = 3
    Lengths = {1, 2}
    MaxMessages = 2
    MaxLinks = 2
    WordBits = 4
    DoubleBits = 3
    FloatBits = 2
    MaxDouble = 80
    Double <- EdgeDoubles
    KnownKind = {0, 1, 2}
    OtherKind = {9}
    Text = {0, 1}
    Layout <- Layouts
    MaxPacked = 2
    Conn = {c1, c2, c3, c4}
    Name = {"a", "b"}
    NoName = ""
    Other = {1, 2}
    EntryKind = {"value", "view"}
    DataName <- DataNames
    field_separator <- Dot
    field_separator_alt <- Slash
    Batch <- Batches
    Watched <- OfTheFirst
    MaxBatches = 2
    MaxJoins = 2
    MaxRestarts = 1
    MaxLinkLosses = 1
    str1 = str1
    str2 = str2
    v1 = v1
    Str = {str1, str2}
    View = {v1}
    MaxObjects = 2
    StrText <- StrTexts
    Literal <- Literals
    NoData = NoData
    Freed = Freed
    Num <- Nums
    ValueField = {"a", "a.1"}
    Item = {"a.1"}
    ItemOf <- InA
    ItemIndex <- Second
    TextVal <- TextVals
    TextNumber <- TextNumbers
    None = None
    MaxLength = 2
    MaxChanges = 3
    MaxSnapshots = 2
SPECIFICATION TrafficSpec
CHECK_DEADLOCK FALSE
CONSTRAINT ClearOrLoss
INVARIANTS LinesArrive RequestKnown  Transported BatchesRead
    EntryUnderOwnId Reachable EntriesTold TreeWalked
    TextKept SentIsMeant
PROPERTIES IdIsForever
