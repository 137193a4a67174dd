CONSTANTS
    Num <- Nums
    ValueField = {"a", "a.1"}
    Item = {"a.1"}
    ItemOf <- InA
    ItemIndex <- Second
    TextVal <- TextVals
    TextNumber <- TextNumbers
    None = None
    MaxLength = 2
    MaxChanges = 3
    MaxSnapshots = 2
SPECIFICATION ValuesSpec
CHECK_DEADLOCK FALSE
INVARIANT ChangesSent
