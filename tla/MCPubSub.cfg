CONSTANTS
    c1 = c1
    c2 = c2
    c3 = c3
    c4 = c4
    Conn = {c1, c2, c3}
    Name = {"a", "b"}
    NoName = ""
    NoConn = NoConn
    Client = {"A", "B"}
    MemberName <- Names
    owner <- Owners
    Field <- Fields
    Published <- TogetherOfA
    Wanted <- OneOfB
    MaxWrites <- TwiceA
    MaxFrees <- OnceB
SPECIFICATION PubSubSpec
CHECK_DEADLOCK FALSE
CONSTRAINT LastConnectionLasts
SYMMETRY Reconnects
INVARIANT FieldsRelayed
