CONSTANTS
    connA1 = connA1
    connB1 = connB1
    connB2 = connB2
    connA2 = connA2
    Conn = {connA1, connB1, connB2}
    Name = {"a", "b"}
    NoName = ""
    NoConn = NoConn
    Client = {"A", "B"}
    MemberName <- Names
    owner <- Owners
    MaxCalls <- OneCall
SPECIFICATION CallsSpec
CHECK_DEADLOCK FALSE
PROPERTIES CallFinishes
