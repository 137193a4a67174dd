CONSTANTS
    c1 = c1
    c2 = c2
    c3 = c3
    Conn = {c1, c2, c3}
    Name = {"a", "b"}
    NoName = ""
    NoConn = NoConn
    Client = {"A", "B"}
    MemberName <- Names
    owner <- Owners
SPECIFICATION MembersSpec
CHECK_DEADLOCK FALSE
CONSTRAINT FirstC2
INVARIANT KnowsMembers
PROPERTY waitConnectionReturns
