CONSTANTS
    c1 = c1
    c2 = c2
    c3 = c3
    Conn = {c1, c2, c3}
    Name = {"a", "b"}
    NoName = ""
    NoConn = NoConn
    Client = {"A", "B"}
    MemberName <- Names
    owner <- Owners
    Publisher = "A"
    Drawing <- Drawings
    NoId = NoId
    NoView = NoView
    NoFirst = NoFirst
    NoMsg = NoMsg
    Unchanged = Unchanged
    Garbage = Garbage
    Protocols <- Kinds
    MaxShows = 2
SPECIFICATION ViewsSpec
CHECK_DEADLOCK FALSE
CONSTRAINTS LastConnectionLasts OneAtATime AFirst
INVARIANT ViewsAgree
PROPERTY Mirrors
