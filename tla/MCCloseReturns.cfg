CONSTANTS
    c1 = c1
    c2 = c2
    c3 = c3
    Conn = {c1, c2, c3}
    Name = {"a", "b"}
    NoName = ""
    NoConn = NoConn
    Source = "a"
    Image <- Images
    ImageReq <- Reqs
    MaxImages <- TwoImages
    MaxReqs <- TwoReqs
SPECIFICATION ImageSpec
CHECK_DEADLOCK FALSE
CONSTRAINT InTurn
PROPERTY OnCloseReturns
