CONSTANTS
    c1 = c1
    c2 = c2
    c3 = c3
    Conn = {c1, c2, c3}
    Name = {"a", "b"}
    NoName = ""
    NoConn = NoConn
    Source = "a"
    Image <- Images
    ImageReq <- Reqs
    MaxImages <- TwoImages
    MaxReqs <- TwoReqs
    t1 = t1
    t2 = t2
    t3 = t3
    Thread = {t1, t2, t3}
    Runner = t1
    Callback = {f}
    Answers = {v, w}
    NotFound = NotFound
    NoAnswer = NoAnswer
    NoCallback = NoCallback
    w1 = w1
    Tcp = "tcp"
    Sockets = {"unix"}
    WsConn = {w1}
    NoThread = NoThread
SPECIFICATION ThreadsSpec
CHECK_DEADLOCK FALSE
CONSTRAINT InTurn
INVARIANTS NoLostWakeup Current EventsDelivered NoLostWaiter StoreOutlivesListeners
PROPERTIES JoinReturns SettledOnce Stops
