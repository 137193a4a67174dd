CONSTANTS
    f1 = f1
    f2 = f2
    f3 = f3
    r1 = r1
    r2 = r2
    l1 = l1
    l2 = l2
    l3 = l3
    t1 = t1
    t2 = t2
    a1 = a1
    a2 = a2
    a3 = a3
    call1 = call1
    call2 = call2
    Text <- Texts
    NL = "nl"
    Component <- Components
    NoAct = NoAct
    Ref = {r1, r2}
    Val = {"entered"}
    NoVal = NoVal
    MaxAdds = 2
    MaxSyncs = 2
    Point <- Points
    Quarter <- Quarters
    MaxCoordinate = 1
    Link = {l1, l2, l3}
    LinkName <- LinkNames
    ParentName <- Parent
    NoJoint = ""
    Model = {"m1", "m2"}
    Arrangement <- Arrangements
    MaxLinks = 2
    Thread = {t1, t2}
    Address = {a1, a2, a3}
    Call = {call1, call2}
    g1 = g1
    g2 = g2
    o1 = o1
    k1 = k1
    Fn = {g1, g2}
    FnType <- Types
    ArgObj = {o1}
    FnCall = {k1}
    MaxSets = 2
    MaxSetArgs = 2
    connA1 = connA1
    connB1 = connB1
    connB2 = connB2
    connA2 = connA2
    Conn = {connA1, connB1, connB2, connA2}
    Name = {"a", "b"}
    NoName = ""
    NoConn = NoConn
    Client = {"A", "B"}
    MemberName <- Names
    owner <- Owners
    MaxCalls <- OneCall
SPECIFICATION ApplicationSpec
CHECK_DEADLOCK FALSE
CONSTRAINTS OneIsSet OnAnAxis InTurn CallerStays
INVARIANTS Shown EventsReach PoseKept RobotArrives HandlesKept
    SignatureTold CallsAnswered
    CallsTypeOK AnswerReachesItsCaller
PROPERTIES PromiseSettles
