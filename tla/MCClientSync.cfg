CONSTANTS
    v1 = v1
    v2 = v2
    f1 = f1
    Value = {v1, v2}
    NoValue = NoValue
    Field = {f1}
    PingStatus = PingStatus
    NoFirst = NoFirst
    MaxSets = 2
    MaxSyncs = 2
    MaxLosses = 1
SPECIFICATION ClientSpec
CHECK_DEADLOCK FALSE
INVARIANTS RequestsArrive ValueArrives ConnectedHasFirst
PROPERTIES CloseReturns
