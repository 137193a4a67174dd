CONSTANTS
    Client = {c1}
    MaxRounds = 3
    MaxConnections = 1
SPECIFICATION PingSpec
CHECK_DEADLOCK FALSE
INVARIANT RoundTrip
