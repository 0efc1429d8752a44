SPECIFICATION StartSpec
CONSTANTS
    Servers = {s1, s2}
    Clients = {c1, c2}
    None = None
    MaxFd = 8
    Floor = 3
    MaxSent = 3
    Standard = {0}
    Closed = Closed
    MaxSignals = 2
INVARIANTS ServedRight EndsWell
PROPERTIES NobodyWaits PlaysInFrame HandoffEnds
CHECK_DEADLOCK FALSE
