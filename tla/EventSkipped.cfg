SPECIFICATION StreamSpec
CONSTANTS
    Clients = {c1, c2, c3}
    MaxEvents = 2
    c1 = c1
    c2 = c2
    c3 = c3
INVARIANTS
    BroadcastReachesAll
CHECK_DEADLOCK FALSE
