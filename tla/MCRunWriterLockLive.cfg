SPECIFICATION FairSpec
CONSTANTS
    p1 = p1
    p2 = p2
    p3 = p3
    NoProc = NoProc
    m1 = m1
    m2 = m2
    u1 = u1
    root = root
    Procs = {p1, p2, p3}
    Machine <- OneMachine
    HostKnown = FALSE
    Users = {u1}
    Root = root
    Windows = FALSE
    MaxDeaths = 1
    MaxLives = 2
    MaxFaults = 0
PROPERTIES
    StaleRecordCleared
CHECK_DEADLOCK FALSE
