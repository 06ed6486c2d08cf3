SPECIFICATION Spec
CONSTANTS
    p1 = p1
    p2 = p2
    p3 = p3
    NoProc = NoProc
    m1 = m1
    m2 = m2
    u1 = u1
    root = root
    Procs = {p1, p2, p3}
    Machine <- TwoMachines
    HostKnown = TRUE
    Users = {u1, root}
    Root = root
    Windows = FALSE
    MaxDeaths = 1
    MaxLives = 2
    MaxFaults = 1
INVARIANTS
    TypeOK
    ExclusionUntilDeath
    RecordKeptUntilDeath
    CondemnsDeadOrRefused
CHECK_DEADLOCK FALSE
SYMMETRY Interchangeable
