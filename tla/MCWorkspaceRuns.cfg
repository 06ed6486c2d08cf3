SPECIFICATION Spec
CONSTANTS
    p = p
    q = q
    short = short
    long = long
    None = None
    Procs = {p, q}
    NodeSets = {short, long}
    MaxGraphs = 3
    MaxRuns = 3
    MaxCommands = 5
    MaxCleans = 1
SYMMETRY Symmetry
INVARIANTS
    TypeOK
    GateAdmitsOnlyReady
    OneOpenRunPerGraph
CHECK_DEADLOCK FALSE
