SPECIFICATION Spec
CONSTANTS
    p = p
    q = q
    paper1 = paper1
    paper2 = paper2
    None = None
    Torn = Torn
    Procs = {p, q}
    Consoles = {p}
    Shells = {q}
    Papers = {paper1, paper2}
    MaxAnalyses = 2
    MaxCommands = 3
    MaxCleans = 1
SYMMETRY Symmetry
INVARIANTS
    TypeOK
    OneLineage
CHECK_DEADLOCK FALSE
