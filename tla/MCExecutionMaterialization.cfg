SPECIFICATION Spec
CONSTANTS
    r1 = r1
    r2 = r2
    d1 = d1
    d2 = d2
    c1 = c1
    g1 = g1
    g2 = g2
    checkout1 = checkout1
    checkout2 = checkout2
    dirA = dirA
    dirB = dirB
    NoOne = NoOne
    NoDir = NoDir
    Repositories = {r1, r2}
    Datasets = {d1, d2}
    Checkpoints = {c1}
    Configurations = {g1, g2}
    Checkout <- MCCheckout
    Prepared = {dirA, dirB}
    Strategies <- MCStrategies
    Discoveries <- MCDiscoveries
INVARIANTS
    TypeOK
    ReadyFetchesAreFixed
    PlannedReadyIsComplete
    WorkFollowsItsClone
