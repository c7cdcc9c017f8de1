SPECIFICATION Spec
CONSTANTS
    TopThreads = {t1}
    ChildThreads = {}
    Inputs = {}
    MaxTurns = 2
    MaxProviderRetries = 0
    MaxIterations = 1
    MaxDrops = 0
INVARIANTS
    InputLands
CHECK_DEADLOCK FALSE
