SPECIFICATION FairSpec
CONSTANTS
    TopThreads = {t1}
    ChildThreads = {c1}
    Inputs = {}
    MaxTurns = 2
    MaxProviderRetries = 0
    MaxIterations = 1
    MaxDrops = 0
PROPERTIES
    TurnEnds
    PhaseReturns
CHECK_DEADLOCK FALSE
