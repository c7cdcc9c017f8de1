SPECIFICATION FairSpec
CONSTANTS
    TopThreads = {t1}
    ChildThreads = {}
    Inputs = {}
    MaxTurns = 1
    MaxProviderRetries = 1
    MaxIterations = 1
    MaxDrops = 0
PROPERTIES
    PhaseReturns
CHECK_DEADLOCK FALSE
