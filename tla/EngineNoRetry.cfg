SPECIFICATION Spec
CONSTANTS
    TopThreads = {t1}
    ChildThreads = {}
    Inputs = {i1}
    MaxTurns = 2
    MaxProviderRetries = 0
    MaxIterations = 2
    MaxDrops = 1
INVARIANTS
    NoDrift
    ViewsAgree
    InjectionAccounted
PROPERTIES
    NextTurnSurvivesAbort
CHECK_DEADLOCK FALSE
