SPECIFICATION Spec
CONSTANTS
    TopThreads = {t1, t2}
    ChildThreads = {c1}
    Inputs = {}
    MaxTurns = 2
    MaxProviderRetries = 1
    MaxIterations = 1
    MaxDrops = 0
INVARIANTS
    TypeOK
    SingleActiveTurn
    MaintenanceAlone
    OneEnding
    CancelKeepsToItsTurn
PROPERTIES
    EndingIsFinal
    RestoreLosesOnlyToCompaction
SYMMETRY ThreadSymmetry
CHECK_DEADLOCK FALSE
