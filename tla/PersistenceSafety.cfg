SPECIFICATION Spec
CONSTANTS
    Main = main
    None = None
    ChannelCap = 3
    MaxTasks = 2
    MaxEvents = 2
    Lives = 2
CONSTRAINT Budget
INVARIANTS
    TypeOK
    SavedTurnsSurvive
    RolloutInOrder
    ForkIsComplete
    CleanExitIsDurable
PROPERTIES
    IndexEndsAfterSave
CHECK_DEADLOCK FALSE
