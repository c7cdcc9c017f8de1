SPECIFICATION CalmSpec
CONSTANTS
    Main = main
    None = None
    ChannelCap = 2
    MaxTasks = 4
    MaxEvents = 3
    Lives = 3
INVARIANTS
    RestoredInOrder
CHECK_DEADLOCK FALSE
