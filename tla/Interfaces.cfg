SPECIFICATION Spec
CONSTANTS
    Hello = "hello"
    Calls = {"c1"}
    ServerReqs = {"r1"}
    Served = {"r1"}
    EventCap = 1
    MaxNotes = 1
    Kinds = {"TurnStarted", "ItemAppended", "SavePoint"}
    BroadcastCap = 1
    MaxEvents = 2
    MaxFrames = 2
    OutCap = 1
    WireCap = 1
    Procs = {"p1", "p2", "p3"}
    MaxConnections = 1
    Backlog = 1
    MaxStarts = 1
    Callers = {"a", "b", "c"}
    Anyone = {"a"}
    Racers = {"b"}
    QueueCap = 1
    Models = {"m1", "m2"}
CHECK_DEADLOCK FALSE
INVARIANTS
    TypesOK
    ClientTeardown
    ConnectionOrder
    ListenerSafe
    HandleConsistent
PROPERTIES
    AtMostOnce
