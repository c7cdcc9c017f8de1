SPECIFICATION Spec
CONSTANT
    Modelled = {"tui", "hooks", "acp", "scope", "tools", "snapshots", "moves", "index", "mcp",
                "discovery", "host", "selection", "transcript", "nameless"}
CHECK_DEADLOCK FALSE
INVARIANTS
    TypesOK
    ConversationSafe
    HooksFailSafe
    AcpConsistent
    ChildNeverWider
    IndexFollowsRollout
    TranscriptFaithful
    BootSafe
    WorkspaceSafe
