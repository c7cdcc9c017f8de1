SPECIFICATION FairSpec
CONSTANTS
    a = a  b = b  s = s  agent = agent  bash = bash
    TopCalls = {a}
    SubCalls = {s}
    MaxTurns = 2
    Threads = {th1}
    Tools = {agent, bash}
    ToolOf <- Delegated
    Lives = 1
    MaxResumes = 0
    MaxLost = 0
INVARIANTS
    ConsentForThisCall
PROPERTY
    CallSettles
CHECK_DEADLOCK FALSE
