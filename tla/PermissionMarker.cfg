SPECIFICATION Spec
CONSTANTS
    a = a  b = b  s = s  agent = agent  bash = bash
    TopCalls = {a}
    SubCalls = {}
    MaxTurns = 1
    Threads = {th1}
    Tools = {agent, bash}
    ToolOf <- OneTool
    Lives = 1
    MaxResumes = 0
    MaxLost = 0
INVARIANT
    MarkerPrecedesEnd
CHECK_DEADLOCK FALSE
