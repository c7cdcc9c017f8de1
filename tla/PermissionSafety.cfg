SPECIFICATION Spec
CONSTANTS
    a = a  b = b  s = s  agent = agent  bash = bash
    TopCalls = {a, b}
    SubCalls = {}
    MaxTurns = 2
    Threads = {th1}
    Tools = {agent, bash}
    ToolOf <- OneTool
    Lives = 2
    MaxResumes = 1
    MaxLost = 1
INVARIANTS
    TypeOK
    ConsentForThisCall
    AnswerHonoured
    SuspendedIsDurable
SYMMETRY SameCalls
CHECK_DEADLOCK FALSE
