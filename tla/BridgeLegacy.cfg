\* Two prompts of one tool in a session whose PermissionRequest hooks carry no tool_use_id; the hook server may be replaced once.
SPECIFICATION Spec
CONSTANTS
    t1 = t1  t2 = t2  c1 = c1  s1 = s1  s2 = s2
    NoTool = NoTool
    Tools = {t1, t2}
    SdkCalls = {}
    Sessions = {s1, s2}
    SessionOf <- TerminalOrSdk
    KindOf <- Permissions
    InputOf <- DistinctInput
    QueueCap = 2
    ModernSessions = {}
    AckChoices = {TRUE, FALSE}
    MaxRestarts = 1
INVARIANTS TypeOK HeldIsReachable OverMeansOver
PROPERTY AnsweredStaysAnswered
