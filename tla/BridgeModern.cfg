\* Two plan reviews of a session whose PermissionRequest hooks carry their tool_use_id, and an SDK question.
SPECIFICATION Spec
CONSTANTS
    t1 = t1  t2 = t2  c1 = c1  s1 = s1  s2 = s2
    NoTool = NoTool
    Tools = {t1, t2}
    SdkCalls = {c1}
    Sessions = {s1, s2}
    SessionOf <- TerminalOrSdk
    KindOf <- Plans
    InputOf <- DistinctInput
    QueueCap = 1
    ModernSessions = {s1}
    AckChoices = {TRUE, FALSE}
    MaxRestarts = 0
INVARIANTS HeldIsReachable 
PROPERTIES TrackingKept AnsweredStaysAnswered OwnPostToolUse
