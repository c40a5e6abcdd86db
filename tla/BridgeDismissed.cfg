\* A dismissed card and the notification acknowledgement fallback.
SPECIFICATION Spec
CONSTANTS
    t1 = t1  t2 = t2  c1 = c1  s1 = s1  s2 = s2
    NoTool = NoTool
    Tools = {t1}
    SdkCalls = {}
    Sessions = {s1, s2}
    SessionOf <- TerminalOrSdk
    KindOf <- Permissions
    InputOf <- DistinctInput
    QueueCap = 1
    ModernSessions = {s1}
    AckChoices = {TRUE, FALSE}
    MaxRestarts = 0
PROPERTY DismissedStaysDismissed
