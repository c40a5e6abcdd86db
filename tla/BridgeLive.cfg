\* Liveness: a hook question and an SDK plan review, a phone that acknowledges nothing, and one restart of the hook server.
SPECIFICATION FairSpec
CONSTANTS
    t1 = t1  t2 = t2  c1 = c1  s1 = s1  s2 = s2
    NoTool = NoTool
    Tools = {t1}
    SdkCalls = {c1}
    Sessions = {s1, s2}
    SessionOf <- TerminalOrSdk
    KindOf <- Questions
    InputOf <- DistinctInput
    QueueCap = 1
    ModernSessions = {s1}
    AckChoices = {FALSE}
    MaxRestarts = 1
PROPERTIES StaleTrackingDropped CardRetired
