SPECIFICATION FairSpec
CONSTANTS
    Transcripts = {c1}
    Terminals = {t1}
    MaxConcurrent = 1
    MaxIds = 3
    MaxStreams = 1
    MaxAwaiting = 1
    MaxAborts = 1
    Suspendable = {t1}
    NotRunning = NotRunning
    Exited = Exited
PROPERTY TerminalSeen
