SPECIFICATION Spec
CONSTANTS
    Transcripts = {c1}
    Terminals = {t1}
    MaxConcurrent = 1
    MaxIds = 2
    MaxStreams = 2
    MaxAwaiting = 0
    MaxAborts = 0
    Suspendable = {}
    NotRunning = NotRunning
    Exited = Exited
INVARIANT SwitchStopsObserver
