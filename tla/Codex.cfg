\* Two turns, two messages of the phone, and one restart of the daemon or of Codex. A bounded number of turns ends in a session where nothing happens.
SPECIFICATION Spec
CONSTANTS
    t1 = t1
    Texts <- MCTexts
    MaxTurns = 2
    MaxUnread = 3
    MaxSends = 2
    MaxStarts = 3
CHECK_DEADLOCK FALSE
INVARIANTS CodexTypeOK TurnsAnnounced StatusSettles EchoesHidden
