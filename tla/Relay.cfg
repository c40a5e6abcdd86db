\* Two faults, two phone transitions, a queue of two for four envelopes, one throwing send. A client that was disconnected stops for good.
SPECIFICATION FairSpec
CONSTANTS
    OfflineCap = 2
    BaseDelay = 1
    MaxDelay = 3
    Multiplier = 2
    MaxSends = 4
    MaxThrows = 1
    MaxFaults = 2
    MaxToggles = 2
CHECK_DEADLOCK FALSE
INVARIANTS RelayTypeOK CanRecover InOrder KeepsNewest
PROPERTIES ImplementsChannel QueueDrains PeerViewConverges
