CONSTANTS
    e1 = e1
    e2 = e2
    Envelopes <- MCEnvelopes
    MaxInbox = 4
    MaxDeliveries = 2
    MaxFaults = 1
    MaxStreak = 1
SPECIFICATION Spec
INVARIANTS
    TypeOK
    ClosedAfterMarking
    ConnectedLagsInbox
PROPERTIES
    SignalEndsProcess
    EnvelopesHandled
    AlarmEnds
CHECK_DEADLOCK FALSE
