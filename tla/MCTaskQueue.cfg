CONSTANTS
    t1 = t1
    t2 = t2
    t3 = t3
    t4 = t4
    c1 = c1
    c2 = c2
    c3 = c3
    g1 = g1
    g2 = g2
    NoTask = NoTask
    Tasks <- MCTasks
    Channels <- MCChannels
    ChannelOf <- MCChannelOf
    Callers <- MCCallers
    MaxConcurrentTasks = 2
    MaxFinishes = 3
SPECIFICATION Spec
SYMMETRY Interchangeable
INVARIANTS
    TypeOK
    ChannelAccounting
    GaugesExact
    DequeuedWithinLimits
PROPERTIES
    CompletionKeepsQueueMoving
    OvertakenOnlyWhenBusy
    ImplementsLifecycle
CHECK_DEADLOCK FALSE
