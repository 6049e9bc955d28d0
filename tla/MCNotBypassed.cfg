CONSTANTS
    t1 = t1
    t2 = t2
    c1 = c1
    NoChannel = NoChannel
    Tasks <- MCTasks
    Channels <- MCChannels
    ChannelOf <- MCChannelOf
SPECIFICATION Spec
SYMMETRY Interchangeable
INVARIANT NotBypassed
CHECK_DEADLOCK FALSE
