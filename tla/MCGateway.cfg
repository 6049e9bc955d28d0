CONSTANTS
    c1 = c1
    c2 = c2
    EventLoop = EventLoop
    NoTask = NoTask
    Tasks <- MCTasks
    Channels <- MCChannels
    ChannelOf <- MCChannelOf
    Callers <- MCCallers
    Recovered <- MCRecovered
    MaxConcurrentTasks = 2
    MaxFinishes = 18
SPECIFICATION GSpec
INVARIANTS
    GTypeOK
    OneRunningPerChannel
    OneDirectPerChannel
    EventsReachOwnTask
    OneUnfinishedExecution
    SlotsAreReturned
PROPERTIES
    StartsInMentionOrder
    LoopComesBack
CHECK_DEADLOCK FALSE
