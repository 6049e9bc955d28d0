CONSTANTS
    NoEvent = NoEvent
    MaxEvents = 4
SPECIFICATION Spec
INVARIANTS
    TypeOK
    ShownOnce
    OneCard
    BufferIsWatched
PROPERTIES
    EveryUpdateDelivered
    ImplementsChannel
    QuietAfterReturn
    EndUndoneByOlderUpdate
CHECK_DEADLOCK FALSE
