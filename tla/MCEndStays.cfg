CONSTANTS
    NoEvent = NoEvent
    MaxEvents = 4
SPECIFICATION Spec
PROPERTY EndStays
CHECK_DEADLOCK FALSE
