SPECIFICATION Spec
CONSTANTS
    Executions = {e1, e2}
    None = None
    Tasks = {t1, t2}
    Texts = {yes, words}
    Yes = yes
    NoComment = NoComment
    NoFeedback = NoFeedback
    NoRequest = NoRequest
    NoTask = NoTask
    MaxPauses = 2
    MaxClicks = 2
SYMMETRY Interchangeable
CHECK_DEADLOCK FALSE
INVARIANTS
    StopReachesAll
