SPECIFICATION LifeSpec
CONSTANTS
    Requests = {f1, f2, s1}
    ForFFFF = {f1, f2}
    NoRequest = norequest
    NoOne = noone
INVARIANTS
    ListenersOutliveNetwork
    PendingHasCaller
PROPERTIES
    ImplementsCalls
    AnsweredWhileDrawn
    StopEnds
CHECK_DEADLOCK FALSE
