SPECIFICATION Spec
CONSTANTS
    Ids = {e1, e2, e3}
    Null = null
    Clicks <- SomeClicks
    Data <- SomeData
SYMMETRY Symmetry
INVARIANTS
    TypeOK
    CheckSanity
    LoopEventIsLive
PROPERTIES
    ImplementsEventQueue
