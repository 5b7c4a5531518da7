SPECIFICATION UnlockedSpec
CONSTANTS
    Ids = {e1, e2, e3}
    Null = null
    Clicks <- SomeClicks
    Data <- SomeData
SYMMETRY Symmetry
INVARIANTS
    LoopEventIsLive
