SPECIFICATION CursorsLiveSpec
CONSTANTS
    Sids <- MCSids
    NumBrushes = 2
    Regions <- SharedRegions
    NormalAtFirst <- AllNormal
    Timeout = 1
    Net = net
    Timer = timer
    NoThread = none
    NoBrush = nobrush
    MaxCursor = 2
    MaxChanges = 1
INVARIANTS
    CursorsTypeOK
    TrackedAreLive
    NotesReleased
PROPERTIES
    ImplementsCursorLife
    AbandonedGoesUp
    TimerReturns
