SPECIFICATION NotesLiveSpec
CONSTANTS
    Callers = {net}
    Callback = callback
    NoThread = none
    CallerOps = {}
    EventIds = {e1, e2, e3}
    CursorIds = {c1, c2}
    Notes = {p1, p2}
    Msgs <- None
    Phrases <- None
    Loopings <- None
    MidiMerge = FALSE
    PeriodicANO = FALSE
    MaxClick = 4
    Net = net
    Quants <- OneQuant
    Velocity = 64
    NoNote = nonote
INVARIANTS
    NoStuckNote
PROPERTIES
    NotesEnd
