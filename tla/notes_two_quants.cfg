SPECIFICATION NotesSpec
CONSTANTS
    Callers = {net}
    Callback = callback
    NoThread = none
    CallerOps = {}
    EventIds = {e1, e2, e3}
    CursorIds = {c1}
    Notes = {p1}
    Msgs <- None
    Phrases <- None
    Loopings <- None
    MidiMerge = FALSE
    PeriodicANO = FALSE
    MaxClick = 4
    Net = net
    Quants <- TwoQuants
    Velocity = 64
    NoNote = nonote
INVARIANTS
    NoStuckNote
