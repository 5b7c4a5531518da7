SPECIFICATION LiveSpec
CONSTANTS
    Callers = {net}
    Callback = callback
    NoThread = none
    CallerOps = {"QueueMidiMsg", "QueueMidiPhrase", "QueueRemoveBefore", "ScheduleClear"}
    EventIds = {e1, e2}
    CursorIds = {c1}
    Notes <- OneNote
    Msgs <- NoteOnMsg
    Phrases <- NotePhrase
    Loopings <- LoopsOfOne
    MidiMerge = FALSE
    PeriodicANO = FALSE
    MaxClick = 1
PROPERTIES
    QueueDrains
    DueIsDone
    LocksComeFree
