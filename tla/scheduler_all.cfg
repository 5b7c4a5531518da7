SPECIFICATION Spec
CONSTANTS
    Callers = {net}
    Callback = callback
    NoThread = none
    CallerOps = {"QueueMidiMsg", "QueueMidiPhrase", "QueueClear", "QueueRemoveBefore", "ScheduleMidiMsg", "ScheduleMidiPhrase", "ScheduleClear", "ANO", "ClearNotesDown", "SetClicksPerSecond"}
    EventIds = {e1, e2}
    CursorIds = {c1}
    Notes <- OneNote
    Msgs <- AllMsgs
    Phrases <- NotePhrases
    Loopings <- LoopsOfOne
    MidiMerge = TRUE
    PeriodicANO = TRUE
    MaxClick = 1
SYMMETRY Symmetry
INVARIANTS
    TypeOK
    Exclusion
    StartedIsScheduled
    ListsTimeOrdered
    EachEventOnce
PROPERTIES
    ClearStopsPlayback
    NothingJoinsPass
    ImplementsTimeline
