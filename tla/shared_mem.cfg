SPECIFICATION ShmSpec
CONSTANTS
    Readers = {r1, r2}
    Tracker = tracker
    NoOne = noone
    MaxFrames = 3
INVARIANTS
    AlwaysAFreeBuffer
    NewestWholeFrame
PROPERTIES
    NewIsTaken
    ClosedComesBack
