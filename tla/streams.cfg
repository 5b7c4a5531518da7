SPECIFICATION StreamsSpec
CONSTANTS
    Lengths <- MCLengths
    Data = {"d", "nl"}
    Bytes = {"END", "ESC", "ESC2", "d"}
    MaxLines = 5
    MaxMessages = 2
    MaxBytes = 3
INVARIANTS
    RequestsWhole
    MessagesWhole
