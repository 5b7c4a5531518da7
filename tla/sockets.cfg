SPECIFICATION SocketsSpec
CONSTANTS
    Handles = {h1, h2, h3}
    Listener = l
    MaxSockets = 3
    MaxPieces = 2
INVARIANTS
    SocketsTypeOK
    EverySocketOnce
    ConnectedIsTrue
    WholeMessages
PROPERTIES
    GoneIsRemoved
    RestIsSent
