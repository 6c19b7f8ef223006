\* Two connections whose goroutines overlap, and a fair scheduler.
SPECIFICATION LiveSpec
CONSTANTS
    MinBackoff = 2
    MaxBackoff = 3
    MaxConns = 2
    Buffered = 1
    Frames <- MCFrames
INVARIANTS
    TypeOK
    OneOpenConnection
    FlagIsNewest
PROPERTIES
    CancelStopsAll
    ReadersEnd
    DeadPeerNoticed
\* Everything has returned after a cancellation.
CHECK_DEADLOCK FALSE
