\* One connection, on which frames of other types come too.
SPECIFICATION Spec
CONSTANTS
    MinBackoff = 2
    MaxBackoff = 3
    MaxConns = 1
    Buffered = 1
    Frames <- MCFrames
PROPERTIES OnlyAlertsDrive
\* Everything has returned after a cancellation.
CHECK_DEADLOCK FALSE
