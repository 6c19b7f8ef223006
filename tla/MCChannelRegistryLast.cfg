\* Is a removed channel gone?  Not if it was the last one and SOURCE_CHANNELS names it.
CONSTANTS
    c1 = c1
    c2 = c2
    Channels = {c1, c2}
    Private = {c1}
    Aliased = {}
    SourceChannels <- MCSource
    Members = {c1}
    DiskFails = FALSE
    MaxBoots = 2
SPECIFICATION Spec
INVARIANT RemovalIsFinal
\* The process may have ended for the last time.
CHECK_DEADLOCK FALSE
