\* Commands, crashes and restarts on a disk that works.
CONSTANTS
    c1 = c1
    c2 = c2
    Channels = {c1, c2}
    Private = {c1}
    Aliased = {}
    SourceChannels <- MCSource
    Members = {c1}
    DiskFails = FALSE
    MaxBoots = 2
SPECIFICATION Spec
INVARIANTS MonitoredIsListed FileFollowsList AddedRemovalIsFinal
\* The process may have ended for the last time.
CHECK_DEADLOCK FALSE
