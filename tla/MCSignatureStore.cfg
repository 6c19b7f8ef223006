\* One public channel, configured by its username, two signatures and a seeded
\* default, on a disk that may fail, and a restart.
CONSTANTS
    c1 = c1
    t1 = t1
    t2 = t2
    NoText = NoText
    Everything = Everything
    Channels = {c1}
    Private = {}
    ById = {}
    Texts = {t1, t2}
    Seed <- MCSeed
    DiskFails = TRUE
    MaxBoots = 1
SPECIFICATION Spec
INVARIANTS ClearIsFinal RestartKeeps SetTakesEffect DefaultTakesEffect
\* The process may have ended for the last time.
CHECK_DEADLOCK FALSE
