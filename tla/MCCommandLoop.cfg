\* Three commands in batches of up to two, and a restart.
CONSTANTS
    admin = admin
    user = user
    c1 = c1
    c2 = c2
    t1 = t1
    t2 = t2
    NoText = NoText
    Default = Default
    Channels = {c1, c2}
    Configured = {c1}
    Texts = {t1, t2}
    Users = {admin, user}
    Admins = {admin}
    Commands <- MCCommands
    MaxBatch = 2
    MaxUpdates = 3
    MaxBoots = 1
SPECIFICATION LiveSpec
INVARIANTS TypeOK NothingForgotten ReplayConverges
PROPERTIES InboxSafe EveryCommandHandled
\* The process may have ended for the last time.
CHECK_DEADLOCK FALSE
