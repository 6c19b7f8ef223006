\* One update handler: updates are handled one after the other.
SPECIFICATION Spec
CONSTANTS
    p1 = p1
    p2 = p2
    p3 = p3
    c1 = c1
    c2 = c2
    NoPost = NoPost
    Posts <- MCPosts3
    Channels = {c1, c2}
    ChannelOf <- MCChannelOf3
    Class <- MCClass3
    Forwards = {}
    Handlers = {h1}
    QueueCapacity = 1
    ForceAlert = FALSE
    MaxBoots = 1
    MaxAdmitted = 3
INVARIANTS
    TypeOK
    SequentialDedupe
    StatsAddUp
    GateWitnessed
    ChatInOrder
    FateMatchesChat
PROPERTIES
    RemovedChannelDrains
    RelaySafe
\* The process may have exited for the last time.
CHECK_DEADLOCK FALSE
