\* Two update handlers that overlap in handleMessage, and a fair scheduler.
SPECIFICATION LiveSpec
CONSTANTS
    p1 = p1
    p2 = p2
    p3 = p3
    c1 = c1
    c2 = c2
    NoPost = NoPost
    Posts <- MCPosts2
    Channels = {c1, c2}
    ChannelOf <- MCChannelOf2
    Class <- MCClass2
    Forwards = {p1}
    Handlers = {h1, h2}
    QueueCapacity = 2
    ForceAlert = FALSE
    MaxBoots = 0
    MaxAdmitted = 2
INVARIANTS
    PipelineInv
PROPERTIES
    StopEnds
    RelaySpec
\* The process may have exited for the last time.
CHECK_DEADLOCK FALSE
