\* One remote peer, two topics on one overlay.  The scheduler runs one
\* session at a time and may retry once, the peer opens one session, three
\* messages arrive for a buffer of two and a channel of two.
CONSTANTS
    Peers = {1}
    chat = chat
    news = news
    Topics <- MCTopics
    TopicId <- MCTopicId
    MaxConcurrent = 1
    MaxAttempts = 2
    MaxInbound = 1
    MaxData = 1
    MaxGossip = 3
    MaxBuffered = 2
    Capacity = 2
SPECIFICATION FairSpec
INVARIANT TypeOK
INVARIANT HoldCountsSessions
PROPERTY SyncBeforeLive
PROPERTY GossipInArrivalOrder
PROPERTY HoldsAreReleased
CHECK_DEADLOCK FALSE
