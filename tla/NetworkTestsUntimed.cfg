\* The sync tests when a sleep may end before the nodes have found each other.
CONSTANTS
    node_1 = node_1
    node_2 = node_2
    node_3 = node_3
    node_4 = node_4
    Tests = {"ping_pong", "e2e_log_height_sync", "multi_hop_topic_discovery_and_sync"}
    Capacity = 6
    SleepOutlasts = FALSE
SPECIFICATION FairSpec
INVARIANT SleepOutlastsSync
CHECK_DEADLOCK FALSE
