\* The five tests, every interleaving of the nodes with the tasks of the test.
CONSTANTS
    node_1 = node_1
    node_2 = node_2
    node_3 = node_3
    node_4 = node_4
    Tests = {"join_gossip_overlay", "multi_hop_join_gossip_overlay", "ping_pong", "e2e_log_height_sync", "multi_hop_topic_discovery_and_sync"}
    Capacity = 6
    SleepOutlasts = TRUE
SPECIFICATION FairSpec
INVARIANT TypeOK
INVARIANT AssertionsHold
INVARIANT SleepOutlastsSync
PROPERTY TestPasses
CHECK_DEADLOCK FALSE
