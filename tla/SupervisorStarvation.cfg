\* Expected to fail: DiscoveryIsNeverStarved states what the documentation of spawn says of discovered peers.
CONSTANTS
    Conns = {c1}
    Alpns = {gossip, unknown}
    Registered = {gossip}
    Peers = {p1}
    Handles = {h1}
    DiscoveryError = DiscoveryError
    MaxDiscoveryEvents = 1
    MaxAddrChanges = 0
SPECIFICATION FairSpec
PROPERTY DiscoveryIsNeverStarved
CHECK_DEADLOCK FALSE
