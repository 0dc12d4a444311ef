\* Expected to fail: ChildPanicIsSurfaced states what the specification says of the node.
CONSTANTS
    Conns = {c1, c2}
    Alpns = {gossip, sync, unknown}
    Registered = {gossip, sync}
    Peers = {p1}
    Handles = {h1, h2}
    DiscoveryError = DiscoveryError
    MaxDiscoveryEvents = 2
    MaxAddrChanges = 1
SPECIFICATION Spec
INVARIANT ChildPanicIsSurfaced
CHECK_DEADLOCK FALSE
