\* Safety of the supervisor: two inbound connections, two Network clones,
\* two discovery items, two changes of the local addresses.
CONSTANTS
    Conns = {c1, c2}
    Alpns = {gossip, sync, unknown}
    Registered = {gossip, sync}
    Peers = {p1}
    Handles = {h1, h2}
    DiscoveryError = DiscoveryError
    MaxDiscoveryEvents = 2
    MaxAddrChanges = 2
SPECIFICATION Spec
SYMMETRY Symmetry
INVARIANT TypeOK
PROPERTY ShutdownTakesPriority
PROPERTY QuietAfterShutdown
PROPERTY ImplementsLifecycle
CHECK_DEADLOCK FALSE
