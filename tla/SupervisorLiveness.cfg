\* Liveness of the supervisor under the fairness of the runtime.  No symmetry
\* (unsound for liveness); one inbound connection, which may be refused and
\* retransmitted without end, and one change of the local addresses.
CONSTANTS
    Conns = {c1}
    Alpns = {gossip, unknown}
    Registered = {gossip}
    Peers = {p1}
    Handles = {h1, h2}
    DiscoveryError = DiscoveryError
    MaxDiscoveryEvents = 2
    MaxAddrChanges = 1
SPECIFICATION FairSpec
PROPERTY ShutdownCompletes
PROPERTY DiscoveredPeerIsAdded
PROPERTY AddressIsFollowed
CHECK_DEADLOCK FALSE
