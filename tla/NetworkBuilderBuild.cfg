\* The builder and build: three setter calls, one peer, two relays, a custom
\* protocol and one registered under the gossip ALPN, one inbound connection.
CONSTANTS
    Ports = {4000, 65535}
    DefaultBindPort = 2022
    Peers = {p1}
    Relays = {r1, r2}
    Services = {mdns}
    GossipAlpn = gossip
    SyncAlpn = sync
    CustomAlpns = {gossip, custom}
    Conns = {c1}
    None = None
    MaxCalls = 3
SPECIFICATION FairSpec
INVARIANT TypeOK
PROPERTY FailedBuildLeavesNoNode
INVARIANT CoreProtocolsAreServed
INVARIANT DirectAddressesReachEngine
PROPERTY BuildReturns
CHECK_DEADLOCK FALSE
