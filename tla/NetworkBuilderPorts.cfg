\* Expected to fail: V6PortFollowsV4 states what the documentation of bind_port says.
CONSTANTS
    Ports = {4000, 65535}
    DefaultBindPort = 2022
    Peers = {p1}
    Relays = {r1}
    Services = {mdns}
    GossipAlpn = gossip
    SyncAlpn = sync
    CustomAlpns = {custom}
    Conns = {c1}
    None = None
    MaxCalls = 2
SPECIFICATION Spec
INVARIANT V6PortFollowsV4
CHECK_DEADLOCK FALSE
