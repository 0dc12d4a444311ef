--------------------------- MODULE NetworkBuilder ---------------------------
(***************************************************************************)
(* `NetworkBuilder`: the configuration of a node and `build`, which turns  *)
(* it into a running `Network` or fails.                                   *)
(*                                                                         *)
(* The builder is a record with the fields of the struct; every setter is  *)
(* an operator from builders to builders.  `build` is a sequence of steps  *)
(* with an await, and a way to fail, between them.  From the moment it     *)
(* spawns the supervisor task the node lives next to it: the node is the   *)
(* one of module NodeLifecycle, which module Supervisor implements.        *)
(***************************************************************************)
EXTENDS Naturals, Sequences, SequencesExt

CONSTANTS
    Ports,            \* values the application passes to `bind_port`
    DefaultBindPort,  \* `DEFAULT_BIND_PORT`
    Peers,            \* node ids of direct addresses
    Relays,           \* relay URLs
    Services,         \* discovery services
    GossipAlpn,       \* `GOSSIP_ALPN`
    SyncAlpn,         \* `SYNC_CONNECTION_ALPN`
    CustomAlpns,      \* names the application passes to `protocol`
    Conns,            \* inbound connections of the running node
    None,             \* `Option::None` and `RelayMode::Disabled`
    MaxCalls          \* bound: setter calls before `build`

U16 == 0..65535

ASSUME
    /\ Ports \cup {DefaultBindPort} \subseteq U16
    /\ None \notin Ports \cup Relays
    /\ MaxCalls \in Nat

VARIABLES
    builder,      \* the `NetworkBuilder`
    calls,        \* number of setter calls made
    pc,           \* where `build` is, or how it returned
    endpoint,     \* the transport endpoint: its state and its two ports
    protocols,    \* the `ProtocolMap` connections are dispatched with
    alpns,        \* the ALPNs the endpoint accepts
    todo,         \* direct addresses `build` has still to add
    addressBook,  \* node addresses the engine was given
    phase,        \* life of the supervisor task (module NodeLifecycle)
    serving       \* connections the node works on

nodeVars == <<phase, serving>>
vars == <<builder, calls, pc, endpoint, protocols, alpns, todo, addressBook,
          nodeVars>>

Node == INSTANCE NodeLifecycle

-----------------------------------------------------------------------------
(* The builder *)

NodeAddr(node, relay_url) == [node |-> node, relay |-> relay_url]

\* `RelayMode`: `Disabled`, or `Custom` with the relay it names.
RelayMode == Relays \cup {None}

Handlers == {"custom", "gossip", "sync"}
AllAlpns == CustomAlpns \cup {GossipAlpn, SyncAlpn}

\* The struct `NetworkBuilder`, without the network id: an Option is None or
\* its value, a key or a configuration is told apart from its absence only.
Builders ==
    [bind_port             : Ports \cup {None},
     direct_node_addresses : Seq([node : Peers, relay : RelayMode]),
     discovery             : SUBSET Services,
     gossip_config         : {None, "given"},
     protocols             : UNION {[S -> Handlers] : S \in SUBSET AllAlpns},
     relay_mode            : RelayMode,
     secret_key            : {None, "given"},
     sync_config           : {None, "given"}]

\* `ProtocolMap::insert`: one handler per ALPN, the last one given.
Insert(map, alpn, handler) ==
    [a \in DOMAIN map \cup {alpn} |-> IF a = alpn THEN handler ELSE map[a]]

new ==
    [bind_port             |-> None,
     direct_node_addresses |-> <<>>,
     discovery             |-> {},
     gossip_config         |-> None,
     protocols             |-> <<>>,
     relay_mode            |-> None,
     secret_key            |-> None,
     sync_config           |-> None]

bind_port(b, port)   == [b EXCEPT !.bind_port = port]
private_key(b)       == [b EXCEPT !.secret_key = "given"]
relay(b, url)        == [b EXCEPT !.relay_mode = url]
discovery(b, service) == [b EXCEPT !.discovery = @ \cup {service}]
sync(b)              == [b EXCEPT !.sync_config = "given"]
gossip(b)            == [b EXCEPT !.gossip_config = "given"]
protocol(b, name)    == [b EXCEPT !.protocols = Insert(@, name, "custom")]

direct_address(b, node, relay_addr) ==
    [b EXCEPT !.direct_node_addresses = Append(@, NodeAddr(node, relay_addr))]

\* A `Config`: a bind port, direct addresses and possibly a relay.
Configs ==
    [bind_port : Ports,
     direct_node_addresses :
        {<<>>} \cup {<<NodeAddr(p, r)>> : p \in Peers,
                                        r \in Relays \cup {None}},
     relay : RelayMode]

from_config(config) ==
    LET addressed ==
            FoldLeft(LAMBDA b, addr : direct_address(b, addr.node, addr.relay),
                     bind_port(new, config.bind_port),
                     config.direct_node_addresses)
    IN  IF config.relay = None THEN addressed
                               ELSE relay(addressed, config.relay)

\* What one call of a setter can make of builder b.
Configured(b) ==
    {bind_port(b, port) : port \in Ports}
        \cup {private_key(b), sync(b), gossip(b)}
        \cup {relay(b, url) : url \in Relays}
        \cup {discovery(b, service) : service \in Services}
        \cup {protocol(b, name) : name \in CustomAlpns}
        \cup {direct_address(b, p, r) : p \in Peers, r \in Relays \cup {None}}

\* The application configures the node: `from_config` to begin with, or one
\* more setter.
Configure ==
    /\ pc = "configuring"
    /\ calls < MaxCalls
    /\ calls' = calls + 1
    /\ \/ builder' \in Configured(builder)
       \/ calls = 0 /\ builder' \in {from_config(config) : config \in Configs}
    /\ UNCHANGED <<pc, endpoint, protocols, alpns, todo, addressBook,
                   nodeVars>>

-----------------------------------------------------------------------------
(* build *)

\* Mutant of `PortV6`: the sum is not cut to the width of a port.
PortV6Unbounded(v4) == v4 + 1

\* `bind_port + 1` on a u16, as a build without overflow checks computes it.
PortV6(v4) == (v4 + 1) % 65536

\* `build` up to `endpoint.node_addr()`: the ports are computed (a build with
\* overflow checks panics on the sum), the endpoint is bound, which may fail,
\* and asked for its address, which may fail and drops the endpoint.
Bind ==
    /\ pc = "configuring"
    /\ LET v4 == IF builder.bind_port = None THEN DefaultBindPort
                                             ELSE builder.bind_port IN
        \/ /\ v4 + 1 \notin U16
           /\ pc' = "panicked"
           /\ UNCHANGED endpoint
        \/ /\ pc' = "assembling"
           /\ endpoint' = [state |-> "open", v4 |-> v4, v6 |-> PortV6(v4)]
        \/ /\ pc' = "err"
           /\ endpoint' \in {endpoint, [endpoint EXCEPT !.state = "dropped"]}
    /\ UNCHANGED <<builder, calls, protocols, alpns, todo, addressBook,
                   nodeVars>>

\* Mutant of `Served`: the handlers of the application are inserted last.
ServedCustomLast(b) ==
    LET core == Insert(Insert(<<>>, GossipAlpn, "gossip"), SyncAlpn, "sync")
    IN  [a \in DOMAIN core \cup DOMAIN b.protocols |->
            IF a \in DOMAIN b.protocols THEN b.protocols[a] ELSE core[a]]

\* The protocol map of the node: the gossip handler, and the sync handler
\* when sync is configured, are inserted after what the application
\* registered.
Served(b) ==
    LET gossiping == Insert(b.protocols, GossipAlpn, "gossip")
    IN  IF b.sync_config = None THEN gossiping
                                ELSE Insert(gossiping, SyncAlpn, "sync")

\* From `Gossip::from_endpoint` to the construction of `Network`: the core
\* protocols are registered and their ALPNs given to the endpoint; if that
\* fails the node is shut down (`NetworkInner::shutdown`) before it ever ran,
\* otherwise the supervisor task is spawned.
Assemble ==
    /\ pc = "assembling"
    /\ protocols' = Served(builder)
    /\ \/ /\ alpns' = DOMAIN Served(builder)
          /\ phase' = "running"
          /\ pc' = "waiting"
          /\ UNCHANGED endpoint
       \/ /\ endpoint' = [endpoint EXCEPT !.state = "closed"]
          /\ pc' = "err"
          /\ UNCHANGED <<alpns, phase>>
    /\ UNCHANGED <<builder, calls, todo, addressBook, serving>>

\* `wait_for_endpoints` resolves in time: the endpoint, still open, reports
\* a first set of direct addresses.
FirstAddress ==
    /\ pc = "waiting"
    /\ endpoint.state = "open"
    /\ pc' = "adding"
    /\ todo' = builder.direct_node_addresses
    /\ UNCHANGED <<builder, calls, endpoint, protocols, alpns, addressBook,
                   nodeVars>>

\* Mutant of `Cancel`: `shutdown` awaits the task without the token set.
AwaitOnly == phase

\* `cancel_token.cancel()`: a running supervisor is told to stop.
Cancel == IF phase = "running" THEN "stopping" ELSE phase

\* `wait_for_endpoints` fails, by the timeout or because the stream of
\* addresses ended: `network.shutdown()` is called, which sets the token...
WaitFails ==
    /\ pc = "waiting"
    /\ pc' = "shutting_down"
    /\ phase' = Cancel
    /\ UNCHANGED <<builder, calls, endpoint, protocols, alpns, todo,
                   addressBook, serving>>

\* ... and returns when the supervisor task has ended; `build` returns Err.
ShutdownReturns ==
    /\ pc = "shutting_down"
    /\ phase = "stopped"
    /\ pc' = "err"
    /\ UNCHANGED <<builder, calls, endpoint, protocols, alpns, todo,
                   addressBook, nodeVars>>

\* Mutant of `WithOurRelay`: our relay replaces the one of the peer.
WithOurRelayAlways(addr) ==
    [addr EXCEPT !.relay = builder.relay_mode]

\* A direct address without relay information is given ours, if we have one.
WithOurRelay(addr) ==
    IF addr.relay = None THEN [addr EXCEPT !.relay = builder.relay_mode]
                         ELSE addr

\* One round of the loop over the direct addresses: `add_peer` stores the
\* address in the engine, or fails (a stopped engine always does) and `?`
\* returns Err.  The only `Network` goes out of scope with it, which asks
\* the runtime to abort the supervisor task and closes nothing.
AddDirectAddress ==
    /\ pc = "adding"
    /\ todo # <<>>
    /\ \/ /\ phase # "stopped"
          /\ addressBook' = addressBook \cup {WithOurRelay(Head(todo))}
          /\ todo' = Tail(todo)
          /\ UNCHANGED pc
       \/ /\ pc' = "err"
          /\ UNCHANGED <<todo, addressBook>>
    /\ UNCHANGED <<builder, calls, endpoint, protocols, alpns, nodeVars>>

\* Every direct address was added: `Ok(network)`.
ReturnNetwork ==
    /\ pc = "adding"
    /\ todo = <<>>
    /\ pc' = "ok"
    /\ UNCHANGED <<builder, calls, endpoint, protocols, alpns, todo,
                   addressBook, nodeVars>>

-----------------------------------------------------------------------------
(* The node next to `build` *)

\* The node serves connections and may leave its loop by itself (a failing
\* discovery service, a panicking child task): steps of NodeLifecycle.
NodeRuns ==
    /\ \/ \E c \in Conns : Node!Admit(c) \/ Node!Release(c)
       \/ Node!BeginStop
    /\ UNCHANGED <<builder, calls, pc, endpoint, protocols, alpns, todo,
                   addressBook>>

\* A stopping node closes its endpoint and the supervisor task ends.
NodeStops ==
    /\ phase = "stopping"
    /\ Node!Halt
    /\ endpoint' = [endpoint EXCEPT !.state = "closed"]
    /\ UNCHANGED <<builder, calls, pc, protocols, alpns, todo, addressBook>>

\* `build` returned through the `?` of `add_peer` while the supervisor task
\* was alive: its abort is under way.
AbortRequested == pc = "err" /\ phase \in {"running", "stopping"}

\* Mutant of `DropNetwork`: the task is detached, not aborted, on drop.
DetachNetwork ==
    UNCHANGED <<endpoint, nodeVars>>

\* What the drop of the only `Network` does to the node: the supervisor
\* task is dropped at the await it stands at, in its loop or in the middle
\* of its own shutdown, and the JoinSet with it, which aborts the handlers.
\* `NetworkInner::shutdown` does not run: the endpoint stays open for as
\* long as gossip and engine keep their clones of it.
DropNetwork ==
    /\ Node!Halt
    /\ endpoint' \in {endpoint, [endpoint EXCEPT !.state = "dropped"]}

\* The abort takes effect when the runtime gets to the task; until then the
\* node goes on as before.
AbortLands ==
    /\ AbortRequested
    /\ DropNetwork
    /\ UNCHANGED <<builder, calls, pc, protocols, alpns, todo, addressBook>>

-----------------------------------------------------------------------------
(* Specification *)

Init ==
    /\ builder = new
    /\ calls = 0
    /\ pc = "configuring"
    /\ endpoint = [state |-> "unbound", v4 |-> 0, v6 |-> 0]
    /\ protocols = <<>>
    /\ alpns = {}
    /\ todo = <<>>
    /\ addressBook = {}
    /\ phase = "unspawned"
    /\ serving = {}

Build ==
    \/ Assemble
    \/ FirstAddress
    \/ WaitFails
    \/ ShutdownReturns
    \/ AddDirectAddress
    \/ ReturnNetwork

Next == Configure \/ Bind \/ Build \/ NodeRuns \/ NodeStops \/ AbortLands

Spec == Init /\ [][Next]_vars

\* `build`, once called, is polled to its end, and the wait for a first
\* address is cut by its timeout.  A supervisor that was told to stop does
\* stop: module Supervisor, property ShutdownCompletes.  The runtime gets to
\* a task whose abort was requested.
FairSpec ==
    Spec /\ WF_vars(Build) /\ WF_vars(NodeStops) /\ WF_vars(AbortLands)

-----------------------------------------------------------------------------
(* Properties *)

Returned == {"ok", "err", "panicked"}
NodeAddrs == [node : Peers, relay : RelayMode]

TypeOK ==
    /\ builder \in Builders
    /\ calls \in 0..MaxCalls
    /\ pc \in {"configuring", "assembling", "waiting", "shutting_down",
               "adding"} \cup Returned
    /\ endpoint \in [state : {"unbound", "open", "closed", "dropped"},
                     v4 : U16, v6 : U16]
    /\ DOMAIN protocols \subseteq AllAlpns
    /\ alpns \subseteq AllAlpns
    /\ todo \in Seq(NodeAddrs)
    /\ addressBook \subseteq NodeAddrs
    /\ phase \in {"unspawned", "running", "stopping", "stopped"}
    /\ serving \subseteq Conns

NoNode == phase \in {"unspawned", "stopped"} /\ serving = {}

\* `build` failed on its way to the loop over the direct addresses, where
\* `todo` is still empty: binding, `set_alpns` or the wait for an address.
FailedBeforeLoop == pc = "err" /\ todo = <<>>

\* A `build` that returns Err leaves no node behind, whatever the supervisor
\* did meanwhile.  On the exits that clean up themselves (binding,
\* `set_alpns`, the wait for a first address with its `shutdown().await`)
\* the supervisor task was never spawned or has ended, nothing is served
\* and the endpoint is not open when `build` returns.  On the `?` of
\* `add_peer`, which relies on the drop of the handle, the task and its
\* handlers are gone some time after `build` has returned; nothing is
\* promised of the endpoint there.
FailedBuildLeavesNoNode ==
    /\ [](FailedBeforeLoop => NoNode /\ endpoint.state # "open")
    /\ pc = "err" ~> NoNode

\* A node that runs serves the core protocols under their well-known ALPNs,
\* whatever the application registered under those names, and the endpoint
\* accepts exactly the ALPNs that have a handler.
CoreProtocolsAreServed ==
    phase # "unspawned" =>
        /\ alpns = DOMAIN protocols
        /\ protocols[GossipAlpn] = "gossip"
        /\ builder.sync_config # None => protocols[SyncAlpn] = "sync"

\* When `build` returns Ok the engine knows every direct address that was
\* configured, with the relay given for that peer, or else with the relay
\* the node ends up with, in whatever order `relay` and `direct_address`
\* were called.
DirectAddressesReachEngine ==
    pc = "ok" =>
        \A addr \in ToSet(builder.direct_node_addresses) :
            \E known \in addressBook :
                /\ known.node = addr.node
                /\ known.relay = IF addr.relay # None THEN addr.relay
                                                      ELSE builder.relay_mode

\* `build` returns: a failed wait for the first address shuts the node down
\* and waits for the supervisor task, which therefore has to be told.
BuildReturns ==
    pc # "configuring" ~> pc \in Returned

-----------------------------------------------------------------------------
(* What the documentation says and the code does not do *)

\* "IPv6 sockets are automatically bound to the specified port + 1": the
\* endpoint of a node is bound to a v6 port one above its v4 port.  (The sum
\* is computed on a u16.)
V6PortFollowsV4 ==
    endpoint.state = "open" => endpoint.v6 = endpoint.v4 + 1

=============================================================================
