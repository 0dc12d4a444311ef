# TLA+ models of the p2panda-net node

This directory holds TLA+ specifications of the networking node of p2panda
(`src/p2panda-net/src/network.rs`), the TLC configurations that model-check
them, and `PROJECT.json`, which maps every definition to the source lines it
models and lists the runs, the mutants that show each property can fail, the
findings and the hazards.

Run a configuration with `tlc -workers 2 -config <file>.cfg <module>`; the
module of each run is given in the table of runs below.

## 1. The system

`network.rs` is the entry point of the crate. It contains four things that
change state, and they interact through a small number of shared objects.

| Part | Code | State it owns | Operations |
|---|---|---|---|
| Builder | `NetworkBuilder`, lines 181-463 | the configuration fields; during `build` the endpoint, the protocol map, the list of direct addresses still to add | `new`, `from_config`, nine setters, `build` |
| Supervisor | `NetworkInner::spawn`, `NetworkInner::shutdown`, lines 467-622 | cancellation token, `JoinSet` of child tasks, the discovery stream position, the address updater's cached `my_node_addr` | loop start, four `select!` arms, concurrent close of endpoint / engine / protocols, abort of the `JoinSet` |
| Router | `handle_connection`, lines 749-767 | one task per inbound connection | resolve the ALPN, look up the handler, run it |
| Handle | `Network`, lines 636-721 | the shared, abort-on-drop handle of the supervisor task | `add_peer`, `shutdown`, `subscribe`, accessors, `Clone`, `Drop` |
| Sync sessions | `DummyProtocol`, `PingPongProtocol`, lines 773-988 | two byte streams and the channel to the application | `initiate`, `accept` |

The address book, topic registry, discovery multiplexer, sync scheduler and
gossip buffer that the specification describes live in other files of the
crate (`engine`, `discovery`, `sync`), which are not part of the sources at
hand. `Engine` and the overlay and sync part of `NetworkTests` model them
from the specification of the node (`spec.md`); `PROJECT.json` marks every
such definition `spec_modelled`; `Join`, `Introduce`, `Sync` and
`DeliveredFrom` of `NetworkTests` are among them (the documentation at the
head of `network.rs`, lines 41-42, 55-56 and 85-96, says the same in prose,
and is not code). The tests of `network.rs` (lines 990-1483)
are applications of the node: the five tests that run nodes are modelled as
such. The
other two source files (`p2panda-group/src/data_scheme/mod.rs`, module
declarations; `p2panda-rs/src/test_utils/fixtures/tests.rs`, fixture tests)
have no state.

### Interactions

* `build` binds the endpoint, creates gossip and engine, fills the protocol
  map, spawns the supervisor, waits for a first direct address, then calls
  `add_peer` on the running node for every configured direct address. Two of
  its failures happen after the supervisor is running.
* The supervisor and the application race on the cancellation token, on the
  handle (dropping the last clone aborts the supervisor at any await point)
  and on the engine (`add_peer` from the application, from discovery and from
  `build`).
* Connection handlers run concurrently with the supervisor and are still
  running while `NetworkInner::shutdown` closes what they use.
* The two ends of a sync session interact only through the stream; each also
  talks to its own application over `app_tx`, which the application may close.
* `subscribe` hands the engine one end of two channels of capacity 128 and of
  the ready signal. From then on the application and the engine run side by
  side: the overlay is joined, messages are broadcast and received, and sync
  sessions deliver into the same channel as gossip.
* Inside the engine the sync scheduler and the gossip buffer share the hold
  counter of a topic id: sessions started by the scheduler and by remote peers
  raise it, every way a session ends lowers it, and gossip waits while it is
  above zero.

### What is hard

The hazards are listed, each at its source line, in `PROJECT.json`. In short:
strict priority in the `select!` loop and the fate of a ready item when
another arm wins; teardown that closes resources before the tasks using them
are aborted; abort-on-drop in the middle of teardown; failures of `build`
after the node started; `u16` arithmetic on the port; protocol sessions over a
link that can disappear, with an application that can hang up and a remote
that need not follow the protocol; a broadcast that is made before the overlay
is joined; tests that shut a node down after a fixed sleep, while its peers
are still finding each other; gossip that arrives during a sync session, or while the
application does not read, and must neither be lost in silence, nor overtake
the session or older gossip, nor wait forever.

### What should hold

* After shutdown was requested the loop takes no new work; after `shutdown()`
  returned nothing of the node moves.
* `shutdown()` returns; a discovered peer reaches the address book; `build`
  returns.
* A failed `build` leaves no running node: at its return where `build`
  cleans up itself, once the abort has taken effect where it relies on the
  drop of the handle.
* Gossip and sync are always served by their own handlers.
* The application of a sync session sees `HandshakeSuccess` first; two `Ok`
  results mean the exchange took place; neither side waits forever.
* The network tests pass under every schedule of their tasks, the overlay and
  the sync sessions, and no node leaves before every node has its sync
  messages.
* Gossip reaches a subscription after the sync of its topic and in the order
  of arrival; every hold on gossip is released.

## 2. Modules

| Module | Models | Lines of `network.rs` |
|---|---|---|
| `NodeLifecycle` | what a node promises: running, stopping, stopped; which connections it serves | abstract |
| `Supervisor` | supervisor, router and handle | 421-424, 467-699, 749-767 |
| `MCSupervisor` | symmetry set for the supervisor runs | - |
| `NetworkBuilder` | builder and `build`, composed with `NodeLifecycle` | 156-463 |
| `SyncProtocols` | one session of either protocol | 773-988 |
| `NetworkTests` | up to four nodes, the tasks of the five network tests, the overlay and the sync sessions between the nodes | 654-656, 691-743, 960-968, 1098-1184, 1214-1483; the overlay and the sessions from the specification |
| `Engine` | address book, topic registry, sync scheduler, gossip buffer of one node | specification; 712, 733-743 |
| `MCEngine` | the topics of the engine run and their projection to a topic id | - |

### Supervisor

State: `pc` (start, loop, shutdown, done, aborted) is the position of the
supervisor task; `cancelled` the token; `down` the set of the three closes of
`NetworkInner::shutdown` that have completed; `conn[c]` how far an inbound
connection got (remote, incoming, handshaking, accepting, the ways it can end,
joined); `updater`, `joinSet`; `discoveryStream` the items not yet read;
`addressBook`; `localAddr`, `myNodeAddr`, `advertised` versions of the direct
addresses at the endpoint, in the updater's cache and at the discovery
services; `handle[h]` what the application did with each clone of `Network`.
`cause` records the reason the loop was left, which the code only logs; the
two violation runs refer to it.

Actions, one per step of the code:

* `SupervisorStart` - lines 493-535: spawn the updater into the `JoinSet`,
  subscribe to discovery.
* `OnCancelled`, `OnIncoming(c)`, `OnDiscoveryEvent`, `OnTaskJoined(t)` - the
  arms of the `select!`, each guarded by `Selected`, which picks the first
  ready branch in source order (`biased;`).
* `Close(r)` - one of the three futures of the `join!` in
  `NetworkInner::shutdown`, in any order; `FinishShutdown` - `join_set
  .shutdown()`, which aborts all remaining tasks (`AbortRemaining`), and the
  return of `spawn`.
* `UpdateLocalAddress`, `UpdaterReturns` - the updater loop and its exits.
* `ResolveAlpn(c)`, `HandlerEnds(c)` - `handle_connection`: a failed
  handshake, an unknown ALPN, a handler that returns `Ok`, `Err`, or panics.
* `Shutdown(h)`, `ShutdownReturns(h)`, `AddPeer(h, p)`, `DropHandle(h)`,
  `DropLastHandle(h)` - the application. Dropping the last clone aborts the
  supervisor wherever it is and, through the drop of its `JoinSet`, its
  children. The abort is one step with the drop: an aborted task is dropped
  at the await it is parked at, and every action of the model ends at an
  await, so the steps a task could still take before the abort reaches it
  are the steps the model lets it take before the drop. The abort closes
  nothing: endpoint and engine stay as they are (`EndpointOpen`, `EngineUp`
  depend on `down` alone), so peers may still dial and the direct addresses
  may still change, with nobody left to accept or to follow them.
* `Dial`, `Retransmit`, `DiscoveryEmits`, `DirectAddressChange`,
  `EngineFails` - the environment: remote peers, discovery services, the
  endpoint, the engine. `Retransmit(c)` is what the comment at line 553 names
  as the cause of a failing `incoming.accept()`: the datagrams of a refused
  connection arrive again and the connection waits in `endpoint.accept()`
  once more. It can do so without end, which makes inbound connections an
  unbounded supply although `Conns` is finite.

Arms of the loop that no execution reaches are left out: `else => break`
(the cancellation branch is never disabled), a `JoinError` that is neither a
panic nor the supervisor's own cancellation, and `Ok(Err(_))` of a child (both
kinds of child task return `Ok(())`; `handle_connection` logs its errors).
For the same reason `Network::shutdown` is modelled as returning `Ok`.

### NodeLifecycle and the refinement

`NodeLifecycle` has two variables, `phase` and `serving`, and four actions:
`Admit` (only while running), `Release`, `BeginStop`, `Halt` (which empties
`serving`). `Supervisor` instantiates it with `phase` computed from `pc` and
`cancelled` and `serving` as the connections with a live task, and
`ImplementsLifecycle` is the abstract specification checked as a property of
the supervisor. `NetworkBuilder` uses the same module as its node: what it
shows about `build` therefore holds for any node that implements
`NodeLifecycle`, which the supervisor does.

### NetworkBuilder

The builder is a record; every setter is an operator from builders to
builders, `from_config` a fold of the setters over a configuration. `build`
is the chain `Bind` -> `Assemble` -> `FirstAddress` or `WaitFails`,
`ShutdownReturns` -> `AddDirectAddress`* -> `ReturnNetwork`, with the failure
exits the code has: bind or `set_alpns` fails before the node exists; the wait
for a direct address fails (timeout, or stream end) and `build` awaits
`network.shutdown()`; `add_peer` fails and `?` returns at once, which drops
the only handle. The drop asks the runtime to abort the supervisor task
(`AbortRequested`) and closes nothing; until the abort takes effect
(`AbortLands`, with the effect `DropNetwork`) the node goes on as before, in
its loop or in the middle of its own shutdown. `NetworkInner::shutdown` does
not run on this path, and gossip and engine hold clones of the endpoint, so
the endpoint may stay open or go with its last clone: the model allows both.
`NodeRuns` and `NodeStops` are the steps of `NodeLifecycle` that stand for
the select loop (lines 537-600) and for the teardown (600-622); that the
supervisor of those lines takes only such steps is what `ImplementsLifecycle`
checks. `Configured(b)` is the set of builders one setter call of the
application can make of `b`. The protocol map is a sequence of insertions with last-writer-wins look-up
(`Insert`, `Served`); ports are kept as `u16` (`PortV6(v4) == (v4 + 1) %
65536`, the result of a build without overflow checks; the build with
overflow checks panics on the same input). `DEFAULT_BIND_PORT` is a constant
of `crate::config`; the configurations give it the crate's value 2022.

### SyncProtocols

One session: `protocol`, `topic`, per role `pc`, `wire` (messages written to
that role and not read), `app` (events sent on `app_tx`), `appOpen`; `linkUp`.
`DummyInitiate` / `PingPongInitiate` are the two sends and the
`HandshakeSuccess` event, and read nothing; the `...Reads` actions are one
iteration of a read loop each, including the event or reply the iteration
produces; `Flush(r)` is what follows the loop, `sink.flush()`,
`app_tx.flush()` and the return, a step of its own because the link and the
application can go away between the `break` and the flush. Dropping a send stream finishes it, so a
reader sees the end of the stream once its peer has ended and the wire is
empty. Messages are the topic itself, `"Done"`, `"Ping"`, `"Pong"`; encoding
is left out because no property is about bytes. Environment: `LinkFails`,
`AppCloses(r)`, and `Inject(r, m)`, a remote that writes any message at any
time (bounded by `MaxInjected`). `Honest` says that nothing was injected so
far: the properties about two nodes that follow the protocol have it as their
premise, so one run checks them on the behaviours without injection and the
others on all behaviours.

Simplifications: the two sends of `initiate` and its `HandshakeSuccess`, and
the `Data` event and the `Pong` reply of one loop iteration, are one step
each (a link that fails between them is a link that fails before or after);
a flush of a stream whose link is gone, or of a sink whose receiver is gone,
may or may not report it.

### NetworkTests

The application is the test itself. A test is a sequence of calls of its
main task (`join_gossip_overlay`, `multi_hop_join_gossip_overlay`,
`ping_pong`, `e2e_log_height_sync`, `multi_hop_topic_discovery_and_sync`:
build, `add_peer`, `subscribe`, await `ready`, `send`, `recv`, `assert_eq!`,
`shutdown`, `tokio::spawn`, `tokio::join!`); the sync tests spawn one task
per node (`ping_pong_task`, `e2e_log_height_sync_task`, `run_node`), which
subscribes, waits for its sync messages or sleeps, and shuts its node down.
`pc[t]` is the next call of task `t` (0 before it is spawned) and `failed`
holds the tasks that panicked in an `unwrap` or an assertion. Each call is
an action guarded by `Calls(t, op)`; a call that awaits (`ready.await`,
`rx.recv().await`, `tx.send(..).await`, `join!`) is enabled when what it
awaits is there, fails when it can never come (the sender was dropped), and
otherwise waits. `recv` takes events into `collected[n]`, `assert_eq!`
compares them: a `recv` on a closed channel fails at the comparison.

State of the nodes: `up`, `book[n]`, `subscribed`, `outbox[n]` and `inbox[n]`
(the `ToNetwork` and `FromNetwork` channels of `subscribe`, bounded by
`Capacity`); of the overlay: `neighbours[n]`, `readyFired`, `wire` (copies
in flight), `seen[n]`; of sync: `attempted` (the sessions that ran) and
`handed[n]` (sync messages put into the channel of `n`). The nodes act
between the calls of the tasks:

* `Join(n, m)` - a subscribed node dials a subscribed peer of its address
  book; both become neighbours, both ready signals fire, the joined node
  learns the joining one.
* `Introduce(n, m)` - swarm membership: nodes with a common neighbour become
  neighbours and register each other in their address books. It is taken
  only while a message is still to be sent or on its way, that is, in the
  gossip tests.
* `Broadcast(n)` - the engine takes a message from `outbox[n]` and sends a
  copy to the neighbours the node has at that moment.
* `Receive(copy)` - a node delivers a message it sees for the first time to
  its application, as delivered from the author, and passes it on; it drops
  duplicates and what arrives after it left.
* `Sync(n, m)` - node `n` runs its one session with a subscribed peer of its
  address book. The session hands over what its protocol produces
  (`PingPong`: "PING" to the acceptor, "PONG" to the initiator; `LogSync`:
  the operations the initiator lacks, in the order of the log), each event
  as delivered from the remote node. A session is one step here: its
  lifecycle is in `Engine`, its messages are in `SyncProtocols`.

One gossip message is sent in each test, so it is identified by its author;
a sync message is identified by its header and the node it came from.

**Sleep.** `tokio::time::sleep` of two or three seconds stands between the
last thing a task waits for and its `shutdown`. With `SleepOutlasts = TRUE`
the action `Sleep` is enabled when `Settled` holds: no task can make a call
and no node can join, broadcast, receive or sync. This is the assumption that
seconds are longer than whatever the nodes can do at once on the loopback
network. With `SleepOutlasts = FALSE` a sleep may end at any time.

### Engine

`Engine` is written from the specification of the node (sections 3, 4.1, 4.2,
4.4, 4.5); the only lines of `network.rs` in it are the channel of
`subscribe` (`HasRoom`) and the two events of `FromNetwork`.

State: `book`; `subs` and `ready` (topic registry); `sessions`, a set of
records with peer, topic, direction, state and the number of `Data` events
delivered, holding the sessions that are not terminal (`done` and `failed`
are the removal of the record); `attempt[peer, topic]`, `inbound`;
`hold[id]`, `buffer[id]`, `dropped[id]` (gossip buffer, per topic id);
`sink[t]`, the `FromNetwork` channel of the subscription to topic `t`;
`arrived` numbers the gossip messages in the order the overlays emit them.

Actions:

* `InsertOrMerge(p)`, `NeighbourUp(id, p)`, `Subscribe(t)`, `Unsubscribe(t)`,
  `Shutdown` - address book and registry. `Unsubscribe` and `Shutdown`
  cancel the sessions concerned and release their holds in the same step.
* `Promote(c)` - the scheduler starts a session for the preferred candidate
  (never attempted first, then the least topic id and peer id) when fewer than
  `MaxConcurrent` of its sessions run; `Accept(p, t)` - a session a remote
  peer opened; both take the mutex of the pair and a hold on the topic id.
* `Connect`, `Handshake`, `Data`, `EndOfStream`, `Finalise`, `Fail`,
  `Timeout` - the lifecycle of a session. `Data` waits for room in the
  channel of the subscription. `Handshake(k, announced)` of an acceptor fails
  with `TopicMismatch` when the remote announces another topic of the same
  id.
* `Arrive(id)` - the overlay emits a message: delivered at once to every
  subscription of the id when nothing is held or waiting and every channel
  has room, appended to the buffer otherwise, where at `MaxBuffered` the
  oldest message is dropped and counted. `Release(id)` - the flush, one
  message at a time, oldest first.
* `AppRecv(t)` - the application reads.

Where the specification leaves a choice, the model takes the following
reading. A stream a peer opens for a pair whose mutex is taken enters
`pending` once the mutex is free; the topic of the stream is taken as known
when it is accepted, and the mutex is the set of sessions itself, so taking
it is one step with entering `pending` and the model says nothing of an
implementation in which the two are apart. `max_concurrent` limits the sessions the
scheduler started. A message that cannot be delivered at once, because a
session holds the topic id, the flush is not finished or a channel is full,
goes behind the buffer, so the overlay is never blocked. `Unsubscribe`
discards what the buffer holds for the topic id when it cancels sessions or
ends the last subscription of the id. `MaxAttempts = 1` is a node without
resync. The timer of `session_timeout` runs in every state of a session.

## 3. Runs

| Run | Module, configuration | Result | What it shows |
|---|---|---|---|
| supervisor_safety | `MCSupervisor`, `SupervisorSafety.cfg` | pass, 1.48 M states | `TypeOK`; `ShutdownTakesPriority`; `QuietAfterShutdown`; `ImplementsLifecycle` |
| supervisor_liveness | `MCSupervisor`, `SupervisorLiveness.cfg` | pass, 0.21 M states | `ShutdownCompletes`; `DiscoveredPeerIsAdded`; `AddressIsFollowed` |
| supervisor_starvation | `MCSupervisor`, `SupervisorStarvation.cfg` | violation | a connection that is pending at every poll keeps a discovered peer out of the address book |
| supervisor_discovery_error | `MCSupervisor`, `SupervisorDiscoveryError.cfg` | violation | one discovery error stops the node |
| supervisor_child_panic | `MCSupervisor`, `SupervisorChildPanic.cfg` | violation | `shutdown()` returns `Ok` after a child panic stopped the node |
| sync_sessions | `SyncProtocols`, `SyncSessions.cfg` | pass, 134 k states | `TypeOK`; `HandshakeFirst`; `BothOkMeansExchanged`; `HonestPeersDoNotPanic`; `AtMostOneData`; `SessionEnds` |
| sync_closed_channel | `SyncProtocols`, `SyncClosedChannel.cfg` | violation | a closed application channel panics the session |
| builder_build | `NetworkBuilder`, `NetworkBuilderBuild.cfg` | pass, 68 k states | `TypeOK`; `FailedBuildLeavesNoNode`; `CoreProtocolsAreServed`; `DirectAddressesReachEngine`; `BuildReturns` |
| builder_ports | `NetworkBuilder`, `NetworkBuilderPorts.cfg` | violation | IPv6 port is not IPv4 port + 1 at 65535 |
| network_tests | `NetworkTests`, `NetworkTests.cfg` | pass, 144 k states | `TypeOK`; `AssertionsHold`; `SleepOutlastsSync`; `TestPasses` |
| network_tests_untimed | `NetworkTests`, `NetworkTestsUntimed.cfg` | violation | a sleep that ends early lets a node leave before its peers have synced |
| engine_sessions | `MCEngine`, `EngineSessions.cfg` | pass, 0.52 M states | `TypeOK`; `HoldCountsSessions`; `SyncBeforeLive`; `GossipInArrivalOrder`; `HoldsAreReleased` |

### Properties

* `ShutdownTakesPriority` (action property): once the token is set, no step
  accepts a connection, consumes a discovery item or joins a single task.
  Fails if the arms are polled in any other order.
* `QuietAfterShutdown` (action property): after `shutdown()` returned on any
  clone, all three resources are closed and no task, address book or
  advertised address changes. Fails if `shutdown()` returned without awaiting
  the supervisor task.
* `ImplementsLifecycle` (refinement): every step of the supervisor is a step
  of `NodeLifecycle` or leaves its variables unchanged; in particular the
  return or abort of the supervisor leaves no connection task behind. Fails
  if the `JoinSet` were detached instead of aborted.
* `ShutdownCompletes` (liveness): an awaited `shutdown()` returns, although
  handlers may run forever. Fails if the remaining tasks were awaited.
* `DiscoveredPeerIsAdded` (liveness): once inbound connections stop
  arriving, a peer on the discovery stream reaches the address book or the
  loop ends. The premise is what strict priority costs: without it the
  property is `DiscoveryIsNeverStarved`, which fails (finding 6). Fails if an
  item that was ready when another arm won were lost.
* `AddressIsFollowed` (liveness): every change of the endpoint's direct
  addresses reaches `my_node_addr` unless the endpoint is closed or the
  supervisor is aborted first, whatever the select loop does meanwhile: the
  updater ends only with the stream of addresses or, when the last handle is
  dropped, with the supervisor and its `JoinSet`. Fails if the updater left its
  loop while the stream is merely idle.
* `HandshakeFirst`: between nodes that follow the protocol, the first event
  on `app_tx` of either side is `HandshakeSuccess`, and `Data` comes only
  after it.
* `BothOkMeansExchanged`: between nodes that follow the protocol, when both
  ends returned `Ok` the acceptor's application has the handshake and, for
  ping-pong, both `Data` events.
* `SessionEnds` (liveness): both ends of a session terminate, whatever the
  link, the application and a misbehaving remote do.
* `AtMostOneData`: with a misbehaving remote a session still delivers at most
  one `Data` event to its application.
* `HonestPeersDoNotPanic`: between two nodes that run these protocols the
  `panic!()` of an initiator on a `Topic` message is never reached; a session
  panics only on the `unwrap` of finding 3. Fails if an acceptor answered
  with the topic.
* `AssertionsHold`: no `unwrap` and no assertion of the tests fails, wherever
  the steps of the nodes fall; node 3 gets the message through node 2, or
  from node 1 after the swarm introduced them, and in both cases as delivered
  from node 1; peer a gets exactly the three operations of peer b, in the
  order of the log and as delivered from peer b, whichever of the two
  sessions runs first. Fails if `delivered_from` named the last hop.
* `SleepOutlastsSync`: when the first node of a sync test shuts down, every
  node of the test has been handed its sync messages (one in the ping-pong
  tests, three for peer a), also node 4, whose address nobody was given and
  which node 3 learns of when node 4 joins it. Fails if `run_node` shut its
  node down with its own first sync message.
* `TestPasses` (liveness): the tests end: no `recv`, `ready` or `join!` waits
  forever. Fails if the gossip message were sent before the ready signals are
  awaited: node 1 may then broadcast to no neighbour, and `recv` waits
  forever.
* `HoldCountsSessions`: the hold counter of a topic id equals the number of
  its sessions, through completion, failure, timeout, unsubscribe and
  shutdown. Fails if an ending session left its hold.
* `SyncBeforeLive` (action property): no gossip message enters a channel
  while a session of its topic id is running. Fails if starting a session did
  not hold the buffer.
* `GossipInArrivalOrder` (action property): when a gossip message enters a
  channel, what the channel holds followed by what the buffer still holds is
  in the order of arrival: through a buffer of two that overflows, a flush
  of two messages and messages that arrive while the flush waits for room.
  Fails if the flush took the newest message first.
* `HoldsAreReleased` (liveness): a hold is released, also when the remote
  stalls or the application does not read. Fails if the timer stopped after
  the handshake.
* `FailedBuildLeavesNoNode` (invariant and liveness): when `build` has
  returned `Err` from binding, `set_alpns` or the wait for a first address,
  the supervisor was never spawned or has ended, nothing is served and the
  endpoint is not open; when it has returned `Err` from `add_peer`, the
  supervisor and its handlers end once the abort takes effect. Nothing is
  promised of the endpoint on that exit: the code does not close it. Fails if
  the task handle did not abort on drop.
* `CoreProtocolsAreServed`: whatever the application registers, the ALPNs the
  endpoint accepts include gossip and sync and each is dispatched to the core
  handler.
* `DirectAddressesReachEngine`: when `build` returned `Ok`, every configured
  direct address is in the address book, with the node's relay where the
  address had none, independent of the order of the setter calls.
* `BuildReturns` (liveness): `build` returns once called.
* `TypeOK` of each module also carries the relations the types depend on:
  `advertised <= myNodeAddr <= localAddr` for the updater, ports within `u16`
  for the builder, a symmetric neighbour relation among subscribed nodes for
  the overlay, and the bounds of buffer, channels and concurrent sessions for
  the engine.

Each property has a mutant in `PROJECT.json`: a definition of the model
replaced by the form a plausible bug would give it, under which TLC reports
the property violated.

### Findings

1. **A discovery error stops the node** (`network.rs:572`). The loop breaks on
   an `Err` item; the specification says provider errors are logged and
   discovery continues.
2. **A child panic is not surfaced** (`network.rs:582`). The loop logs the
   panic and `spawn` returns normally, so `shutdown()` returns `Ok(())`; the
   specification says such errors are surfaced via the join handle.
3. **A closed application channel panics a ping-pong session**
   (`network.rs:930`, `968`). The `Data` send is unwrapped; the specification
   says a closed channel is not an error.
4. **Port overflow** (`network.rs:364`). `bind_port + 1` in `u16`: with
   `bind_port(65535)` the IPv6 socket is bound to port 0, or `build` panics.
5. **The sync tests depend on their sleeps** (`network.rs:1172`, `1334`,
   `1424`). The comments say the sleep ensures that sync has time to
   complete; nothing in the code waits for a session. With
   `SleepOutlasts = FALSE` TLC finds node 1 of `ping_pong` subscribed, slept
   and shut down before node 2 has subscribed: the test passes without a ping
   or a pong.

6. **Inbound connections can starve discovery** (`network.rs:546`). The
   select is biased over all four arms and nothing limits inbound connections
   (the `@TODO` at line 547 marks where a limit would go). TLC finds the
   loop: a connection is refused, retransmitted, refused again, and the peer
   that discovery reported stays on the stream; finished tasks stay in the
   `JoinSet` in the same way. The documentation of `spawn` says discovered
   peers are added to the address book; the specification asks for strict
   priority for the sake of shutdown and does not say how long the lower
   arms may wait.

## 4. Bounds

| Constant | Value | Why it is enough |
|---|---|---|
| `Conns` | 2 (supervisor safety), 1 (supervisor liveness, builder) | two connections give a handler that is running while another is accepted, joined or aborted; symmetric. One connection, refused and retransmitted, accepted, served and aborted, is all the liveness properties need |
| `Handles` | 2 | one clone that shuts down and one that is dropped or keeps calling; symmetric |
| `Alpns` / `Registered` | gossip, sync, unknown / gossip, sync | a registered and an unregistered ALPN exercise both exits of `handle_connection` |
| `Peers` | 1 | properties are per peer |
| `MaxDiscoveryEvents` | 2 | a peer and an error in either order |
| `MaxAddrChanges` | 2 (safety), 1 (liveness) | two changes let the cache lag by more than one; one change that must be followed is what `AddressIsFollowed` asks for |
| `Topics` | 2 | distinguishes the session's topic from another one injected |
| `MaxInjected` | 2 (0 in the closed-channel run) | two injected messages are a repeated `Ping` or `Pong`, or a message followed by the one that ends the loop |
| `Ports` | 4000, 65535 | an ordinary port and the largest `u16` |
| `MaxCalls` | 3 (2 for ports) | `relay` before and after `direct_address`, and a `protocol` under a core ALPN, fit in three calls |
| `Tests`, nodes (tests) | all five tests, 4 nodes | the tests fix the nodes and the calls; three nodes in a line are the multi-hop case of gossip, four that of sync |
| `Capacity` (tests) | 6 | no node is handed more than four events in any test (one per session, two sessions with each of at most two peers), so the channels behave as those of capacity 128 |
| `SleepOutlasts` | TRUE; FALSE in the untimed run | see NetworkTests, Sleep |
| `Peers` (engine) | 1 | one peer is both a candidate of the scheduler and the opener of an inbound session for the same topic |
| `Topics`, `TopicId` (engine) | 2 topics, one id | fan-out, a shared hold counter and buffer, and a handshake that announces the other topic |
| `MaxConcurrent`, `MaxAttempts` | 1, 2 | a candidate waits for the running session; a pair is retried once |
| `MaxInbound`, `MaxData` | 1, 1 | one inbound session beside the scheduler's; its `Data` event waits when gossip has filled the channel |
| `MaxGossip`, `MaxBuffered`, `Capacity` (engine) | 3, 2, 2 | two messages are held and flushed one after the other, the third overflows the buffer or arrives while the flush waits for room in a channel that holds two |

Symmetry over `Conns` and `Handles` is used in the safety run only.

## 5. Fairness

`Supervisor`: weak fairness of the supervisor's own steps, of the updater, of
ALPN resolution per connection and of the return of an awaited `shutdown()`.
These are tasks the tokio runtime polls whenever they can make progress, and
the handshake of a connection is ended by the transport (success, failure or
its timeout). Nothing is assumed of the application, of remote peers or of the
duration of a protocol handler; in particular nothing makes the select loop
take its discovery arm while a connection is pending, which is why
`DiscoveredPeerIsAdded` has a premise. `SyncProtocols`: weak fairness of the
initiator's and the acceptor's steps, which are tasks of the runtime; none of
the link, the application or the remote. `NetworkBuilder`: weak fairness of
`build`'s steps, of the node's stopping once it is asked to (the latter is
`ShutdownCompletes` of the supervisor) and of the abort of a task whose
handle was dropped, which the runtime carries out when it gets to the task.
`NetworkTests`: weak fairness of each task of a test, of `Join`, `Broadcast`, `Receive` and `Sync`: the tasks are
tasks of the runtime, and the nodes of the tests run on the loopback network,
where a node reaches the peer whose address it has, a copy that was sent
arrives and a session that can run does. `Introduce` has no fairness: the tests must
pass whether or not the swarm connects node 1 and node 3. `Engine`: weak
fairness of `Timeout` alone, the engine's own timer; nothing is assumed of
the remote peers, the overlay or the application, so a session may stall in
any state and the application may never read.

The supervisor and builder runs disable deadlock checking because a node that
stopped, and a `build` that returned, are final states; a sync session, a
test and an engine that was shut down end likewise.

## 6. Not modelled

* The discovery multiplexer (not in the sources at hand): present only as
  the stream of items the supervisor reads and as the receiver of the
  updater's addresses, which may refuse them.
* Of the address book: addresses, sources, `last_seen`, the reachable flag and
  the ageing of records. Of the overlay: relays, hole punching, the lazy-push
  tree.
* The contents of a sync session inside `Engine`: a session there is its
  lifecycle and its `Data` events; the messages of a session are in
  `SyncProtocols`.
* In `NetworkTests`: the steps inside a sync session (a session interrupted
  half-way is in `Engine` and `SyncProtocols`); in the sync tests, discovery
  beyond `add_peer` and the join of the overlay, so node 1 never syncs with
  node 3 or 4, which would add sessions and take none away (with them four nodes are
  beyond what TLC explores in minutes); `LogSyncProtocol` and `MemoryStore`,
  which are other crates and appear as "the initiator gets the operations it
  lacks"; the test `config`, which compares fields of a builder.
* The read-only accessors of `Network`.
* A flood of distinct inbound connections: the unbounded supply of the model
  is one connection that is refused and retransmitted, so the size of the
  `JoinSet` stays within `Conns` and its growth under a flood is not shown.
* Time: the 5 s wait in `build` is a nondeterministic failure of the wait.
* What closes the endpoint after `build` has failed in `add_peer`: the clones
  of the endpoint live in gossip and engine, whose ends are not in the
  sources at hand, so the endpoint may stay open in the model.
* What discovery advertises while the updater's address lags or after its
  update was refused: `AddressIsFollowed` is about the cache of the node.
* In the tests, a session that fails for want of an address and is tried
  again: `Sync` of `NetworkTests` is one step that succeeds, the retries are
  in `Engine`.
* Encoding of messages, logging, key material.

## 7. Plan

Done: `NodeLifecycle`, `Supervisor`, `NetworkBuilder`, `SyncProtocols`,
`NetworkTests`, `Engine`, the twelve runs above; the starvation of the lower
arms of the select loop and the liveness of the updater.

Next, in this order:

1. `Supervisor` composed with `Engine` in place of the `addressBook` variable,
   and `NetworkBuilder` composed with `Supervisor` directly in place of
   `NodeLifecycle`, at smaller bounds.
2. `Engine` with two topic ids and two peers, for the order in which the
   scheduler serves candidates.
3. `NetworkTests` with sessions of several steps at three nodes, for a node
   that leaves in the middle of a session.
4. `Supervisor` with connection ids that are reused, for the growth of the
   `JoinSet` while the join arm is starved.
