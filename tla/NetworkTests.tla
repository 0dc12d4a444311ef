---------------------------- MODULE NetworkTests ----------------------------
(***************************************************************************)
(* The integration tests of network.rs as applications of a small network  *)
(* of nodes: `join_gossip_overlay`, `multi_hop_join_gossip_overlay`,       *)
(* `ping_pong`, `e2e_log_height_sync` and                                  *)
(* `multi_hop_topic_discovery_and_sync`.                                   *)
(*                                                                         *)
(* A test is a main task that calls the API of `Network` in the order of   *)
(* the test and, in the sync tests, spawns one task per node and joins     *)
(* them.  Between the calls the engines act on their own: subscribed nodes *)
(* that know each other become neighbours, a broadcast goes to the         *)
(* neighbours a node has at that moment, a node passes on what it sees for *)
(* the first time, and nodes with a sync protocol run one session with     *)
(* every peer they find subscribed.  Engine and overlay are outside this   *)
(* source file and follow the specification of the node.                   *)
(***************************************************************************)
EXTENDS Naturals, Sequences, FiniteSets, SequencesExt

CONSTANTS
    node_1, node_2, node_3, node_4,  \* the nodes the tests build
    Tests,                           \* the tests to run
    Capacity,                        \* capacity of the channels of `subscribe`
    SleepOutlasts                    \* assumption: a sleep of the tests ends
                                     \* when nothing is under way any more

Nodes == {node_1, node_2, node_3, node_4}
Tasks == Nodes \cup {"main"}  \* the test itself and the task it spawns per node

TestNames ==
    {"join_gossip_overlay", "multi_hop_join_gossip_overlay", "ping_pong",
     "e2e_log_height_sync", "multi_hop_topic_discovery_and_sync"}

ASSUME Tests \subseteq TestNames /\ Capacity \in Nat \ {0}

ASSUME SleepOutlasts \in BOOLEAN

VARIABLES
    test,        \* the test that runs
    pc,          \* per task: index of its next call, 0 before it is spawned
    failed,      \* tasks that panicked in an `unwrap` or an assertion
    up,          \* nodes that are built and not shut down
    book,        \* per node: the peers in its address book
    subscribed,  \* nodes with a subscription to the topic
    outbox,      \* per node: messages in its `ToNetwork` channel
    inbox,       \* per node: the events in its `FromNetwork` channel
    collected,   \* per node: the events its task has taken to compare
    neighbours,  \* per node: its neighbours in the topic's overlay
    readyFired,  \* nodes whose ready signal was sent
    wire,        \* copies of the message on their way between neighbours
    seen,        \* per node: the authors whose message it has seen
    attempted,   \* pairs <<n, m>>: n has run its session with m
    handed       \* per node: sync messages put into its channel so far

appVars     == <<test, pc, failed>>
nodeVars    == <<up, book, subscribed>>
chanVars    == <<outbox, inbox, collected>>
overlayVars == <<neighbours, readyFired, wire, seen>>
syncVars    == <<attempted, handed>>
vars == <<appVars, nodeVars, chanVars, overlayVars, syncVars>>

-----------------------------------------------------------------------------
(* The tests *)

\* `FromNetwork`: the tests send one text, so a gossip message is told
\* apart by `delivered_from`, a sync message by its header as well.
GossipMessage(from) == [event |-> "GossipMessage", delivered_from |-> from]
SyncMessage(header, from) ==
    [event |-> "SyncMessage", header |-> header, delivered_from |-> from]

Call(op, node, arg) == [op |-> op, node |-> node, arg |-> arg]
On(op, node) == Call(op, node, node)
Each(op, nodes) == [i \in DOMAIN nodes |-> On(op, nodes[i])]

\* `rx.recv().await.unwrap()` and `assert_eq!(msg, expected)`.
RecvExpecting(node, expected) ==
    << Call("collect", node, 1), Call("assert_eq", node, <<expected>>) >>

\* The handles are awaited together, then asserted to be ok.
SpawnAndJoin(nodes) == Each("spawn", nodes) \o << On("join", nodes[1]) >>

\* Mutant of `multi_hop_join_gossip_overlay`: the message is sent before the
\* ready signals are awaited.
multi_hop_sends_before_ready ==
    Each("build", <<node_1, node_2, node_3>>)
    \o << Call("add_peer", node_1, node_2), Call("add_peer", node_2, node_1),
          Call("add_peer", node_3, node_2) >>
    \o Each("subscribe", <<node_1, node_2, node_3>>)
    \o << On("send", node_1) >>
    \o Each("ready", <<node_3, node_2, node_1>>)
    \o RecvExpecting(node_2, GossipMessage(node_1))
    \o RecvExpecting(node_3, GossipMessage(node_1))
    \o Each("shutdown", <<node_1, node_2, node_3>>)

join_gossip_overlay ==
    Each("build", <<node_1, node_2>>)
    \o << Call("add_peer", node_1, node_2), Call("add_peer", node_2, node_1) >>
    \o Each("subscribe", <<node_1, node_2>>)
    \o Each("ready", <<node_2, node_1>>)
    \o << On("send", node_1) >>
    \o RecvExpecting(node_2, GossipMessage(node_1))
    \o Each("shutdown", <<node_1, node_2>>)

multi_hop_join_gossip_overlay ==
    Each("build", <<node_1, node_2, node_3>>)
    \o << Call("add_peer", node_1, node_2), Call("add_peer", node_2, node_1),
          Call("add_peer", node_3, node_2) >>
    \o Each("subscribe", <<node_1, node_2, node_3>>)
    \o Each("ready", <<node_3, node_2, node_1>>)
    \o << On("send", node_1) >>
    \o RecvExpecting(node_2, GossipMessage(node_1))
    \o RecvExpecting(node_3, GossipMessage(node_1))
    \o Each("shutdown", <<node_1, node_2, node_3>>)

ping_pong ==
    Each("build", <<node_1, node_2>>)
    \o << Call("add_peer", node_1, node_2), Call("add_peer", node_2, node_1) >>
    \o SpawnAndJoin(<<node_1, node_2>>)

\* The two tasks `ping_pong` spawns.
ping_pong_task(n) == << On("subscribe", n), On("sleep", n), On("shutdown", n) >>

\* The store of peer b holds three operations of one log, told apart by
\* their headers; the store of peer a is empty.
store ==
    [n \in Nodes |->
        IF n = node_2
        THEN <<"header_bytes_0", "header_bytes_1", "header_bytes_2">>
        ELSE <<>>]

\* Peer a is node 1, peer b node 2.
e2e_log_height_sync ==
    Each("build", <<node_1, node_2>>)
    \o << Call("add_peer", node_1, node_2), Call("add_peer", node_2, node_1) >>
    \o SpawnAndJoin(<<node_1, node_2>>)

\* What peer a is to receive: the operations, delivered from peer b.
peer_a_expected_messages ==
    [i \in DOMAIN store[node_2] |-> SyncMessage(store[node_2][i], node_2)]

e2e_log_height_sync_task(n) ==
    << On("subscribe", n), On("ready", n) >>
    \o (IF n = node_1
        THEN << Call("collect", n, 3),
                Call("assert_eq", n, peer_a_expected_messages) >>
        ELSE << On("sleep", n) >>)
    \o << On("shutdown", n) >>

\* Mutant of `run_node`: the node is shut down with its first sync message.
run_node_without_sleep(n) ==
    << On("subscribe", n), On("ready", n), On("recv_sync", n),
       On("shutdown", n) >>

run_node(n) ==
    << On("subscribe", n), On("ready", n), On("recv_sync", n), On("sleep", n),
       On("shutdown", n) >>

multi_hop_topic_discovery_and_sync ==
    Each("build", <<node_1, node_2, node_3, node_4>>)
    \o << Call("add_peer", node_1, node_2), Call("add_peer", node_2, node_1),
          Call("add_peer", node_3, node_2), Call("add_peer", node_4, node_3) >>
    \o SpawnAndJoin(<<node_1, node_2, node_3, node_4>>)

\* `SyncConfiguration::new(protocol)` of the builders of a test.
sync_config ==
    [join_gossip_overlay |-> "none", multi_hop_join_gossip_overlay |-> "none",
     ping_pong |-> "PingPongProtocol",
     e2e_log_height_sync |-> "LogSyncProtocol",
     multi_hop_topic_discovery_and_sync |-> "PingPongProtocol"][test]

\* The calls of every task of every test, in their order.
Scripts ==
    [name \in TestNames |-> [t \in Tasks |->
        IF t = "main"
        THEN [join_gossip_overlay |-> join_gossip_overlay,
              multi_hop_join_gossip_overlay |-> multi_hop_join_gossip_overlay,
              ping_pong |-> ping_pong,
              e2e_log_height_sync |-> e2e_log_height_sync,
              multi_hop_topic_discovery_and_sync |->
                  multi_hop_topic_discovery_and_sync][name]
        ELSE [join_gossip_overlay |-> <<>>,
              multi_hop_join_gossip_overlay |-> <<>>,
              ping_pong |-> ping_pong_task(t),
              e2e_log_height_sync |-> e2e_log_height_sync_task(t),
              multi_hop_topic_discovery_and_sync |-> run_node(t)][name]]]

Script(t) == Scripts[test][t]

Finished(t) == pc[t] > Len(Script(t))
Passed == failed = {} /\ Finished("main")

\* Task t is about to make call `op`; `Returns` is the return of the call,
\* `Panics` the failure of its `unwrap` or `assert`.
Calls(t, op) ==
    t \notin failed /\ pc[t] \in DOMAIN Script(t) /\ Script(t)[pc[t]].op = op
Now(t)     == Script(t)[pc[t]]
Returns(t) == pc' = [pc EXCEPT ![t] = @ + 1] /\ UNCHANGED <<test, failed>>
Panics(t)  == failed' = failed \cup {t} /\ UNCHANGED <<test, pc>>

-----------------------------------------------------------------------------
(* The calls of the application *)

\* `NetworkBuilder::new(network_id).build().await.unwrap()`
Build(t) ==
    /\ Calls(t, "build")
    /\ up' = up \cup {Now(t).node}
    /\ Returns(t)
    /\ UNCHANGED <<book, subscribed, chanVars, overlayVars, syncVars>>

\* `node.add_peer(addr).await.unwrap()`: an engine that is gone answers
\* with an error.
AddPeer(t) ==
    /\ Calls(t, "add_peer")
    /\ LET n == Now(t).node IN
        \/ /\ n \in up
           /\ book' = [book EXCEPT ![n] = @ \cup {Now(t).arg}]
           /\ Returns(t)
        \/ n \notin up /\ Panics(t) /\ UNCHANGED book
    /\ UNCHANGED <<up, subscribed, chanVars, overlayVars, syncVars>>

\* `tokio::spawn(..)`: the task of a node starts.
Spawn(t) ==
    /\ Calls(t, "spawn")
    /\ pc' = [pc EXCEPT ![t] = @ + 1, ![Now(t).node] = 1]
    /\ UNCHANGED <<test, failed, nodeVars, chanVars, overlayVars, syncVars>>

\* `tokio::join!(..)` and `assert!(result.is_ok())` for every handle: the
\* result of a task that panicked is an error.
JoinAll(t) ==
    /\ Calls(t, "join")
    /\ \A h \in Nodes : pc[h] > 0 => Finished(h) \/ h \in failed
    /\ IF failed = {} THEN Returns(t) ELSE Panics(t)
    /\ UNCHANGED <<nodeVars, chanVars, overlayVars, syncVars>>

\* `node.subscribe(topic).await.unwrap()`: two fresh channels and the ready
\* signal; the engine refuses a second subscription to the topic.
Subscribe(t) ==
    /\ Calls(t, "subscribe")
    /\ LET n == Now(t).node IN
        \/ /\ n \in up \ subscribed
           /\ subscribed' = subscribed \cup {n}
           /\ outbox' = [outbox EXCEPT ![n] = 0]
           /\ inbox' = [inbox EXCEPT ![n] = <<>>]
           /\ Returns(t)
        \/ /\ n \notin up \ subscribed
           /\ Panics(t)
           /\ UNCHANGED <<subscribed, outbox, inbox>>
    /\ UNCHANGED <<up, book, collected, overlayVars, syncVars>>

\* `assert!(ready.await.is_ok())`: the signal, or the error of a sender
\* that was dropped with the subscription.
AwaitReady(t) ==
    /\ Calls(t, "ready")
    /\ LET n == Now(t).node IN
        \/ n \in readyFired /\ Returns(t)
        \/ n \notin readyFired \cup subscribed /\ Panics(t)
    /\ UNCHANGED <<nodeVars, chanVars, overlayVars, syncVars>>

\* `tx.send(ToNetwork::Message { .. }).await.unwrap()`: waits for room in
\* the channel, fails when the engine has dropped the receiver.
Send(t) ==
    /\ Calls(t, "send")
    /\ LET n == Now(t).node IN
        \/ /\ n \in subscribed
           /\ outbox[n] < Capacity
           /\ outbox' = [outbox EXCEPT ![n] = @ + 1]
           /\ Returns(t)
        \/ n \notin subscribed /\ Panics(t) /\ UNCHANGED outbox
    /\ UNCHANGED <<nodeVars, inbox, collected, overlayVars, syncVars>>

\* The channel of node n is empty and its sender is gone: `recv` is None.
Closed(n) == inbox[n] = <<>> /\ n \notin subscribed

\* `rx.recv().await` until the task has the number of events it waits for;
\* the events are compared afterwards.  A closed channel ends the wait.
Collect(t) ==
    /\ Calls(t, "collect")
    /\ LET n == Now(t).node IN
        \/ /\ inbox[n] # <<>>
           /\ collected' = [collected EXCEPT ![n] = Append(@, Head(inbox[n]))]
           /\ IF Len(collected'[n]) = Now(t).arg THEN Returns(t)
                                                ELSE UNCHANGED appVars
           /\ inbox' = [inbox EXCEPT ![n] = Tail(@)]
        \/ Closed(n) /\ Returns(t) /\ UNCHANGED <<inbox, collected>>
    /\ UNCHANGED <<nodeVars, outbox, overlayVars, syncVars>>

\* `assert_eq!(..)` on what was received.
AssertEq(t) ==
    /\ Calls(t, "assert_eq")
    /\ IF collected[Now(t).node] = Now(t).arg THEN Returns(t) ELSE Panics(t)
    /\ collected' = [collected EXCEPT ![Now(t).node] = <<>>]
    /\ UNCHANGED <<nodeVars, outbox, inbox, overlayVars, syncVars>>

\* The loop of `run_node`: `rx.recv().await.unwrap()` until the event is a
\* sync message.
RecvSync(t) ==
    /\ Calls(t, "recv_sync")
    /\ LET n == Now(t).node IN
        \/ /\ inbox[n] # <<>>
           /\ IF Head(inbox[n]).event = "SyncMessage" THEN Returns(t)
                                                      ELSE UNCHANGED appVars
           /\ inbox' = [inbox EXCEPT ![n] = Tail(@)]
        \/ Closed(n) /\ Panics(t) /\ UNCHANGED inbox
    /\ UNCHANGED <<nodeVars, outbox, collected, overlayVars, syncVars>>

\* Mutant of `Shutdown`: the call returns without waiting for the engine,
\* which still holds the subscription.
ShutdownWithoutWaiting(t) ==
    /\ Calls(t, "shutdown")
    /\ up' = up \ {Now(t).node}
    /\ Returns(t)
    /\ UNCHANGED <<book, subscribed, chanVars, overlayVars, syncVars>>

\* The overlay without node n.
Leave(n) == [m \in Nodes |-> IF m = n THEN {} ELSE neighbours[m] \ {n}]

\* `node.shutdown().await.unwrap()`: the supervisor has closed endpoint,
\* engine and protocols when the call returns (module Supervisor).
Shutdown(t) ==
    /\ Calls(t, "shutdown")
    /\ LET n == Now(t).node IN
        /\ up' = up \ {n}
        /\ subscribed' = subscribed \ {n}
        /\ neighbours' = Leave(n)
    /\ Returns(t)
    /\ UNCHANGED <<book, chanVars, readyFired, wire, seen, syncVars>>

\* What a task does at once, as opposed to its sleeps.
Calling(t) ==
    \/ Build(t) \/ AddPeer(t) \/ Spawn(t) \/ JoinAll(t) \/ Subscribe(t)
    \/ AwaitReady(t) \/ Send(t) \/ Collect(t) \/ AssertEq(t) \/ RecvSync(t)
    \/ Shutdown(t)

-----------------------------------------------------------------------------
(* Engine and overlay *)

\* Mutant of `DeliveredFrom`: the neighbour that passed the message on.
DeliveredFromHop(author, hop) == hop

\* `delivered_from` of a gossip message is its author.
DeliveredFrom(author, hop) == author

\* Copies of the message of `author` from node n to its neighbours.
Copies(n, author, except) ==
    {[to |-> m, from |-> n, author |-> author] : m \in neighbours[n] \ except}

\* Two subscribed nodes, one of which has the other in its address book,
\* become neighbours: the ready signal of both fires with the first
\* neighbour, and the joined node learns the address of the joining one.
Join(n, m) ==
    /\ {n, m} \subseteq subscribed
    /\ m \in book[n] \ neighbours[n]
    /\ neighbours' = [neighbours EXCEPT ![n] = @ \cup {m}, ![m] = @ \cup {n}]
    /\ readyFired' = readyFired \cup {n, m}
    /\ book' = [book EXCEPT ![m] = @ \cup {n}]
    /\ UNCHANGED <<appVars, up, subscribed, chanVars, wire, seen, syncVars>>

\* A message is still to be sent, or on its way.
Gossiping ==
    \/ \E t \in Tasks : \E i \in DOMAIN Script(t) :
           i >= pc[t] /\ Script(t)[i].op = "send"
    \/ \E n \in Nodes : outbox[n] > 0
    \/ wire # {}

\* The membership of the swarm: the overlay makes two nodes neighbours that
\* have a neighbour in common, and each registers the other in its address
\* book.  An introduction is taken while it matters to a broadcast; the
\* sessions it would lead to in the sync tests are left out.
Introduce(n, m) ==
    /\ Gossiping
    /\ n # m
    /\ m \notin neighbours[n]
    /\ neighbours[n] \cap neighbours[m] # {}
    /\ neighbours' = [neighbours EXCEPT ![n] = @ \cup {m}, ![m] = @ \cup {n}]
    /\ book' = [book EXCEPT ![n] = @ \cup {m}, ![m] = @ \cup {n}]
    /\ UNCHANGED <<appVars, up, subscribed, chanVars, readyFired, wire, seen,
                   syncVars>>

\* The engine takes a message of the application from the channel and
\* broadcasts it to the neighbours the node has now.
Broadcast(n) ==
    /\ n \in subscribed
    /\ outbox[n] > 0
    /\ outbox' = [outbox EXCEPT ![n] = @ - 1]
    /\ wire' = wire \cup Copies(n, n, {})
    /\ seen' = [seen EXCEPT ![n] = @ \cup {n}]
    /\ UNCHANGED <<appVars, nodeVars, inbox, collected, neighbours, readyFired,
                   syncVars>>

\* A copy arrives.  A node that left, or has seen the message, drops it;
\* otherwise the node hands it to its application, waiting for room in the
\* channel, and passes it on to its other neighbours.
Receive(copy) ==
    /\ copy \in wire
    /\ LET n == copy.to IN
        \/ /\ n \in subscribed
           /\ copy.author \notin seen[n]
           /\ Len(inbox[n]) < Capacity
           /\ inbox' = [inbox EXCEPT ![n] = Append(@,
                  GossipMessage(DeliveredFrom(copy.author, copy.from)))]
           /\ seen' = [seen EXCEPT ![n] = @ \cup {copy.author}]
           /\ wire' = (wire \ {copy}) \cup Copies(n, copy.author, {copy.from})
        \/ /\ n \notin subscribed \/ copy.author \in seen[n]
           /\ wire' = wire \ {copy}
           /\ UNCHANGED <<inbox, seen>>
    /\ UNCHANGED <<appVars, nodeVars, outbox, collected, neighbours,
                   readyFired, syncVars>>

\* What a session that n initiates with m hands to the applications, as
\* pairs of receiver and event.  Ping-pong: the acceptor gets the ping, then
\* the initiator the pong.
PingPong(n, m) ==
    << <<m, SyncMessage("PING", n)>>, <<n, SyncMessage("PONG", m)>> >>

\* Log sync: the initiator gets the operations of the logs of the topic
\* that it lacks, in the order of the log.
LogSync(n, m) ==
    LET missing == SelectSeq(store[m], LAMBDA op : op \notin ToSet(store[n]))
    IN  [i \in DOMAIN missing |-> <<n, SyncMessage(missing[i], m)>>]

Exchange(n, m) ==
    IF sync_config = "PingPongProtocol" THEN PingPong(n, m) ELSE LogSync(n, m)

\* The events of `exchange` for node `to`, in their order.
For(to, exchange) ==
    LET mine == SelectSeq(exchange, LAMBDA d : d[1] = to)
    IN  [i \in DOMAIN mine |-> mine[i][2]]

\* Node n has peer m in its address book and has found it interested in
\* its topic: it runs a session with it, once, which hands its events to
\* the two applications, waiting for room in their channels.  The steps of a session are those of modules
\* Engine and SyncProtocols; here a session is one step.
Sync(n, m) ==
    /\ sync_config # "none"
    /\ {n, m} \subseteq subscribed
    /\ m \in book[n] \ {n}
    /\ <<n, m>> \notin attempted
    /\ \A to \in {n, m} :
           Len(inbox[to]) + Len(For(to, Exchange(n, m))) <= Capacity
    /\ attempted' = attempted \cup {<<n, m>>}
    /\ inbox' = [to \in Nodes |-> inbox[to] \o For(to, Exchange(n, m))]
    /\ handed' = [to \in Nodes |-> handed[to] + Len(For(to, Exchange(n, m)))]
    /\ UNCHANGED <<appVars, nodeVars, outbox, collected, overlayVars>>

\* What the nodes do within moments once they can.
Network ==
    \/ \E n, m \in Nodes : Join(n, m) \/ Sync(n, m)
    \/ \E n \in Nodes : Broadcast(n)
    \/ \E copy \in wire : Receive(copy)

\* Nothing is under way: every task waits or sleeps, every node has done
\* what it can.
Settled == ~ENABLED (Network \/ \E t \in Tasks : Calling(t))

\* `tokio::time::sleep(Duration::from_secs(..)).await`: seconds pass, in
\* which the tasks and the nodes do what takes them moments.
Sleep(t) ==
    /\ Calls(t, "sleep")
    /\ SleepOutlasts => Settled
    /\ Returns(t)
    /\ UNCHANGED <<nodeVars, chanVars, overlayVars, syncVars>>

-----------------------------------------------------------------------------

Init ==
    /\ test \in Tests
    /\ pc = [t \in Tasks |-> IF t = "main" THEN 1 ELSE 0]
    /\ failed = {}
    /\ up = {}
    /\ book = [n \in Nodes |-> {}]
    /\ subscribed = {}
    /\ outbox = [n \in Nodes |-> 0]
    /\ inbox = [n \in Nodes |-> <<>>]
    /\ collected = [n \in Nodes |-> <<>>]
    /\ neighbours = [n \in Nodes |-> {}]
    /\ readyFired = {}
    /\ wire = {}
    /\ seen = [n \in Nodes |-> {}]
    /\ attempted = {}
    /\ handed = [n \in Nodes |-> 0]

Next ==
    \/ \E t \in Tasks : Calling(t) \/ Sleep(t)
    \/ Network
    \/ \E n, m \in Nodes : Introduce(n, m)

Spec == Init /\ [][Next]_vars

\* The runtime runs the tasks of the test and of the engines; on the
\* loopback network of the tests a node reaches a peer whose address it
\* has, and what was sent arrives.
FairSpec ==
    /\ Spec
    /\ \A t \in Tasks : WF_vars(Calling(t) \/ Sleep(t))
    /\ \A n, m \in Nodes :
           WF_vars(Join(n, m)) /\ WF_vars(Sync(n, m))
    /\ \A n \in Nodes : WF_vars(Broadcast(n))
    /\ \A n, m, a \in Nodes :
           WF_vars(Receive([to |-> n, from |-> m, author |-> a]))

-----------------------------------------------------------------------------
(* Properties *)

Event ==
    [event : {"GossipMessage"}, delivered_from : Nodes]
    \cup [event : {"SyncMessage"}, delivered_from : Nodes,
          header : {"PING", "PONG"} \cup ToSet(store[node_2])]

TypeOK ==
    /\ test \in Tests
    /\ \A t \in Tasks : pc[t] \in 0..(Len(Script(t)) + 1)
    /\ failed \subseteq Tasks
    /\ up \subseteq Nodes
    /\ book \in [Nodes -> SUBSET Nodes]
    /\ subscribed \subseteq up
    /\ neighbours \in [Nodes -> SUBSET subscribed]
    /\ \A n, m \in Nodes : m \in neighbours[n] <=> n \in neighbours[m]
    /\ readyFired \subseteq Nodes
    /\ outbox \in [Nodes -> 0..Capacity]
    /\ wire \subseteq [to : Nodes, from : Nodes, author : Nodes]
    /\ seen \in [Nodes -> SUBSET Nodes]
    /\ inbox \in [Nodes -> Seq(Event)] /\ collected \in [Nodes -> Seq(Event)]
    /\ \A n \in Nodes : Len(inbox[n]) <= Capacity
    /\ attempted \subseteq Nodes \X Nodes
    /\ handed \in [Nodes -> Nat]

\* No `unwrap` and no assertion of the tests fails, however the steps of
\* the nodes fall between the calls: every node gets the gossip message as
\* delivered from its author, node 1, also node 3, which gets it through
\* node 2 (`multi_hop_join_gossip_overlay`), and peer a gets the three
\* operations of peer b in the order of the log, delivered from peer b
\* (`e2e_log_height_sync`).
AssertionsHold == failed = {}

\* The tests end: no `recv`, no `ready` and no `join!` waits forever.
\* Awaiting the ready signal of every node before `send` is what makes
\* this so in the gossip tests: a broadcast goes to the neighbours of that
\* moment and is not repeated.
TestPasses == <>Passed

\* The sync messages a node is to get while its peers are there: one in
\* the ping-pong tests, the three operations for peer a.
Awaited(n) ==
    [join_gossip_overlay |-> 0, multi_hop_join_gossip_overlay |-> 0,
     ping_pong |-> 1, multi_hop_topic_discovery_and_sync |-> 1,
     e2e_log_height_sync |-> IF n = node_1 THEN 3 ELSE 0][test]

\* The sleep before `shutdown` in the tasks of the sync tests ("give other
\* nodes enough time to complete sync sessions", "ensure sync has time to
\* complete") does what the comments say: when the first node leaves, every
\* node of the test has been handed the sync messages it is to get, also
\* node 4 of `multi_hop_topic_discovery_and_sync`, whose address nobody was
\* given.
SleepOutlastsSync ==
    (\E n \in Nodes : pc[n] > 0 /\ n \notin up) =>
        \A n \in Nodes : pc[n] > 0 => handed[n] >= Awaited(n)

=============================================================================
