----------------------------- MODULE Supervisor -----------------------------
(***************************************************************************)
(* The supervisory task of a p2panda-net node.                             *)
(*                                                                         *)
(* `NetworkInner::spawn` runs one event loop that multiplexes, with strict *)
(* top-to-bottom priority (`tokio::select! { biased; ... }`):              *)
(*   1. the cancellation token set by `Network::shutdown`,                 *)
(*   2. inbound connections of the transport endpoint,                     *)
(*   3. events of the discovery stream,                                    *)
(*   4. completions of the child tasks kept in its `JoinSet`.              *)
(* Child tasks are the local-address updater and one `handle_connection`   *)
(* task per accepted connection.  When the loop is left the supervisor     *)
(* closes the endpoint, the engine and the protocol handlers concurrently  *)
(* (`tokio::join!`) and then aborts what is left of the `JoinSet`.         *)
(*                                                                         *)
(* The application holds clones of the `Network` handle.  `shutdown` sets  *)
(* the token and awaits the supervisor; dropping the last clone aborts the *)
(* supervisor (`AbortOnDropHandle`).                                       *)
(*                                                                         *)
(* The transport, the discovery services and the engine are collaborators  *)
(* outside this source file: they appear as environment actions.           *)
(***************************************************************************)
EXTENDS Naturals, FiniteSets, Sequences

CONSTANTS
    Conns,              \* inbound connections remote peers may attempt
    Alpns,              \* protocol identifiers a remote may negotiate
    Registered,         \* the ALPNs that have a handler in the ProtocolMap
    Peers,              \* peers the discovery services may report
    Handles,            \* clones of `Network` held by the application
    DiscoveryError,     \* the `Err` item of the discovery stream
    MaxDiscoveryEvents, \* bound: items the discovery stream ever yields
    MaxAddrChanges      \* bound: changes of the local direct addresses

ASSUME
    /\ Registered \subseteq Alpns
    /\ DiscoveryError \notin Peers
    /\ Handles # {}
    /\ MaxDiscoveryEvents \in Nat
    /\ MaxAddrChanges \in Nat

VARIABLES
    pc,              \* where the supervisor task is
    cause,           \* why the loop was left (what `spawn` logs on `break`)
    cancelled,       \* `cancel_token`
    down,            \* what `NetworkInner::shutdown` has closed so far
    engineFailed,    \* the engine stopped by itself
    conn,            \* per inbound connection: how far it got
    updater,         \* the local-address update task
    joinSet,         \* tasks spawned into `join_set` and not yet joined
    discoveryStream, \* items of `discovery_stream` not yet read
    emitted,         \* number of items the discovery services produced
    addressBook,     \* peers the engine knows
    localAddr,       \* version of the endpoint's direct addresses (0: none)
    myNodeAddr,      \* version the updater holds in `my_node_addr`
    advertised,      \* version the discovery services were last given
    handle           \* per `Network` clone: what the application did with it

taskVars   == <<conn, updater, joinSet>>
discoVars  == <<discoveryStream, emitted>>
engineVars == <<engineFailed, addressBook>>
addrVars   == <<localAddr, myNodeAddr, advertised>>

vars == <<pc, cause, cancelled, down, handle,
          taskVars, discoVars, engineVars, addrVars>>

-----------------------------------------------------------------------------
(* Vocabulary *)

Updater == "updater"
Tasks == Conns \cup {Updater}

\* The three futures of the `tokio::join!` in `NetworkInner::shutdown`.
Resources == {"endpoint", "engine", "protocols"}

ConnStates ==
    {"remote",       \* not dialled yet
     "incoming",     \* waiting in `endpoint.accept()`
     "refused",      \* `incoming.accept()` failed, the loop continued
     "handshaking",  \* task spawned, awaiting `connecting.alpn()`
     "accepting",    \* inside `handler.accept(connecting)`
     "closed",       \* `handle_connection` returned
     "panicked",     \* the handler panicked inside the task
     "aborted"}      \* the task was aborted with the JoinSet

Live == {"handshaking", "accepting", "running"}
Finished == {"closed", "panicked"}

State(t) == IF t = Updater THEN updater ELSE conn[t]

\* Only `NetworkInner::shutdown` closes the endpoint and the engine: an
\* abort of the supervisor task leaves both as they are.
EndpointOpen == "endpoint" \notin down
EngineUp == ~engineFailed /\ "engine" \notin down

-----------------------------------------------------------------------------
(* The biased select of the event loop *)

\* The arms of the `select!`, top to bottom.
Branches == <<"cancelled", "incoming", "discovery", "joined">>

\* Whether the future of an arm would resolve with a matching pattern.
Ready ==
    [cancelled |-> cancelled,
     incoming  |-> EndpointOpen /\ \E c \in Conns : conn[c] = "incoming",
     discovery |-> discoveryStream # <<>>,
     joined    |-> \E t \in joinSet : State(t) \in Finished]

\* A select that polls its arms in random order: the mutant of `Selected`.
SelectedUnbiased(b) ==
    pc = "loop" /\ Ready[b]

\* `biased;`: the first ready arm, in source order, is the one that runs.
Selected(b) ==
    /\ pc = "loop"
    /\ \E i \in DOMAIN Branches :
        /\ Branches[i] = b
        /\ Ready[b]
        /\ \A j \in 1..(i - 1) : ~Ready[Branches[j]]

-----------------------------------------------------------------------------
(* Aborting the JoinSet *)

\* Mutant of `AbortRemaining`: the set is emptied but the tasks run on.
DetachRemaining ==
    /\ joinSet' = {}
    /\ UNCHANGED <<conn, updater>>

\* Mutant of `AbortRemaining`: wait for the tasks instead of aborting them.
AwaitRemaining ==
    /\ \A t \in joinSet : State(t) \notin Live
    /\ joinSet' = {}
    /\ UNCHANGED <<conn, updater>>

\* `join_set.shutdown().await`, and the drop of a JoinSet: every task that has
\* not finished is aborted, and the set is empty afterwards.
AbortRemaining ==
    /\ conn' = [c \in Conns |-> IF conn[c] \in Live THEN "aborted" ELSE conn[c]]
    /\ updater' = IF updater \in Live THEN "aborted" ELSE updater
    /\ joinSet' = {}

-----------------------------------------------------------------------------
(* The supervisor task *)

\* Entry of `spawn`: the updater task is spawned into the JoinSet and the
\* discovery services are subscribed to, then the loop is entered.
SupervisorStart ==
    /\ pc = "start"
    /\ pc' = "loop"
    /\ updater' = "running"
    /\ joinSet' = joinSet \cup {Updater}
    /\ UNCHANGED <<cause, cancelled, down, handle, discoVars, engineVars,
                   addrVars, conn>>

\* Arm 1: shutdown was signalled; leave the loop.
OnCancelled ==
    /\ Selected("cancelled")
    /\ pc' = "shutdown"
    /\ cause' = "cancelled"
    /\ UNCHANGED <<cancelled, down, handle, taskVars, discoVars, engineVars,
                   addrVars>>

\* Mutant of `OnIncoming`: the discovery future is not cancel-safe, so the
\* item it had already taken is lost when the connection arm wins the select.
OnIncomingLosesDiscoveryItem(c) ==
    /\ Selected("incoming")
    /\ conn[c] = "incoming"
    /\ conn' = [conn EXCEPT ![c] = "handshaking"]
    /\ joinSet' = joinSet \cup {c}
    /\ discoveryStream' =
            IF discoveryStream = <<>> THEN <<>> ELSE Tail(discoveryStream)
    /\ UNCHANGED <<pc, cause, cancelled, down, handle, engineVars, addrVars,
                   updater, emitted>>

\* Arm 2: an inbound connection.  `incoming.accept()` may fail (retransmitted
\* datagrams), in which case the loop continues; otherwise a
\* `handle_connection` task is spawned into the JoinSet.
OnIncoming(c) ==
    /\ Selected("incoming")
    /\ conn[c] = "incoming"
    /\ \/ /\ conn' = [conn EXCEPT ![c] = "refused"]
          /\ UNCHANGED joinSet
       \/ /\ conn' = [conn EXCEPT ![c] = "handshaking"]
          /\ joinSet' = joinSet \cup {c}
    /\ UNCHANGED <<pc, cause, cancelled, down, handle, discoVars, engineVars,
                   addrVars, updater>>

\* Arm 3: the next item of the discovery stream.  A discovered peer is handed
\* to `engine.add_peer`; if that fails, or if the item is an error of a
\* discovery service, the loop is left.
OnDiscoveryEvent ==
    /\ Selected("discovery")
    /\ discoveryStream' = Tail(discoveryStream)
    /\ LET event == Head(discoveryStream) IN
        \/ /\ event \in Peers
           /\ EngineUp
           /\ addressBook' = addressBook \cup {event}
           /\ UNCHANGED <<pc, cause>>
        \/ /\ event \in Peers
           /\ ~EngineUp
           /\ pc' = "shutdown"
           /\ cause' = "add_peer_failed"
           /\ UNCHANGED addressBook
        \/ /\ event = DiscoveryError
           /\ pc' = "shutdown"
           /\ cause' = "discovery_failed"
           /\ UNCHANGED addressBook
    /\ UNCHANGED <<cancelled, down, handle, taskVars, addrVars, emitted,
                   engineFailed>>

\* Arm 4: `join_set.join_next()` yields a finished task.  A panic leaves the
\* loop; a task that returned is only forgotten.
OnTaskJoined(t) ==
    /\ Selected("joined")
    /\ t \in joinSet
    /\ State(t) \in Finished
    /\ joinSet' = joinSet \ {t}
    /\ IF State(t) = "panicked"
       THEN pc' = "shutdown" /\ cause' = "task_panicked"
       ELSE UNCHANGED <<pc, cause>>
    /\ UNCHANGED <<cancelled, down, handle, discoVars, engineVars, addrVars,
                   conn, updater>>

\* `NetworkInner::shutdown`: one of the three joined futures completes.  They
\* run concurrently, so they complete in any order, and child tasks still run
\* in between.
Close(r) ==
    /\ pc = "shutdown"
    /\ r \in Resources \ down
    /\ down' = down \cup {r}
    /\ UNCHANGED <<pc, cause, cancelled, handle, taskVars, discoVars,
                   engineVars, addrVars>>

\* After the join: abort the remaining tasks; the supervisor task returns.
FinishShutdown ==
    /\ pc = "shutdown"
    /\ down = Resources
    /\ AbortRemaining
    /\ pc' = "done"
    /\ UNCHANGED <<cause, cancelled, down, handle, discoVars, engineVars,
                   addrVars>>

Supervise ==
    \/ SupervisorStart
    \/ OnCancelled
    \/ \E c \in Conns : OnIncoming(c)
    \/ OnDiscoveryEvent
    \/ \E t \in Tasks : OnTaskJoined(t)
    \/ \E r \in Resources : Close(r)
    \/ FinishShutdown

-----------------------------------------------------------------------------
(* Child tasks *)

\* Mutant of `UpdateLocalAddress`: the addresses are advertised but not kept.
UpdateForgetsMyNodeAddr ==
    /\ updater = "running"
    /\ EndpointOpen
    /\ advertised # localAddr
    /\ advertised' = localAddr
    /\ UNCHANGED <<pc, cause, cancelled, down, handle, taskVars, discoVars,
                   engineVars, localAddr, myNodeAddr>>

\* The updater reads a change of the direct addresses, stores it in
\* `my_node_addr` and passes it to the discovery services, which may refuse
\* it (the error is only logged).
UpdateLocalAddress ==
    /\ updater = "running"
    /\ EndpointOpen
    /\ myNodeAddr # localAddr
    /\ myNodeAddr' = localAddr
    /\ advertised' \in {localAddr, advertised}
    /\ UNCHANGED <<pc, cause, cancelled, down, handle, taskVars, discoVars,
                   engineVars, localAddr>>

\* Mutant of `UpdaterReturns`: the updater leaves its loop while the stream
\* of direct addresses is only idle.
UpdaterReturnsEarly ==
    /\ updater = "running"
    /\ updater' = "closed"
    /\ UNCHANGED <<pc, cause, cancelled, down, handle, discoVars, engineVars,
                   addrVars, conn, joinSet>>

\* The stream of direct addresses ends with the endpoint: the updater leaves
\* its loop and returns Ok.
UpdaterReturns ==
    /\ updater = "running"
    /\ ~EndpointOpen
    /\ updater' = "closed"
    /\ UNCHANGED <<pc, cause, cancelled, down, handle, discoVars, engineVars,
                   addrVars, conn, joinSet>>

\* `handle_connection` up to the call of the handler: the handshake fails
\* (always, once the endpoint is closed), or it yields an ALPN, which either
\* has a handler that is now called or has none and the task returns.
ResolveAlpn(c) ==
    /\ conn[c] = "handshaking"
    /\ \/ conn' = [conn EXCEPT ![c] = "closed"]
       \/ /\ EndpointOpen
          /\ \E a \in Alpns :
                conn' = [conn EXCEPT ![c] =
                            IF a \in Registered THEN "accepting" ELSE "closed"]
    /\ UNCHANGED <<pc, cause, cancelled, down, handle, discoVars, engineVars,
                   addrVars, updater, joinSet>>

\* `handler.accept` ends: with Ok or Err the task returns Ok; a handler that
\* panics makes the task end with a panic.
HandlerEnds(c) ==
    /\ conn[c] = "accepting"
    /\ \E outcome \in Finished : conn' = [conn EXCEPT ![c] = outcome]
    /\ UNCHANGED <<pc, cause, cancelled, down, handle, discoVars, engineVars,
                   addrVars, updater, joinSet>>

-----------------------------------------------------------------------------
(* The application: operations on a `Network` handle *)

\* Mutant of `TaskJoined`: `shutdown` returns without awaiting the task.
TaskNotAwaited == TRUE

\* `self.task.await` resolves: the supervisor task has returned.
TaskJoined == pc = "done"

\* `Network::shutdown`, first half: set the token, then await the task.
Shutdown(h) ==
    /\ handle[h] = "held"
    /\ cancelled' = TRUE
    /\ handle' = [handle EXCEPT ![h] = "awaiting"]
    /\ UNCHANGED <<pc, cause, down, taskVars, discoVars, engineVars,
                   addrVars>>

\* `Network::shutdown`, second half: the task has ended, return Ok.
ShutdownReturns(h) ==
    /\ handle[h] = "awaiting"
    /\ TaskJoined
    /\ handle' = [handle EXCEPT ![h] = "returned"]
    /\ UNCHANGED <<pc, cause, cancelled, down, taskVars, discoVars,
                   engineVars, addrVars>>

\* `Network::add_peer`: forwarded to the engine, which stores the peer while
\* it runs (and answers with an error, changing nothing, once it does not).
AddPeer(h, p) ==
    /\ handle[h] = "held"
    /\ EngineUp
    /\ p \notin addressBook
    /\ addressBook' = addressBook \cup {p}
    /\ UNCHANGED <<pc, cause, cancelled, down, handle, taskVars, discoVars,
                   addrVars, engineFailed>>

\* A clone is dropped without `shutdown` while another clone, or the finished
\* task, makes that harmless.
DropHandle(h) ==
    /\ handle[h] = "held"
    /\ \/ pc = "done"
       \/ \E other \in Handles \ {h} : handle[other] \in {"held", "awaiting"}
    /\ handle' = [handle EXCEPT ![h] = "dropped"]
    /\ UNCHANGED <<pc, cause, cancelled, down, taskVars, discoVars,
                   engineVars, addrVars>>

\* The last clone is dropped while the supervisor runs: `AbortOnDropHandle`
\* aborts it where it stands, and its JoinSet is dropped with it.
DropLastHandle(h) ==
    /\ handle[h] = "held"
    /\ pc # "done"
    /\ \A other \in Handles \ {h} : handle[other] = "dropped"
    /\ handle' = [handle EXCEPT ![h] = "dropped"]
    /\ pc' = "aborted"
    /\ AbortRemaining
    /\ UNCHANGED <<cause, cancelled, down, discoVars, engineVars, addrVars>>

-----------------------------------------------------------------------------
(* The environment: transport, discovery services, engine *)

\* A remote peer dials the endpoint.
Dial(c) ==
    /\ conn[c] = "remote"
    /\ EndpointOpen
    /\ conn' = [conn EXCEPT ![c] = "incoming"]
    /\ UNCHANGED <<pc, cause, cancelled, down, handle, discoVars, engineVars,
                   addrVars, updater, joinSet>>

\* The datagrams of a refused connection are retransmitted ("this may be
\* caused by retransmitted datagrams so we continue"): the same connection
\* waits in `endpoint.accept()` again, any number of times.
Retransmit(c) ==
    /\ conn[c] = "refused"
    /\ EndpointOpen
    /\ conn' = [conn EXCEPT ![c] = "incoming"]
    /\ UNCHANGED <<pc, cause, cancelled, down, handle, discoVars, engineVars,
                   addrVars, updater, joinSet>>

\* A discovery service reports a peer, or fails.
DiscoveryEmits(item) ==
    /\ emitted < MaxDiscoveryEvents
    /\ emitted' = emitted + 1
    /\ discoveryStream' = Append(discoveryStream, item)
    /\ UNCHANGED <<pc, cause, cancelled, down, handle, taskVars, engineVars,
                   addrVars>>

\* The endpoint learns new direct addresses.
DirectAddressChange ==
    /\ EndpointOpen
    /\ localAddr < MaxAddrChanges
    /\ localAddr' = localAddr + 1
    /\ UNCHANGED <<pc, cause, cancelled, down, handle, taskVars, discoVars,
                   engineVars, myNodeAddr, advertised>>

\* The engine stops by itself; its operations fail from now on.
EngineFails ==
    /\ EngineUp
    /\ engineFailed' = TRUE
    /\ UNCHANGED <<pc, cause, cancelled, down, handle, taskVars, discoVars,
                   addrVars, addressBook>>

-----------------------------------------------------------------------------
(* Specification *)

Init ==
    /\ pc = "start"
    /\ cause = "none"
    /\ cancelled = FALSE
    /\ down = {}
    /\ engineFailed = FALSE
    /\ conn = [c \in Conns |-> "remote"]
    /\ updater = "unspawned"
    /\ joinSet = {}
    /\ discoveryStream = <<>>
    /\ emitted = 0
    /\ addressBook = {}
    /\ localAddr = 0
    /\ myNodeAddr = 0
    /\ advertised = 0
    /\ handle = [h \in Handles |-> "held"]

ChildTasks ==
    \/ UpdateLocalAddress
    \/ UpdaterReturns
    \/ \E c \in Conns : ResolveAlpn(c)
    \/ \E c \in Conns : HandlerEnds(c)

Application ==
    \E h \in Handles :
        \/ Shutdown(h)
        \/ ShutdownReturns(h)
        \/ \E p \in Peers : AddPeer(h, p)
        \/ DropHandle(h)
        \/ DropLastHandle(h)

Environment ==
    \/ \E c \in Conns : Dial(c)
    \/ \E c \in Conns : Retransmit(c)
    \/ \E item \in Peers \cup {DiscoveryError} : DiscoveryEmits(item)
    \/ DirectAddressChange
    \/ EngineFails

Next == Supervise \/ ChildTasks \/ Application \/ Environment

\* The runtime polls every task that can run: the supervisor, the updater,
\* the handshake of an accepted connection (which the transport ends by
\* success, failure or timeout) and a caller awaiting the finished task.
\* Nothing is assumed of the application, of remote peers, or of how long a
\* protocol handler keeps a connection.
Fairness ==
    /\ WF_vars(Supervise)
    /\ WF_vars(UpdateLocalAddress \/ UpdaterReturns)
    /\ \A c \in Conns : WF_vars(ResolveAlpn(c))
    /\ \A h \in Handles : WF_vars(ShutdownReturns(h))

Spec == Init /\ [][Next]_vars
FairSpec == Spec /\ Fairness

-----------------------------------------------------------------------------
(* Properties *)

TypeOK ==
    /\ pc \in {"start", "loop", "shutdown", "done", "aborted"}
    /\ cause \in {"none", "cancelled", "discovery_failed", "add_peer_failed",
                  "task_panicked"}
    /\ cancelled \in BOOLEAN
    /\ down \subseteq Resources
    /\ engineFailed \in BOOLEAN
    /\ conn \in [Conns -> ConnStates]
    /\ updater \in {"unspawned", "running", "closed", "aborted"}
    /\ joinSet \subseteq Tasks
    /\ discoveryStream \in Seq(Peers \cup {DiscoveryError})
    /\ Len(discoveryStream) <= emitted
    /\ emitted \in 0..MaxDiscoveryEvents
    /\ addressBook \subseteq Peers
    /\ localAddr \in 0..MaxAddrChanges
    /\ myNodeAddr \in 0..localAddr
    /\ advertised \in 0..myNodeAddr
    /\ handle \in [Handles -> {"held", "awaiting", "returned", "dropped"}]

\* Shutdown has strict priority (the `biased;` select of `spawn`): from the
\* moment the cancellation token is set the loop accepts no further inbound
\* connection, reads no further discovery item and joins no single task,
\* whatever is ready when it is polled next.
ShutdownTakesPriority ==
    [][cancelled =>
        /\ \A c \in Conns : conn[c] = "incoming" => conn'[c] = "incoming"
        /\ Len(discoveryStream') >= Len(discoveryStream)
        /\ joinSet \subseteq joinSet' \/ joinSet' = {}]_vars

\* Once `Network::shutdown` has returned on any clone, the node is silent:
\* no connection task takes a step, no handler is entered, the engine's
\* address book and the addresses given to discovery stay as they are, and
\* everything `NetworkInner::shutdown` closes is closed.
QuietAfterShutdown ==
    [][(\E h \in Handles : handle[h] = "returned") =>
        /\ down = Resources
        /\ UNCHANGED <<conn, updater, addressBook, myNodeAddr, advertised>>]_vars

\* A call of `Network::shutdown` returns: the supervisor leaves its loop at
\* the next poll, the three closes complete, and the remaining child tasks
\* are aborted rather than waited for, however long a handler would run.
ShutdownCompletes ==
    \A h \in Handles : handle[h] = "awaiting" ~> handle[h] = "returned"

\* The arm of `discovery_stream.next()` stands below `endpoint.accept()` in
\* the biased select, so a connection that is pending at every poll keeps a
\* discovered peer on the stream for good.  What the loop does promise: once
\* inbound connections stop arriving, every peer that discovery reported
\* reaches the address book, unless the supervisor leaves its loop first;
\* no item is lost with a future the select dropped.
DiscoveredPeerIsAdded ==
    <>[](\A c \in Conns : conn[c] # "incoming") =>
        \A p \in Peers :
            (\E i \in DOMAIN discoveryStream : discoveryStream[i] = p)
                ~> (p \in addressBook \/ pc \notin {"start", "loop"})

\* The updater task follows the endpoint for as long as the endpoint is open:
\* every change of the direct addresses reaches `my_node_addr`, whatever the
\* select loop is busy with and whichever tasks it joins meanwhile; the
\* updater ends only with the endpoint or, when the last handle is dropped,
\* with the supervisor and its JoinSet.
AddressIsFollowed ==
    \A v \in 1..MaxAddrChanges :
        localAddr = v ~> (myNodeAddr >= v \/ ~EndpointOpen \/ pc = "aborted")

-----------------------------------------------------------------------------
(* What the specification says and the code does not do *)

\* "Discovery provider errors never terminate the discovery stream": the
\* supervisor never stops reading the stream because a discovery service
\* reported an error.  (`spawn` breaks out of the loop on `Err(err)`.)
DiscoveryErrorIsSurvived ==
    cause # "discovery_failed"

\* "Panic in a child task: fatal ... surfaced via the task join handle of
\* shutdown": `Network::shutdown` does not return Ok on a node whose
\* supervisor stopped because a child task panicked.  (`spawn` logs the panic
\* and returns normally, so the awaited task yields Ok.)
ChildPanicIsSurfaced ==
    \A h \in Handles : handle[h] = "returned" => cause # "task_panicked"

\* "Discovered peers are added to the local address book so they may be
\* involved in connection and gossip activities" (documentation of `spawn`):
\* a peer that discovery reported reaches the address book unless the
\* supervisor leaves its loop first.  (The arm of `endpoint.accept()` stands
\* above the arm of the discovery stream in the biased select, and nothing
\* limits inbound connections: one that is pending at every poll wins every
\* time.)
DiscoveryIsNeverStarved ==
    \A p \in Peers :
        (\E i \in DOMAIN discoveryStream : discoveryStream[i] = p)
            ~> (p \in addressBook \/ pc \notin {"start", "loop"})

-----------------------------------------------------------------------------
(* Refinement *)

\* The node is stopping from the moment the token is set or the loop is left,
\* and stopped when the supervisor task has returned or was aborted.
Lifecycle ==
    INSTANCE NodeLifecycle WITH
        phase <- CASE pc \in {"done", "aborted"} -> "stopped"
                   [] pc = "shutdown" \/ cancelled -> "stopping"
                   [] OTHER -> "running",
        serving <- {c \in Conns : conn[c] \in Live}

\* The supervisor implements the node lifecycle: a connection is accepted
\* only while nobody asked for shutdown, the return (or abort) of the
\* supervisor task leaves no `handle_connection` task behind, and a stopped
\* node stays stopped.
ImplementsLifecycle == Lifecycle!LifecycleSpec

=============================================================================
