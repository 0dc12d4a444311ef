------------------------------- MODULE Engine -------------------------------
(***************************************************************************)
(* The engine of one node: the address book, the topic registry, the sync  *)
(* scheduler with its sessions, and the gossip buffer that holds live      *)
(* messages back while a topic is being synced.                            *)
(*                                                                         *)
(* `Network` hands `add_peer`, `known_peers` and `subscribe` to the        *)
(* engine and the supervisor hands it the peers of discovery; the engine   *)
(* itself is outside network.rs and is modelled from the specification of  *)
(* the node.  The remote peers, the overlay and the application are the    *)
(* environment: sessions proceed, stall or fail, messages arrive on the    *)
(* overlay, the application reads from its channels or does not.           *)
(***************************************************************************)
EXTENDS Naturals, Sequences, FiniteSets, SequencesExt

CONSTANTS
    Peers,          \* remote peer ids, numbers: the scheduler orders them
    Topics,         \* topic identities of the application
    TopicId,        \* the projection of a topic to the id of its overlay
    MaxConcurrent,  \* sessions the scheduler runs at a time
    MaxAttempts,    \* attempts per peer and topic (1: no resync configured)
    MaxInbound,     \* bound: sessions the remote peers open
    MaxData,        \* bound: Data events of one session
    MaxGossip,      \* bound: messages that arrive on the overlays
    MaxBuffered,    \* `max_buffered_per_topic`
    Capacity        \* capacity of the channel to the application (128)

Ids == {TopicId[t] : t \in Topics}

ASSUME
    /\ Peers \subseteq Nat /\ IsFiniteSet(Peers)
    /\ \A t \in Topics : TopicId[t] \in Nat
    /\ {MaxConcurrent, MaxAttempts, MaxBuffered, Capacity} \subseteq Nat \ {0}
    /\ {MaxInbound, MaxData, MaxGossip} \subseteq Nat

VARIABLES
    running,   \* the engine has not been shut down
    book,      \* Address Book: the peers with a record
    subs,      \* Topic Registry: the topics with a Subscription
    ready,     \* the subscriptions whose ready signal has fired
    sessions,  \* the SyncSessions that are not terminal
    attempt,   \* per peer and topic: sessions the scheduler has started
    inbound,   \* sessions accepted so far
    hold,      \* Gossip Buffer: hold counter per topic id
    buffer,    \* Gossip Buffer: held messages per topic id, oldest first
    dropped,   \* Gossip Buffer: messages dropped on overflow, per topic id
    arrived,   \* messages the overlays have emitted so far
    sink       \* per topic: the `to_app` channel of its subscription

vars == <<running, book, subs, ready, sessions, attempt, inbound, hold,
          buffer, dropped, arrived, sink>>
registry  == <<subs, ready>>
scheduler == <<sessions, attempt, inbound, hold>>
gossip    == <<buffer, dropped, arrived>>

Pairs == Peers \X Topics

NonTerminal == {"pending", "handshaking", "transferring", "draining"}

SyncSession ==
    [peer : Peers, topic : Topics, direction : {"initiator", "acceptor"},
     state : NonTerminal, sent : 0..MaxData]

\* `FromNetwork`: a gossip message is told apart by its number of arrival,
\* a sync message by the peer of its session.
GossipMessage(n) == <<"GossipMessage", n>>
SyncMessage(p)   == <<"SyncMessage", p>>

-----------------------------------------------------------------------------
(* Address Book and Topic Registry *)

Subscribers(id) == {t \in subs : TopicId[t] = id}

\* `insert_or_merge`: `add_peer` of the application or PeerFound of
\* discovery.  Records are merged, so a peer has one record.
InsertOrMerge(p) ==
    /\ running
    /\ book' = book \cup {p}
    /\ UNCHANGED <<running, registry, scheduler, gossip, sink>>

\* The overlay of `id` reports neighbour p: the ready signal of its
\* subscriptions fires, the address book gets a gossip-neighbour update.
NeighbourUp(id, p) ==
    /\ running
    /\ Subscribers(id) # {}
    /\ ready' = ready \cup Subscribers(id)
    /\ book' = book \cup {p}
    /\ UNCHANGED <<running, subs, scheduler, gossip, sink>>

\* `subscribe`: one Subscription per topic identity, with a fresh channel;
\* the overlay of the topic id is joined or, if it is, shared.  (A second
\* subscribe for the topic is an error and changes nothing.)
Subscribe(t) ==
    /\ running
    /\ t \notin subs
    /\ subs' = subs \cup {t}
    /\ sink' = [sink EXCEPT ![t] = <<>>]
    /\ UNCHANGED <<running, book, ready, scheduler, gossip>>

-----------------------------------------------------------------------------
(* Sync Scheduler *)

InFlight(id) == {k \in sessions : TopicId[k.topic] = id}
OnTopic(t)   == {k \in sessions : k.topic = t}

\* The mutex of (peer, topic) is held by its session.
Locked(c) == \E k \in sessions : <<k.peer, k.topic>> = c

Candidates ==
    {c \in book \X subs :
        ~Locked(c) /\ (attempt[c] = 0 \/ attempt[c] < MaxAttempts)}

\* The selection policy: never-attempted candidates first, then the least
\* (topic id, peer id).
Rank(c) == <<TopicId[c[2]], c[1]>>
Preferred(c, d) ==
    \/ attempt[c] = 0 /\ attempt[d] # 0
    \/ /\ (attempt[c] = 0) = (attempt[d] = 0)
       /\ \/ Rank(c)[1] < Rank(d)[1]
          \/ Rank(c)[1] = Rank(d)[1] /\ Rank(c)[2] < Rank(d)[2]

Started(p, t, direction) ==
    [peer |-> p, topic |-> t, direction |-> direction,
     state |-> "pending", sent |-> 0]

\* Mutant of `Held`: the gossip buffer is not asked to hold.
NotHeld(id) == hold

\* The hold counters when a session for topic id `id` enters `pending`.
Held(id) == [hold EXCEPT ![id] = @ + 1]

\* Mutant of `Unheld`: the counters are left as they are.
StillHeld(ended) == hold

\* The hold counters when the sessions `ended` reach a terminal state.
Unheld(ended) ==
    [id \in Ids |-> hold[id] - Cardinality(ended \cap InFlight(id))]

\* The scheduler promotes the best candidate to a running session: the
\* mutex of the pair is taken and the buffer holds for the topic id.
Promote(c) ==
    /\ running
    /\ c \in Candidates
    /\ \A d \in Candidates : ~Preferred(d, c)
    /\ Cardinality({k \in sessions : k.direction = "initiator"})
           < MaxConcurrent
    /\ sessions' = sessions \cup {Started(c[1], c[2], "initiator")}
    /\ attempt' = [attempt EXCEPT ![c] = @ + 1]
    /\ hold' = Held(TopicId[c[2]])
    /\ UNCHANGED <<running, book, registry, inbound, gossip, sink>>

MutexFree(c) == ~Locked(c)

\* The router hands over a stream that peer p opened for topic t: the
\* session takes the mutex of the pair once it is free.
Accept(p, t) ==
    /\ running
    /\ t \in subs
    /\ inbound < MaxInbound
    /\ MutexFree(<<p, t>>)
    /\ sessions' = sessions \cup {Started(p, t, "acceptor")}
    /\ inbound' = inbound + 1
    /\ hold' = Held(TopicId[t])
    /\ UNCHANGED <<running, book, registry, attempt, gossip, sink>>

Moved(k, state) == (sessions \ {k}) \cup {[k EXCEPT !.state = state]}

\* The session reaches `done` or `failed`: the mutex is released and the
\* gossip buffer is told to release.
Terminate(k) ==
    /\ sessions' = sessions \ {k}
    /\ hold' = Unheld({k})
    /\ UNCHANGED <<running, book, registry, attempt, inbound, gossip, sink>>

Proceed(k, from, to) ==
    /\ k \in sessions
    /\ k.state = from
    /\ sessions' = Moved(k, to)
    /\ UNCHANGED <<running, book, registry, attempt, inbound, hold, gossip,
                   sink>>

\* The initiator has dialled the peer, the acceptor has its stream.
Connect(k) == Proceed(k, "pending", "handshaking")

\* The protocol reports HandshakeSuccess(announced): the initiator reports
\* its own topic, the acceptor the one the remote sent, which may be
\* another topic of the same id: TopicMismatch.
Handshake(k, announced) ==
    /\ k \in sessions
    /\ k.state = "handshaking"
    /\ TopicId[announced] = TopicId[k.topic]
    /\ k.direction = "initiator" => announced = k.topic
    /\ IF announced = k.topic
       THEN Proceed(k, "handshaking", "transferring")
       ELSE Terminate(k)

\* Mutant of `HasRoom`: the channel is taken as unbounded.
AlwaysRoom(t) == TRUE

\* `mpsc::channel::<FromNetwork>(128)`: a send waits while the channel is
\* full.
HasRoom(t) == Len(sink[t]) < Capacity

\* The protocol emits Data: a SyncMessage from the remote peer on the
\* subscription.  The protocol is blocked while the channel is full.
Data(k) ==
    /\ k \in sessions
    /\ k.state = "transferring"
    /\ k.sent < MaxData
    /\ HasRoom(k.topic)
    /\ sink' = [sink EXCEPT ![k.topic] = Append(@, SyncMessage(k.peer))]
    /\ sessions' = (sessions \ {k}) \cup {[k EXCEPT !.sent = @ + 1]}
    /\ UNCHANGED <<running, book, registry, attempt, inbound, hold, gossip>>

EndOfStream(k) == Proceed(k, "transferring", "draining")

\* The protocol has flushed its sinks: `done`.
Finalise(k) == k \in sessions /\ k.state = "draining" /\ Terminate(k)

\* A transport or protocol error: `failed`.
Fail(k) == k \in sessions /\ Terminate(k)

\* Mutant of `Idle`: the timer is stopped once the handshake is done.
IdleInHandshake(k) == k.state \in {"pending", "handshaking"}

\* A session can stop making progress in every state: the remote stalls or
\* the application does not read.
Idle(k) == k.state \in NonTerminal

\* `session_timeout` passes without progress: `failed`.
Timeout(k) == k \in sessions /\ Idle(k) /\ Terminate(k)

-----------------------------------------------------------------------------
(* Gossip Buffer *)

Room(id) == \A t \in Subscribers(id) : HasRoom(t)

\* Fan-out: a copy for every subscription whose topic projects to `id`.
Delivered(id, n) ==
    [t \in Topics |->
        IF t \in Subscribers(id) THEN Append(sink[t], GossipMessage(n))
                                 ELSE sink[t]]

\* A message is delivered as it arrives when nothing is held for its topic
\* id and nothing waits to be released.
Live(id) == hold[id] = 0 /\ buffer[id] = <<>> /\ Room(id)

\* The overlay of `id` emits a message.  It goes to the application, or
\* behind the messages in the buffer, where the oldest makes room for it
\* when the buffer is full.  The overlay is never blocked.
Arrive(id) ==
    /\ running
    /\ Subscribers(id) # {}
    /\ arrived < MaxGossip
    /\ arrived' = arrived + 1
    /\ \/ /\ Live(id)
          /\ sink' = Delivered(id, arrived')
          /\ UNCHANGED <<buffer, dropped>>
       \/ /\ ~Live(id)
          /\ LET full == Len(buffer[id]) = MaxBuffered IN
              /\ buffer' = [buffer EXCEPT ![id] =
                     Append(IF full THEN Tail(@) ELSE @, arrived')]
              /\ dropped' = [dropped EXCEPT ![id] = IF full THEN @ + 1 ELSE @]
          /\ UNCHANGED sink
    /\ UNCHANGED <<running, book, registry, scheduler>>

\* Mutant of `Oldest`: the flush takes the messages from the back.
Newest(id) == Len(buffer[id])

\* The place in the buffer of the message the flush takes next.
Oldest(id) == 1

\* The buffer is flushed, oldest message first, once no session holds the
\* topic id; each release awaits room in the channels.
Release(id) ==
    /\ hold[id] = 0
    /\ buffer[id] # <<>>
    /\ Room(id)
    /\ sink' = Delivered(id, buffer[id][Oldest(id)])
    /\ buffer' = [buffer EXCEPT ![id] = RemoveAt(@, Oldest(id))]
    /\ UNCHANGED <<running, book, registry, scheduler, dropped, arrived>>

-----------------------------------------------------------------------------
(* Application and shutdown *)

\* The application takes an event from its channel.
AppRecv(t) ==
    /\ t \in subs
    /\ sink[t] # <<>>
    /\ sink' = [sink EXCEPT ![t] = Tail(@)]
    /\ UNCHANGED <<running, book, registry, scheduler, gossip>>

\* The application drops its channels: the sessions of the topic are
\* cancelled and what the buffer holds is discarded, as it is when the last
\* subscription of the topic id ends and the overlay is left.
Unsubscribe(t) ==
    /\ t \in subs
    /\ subs' = subs \ {t}
    /\ ready' = ready \ {t}
    /\ sessions' = sessions \ OnTopic(t)
    /\ hold' = Unheld(OnTopic(t))
    /\ LET id == TopicId[t] IN
         buffer' = IF OnTopic(t) # {} \/ Subscribers(id) = {t}
                   THEN [buffer EXCEPT ![id] = <<>>] ELSE buffer
    /\ sink' = [sink EXCEPT ![t] = <<>>]
    /\ UNCHANGED <<running, book, attempt, inbound, dropped, arrived>>

\* The cancellation token: every session aborts, the overlays are left,
\* the buffer drops its holds, the subscriptions end.
Shutdown ==
    /\ running
    /\ running' = FALSE
    /\ subs' = {}
    /\ ready' = {}
    /\ sessions' = {}
    /\ hold' = Unheld(sessions)
    /\ buffer' = [id \in Ids |-> <<>>]
    /\ sink' = [t \in Topics |-> <<>>]
    /\ UNCHANGED <<book, attempt, inbound, dropped, arrived>>

-----------------------------------------------------------------------------

Init ==
    /\ running = TRUE
    /\ book = {}
    /\ subs = {}
    /\ ready = {}
    /\ sessions = {}
    /\ attempt = [c \in Pairs |-> 0]
    /\ inbound = 0
    /\ hold = [id \in Ids |-> 0]
    /\ buffer = [id \in Ids |-> <<>>]
    /\ dropped = [id \in Ids |-> 0]
    /\ arrived = 0
    /\ sink = [t \in Topics |-> <<>>]

Api ==
    \/ \E t \in Topics : Subscribe(t) \/ Unsubscribe(t) \/ AppRecv(t)
    \/ Shutdown

Progress(k) ==
    \/ Connect(k) \/ Data(k) \/ EndOfStream(k) \/ Finalise(k) \/ Fail(k)
    \/ \E t \in Topics : Handshake(k, t)

Next ==
    \/ Api
    \/ \E p \in Peers : InsertOrMerge(p)
    \/ \E id \in Ids, p \in Peers : NeighbourUp(id, p)
    \/ \E c \in Pairs : Promote(c) \/ Accept(c[1], c[2])
    \/ \E k \in SyncSession : Progress(k) \/ Timeout(k)
    \/ \E id \in Ids : Arrive(id) \/ Release(id)

Spec == Init /\ [][Next]_vars

\* The timer of a session is the engine's own and fires when the session
\* makes no progress.  Nothing is assumed of the remote peers, the overlay
\* or the application.
FairSpec == Spec /\ \A k \in SyncSession : WF_vars(Timeout(k))

-----------------------------------------------------------------------------
(* Properties *)

TypeOK ==
    /\ running \in BOOLEAN
    /\ book \subseteq Peers
    /\ ready \subseteq subs /\ subs \subseteq Topics
    /\ sessions \subseteq SyncSession
    /\ attempt \in [Pairs -> 0..MaxAttempts]
    /\ inbound \in 0..MaxInbound
    /\ hold \in [Ids -> Nat]
    /\ buffer \in [Ids -> Seq(1..MaxGossip)]
    /\ dropped \in [Ids -> 0..MaxGossip]
    /\ arrived \in 0..MaxGossip
    /\ \A id \in Ids : Len(buffer[id]) <= MaxBuffered
    /\ \A t \in Topics : Len(sink[t]) <= Capacity
    /\ Cardinality({k \in sessions : k.direction = "initiator"})
           <= MaxConcurrent

\* The hold counter of a topic id is the number of its sessions that are
\* not terminal, through every way a session can end: done, failed, timed
\* out, cancelled with its subscription or with the engine.
HoldCountsSessions ==
    \A id \in Ids : hold[id] = Cardinality(InFlight(id))

GossipReaches(t) ==
    /\ Len(sink'[t]) = Len(sink[t]) + 1
    /\ Last(sink'[t])[1] = "GossipMessage"

\* Sync before live: no gossip message reaches a subscription while a
\* session of its topic id is not terminal, so what a session delivers
\* comes before the gossip that arrived during the session.
SyncBeforeLive ==
    [][\A t \in Topics : GossipReaches(t) => InFlight(TopicId[t]) = {}]_vars

\* The gossip messages of a channel, by their number of arrival.
GossipOf(q) ==
    LET g == SelectSeq(q, LAMBDA e : e[1] = "GossipMessage")
    IN  [i \in DOMAIN g |-> g[i][2]]

Ascending(q) == \A i, j \in DOMAIN q : i < j => q[i] < q[j]

\* A subscription gets the gossip of its overlay in the order of arrival:
\* when a message reaches it, what its channel holds and what the buffer
\* still holds for it are, one after the other, in the order the overlay
\* emitted them.  This is about the flush of several held messages
\* (`Release`), the drop of the oldest at the cap and the messages that
\* arrive while the flush waits for room in the channel (`Arrive`).
GossipInArrivalOrder ==
    [][\A t \in Topics : GossipReaches(t) =>
           Ascending(GossipOf(sink'[t]) \o buffer'[TopicId[t]])]_vars

\* A hold on a topic id is released: every session ends, by itself or by
\* `session_timeout`, also one that is blocked on an application that does
\* not read, so held gossip is not held forever.
HoldsAreReleased ==
    \A id \in Ids : hold[id] > 0 ~> hold[id] = 0

=============================================================================
