---------------------------- MODULE SyncProtocols ----------------------------
(***************************************************************************)
(* One sync session between two nodes running the same toy protocol of     *)
(* `mod sync_protocols`: `DummyProtocol` or `PingPongProtocol`.            *)
(*                                                                         *)
(* The initiator runs `initiate`, the acceptor runs `accept`.  Each writes *)
(* CBOR messages to the other over one direction of a bidirectional        *)
(* stream and reports to its application over `app_tx`.  A message         *)
(* `Topic(t)` is written as the topic `t` itself; the other messages are   *)
(* the strings "Done", "Ping" and "Pong".                                  *)
(*                                                                         *)
(* The transport and the application are outside the source: the link may  *)
(* fail, the application may drop the receiver of `app_tx`, and a remote   *)
(* that does not follow the protocol may put any message on the stream.    *)
(***************************************************************************)
EXTENDS Naturals, Sequences, SequencesExt

CONSTANTS
    Topics,      \* topics a session may be about
    MaxInjected  \* bound: messages a misbehaving remote adds to the streams

ASSUME MaxInjected \in Nat

VARIABLES
    protocol,  \* the protocol both nodes are configured with
    topic,     \* the `topic` argument of `initiate`
    pc,        \* per role: where `initiate` / `accept` is
    wire,      \* per role: messages written to it and not yet read
    linkUp,    \* the connection between the two nodes is alive
    app,       \* per role: what was sent on `app_tx`
    appOpen,   \* per role: the receiver of `app_tx` still exists
    injected   \* number of messages added by a misbehaving remote

vars == <<protocol, topic, pc, wire, linkUp, app, appOpen, injected>>

-----------------------------------------------------------------------------
(* Vocabulary *)

Initiator == "initiator"
Acceptor  == "acceptor"
Roles     == {Initiator, Acceptor}
Peer(r)   == IF r = Initiator THEN Acceptor ELSE Initiator

Protocols == {"dummy", "pingpong"}

\* `DummyProtocolMessage` has Topic and Done, `Message` has Topic, Ping and
\* Pong; a message of the other protocol does not decode.
Messages == Topics \cup {"Done", "Ping", "Pong"}

\* Mutant of `HandshakeSuccess`: the bare topic is handed to the application.
BareTopic(t) == t

HandshakeSuccess(t) == <<"HandshakeSuccess", t>>
Data(header)        == <<"Data", header>>
Events == ({"HandshakeSuccess"} \X Topics) \cup ({"Data"} \X {"PING", "PONG"})

Ended == {"ok", "err", "panicked"}

-----------------------------------------------------------------------------
(* Streams and sinks *)

\* What `stream.next().await` resolves to for role r: the next message, the
\* end of a stream whose writer has returned, an error once the link is
\* gone; "pending" while it does not resolve.
Incoming(r) ==
    CASE ~linkUp              -> "reset"
      [] wire[r] # <<>>       -> Head(wire[r])
      [] pc[Peer(r)] \in Ended -> "eof"
      [] OTHER                -> "pending"

\* The streams after role r has written the messages `out` to its peer...
Written(r, out) == [wire EXCEPT ![Peer(r)] = @ \o out]

\* ... and after it has first read what `Incoming(r)` resolved to.
Exchanged(r, out) ==
    [Written(r, out) EXCEPT
        ![r] = IF Incoming(r) \in Messages THEN Tail(@) ELSE @]

Delivered(r, event) == [app EXCEPT ![r] = Append(@, event)]

At(r, where) == [pc EXCEPT ![r] = where]

\* Mutant of `Leave`: the loop is not left, the role reads on.
KeepReading(r) == {"read"}

\* `sink.flush().await?`, `app_tx.flush().await?` and `Ok(())`: how the call
\* can return once the read loop is left.  Flushing a stream whose link is
\* gone, or a sink whose receiver is gone, may or may not report it.
Leave(r) == IF linkUp /\ appOpen[r] THEN {"ok"} ELSE {"ok", "err"}

\* The two flushes after the read loop: the link and the application may
\* have gone away since the loop was left.
Flush(r) ==
    /\ pc[r] = "flush"
    /\ \E outcome \in Leave(r) : pc' = At(r, outcome)
    /\ UNCHANGED <<protocol, topic, wire, linkUp, app, appOpen, injected>>

-----------------------------------------------------------------------------
(* initiate *)

\* Mutants of the openings: the second message is forgotten, or sent first.
TopicOnly(t) == <<t>>
PingFirst(t) == <<"Ping", t>>

\* The messages `initiate` writes before it reads anything.
DummyOpening(t)    == <<t, "Done">>
PingPongOpening(t) == <<t, "Ping">>

\* `initiate` up to its read loop: write the opening, then announce the
\* handshake to the application.  Each `?` returns Err: on the first write
\* when the link is gone, on the announcement when the application is.
Initiate(opening) ==
    /\ pc[Initiator] = "start"
    /\ \/ /\ ~linkUp
          /\ pc' = At(Initiator, "err")
          /\ UNCHANGED <<wire, app>>
       \/ /\ linkUp
          /\ wire' = Written(Initiator, opening)
          /\ IF appOpen[Initiator]
             THEN /\ app' = Delivered(Initiator, HandshakeSuccess(topic))
                  /\ pc' = At(Initiator, "read")
             ELSE /\ pc' = At(Initiator, "err")
                  /\ UNCHANGED app
    /\ UNCHANGED <<protocol, topic, linkUp, appOpen, injected>>

DummyInitiate ==
    protocol = "dummy" /\ Initiate(DummyOpening(topic))

PingPongInitiate ==
    protocol = "pingpong" /\ Initiate(PingPongOpening(topic))

\* The read loop of `DummyProtocol::initiate`: a Topic panics, Done or the
\* end of the stream leaves the loop for the flushes, anything else (a
\* transport error, a message that does not decode) returns Err.
DummyInitiatorReads ==
    /\ protocol = "dummy"
    /\ pc[Initiator] = "read"
    /\ LET m == Incoming(Initiator) IN
        /\ m # "pending"
        /\ pc' = At(Initiator, CASE m \in Topics          -> "panicked"
                                 [] m \in {"Done", "eof"} -> "flush"
                                 [] OTHER                 -> "err")
    /\ wire' = Exchanged(Initiator, <<>>)
    /\ UNCHANGED <<protocol, topic, linkUp, app, appOpen, injected>>

\* The read loop of `PingPongProtocol::initiate`: a Pong
\* is reported to the application (`unwrap`: a closed channel panics) and
\* leaves the loop; a Topic panics; a Ping is unexpected behaviour.
PingPongInitiatorReads ==
    /\ protocol = "pingpong"
    /\ pc[Initiator] = "read"
    /\ LET m == Incoming(Initiator)
           reported == m = "Pong" /\ appOpen[Initiator] IN
        /\ m # "pending"
        /\ app' = IF reported THEN Delivered(Initiator, Data("PONG")) ELSE app
        /\ pc' = At(Initiator, CASE reported \/ m = "eof"        -> "flush"
                                 [] m \in Topics \cup {"Pong"} -> "panicked"
                                 [] OTHER                      -> "err")
    /\ wire' = Exchanged(Initiator, <<>>)
    /\ UNCHANGED <<protocol, topic, linkUp, appOpen, injected>>

-----------------------------------------------------------------------------
(* accept *)

\* Mutants of the replies: nothing is written back, or the topic is.
NoReply == <<>>
TopicReply == <<topic>>

DummyReply    == <<"Done">>
PingPongReply == <<"Pong">>

\* `DummyProtocol::accept`: a Topic is announced to the application (`?`: a
\* closed channel returns Err) and the loop goes on; Done or the end of the
\* stream leaves the loop and Done is written back; anything else returns
\* Err.
DummyAcceptorReads ==
    /\ protocol = "dummy"
    /\ pc[Acceptor] = "read"
    /\ LET m == Incoming(Acceptor)
           announced == m \in Topics /\ appOpen[Acceptor]
           leaving == m \in {"Done", "eof"} IN
        /\ m # "pending"
        /\ app' = IF announced
                  THEN Delivered(Acceptor, HandshakeSuccess(m)) ELSE app
        /\ wire' = Exchanged(Acceptor, IF leaving THEN DummyReply ELSE <<>>)
        /\ pc' = At(Acceptor, CASE announced -> "read"
                                [] leaving   -> "flush"
                                [] OTHER     -> "err")
    /\ UNCHANGED <<protocol, topic, linkUp, appOpen, injected>>

\* `PingPongProtocol::accept`: a Topic is announced as above; a Ping is
\* reported to the application (`unwrap`: a closed channel panics), answered
\* with Pong, and leaves the loop; a Pong is unexpected behaviour; the end
\* of the stream leaves the loop with nothing written.
PingPongAcceptorReads ==
    /\ protocol = "pingpong"
    /\ pc[Acceptor] = "read"
    /\ LET m == Incoming(Acceptor)
           announced == m \in Topics /\ appOpen[Acceptor]
           reported == m = "Ping" /\ appOpen[Acceptor] IN
        /\ m # "pending"
        /\ app' = CASE announced -> Delivered(Acceptor, HandshakeSuccess(m))
                    [] reported  -> Delivered(Acceptor, Data("PING"))
                    [] OTHER     -> app
        /\ wire' = Exchanged(Acceptor, IF reported THEN PingPongReply ELSE <<>>)
        /\ pc' = At(Acceptor, CASE announced             -> "read"
                                [] reported \/ m = "eof" -> "flush"
                                [] m = "Ping"            -> "panicked"
                                [] OTHER                 -> "err")
    /\ UNCHANGED <<protocol, topic, linkUp, appOpen, injected>>

-----
(* The environment *)

\* The connection is lost: every later read and write fails.
LinkFails ==
    /\ linkUp
    /\ linkUp' = FALSE
    /\ UNCHANGED <<protocol, topic, pc, wire, app, appOpen, injected>>

\* The application drops its subscription while the session runs.
AppCloses(r) ==
    /\ appOpen[r]
    /\ pc[r] \notin Ended
    /\ appOpen' = [appOpen EXCEPT ![r] = FALSE]
    /\ UNCHANGED <<protocol, topic, pc, wire, linkUp, app, injected>>

\* A remote that does not follow the protocol writes a message of its own.
Inject(r, m) ==
    /\ injected < MaxInjected
    /\ linkUp
    /\ pc[r] \notin Ended
    /\ injected' = injected + 1
    /\ wire' = [wire EXCEPT ![r] = Append(@, m)]
    /\ UNCHANGED <<protocol, topic, pc, linkUp, app, appOpen>>

-----------------------------------------------------------------------------
(* Specification *)

Init ==
    /\ protocol \in Protocols
    /\ topic \in Topics
    /\ pc = [r \in Roles |-> IF r = Initiator THEN "start" ELSE "read"]
    /\ wire = [r \in Roles |-> <<>>]
    /\ linkUp = TRUE
    /\ app = [r \in Roles |-> <<>>]
    /\ appOpen = [r \in Roles |-> TRUE]
    /\ injected = 0

InitiatorStep ==
    \/ DummyInitiate
    \/ PingPongInitiate
    \/ DummyInitiatorReads
    \/ PingPongInitiatorReads
    \/ Flush(Initiator)

AcceptorStep ==
    \/ DummyAcceptorReads
    \/ PingPongAcceptorReads
    \/ Flush(Acceptor)

Environment ==
    \/ LinkFails
    \/ \E r \in Roles : AppCloses(r)
    \/ \E r \in Roles, m \in Messages : Inject(r, m)

Next == InitiatorStep \/ AcceptorStep \/ Environment

Spec == Init /\ [][Next]_vars

\* Both calls are futures the runtime keeps polling.
FairSpec == Spec /\ WF_vars(InitiatorStep) /\ WF_vars(AcceptorStep)

-----------------------------------------------------------------------------
(* Properties *)

TypeOK ==
    /\ protocol \in Protocols
    /\ topic \in Topics
    /\ pc \in [Roles -> {"start", "read", "flush"} \cup Ended]
    /\ wire \in [Roles -> Seq(Messages)]
    /\ linkUp \in BOOLEAN
    /\ app \in [Roles -> Seq(Events)]
    /\ appOpen \in [Roles -> BOOLEAN]
    /\ injected \in 0..MaxInjected

\* Both nodes have followed the protocol so far: nothing was injected.
Honest == injected = 0

\* Between two nodes that follow the protocol, the first event either
\* application sees of a session is the handshake, and it names the topic
\* the initiator was called with: `accept` announces what it reads, so this
\* rests on the order in which `initiate` writes Topic and the next message.
HandshakeFirst ==
    Honest =>
        \A r \in Roles :
            app[r] # <<>> => Head(app[r]) = HandshakeSuccess(topic)

\* When `initiate` and `accept` both return Ok, between two nodes that follow
\* the protocol, the session did its work: the acceptor announced the topic and, in the ping-pong protocol, each side
\* reported the other's message.  (One side alone returning Ok shows
\* nothing: the end of the stream leaves either read loop quietly.)
BothOkMeansExchanged ==
    Honest /\ (\A r \in Roles : pc[r] = "ok") =>
        /\ Contains(app[Acceptor], HandshakeSuccess(topic))
        /\ protocol = "pingpong" =>
                /\ Contains(app[Acceptor], Data("PING"))
                /\ Contains(app[Initiator], Data("PONG"))

\* Neither side waits forever for the other: `initiate` and `accept` both
\* return (or panic), whether or not the link or an application goes away
\* and whatever else the remote writes, because each writes what the other's
\* read loop waits for before it reads.
SessionEnds ==
    <>(\A r \in Roles : pc[r] \in Ended)

\* Whatever a remote sends, and however often, a side reports at most one
\* Data event per session and nothing after it: the read loops of the
\* ping-pong protocol `break` on the first Ping or Pong.
AtMostOneData ==
    \A r \in Roles : \A i \in DOMAIN app[r] :
        app[r][i] \in {Data("PING"), Data("PONG")} => i = Len(app[r])

\* Between two nodes that follow the protocol a session panics only on the
\* `unwrap` of a report to an application that is gone: the `panic!()` of
\* the initiators on a Topic message is never reached, because no acceptor
\* writes one, whatever the link and the applications do meanwhile.
HonestPeersDoNotPanic ==
    Honest => \A r \in Roles : pc[r] = "panicked" => ~appOpen[r]

-----------------------------------------------------------------------------
(* What the specification says and the code does not do *)

\* "ChannelClosed: the application dropped its subscription; not an error,
\* initiates graceful teardown": between two nodes that follow the protocol
\* no call ends in a panic.  (`app_tx.send(..).await.unwrap()` in the
\* ping-pong protocol panics when the receiver is gone.)
ClosedChannelIsNotAnError ==
    \A r \in Roles : pc[r] # "panicked"

=============================================================================
