----------------------------- MODULE WebSocket ------------------------------
(***************************************************************************)
(* internal/relay/deliver.go, handleWebSocketListener and pumpWebSocket:   *)
(* the goroutine that takes packets from a listener's queue and writes     *)
(* them to a WebSocket.  A packet may need two writes, an announcement and *)
(* a binary message; each can fail on its own, and between them, as during *)
(* any write, the source and the stream of modules Ingest and Stream go on *)
(* without waiting.                                                        *)
(*                                                                         *)
(* The drop reports of the ticker only log.  Its pings are what notices a  *)
(* client that is gone: a failed Ping cancels the context of the pump.     *)
(***************************************************************************)
EXTENDS Ingest

VARIABLES
    stage,      \* where the goroutine of each listener is
    version2,   \* pumpWebSocket's sparseSupported
    announced,  \* pumpWebSocket's announced
    epoch,      \* pumpWebSocket's epoch
    gone,       \* listeners whose client went away without closing
    client      \* what the client of each listener was told

pump == <<stage, version2, announced, epoch, gone, client>>
webSocketVars == <<ingestVars, pump>>

(***************************************************************************)
(* "select":    waiting in the select for a packet;                        *)
(* "handling":  took a packet and wrote nothing of it yet;                 *)
(* "payload":   announced the packet's session, not yet wrote the packet;  *)
(* "returning": pumpWebSocket returned, Detach is still to come.           *)
(***************************************************************************)
Stage == {"off", "select", "handling", "payload", "returning"}

\* The mapping is the variable client, which records what was written.
Promise == INSTANCE Delivery WITH client <- client

WebSocketTypeOK ==
    /\ IngestTypeOK
    /\ stage \in [Listener -> Stage]
    /\ version2 \in [Listener -> BOOLEAN]
    /\ announced \in [Listener -> Format \cup {NoFormat}]
    /\ epoch \in [Listener -> Nat]
    /\ gone \subseteq Listener
    /\ client \in [Listener -> Promise!Client]

WebSocketInit ==
    /\ IngestInit
    /\ stage = [l \in Listener |-> "off"]
    /\ version2 = [l \in Listener |-> FALSE]
    /\ announced = [l \in Listener |-> NoFormat]
    /\ epoch = [l \in Listener |-> 0]
    /\ gone = {}
    /\ client = [l \in Listener |-> Promise!Stranger]

SourceSide == <<connection, ingressAudio, timeline>>

-----------------------------------------------------------------------------
\* handleWebSocketListener: the WebSocket is accepted and the listener
\* attached; the query says whether the client knows version 2.
Accept(l, v2) ==
    /\ stage[l] = "off"
    /\ Attach(l)
    /\ stage' = [stage EXCEPT ![l] = "select"]
    /\ version2' = [version2 EXCEPT ![l] = v2]
    /\ announced' = [announced EXCEPT ![l] = NoFormat]
    /\ epoch' = [epoch EXCEPT ![l] = 0]
    /\ client' = [client EXCEPT ![l] = [Promise!Stranger EXCEPT !.open = TRUE, !.version2 = v2]]
    /\ UNCHANGED <<gone, SourceSide>>

\* The select takes a packet.
TakePacket(l) ==
    /\ stage[l] = "select"
    /\ Receive(l)
    /\ stage' = [stage EXCEPT ![l] = "handling"]
    /\ UNCHANGED <<version2, announced, epoch, gone, client, SourceSide>>

(***************************************************************************)
(* The packet in the goroutine's hands, and what it calls for; in mutated  *)
(* forms, no client is refused, and only a change of format is announced.  *)
(***************************************************************************)
RefuseNobody(l) == FALSE
UnannouncedFormat(l) == held[l].format # announced[l]

Refused(l) == held[l].sparse /\ ~version2[l]
Ended(l) == held[l].state = "waiting"
Unannounced(l) == held[l].format # announced[l] \/ held[l].epoch # epoch[l]

PayloadDue(l) ==
    \/ stage[l] = "payload"
    \/ stage[l] = "handling" /\ ~Refused(l) /\ ~Ended(l) /\ ~Unannounced(l)

\* A packet that only carries the state of a live session has no payload.
Empty(l) == held[l].state = "live" /\ held[l].frame = NoFormat

\* The client is turned away: it cannot decode records.
RefuseClient(l) ==
    /\ stage[l] = "handling"
    /\ Refused(l)
    /\ stage' = [stage EXCEPT ![l] = "returning"]
    /\ client' = [client EXCEPT ![l] = Promise!Stranger]
    /\ UNCHANGED <<ingestVars, version2, announced, epoch, gone>>

\* "waiting" is written, and forgets the announcement.
WriteWaiting(l) ==
    /\ stage[l] = "handling"
    /\ ~Refused(l) /\ Ended(l)
    /\ stage' = [stage EXCEPT ![l] = "select"]
    /\ announced' = [announced EXCEPT ![l] = NoFormat]
    /\ client' = [client EXCEPT ![l].told = "waiting"]
    /\ UNCHANGED <<ingestVars, version2, epoch, gone>>

WriteAnnouncement(l) ==
    /\ stage[l] = "handling"
    /\ ~Refused(l) /\ ~Ended(l) /\ Unannounced(l)
    /\ stage' = [stage EXCEPT ![l] = "payload"]
    /\ announced' = [announced EXCEPT ![l] = held[l].format]
    /\ epoch' = [epoch EXCEPT ![l] = held[l].epoch]
    /\ client' = [client EXCEPT ![l].told = "session", ![l].started = FALSE,
                                ![l].format = held[l].format, ![l].epoch = held[l].epoch,
                                ![l].sparse = held[l].sparse,
                                ![l].position = held[l].position]
    /\ UNCHANGED <<ingestVars, version2, gone>>

\* The test for an empty payload, made before the announcement.
SkipUnannounced(l) ==
    /\ PayloadDue(l) \/ (stage[l] = "handling" /\ ~Refused(l))
    /\ Empty(l)
    /\ stage' = [stage EXCEPT ![l] = "select"]
    /\ UNCHANGED <<ingestVars, version2, announced, epoch, gone, client>>

SkipPayload(l) ==
    /\ PayloadDue(l)
    /\ Empty(l)
    /\ stage' = [stage EXCEPT ![l] = "select"]
    /\ UNCHANGED <<ingestVars, version2, announced, epoch, gone, client>>

\* A legacy payload is the frame; a sparse one also has the position.
WritePayload(l) ==
    /\ PayloadDue(l)
    /\ ~Empty(l)
    /\ stage' = [stage EXCEPT ![l] = "select"]
    /\ client' = [client EXCEPT ![l].started = TRUE, ![l].frame = held[l].frame,
                      ![l].position = IF held[l].sparse THEN held[l].position ELSE @]
    /\ UNCHANGED <<ingestVars, version2, announced, epoch, gone>>

\* Any of the three writes fails, or is cut off after writeTimeout.
WriteFails(l) ==
    /\ stage[l] \in {"handling", "payload"}
    /\ ~(stage[l] = "handling" /\ Refused(l))
    /\ ~(PayloadDue(l) /\ Empty(l))
    /\ stage' = [stage EXCEPT ![l] = "returning"]
    /\ client' = [client EXCEPT ![l] = Promise!Stranger]
    /\ UNCHANGED <<ingestVars, version2, announced, epoch, gone>>

\* The select finds the context done: the client closed the connection, or
\* a Ping failed and closed it.
ContextDone(l) ==
    /\ stage[l] = "select"
    /\ stage' = [stage EXCEPT ![l] = "returning"]
    /\ client' = [client EXCEPT ![l] = Promise!Stranger]
    /\ UNCHANGED <<ingestVars, version2, announced, epoch, gone>>

\* The client's machine or network disappears.  Writes may still succeed,
\* into the buffers of the connection.
GoAway(l) ==
    /\ stage[l] \in {"select", "handling", "payload"}
    /\ gone' = gone \cup {l}
    /\ UNCHANGED <<ingestVars, stage, version2, announced, epoch, client>>

\* The deferred Detach and CloseNow.
Return(l) ==
    /\ stage[l] = "returning"
    /\ Detach(l)
    /\ stage' = [stage EXCEPT ![l] = "off"]
    /\ gone' = gone \ {l}
    /\ UNCHANGED <<version2, announced, epoch, client, SourceSide>>

-----------------------------------------------------------------------------
\* The steps pumpWebSocket takes with a packet in its hands.
HandleStep(l) ==
    RefuseClient(l) \/ WriteWaiting(l) \/ WriteAnnouncement(l) \/ SkipPayload(l)
        \/ WritePayload(l) \/ WriteFails(l)

ClientStep(l) ==
    \/ \E v2 \in BOOLEAN : Accept(l, v2)
    \/ TakePacket(l)
    \/ HandleStep(l)
    \/ ContextDone(l)
    \/ GoAway(l)
    \/ Return(l)

\* To a listener a source that died is one that pauses, so PeerDies is left
\* to module Ingest.
WebSocketNext ==
    \/ (\E c \in Conn : SourceStep(c)) /\ UNCHANGED pump
    \/ DeliverStep /\ UNCHANGED pump
    \/ \E l \in Listener : ClientStep(l)

\* Pings mutated: none is sent, so nobody notices.
NoPing(l) == FALSE

\* A failed Ping cancels the context of a client that is gone.
PingFails(l) == l \in gone /\ ContextDone(l)

(***************************************************************************)
(* The goroutine runs, and every write ends within writeTimeout.  A ping   *)
(* that fails makes the context done, which the select may pass over while *)
(* packets are ready too, but not for ever; Detach competes for the lock   *)
(* of the stream, which Go hands to whoever waited longest.                *)
(***************************************************************************)
WebSocketSpec ==
    /\ WebSocketInit
    /\ [][WebSocketNext]_webSocketVars
    /\ WF_webSocketVars(DeliverStep /\ UNCHANGED pump)
    /\ \A l \in Listener :
          /\ WF_webSocketVars(TakePacket(l))
          /\ WF_webSocketVars(HandleStep(l))
          /\ SF_webSocketVars(PingFails(l))
          /\ SF_webSocketVars(Return(l))

-----------------------------------------------------------------------------
\* pumpWebSocket keeps to the protocol of module Delivery with every client:
\* queue drops, source changes, and failures between its two writes included.
ProtocolKept == Promise!Spec

\* What the client was told is the state of the stream.  Of a legacy session
\* it is told with the first frame, as nothing announces it.
KnowsTheState(l) ==
    /\ client[l].told = "session" =>
          /\ source # NoFormat
          /\ client[l].epoch = current.epoch
          /\ client[l].format = current.format
          /\ client[l].sparse = current.sparse
    /\ current.sparse =>
          client[l].told = "session" /\ client[l].position = current.position

\* Once it drained its queue, a client knows the state of the stream: which
\* session is on and where it is, or that there is none (or none that sent a
\* frame, of a legacy source).
DrainedClientKnows ==
    \A l \in listeners \ todo :
        stage[l] = "select" /\ packets[l] = <<>> => KnowsTheState(l)

\* From some time on nothing is published.
PublishingPauses == <>[][UNCHANGED broadcasts]_webSocketVars

\* Once publishing pauses, every client is brought up to date or cut off: none
\* is left with a session that is over, however many of its packets were
\* dropped.  While publishing goes on, a client that is slower may stay behind
\* for as long as each of its writes succeeds: the code drops packets for it,
\* and does not cut it off.
ClientsCatchUp ==
    PublishingPauses =>
        \A l \in Listener : []<>(stage[l] = "off" \/ KnowsTheState(l))

\* A client that disappeared without closing does not stay attached.
GoneClientIsDetached ==
    \A l \in Listener : l \in gone ~> stage[l] = "off"
=============================================================================
