------------------------------- MODULE Ingest -------------------------------
(***************************************************************************)
(* internal/relay/ingest.go: the goroutines that read TCP sources, and     *)
(* audio.ReadRecord's check of positions.  Each connection sends a header, *)
(* claims the stream of module Stream, publishes what it reads, and gives  *)
(* the stream back when a read fails.                                      *)
(*                                                                         *)
(* A source may stop sending without closing its connection (the relay     *)
(* calls an ESP32 losing its WiFi normal); the read deadline is what ends  *)
(* such a connection.  A connection of the model that was closed may be    *)
(* accepted again: that is a new connection of the program.                *)
(***************************************************************************)
EXTENDS Stream, FiniteSets

CONSTANT Conn   \* the TCP connections

VARIABLES
    phase,          \* what the goroutine of each connection is doing
    alive,          \* the connections whose peer still sends
    declared,       \* the format each header declared
    records,        \* whether the header was SB02: records, not legacy frames
    nextPosition,   \* readTcpFrames' nextPosition; legacy: frames read
    ingressAudio,   \* frames counted in ingressAudioBytes
    timeline        \* frames of time that the sources declared, sent or not

connection == <<phase, alive, declared, records, nextPosition>>
ingestVars == <<vars, connection, ingressAudio, timeline>>

(***************************************************************************)
(* "header":   waiting in ReadFull for the header;                         *)
(* "reading":  holding the stream, waiting for a record or a frame;        *)
(* "counting": published a frame, not yet added to ingressAudioBytes.      *)
(***************************************************************************)
Phase == {"closed", "header", "reading", "counting"}

IngestTypeOK ==
    /\ TypeOK
    /\ phase \in [Conn -> Phase]
    /\ alive \subseteq Conn
    /\ declared \in [Conn -> Format \cup {NoFormat}]
    /\ records \in [Conn -> BOOLEAN]
    /\ nextPosition \in [Conn -> Nat]
    /\ ingressAudio \in Nat
    /\ timeline \in Nat

IngestInit ==
    /\ Init
    /\ phase = [c \in Conn |-> "closed"]
    /\ alive = {}
    /\ declared = [c \in Conn |-> NoFormat]
    /\ records = [c \in Conn |-> FALSE]
    /\ nextPosition = [c \in Conn |-> 0]
    /\ ingressAudio = 0
    /\ timeline = 0

-----------------------------------------------------------------------------
\* serveTcpSource accepts a connection and starts its goroutine.
AcceptConn(c) ==
    /\ phase[c] = "closed"
    /\ phase' = [phase EXCEPT ![c] = "header"]
    /\ alive' = alive \cup {c}
    /\ UNCHANGED <<vars, declared, records, nextPosition, ingressAudio, timeline>>

\* The peer stops sending, and does not close the connection either.
PeerDies(c) ==
    /\ phase[c] # "closed"
    /\ c \in alive
    /\ alive' = alive \ {c}
    /\ UNCHANGED <<vars, phase, declared, records, nextPosition, ingressAudio, timeline>>

\* The goroutine returns: its connection is closed.
Close(c) ==
    /\ phase' = [phase EXCEPT ![c] = "closed"]
    /\ declared' = [declared EXCEPT ![c] = NoFormat]
    /\ records' = [records EXCEPT ![c] = FALSE]
    /\ nextPosition' = [nextPosition EXCEPT ![c] = 0]
    /\ alive' = alive \ {c}

\* The connection ended or timed out before a header, or ParseHeader
\* rejected the header.
HeaderFails(c) ==
    /\ phase[c] = "header"
    /\ Close(c)
    /\ UNCHANGED <<vars, ingressAudio, timeline>>

\* The header is valid and the stream is free.
HeaderAccepted(c, f, sparse) ==
    /\ phase[c] = "header"
    /\ c \in alive
    /\ acquire(f, sparse)
    /\ phase' = [phase EXCEPT ![c] = "reading"]
    /\ declared' = [declared EXCEPT ![c] = f]
    /\ records' = [records EXCEPT ![c] = sparse]
    /\ UNCHANGED <<alive, nextPosition, ingressAudio, timeline>>

\* HeaderRefused mutated: ReleaseSource is deferred before the stream is claimed.
RefusedReleases(c) ==
    /\ phase[c] = "header"
    /\ c \in alive
    /\ source # NoFormat
    /\ ReleaseSource
    /\ Close(c)
    /\ UNCHANGED <<ingressAudio, timeline>>

\* The header is valid and another source holds the stream: the deferred
\* ReleaseSource is not reached.
HeaderRefused(c) ==
    /\ phase[c] = "header"
    /\ c \in alive
    /\ Unlocked
    /\ source # NoFormat
    /\ Close(c)
    /\ UNCHANGED <<vars, ingressAudio, timeline>>

\* A mutated form: the last record's position may come again.
ValidPositionOffByOne(c, position) ==
    position + 1 >= nextPosition[c] /\ position <= MaxPosition

\* The positions readTcpFrames lets through: ReadRecord checks the bound,
\* readTcpFrames that they do not move backwards.
ValidPosition(c, position) ==
    position >= nextPosition[c] /\ position <= MaxPosition

\* A record arrives and is published.
ReadRecord(c, position, frame) ==
    /\ phase[c] = "reading"
    /\ c \in alive
    /\ records[c]
    /\ ValidPosition(c, position)
    /\ PublishRecord(position, frame)
    /\ nextPosition' = [nextPosition EXCEPT ![c] = position + 1]
    /\ timeline' = timeline + position + 1 - nextPosition[c]
    /\ phase' = [phase EXCEPT ![c] = IF frame = NoFormat THEN @ ELSE "counting"]
    /\ UNCHANGED <<alive, declared, records, ingressAudio>>

\* A legacy frame arrives and is published.
ReadFrame(c) ==
    /\ phase[c] = "reading"
    /\ c \in alive
    /\ ~records[c]
    /\ nextPosition[c] <= MaxPosition
    /\ Publish(declared[c])
    /\ nextPosition' = [nextPosition EXCEPT ![c] = @ + 1]
    /\ timeline' = timeline + 1
    /\ phase' = [phase EXCEPT ![c] = "counting"]
    /\ UNCHANGED <<alive, declared, records, ingressAudio>>

\* publish has returned, and the frame's bytes are counted without the lock:
\* a loop over the listeners that is running now delivers the state to a new
\* listener, without a frame.  (A quiet record adds no audio.)
CountIngress(c) ==
    /\ phase[c] = "counting"
    /\ Unlocked \/ outgoing.frame = NoFormat
    /\ ingressAudio' = ingressAudio + 1
    /\ phase' = [phase EXCEPT ![c] = "reading"]
    /\ UNCHANGED <<vars, alive, declared, records, nextPosition, timeline>>

\* ReadFails mutated: nothing releases the stream.
ReadFailsHolding(c) ==
    /\ phase[c] = "reading"
    /\ Close(c)
    /\ UNCHANGED <<vars, ingressAudio, timeline>>

\* The connection ended, a record was invalid or went backwards, the read
\* deadline passed or the relay shuts down: the deferred ReleaseSource runs.
ReadFails(c) ==
    /\ phase[c] = "reading"
    /\ ReleaseSource
    /\ Close(c)
    /\ UNCHANGED <<ingressAudio, timeline>>

-----------------------------------------------------------------------------
\* What the goroutine of a connection does; PeerDies is the peer's own step.
SourceStep(c) ==
    \/ AcceptConn(c)
    \/ HeaderFails(c)
    \/ \E f \in Format, sparse \in BOOLEAN : HeaderAccepted(c, f, sparse)
    \/ HeaderRefused(c)
    \/ \E position \in 0..MaxPosition, frame \in {declared[c], NoFormat} :
          ReadRecord(c, position, frame)
    \/ ReadFrame(c)
    \/ CountIngress(c)
    \/ ReadFails(c)

ListenerStep(l) ==
    /\ Attach(l) \/ Detach(l) \/ Receive(l)
    /\ UNCHANGED <<connection, ingressAudio, timeline>>

DeliverStep == deliver /\ UNCHANGED <<connection, ingressAudio, timeline>>

IngestNext ==
    \/ \E c \in Conn : SourceStep(c) \/ PeerDies(c)
    \/ \E l \in Listener : ListenerStep(l)
    \/ DeliverStep

\* Mutated: only the read of the header has a deadline.
DeadlineOnHeaderOnly(c) == c \notin alive /\ HeaderFails(c)

\* A read that gets nothing more ends at its deadline.
DeadlinePasses(c) ==
    /\ c \notin alive
    /\ HeaderFails(c) \/ ReadFails(c)

(***************************************************************************)
(* The goroutines run.  Every read has a deadline (SetReadDeadline before  *)
(* each), so a peer that is gone is noticed; releasing the stream then     *)
(* competes for the lock with listeners that come and go, and a Go mutex   *)
(* is handed to the goroutine that waited longest: strong fairness.        *)
(***************************************************************************)
IngestFairness ==
    /\ WF_ingestVars(DeliverStep)
    /\ \A c \in Conn : WF_ingestVars(CountIngress(c)) /\ SF_ingestVars(DeadlinePasses(c))

IngestSpec == IngestInit /\ [][IngestNext]_ingestVars /\ IngestFairness

-----------------------------------------------------------------------------
Holders == {c \in Conn : phase[c] \in {"reading", "counting"}}

\* The stream belongs to the one connection that is being read, or to none:
\* a source that was turned away takes nothing from the one that holds it,
\* and no connection that ended keeps the stream.
SourceHasOneReader ==
    IF source = NoFormat
    THEN Holders = {}
    ELSE \E c \in Conn : Holders = {c} /\ declared[c] = source /\ records[c] = current.sparse

\* A packet's frame is in the packet's format, so that "a listener can never
\* decode a frame with a stale format".
FramesMatchTheirFormat ==
    \A l \in listeners : \A i \in 1..Len(packets[l]) :
        packets[l][i].frame \in {packets[l][i].format, NoFormat}

\* Within a session positions only grow, from the packet a listener holds
\* through its backlog: drops and the packet of a late joiner included.  Only
\* the first record may repeat the position that announced the session.
Announcing(p) == p.state = "live" /\ p.frame = NoFormat
Advances(p, q) ==
    p.epoch = q.epoch /\ p.state # "" /\ q.state # "waiting" =>
        p.position < q.position \/ (Announcing(p) /\ p.position = q.position)
PositionsAdvance ==
    \A l \in listeners :
        /\ \A i \in 1..Len(packets[l]) : Advances(held[l], packets[l][i])
        /\ \A i, j \in 1..Len(packets[l]) : i < j => Advances(packets[l][i], packets[l][j])

\* A frame of time is counted once, as published or as suppressed, and never
\* for more time than the sources declared.
TimeIsCountedOnce == published + suppressed <= timeline

\* A source that went silent without closing its connection does not keep
\* the stream from the next source.
DeadSourceIsDropped ==
    \A c \in Conn : phase[c] # "closed" /\ c \notin alive ~> phase[c] = "closed"
=============================================================================
