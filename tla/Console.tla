------------------------------ MODULE Console -------------------------------
(***************************************************************************)
(* internal/source: the console's pipeline, three goroutines and two       *)
(* bounded queues.  Capture offers a frame per period; encode turns frames *)
(* into records and offers those; transmit dials the relay, writes, and    *)
(* dials again when a write fails.                                         *)
(*                                                                         *)
(* Which records are quiet is module Gate's concern and any choice here.   *)
(* Frames in the capture queue are alike until encode numbers them, so the *)
(* queue is their number; records are queued with queue.Offer, whose first *)
(* select and the rest are two steps, as transmit receives in between.     *)
(***************************************************************************)
EXTENDS SourceLink

VARIABLES
    cancelled,      \* the context of Run is done
    frames,         \* frames in the capture queue
    capturing,      \* the capture queue is open
    encode,         \* "select", "full": an Offer found records full, or "returned"
    filled,         \* frames in the gate's delay line
    position,       \* records the gate returned
    latest,         \* the last of them
    records,        \* the queue between encode and transmit
    transmit,       \* where the goroutine of Run is
    waited,         \* how long it has been there
    hand,           \* the record it is writing, if any
    quiet,          \* transmitUntilClosed's quiet
    lastQuiet       \* and how long ago its lastQuiet is

pipeline == <<cancelled, frames, capturing, encode, filled, position, latest>>
sender == <<transmit, waited, hand, quiet, lastQuiet>>
vars == <<pipeline, records, sender, relay>>

(***************************************************************************)
(* "dialing":    in dialRelay, header included;                            *)
(* "discarding": connected, in the loop that empties records;              *)
(* "select":     waiting for a record;                                     *)
(* "writing":    in relay.write;                                           *)
(* "delay":      waiting to dial again;                                    *)
(* "returned":   Run returned.                                             *)
(***************************************************************************)
Init ==
    /\ cancelled = FALSE
    /\ frames = 0
    /\ capturing = TRUE
    /\ encode = "select"
    /\ filled = 0
    /\ position = 0
    /\ latest = NoRecord
    /\ records = <<>>
    /\ transmit = "dialing"
    /\ waited = 0
    /\ hand = NoRecord
    /\ quiet = FALSE
    /\ lastQuiet = Heartbeat + 1
    /\ relay = NoLink

-----------------------------------------------------------------------------
\* Dialer.Timeout, the write deadline or the timer of the delay is reached.
Expired ==
    \/ transmit \in {"dialing", "writing"} /\ waited = WriteTimeout
    \/ transmit = "delay" /\ waited = ReconnectDelay

\* A period passes and capture offers its frame, which if the queue is full
\* pushes out the oldest.  The other goroutines may be late.
Tick ==
    /\ ~cancelled /\ ~Expired
    /\ position < MaxFrames
    /\ frames' = IF frames < QueueDepth THEN frames + 1 ELSE frames
    /\ waited' = Older(waited, WriteTimeout)
    /\ lastQuiet' = Older(lastQuiet, Heartbeat + 1)
    /\ LinkAges
    /\ UNCHANGED <<cancelled, capturing, encode, filled, position, latest, records, transmit,
                   hand, quiet>>

\* The process is told to stop.
Cancel ==
    /\ ~cancelled
    /\ cancelled' = TRUE
    /\ UNCHANGED <<frames, capturing, encode, filled, position, latest, records, sender, relay>>

\* Capture stops its device or ticker and closes its queue.
CaptureReturns ==
    /\ cancelled /\ capturing
    /\ capturing' = FALSE
    /\ UNCHANGED <<cancelled, frames, encode, filled, position, latest, records, sender, relay>>

-----------------------------------------------------------------------------
\* encode takes a frame, and while the delay line fills the gate returns
\* nothing for it.
FillLine ==
    /\ encode = "select" /\ frames > 0
    /\ filled < LineDepth
    /\ frames' = frames - 1
    /\ filled' = filled + 1
    /\ UNCHANGED <<cancelled, capturing, encode, position, latest, records, sender, relay>>

\* From then on it returns the record of the frame that leaves the line, and
\* this is offered.
Push(silent) ==
    /\ encode = "select" /\ frames > 0
    /\ filled = LineDepth
    /\ frames' = frames - 1
    /\ position' = position + 1
    /\ latest' = [position |-> position, quiet |-> silent]
    /\ IF Len(records) < QueueDepth
       THEN records' = Append(records, latest') /\ UNCHANGED encode
       ELSE encode' = "full" /\ UNCHANGED records
    /\ UNCHANGED <<cancelled, capturing, filled, sender, relay>>

\* The second and third select of Offer: the oldest goes, the new one comes.
EvictOldest ==
    /\ encode = "full"
    /\ records' = Append(IF records = <<>> THEN records ELSE Tail(records), latest)
    /\ encode' = "select"
    /\ UNCHANGED <<cancelled, frames, capturing, filled, position, latest, sender, relay>>

\* The context is done, or the capture queue is closed and empty.
EncodeReturns ==
    /\ encode = "select"
    /\ cancelled \/ (~capturing /\ frames = 0)
    /\ encode' = "returned"
    /\ UNCHANGED <<cancelled, frames, capturing, filled, position, latest, records, sender, relay>>

\* A record is queued once its Offer returned.
Queued == IF encode = "full" THEN position - 1 ELSE position

-----------------------------------------------------------------------------
GoTo(stage) == transmit' = stage /\ waited' = 0

\* Run's loop ends when the context is done; mutated, it does not look.
LoopForever == FALSE
LoopEnds == cancelled

\* transmitUntilClosed starts with these, and they end with it; mutated, they
\* outlive the connection.
LocalsKept == UNCHANGED <<hand, quiet, lastQuiet>>
Locals ==
    /\ hand' = NoRecord
    /\ quiet' = FALSE
    /\ lastQuiet' = Heartbeat + 1

\* It returns an error, after closing what it had dialled.
ConnectionLost ==
    /\ LinkDown
    /\ GoTo(IF LoopEnds THEN "returned" ELSE "delay")
    /\ Locals

Dial ==
    /\ transmit = "dialing"
    /\ GoTo("discarding")
    /\ LinkUp(Queued)
    /\ UNCHANGED <<pipeline, records, hand, quiet, lastQuiet>>

DialFails ==
    /\ transmit = "dialing"
    /\ ConnectionLost
    /\ UNCHANGED <<pipeline, records>>

Redial ==
    /\ transmit = "delay"
    /\ \/ LoopEnds /\ GoTo("returned")
       \/ ~LoopEnds /\ waited = ReconnectDelay /\ GoTo("dialing")
    /\ UNCHANGED <<pipeline, records, hand, quiet, lastQuiet, relay>>

\* Mutated: the backlog is kept.
DiscardNothing ==
    /\ transmit = "discarding"
    /\ GoTo("select")
    /\ UNCHANGED <<pipeline, records, hand, quiet, lastQuiet, relay>>

\* One round of the loop that discards what was queued while dialling.
Discard ==
    /\ transmit = "discarding"
    /\ IF records # <<>>
       THEN records' = Tail(records) /\ UNCHANGED <<transmit, waited>>
       ELSE GoTo("select") /\ UNCHANGED records
    /\ UNCHANGED <<pipeline, hand, quiet, lastQuiet, relay>>

\* time.Since(lastQuiet) < audio.QuietHeartbeat: within the period in which
\* the heartbeat falls due, either answer.
Recent == lastQuiet <= Heartbeat
Due == lastQuiet >= Heartbeat

\* The select takes a record: a quiet one after a quiet one is skipped unless
\* a heartbeat is due; mutated, a skipped one counts as sent.
SkipAndRestart ==
    /\ transmit = "select" /\ records # <<>>
    /\ Head(records).quiet /\ quiet /\ Recent
    /\ records' = Tail(records)
    /\ lastQuiet' = 0
    /\ UNCHANGED <<pipeline, transmit, waited, hand, quiet, relay>>

Skip ==
    /\ transmit = "select" /\ records # <<>>
    /\ Head(records).quiet /\ quiet /\ Recent
    /\ records' = Tail(records)
    /\ UNCHANGED <<pipeline, sender, relay>>

Take ==
    /\ transmit = "select" /\ records # <<>>
    /\ Head(records).quiet /\ quiet => Due
    /\ records' = Tail(records)
    /\ hand' = Head(records)
    /\ quiet' = hand'.quiet
    /\ lastQuiet' = IF quiet' THEN 0 ELSE lastQuiet
    /\ GoTo("writing")
    /\ UNCHANGED <<pipeline, relay>>

Write ==
    /\ transmit = "writing"
    /\ Arrives(hand)
    /\ GoTo("select")
    /\ hand' = NoRecord
    /\ UNCHANGED <<pipeline, records, quiet, lastQuiet>>

\* The connection is broken, the deadline passed, or the context is done and
\* its AfterFunc closed the connection.
WriteFails ==
    /\ transmit = "writing"
    /\ ConnectionLost
    /\ UNCHANGED <<pipeline, records>>

\* The select finds the context done, or the records closed, and with no
\* error to report Run's loop ends.
TransmitReturns ==
    /\ transmit = "select"
    /\ cancelled \/ (encode = "returned" /\ records = <<>>)
    /\ LinkDown
    /\ GoTo("returned")
    /\ Locals
    /\ UNCHANGED <<pipeline, records>>

\* The relay, or the network, gives up the connection.
RelayCloses ==
    /\ relay.open
    /\ LinkDown
    /\ UNCHANGED <<pipeline, records, sender>>

-----------------------------------------------------------------------------
EncodeStep ==
    FillLine \/ (\E silent \in BOOLEAN : Push(silent)) \/ EvictOldest \/ EncodeReturns

TransmitStep ==
    \/ Dial \/ DialFails \/ Redial \/ Discard
    \/ Skip \/ Take \/ Write \/ WriteFails \/ TransmitReturns

Next == Tick \/ Cancel \/ CaptureReturns \/ EncodeStep \/ TransmitStep \/ RelayCloses

\* A goroutine that can run does: no call of transmit blocks without a timeout.
Spec == Init /\ [][Next]_vars /\ WF_vars(EncodeStep) /\ WF_vars(TransmitStep)

-----------------------------------------------------------------------------
Wire == INSTANCE SourceWire WITH queued <- Queued, heard <- HeardByRelay

\* Whatever queues drop and connections fail, the relay gets each connection's
\* records in order, and none that was queued before the connection.
KeepsToTheWire == Wire!Spec

\* transmit has dealt with all there is.
CaughtUp == transmit = "select" /\ records = <<>> /\ encode = "select" /\ frames = 0

\* When transmit has caught up, the relay knows the state of the source: that
\* it is quiet, or its last audio record.  Neither drops nor the records that
\* were held back nor those discarded after a reconnect leave it with another,
\* and a new connection is told with the first record that the gate returns,
\* not at the next heartbeat: unless the program starts and the delay line
\* fills, that is with the first frame.
RelayKnowsTheState ==
    CaughtUp /\ relay.open =>
        /\ relay.known \/ waited = 0 \/ position = 0
        /\ relay.known => relay.quiet = latest.quiet
        /\ relay.known /\ ~latest.quiet => relay.position = latest.position

\* However long the source is quiet, the relay hears of it once a heartbeat,
\* give or take a frame: it waits longer only for a goroutine that is late or
\* a write that is blocked.  This is what keeps a quiet source from the
\* relay's timeout, which is two heartbeats.
SilenceIsNotDeath == CaughtUp /\ relay.known => relay.age <= Heartbeat

\* Run returns when it is told to stop, whatever blocks transmit and wherever
\* the other goroutines are.
RunReturns == cancelled ~> transmit = "returned"
=============================================================================
