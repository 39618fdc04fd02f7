---------------------------- MODULE Esp32Proofs -----------------------------
(***************************************************************************)
(* The firmware keeps to module SourceWire, for every depth of its queue   *)
(* and every period: each step maps to a step of SourceWire or to none.    *)
(* And what the relay knows of it is its state: the newest record is       *)
(* followed through the queue until it is sent, or known to be skipped.    *)
(***************************************************************************)
EXTENDS Esp32, SourceLinkProofs

\* What is queued must not be below this position.
Low == Floor(stage = "writing", hand, stage # "discarding")

\* Nothing leaves the delay line before it is full, and captureTask's record
\* that found the queue full is its last, and the next to be queued.
CaptureOK ==
    /\ position \in Nat
    /\ filled < LineDepth => position = 0
    /\ latest \in Record
    /\ capture \in {"read", "full"}
    /\ capture = "full" => position > 0 /\ latest.position = position - 1

\* The relay's end is not open without the firmware's, so that a new connection
\* never overtakes one that lives.
TransmitOK ==
    /\ relay.open => socket /\ relay.since <= Queued
    /\ relay.known => relay.position < Queued /\ stage # "discarding"
    /\ stage = "writing" => HandOK(hand) /\ hand.position < Queued

IInv ==
    /\ CaptureOK
    /\ LinkOK
    /\ TransmitOK
    /\ Ascending(frames, Low, Queued)

\* What a step is to SourceWire.
WireStep == [Wire!Next]_<<Queued, HeardByRelay>>

-----------------------------------------------------------------------------
\* The floor is a position queued already, so that the next may be queued.
LEMMA LowFacts ==
  ASSUME IInv
  PROVE  Queued \in Nat /\ Low \in Nat /\ Low <= Queued
<1>1. /\ position \in Nat
      /\ capture = "full" => position > 0
      /\ relay \in Relay
      /\ relay.open => relay.since <= Queued
      /\ relay.known => relay.position < Queued
      /\ stage = "writing" => hand \in Record /\ hand.position < Queued
  BY DEF IInv, CaptureOK, LinkOK, TransmitOK, HandOK
<1>2. Queued \in Nat
  BY <1>1 DEF Queued
<1>3. relay.since \in Nat /\ relay.position \in Nat
  BY <1>1 DEF Relay
<1>4. stage = "writing" => hand.position \in Nat
  BY <1>1 DEF Record
<1> QED BY <1>1, <1>2, <1>3, <1>4 DEF Low, Floor

\* To SourceWire a closed connection is Nothing.
LEMMA ClosedIsNothing ==
  ASSUME LinkOK, ~relay.open PROVE HeardByRelay = Wire!Nothing
<1>1. relay = NoLink
  BY DEF LinkOK
<1>2. relay.open = FALSE /\ relay.since = 0 /\ relay.known = FALSE /\ relay.position = 0
  BY <1>1 DEF NoLink
<1> QED BY <1>2 DEF HeardByRelay, Wire!Nothing

\* Giving up a connection is SourceWire's Disconnect, if there was one.
LEMMA DownIsDisconnect ==
  ASSUME LinkOK, LinkDown, Queued' = Queued
  PROVE  WireStep
<1>1. HeardByRelay' = Wire!Nothing
  BY DEF LinkDown, NoLink, HeardByRelay, Wire!Nothing
<1>2. CASE relay.open
  <2>1. HeardByRelay.open
    BY <1>2 DEF HeardByRelay
  <2> QED BY <1>1, <2>1 DEF WireStep, Wire!Next, Wire!Disconnect
<1>3. CASE ~relay.open
  BY <1>1, <1>3, ClosedIsNothing DEF WireStep
<1> QED BY <1>2, <1>3

\* Initially nothing is queued, and there is no connection.
LEMMA InitEstablishesIInv == Init => IInv /\ Wire!Init
<1> SUFFICES ASSUME Init PROVE IInv /\ Wire!Init
  OBVIOUS
<1>1. LinkOK /\ relay.known = FALSE /\ relay.open = FALSE
  BY DEF Init, LinkOK, NoLink, Relay
<1>2. CaptureOK /\ Queued = 0
  BY LinkAssumption DEF Init, CaptureOK, NoRecord, Record, Queued
<1>3. TransmitOK
  BY <1>1 DEF Init, TransmitOK
<1>4. Ascending(frames, Low, Queued)
  BY DEF Init, Ascending
<1>5. HeardByRelay = Wire!Nothing
  BY <1>1, ClosedIsNothing
<1> QED BY <1>1, <1>2, <1>3, <1>4, <1>5 DEF IInv, Wire!Init

-----------------------------------------------------------------------------
\* captureTask queues its next record, which is SourceWire's Enqueue, or finds
\* the queue full.  transmitTask and the link are where they were.
LEMMA MoreQueued ==
  ASSUME IInv, UNCHANGED <<stage, socket, hand>>, LinkAges \/ UNCHANGED relay
  PROVE  /\ LinkOK' /\ HeardByRelay' = HeardByRelay /\ Low' = Low
         /\ Queued' \in Nat /\ Queued <= Queued' => TransmitOK'
<1>1. /\ LinkOK'
      /\ HeardByRelay' = HeardByRelay
      /\ relay'.open = relay.open /\ relay'.since = relay.since
      /\ relay'.known = relay.known /\ relay'.position = relay.position
  <2>1. CASE LinkAges
    BY <2>1, LinkAgesOK DEF IInv
  <2>2. CASE UNCHANGED relay
    BY <2>2 DEF IInv, LinkOK, HeardByRelay
  <2> QED BY <2>1, <2>2
<1>2. Low' = Low
  BY <1>1 DEF Low, Floor
<1>3. ASSUME Queued' \in Nat, Queued <= Queued' PROVE TransmitOK'
  <2>1. relay \in Relay /\ (stage = "writing" => hand \in Record)
    BY DEF IInv, LinkOK, TransmitOK, HandOK
  <2>2. relay.since \in Nat /\ relay.position \in Nat /\ Queued \in Nat
    BY <2>1, LowFacts DEF Relay
  <2>3. stage = "writing" => hand.position \in Nat
    BY <2>1 DEF Record
  <2> QED BY <1>1, <1>3, <2>2, <2>3 DEF IInv, TransmitOK, HandOK
<1> QED BY <1>1, <1>2, <1>3

\* A period without a record queues nothing.
LEMMA EmptyPeriodStep == ASSUME IInv, ReadFails \/ FillLine PROVE IInv' /\ WireStep
<1>1. /\ UNCHANGED <<stage, socket, hand, position, latest, capture, frames>> /\ LinkAges
      /\ UNCHANGED filled \/ filled < LineDepth
  BY DEF ReadFails, FillLine, PeriodPasses
<1>2. Queued' = Queued /\ Queued \in Nat
  BY <1>1, LowFacts DEF Queued
<1>3. /\ LinkOK' /\ HeardByRelay' = HeardByRelay /\ Low' = Low
      /\ TransmitOK'
  BY <1>1, <1>2, MoreQueued
<1>4. CaptureOK' /\ Ascending(frames', Low', Queued')
  BY <1>1, <1>2, <1>3 DEF IInv, CaptureOK
<1> QED BY <1>2, <1>3, <1>4 DEF IInv, WireStep

\* A frame's record leaves the line and is sent to the queue, if there is room.
LEMMA CaptureStep ==
  ASSUME IInv, NEW silent \in BOOLEAN, Capture(silent) PROVE IInv' /\ WireStep
<1>1. UNCHANGED <<stage, socket, hand>> /\ LinkAges
  BY DEF Capture, PeriodPasses
<1>2. /\ LinkOK' /\ HeardByRelay' = HeardByRelay /\ Low' = Low
      /\ Queued' \in Nat /\ Queued <= Queued' => TransmitOK'
  BY <1>1, MoreQueued
<1>3. /\ Queued \in Nat /\ Low \in Nat /\ Low <= Queued
      /\ Ascending(frames, Low, Queued)
      /\ position \in Nat
  BY LowFacts DEF IInv, CaptureOK
<1>4. /\ capture = "read" /\ Queued = position /\ position' = position + 1
      /\ latest' = [position |-> position, quiet |-> silent]
      /\ filled' = LineDepth /\ LineDepth \in Nat
  BY LinkAssumption DEF Capture, PeriodPasses, Queued
<1>5. latest' \in Record /\ latest'.position = Queued
  BY <1>3, <1>4 DEF Record
<1>6. CASE Len(frames) < QueueDepth
  <2>1. frames' = Append(frames, latest') /\ capture' = capture
    BY <1>6 DEF Capture
  <2>2. Queued' = Queued + 1
    BY <1>4, <2>1 DEF Queued
  <2>3. Ascending(frames', Low', Queued')
    BY <1>2, <1>3, <1>5, <2>1, <2>2, AscendingAppend
  <2>4. CaptureOK' /\ TransmitOK'
    BY <1>2, <1>3, <1>4, <1>5, <2>1, <2>2 DEF CaptureOK
  <2> QED BY <1>2, <2>2, <2>3, <2>4 DEF IInv, WireStep, Wire!Next, Wire!Enqueue
<1>7. CASE ~(Len(frames) < QueueDepth)
  <2>1. capture' = "full" /\ frames' = frames
    BY <1>7 DEF Capture
  <2>2. Queued' = Queued
    BY <1>3, <1>4, <2>1 DEF Queued
  <2>3. CaptureOK' /\ TransmitOK'
    BY <1>2, <1>3, <1>4, <1>5, <2>1, <2>2 DEF CaptureOK
  <2> QED BY <1>2, <1>3, <2>1, <2>2, <2>3 DEF IInv, WireStep
<1> QED BY <1>6, <1>7

\* A full queue loses its oldest to the frame that found it full.
LEMMA DropOldestStep == ASSUME IInv, DropOldest PROVE IInv' /\ WireStep
<1>1. /\ UNCHANGED <<stage, socket, hand, relay, filled, position, latest>>
      /\ capture = "full" /\ capture' = "read"
      /\ frames' = Append(IF frames = <<>> THEN frames ELSE Tail(frames), latest)
  BY DEF DropOldest, locals
<1>2. /\ LinkOK' /\ HeardByRelay' = HeardByRelay /\ Low' = Low
      /\ Queued' \in Nat /\ Queued <= Queued' => TransmitOK'
  BY <1>1, MoreQueued
<1>3. /\ Queued \in Nat /\ Low \in Nat /\ Low <= Queued
      /\ Ascending(frames, Low, Queued)
      /\ position \in Nat /\ latest \in Record
      /\ position > 0 /\ latest.position = position - 1
      /\ filled < LineDepth => position = 0
  BY <1>1, LowFacts DEF IInv, CaptureOK
<1>4. Queued = position - 1 /\ Queued' = Queued + 1
  BY <1>1, <1>3 DEF Queued
<1>5. Ascending(frames', Low', Queued')
  BY <1>1, <1>2, <1>3, <1>4, AscendingOffer
<1>6. CaptureOK' /\ TransmitOK'
  BY <1>1, <1>2, <1>3, <1>4 DEF CaptureOK
<1> QED BY <1>2, <1>4, <1>5, <1>6 DEF IInv, WireStep, Wire!Next, Wire!Enqueue

-----------------------------------------------------------------------------
\* transmitTask does not queue anything.
LEMMA NothingQueued ==
  ASSUME IInv, UNCHANGED capturing
  PROVE  CaptureOK' /\ Queued' = Queued
  BY DEF capturing, IInv, CaptureOK, Queued

\* Its questions and waits leave what is queued and what was heard.  Unless it
\* discards, or writes, the stage does not matter.
LEMMA WaitStep ==
  ASSUME IInv, UNCHANGED <<capturing, frames, hand, relay>>,
         stage \notin {"discarding", "writing"}, stage' \notin {"discarding", "writing"},
         relay.open => socket'
  PROVE  IInv' /\ WireStep
<1>1. CaptureOK' /\ Queued' = Queued /\ LinkOK' /\ HeardByRelay' = HeardByRelay
  BY NothingQueued DEF HeardByRelay, IInv, LinkOK
<1>2. TransmitOK' /\ Low' = Low
  BY <1>1 DEF IInv, TransmitOK, Low, Floor
<1> QED BY <1>1, <1>2 DEF IInv, WireStep

\* Each of the steps in which transmitTask asks, or waits, is such a step.
LEMMA WaitSteps ==
  ASSUME IInv,
         (\E answer \in BOOLEAN : AskConnected(answer))
            \/ EnsureNetwork \/ EnsureFails \/ StillConnected \/ NoFrame
  PROVE  IInv' /\ WireStep
<1>1. relay.open => socket
  BY DEF IInv, TransmitOK
<1> DEFINE Waits ==
      /\ UNCHANGED <<capturing, frames, hand, relay>>
      /\ stage \notin {"discarding", "writing"} /\ stage' \notin {"discarding", "writing"}
      /\ relay.open => socket'
<1>2. Waits
  <2>1. ASSUME NEW answer \in BOOLEAN, AskConnected(answer) PROVE Waits
    BY <1>1, <2>1 DEF AskConnected, Connected, GoTo
  <2>2. CASE EnsureNetwork
    BY <1>1, <2>2 DEF EnsureNetwork, GoTo, locals
  <2>3. CASE EnsureFails
    BY <1>1, <2>3 DEF EnsureFails, Connected, GoTo
  <2>4. CASE StillConnected
    BY <1>1, <2>4 DEF StillConnected, Connected, GoTo
  <2>5. CASE NoFrame
    BY <1>1, <2>5 DEF NoFrame, GoTo, locals
  <2> QED BY <2>1, <2>2, <2>3, <2>4, <2>5
<1> QED BY <1>2, WaitStep

\* A connection that is made is SourceWire's Connect.
LEMMA DialStep == ASSUME IInv, Dial PROVE IInv' /\ WireStep
<1>1. /\ stage = "relay" /\ stage' = "discarding" /\ socket'
      /\ ~socket \/ ~relay.open
      /\ LinkUp(Queued) /\ UNCHANGED <<capturing, frames, hand>>
  BY DEF Dial, GoTo, locals
<1>2. CaptureOK' /\ Queued' = Queued /\ Queued \in Nat
  BY <1>1, NothingQueued, LowFacts
<1>3. LinkOK' /\ relay'.open /\ ~relay'.known /\ relay'.since = Queued
  BY <1>1, <1>2, LinkUpOK
<1>4. TransmitOK' /\ Low' = 0
  BY <1>1, <1>2, <1>3 DEF TransmitOK, Low, Floor
<1>5. Ascending(frames', Low', Queued')
  BY <1>1, <1>2, <1>4, LowFacts, AscendingLower DEF IInv
<1>6. WireStep
  <2>1. HeardByRelay = Wire!Nothing /\ ~HeardByRelay.open
    <3>1. ~relay.open
      BY <1>1 DEF IInv, TransmitOK
    <3> QED BY <3>1, ClosedIsNothing DEF IInv, Wire!Nothing
  <2>2. HeardByRelay' = [Wire!Nothing EXCEPT !.open = TRUE, !.since = Queued]
    <3>1. /\ relay'.open = TRUE /\ relay'.since = Queued
          /\ relay'.known = FALSE /\ relay'.position = 0
      BY <1>1 DEF LinkUp, NoLink
    <3>2. HeardByRelay' =
             [open |-> TRUE, since |-> Queued, known |-> FALSE, position |-> 0]
      BY <3>1 DEF HeardByRelay
    <3>3. /\ Wire!Nothing \in HeardRecord
          /\ Wire!Nothing.open = FALSE /\ Wire!Nothing.known = FALSE
          /\ Wire!Nothing.position = 0
      BY DEF Wire!Nothing, HeardRecord
    <3> QED BY <1>2, <3>2, <3>3, HeardOfConnection
  <2> QED BY <1>2, <2>1, <2>2 DEF WireStep, Wire!Next, Wire!Connect
<1> QED BY <1>2, <1>3, <1>4, <1>5, <1>6 DEF IInv

\* Discarding the oldest leaves the rest in order; at the end of the backlog,
\* what comes then was queued after the connection.
LEMMA DiscardSteps ==
  ASSUME IInv, Discard \/ DiscardAfterFailure PROVE IInv' /\ WireStep
<1>1. /\ stage \in {"discarding", "failed"}
      /\ UNCHANGED <<capturing, socket, hand, relay>>
      /\ \/ frames # <<>> /\ frames' = Tail(frames) /\ stage' = stage
         \/ /\ frames = <<>> /\ frames' = frames
            /\ stage' \notin {"discarding", "writing"}
  BY DEF Discard, DiscardAfterFailure, GoTo, locals
<1>2. CaptureOK' /\ Queued' = Queued /\ LinkOK' /\ HeardByRelay' = HeardByRelay
  BY <1>1, NothingQueued DEF HeardByRelay, IInv, LinkOK
<1>3. TransmitOK'
  BY <1>1, <1>2 DEF IInv, TransmitOK
<1>4. Ascending(frames', Low', Queued')
  <2>1. CASE frames # <<>>
    <3>1. frames' = Tail(frames) /\ Low' = Low
      BY <1>1, <2>1 DEF Low, Floor
    <3> QED BY <1>2, <2>1, <3>1, LowFacts, AscendingTail DEF IInv
  <2>2. CASE frames = <<>>
    BY <1>1, <2>2 DEF Ascending
  <2> QED BY <2>1, <2>2
<1> QED BY <1>2, <1>3, <1>4 DEF IInv, WireStep

\* A record that is held back leaves the rest in order.
LEMMA SkipStep == ASSUME IInv, Skip PROVE IInv' /\ WireStep
<1>1. /\ frames # <<>> /\ frames' = Tail(frames)
      /\ stage = "receive" /\ stage' = "top"
      /\ UNCHANGED <<capturing, socket, hand, relay>>
  BY DEF Skip, GoTo, locals
<1>2. CaptureOK' /\ Queued' = Queued /\ LinkOK' /\ HeardByRelay' = HeardByRelay
  BY <1>1, NothingQueued DEF HeardByRelay, IInv, LinkOK
<1>3. TransmitOK' /\ Low' = Low
  BY <1>1, <1>2 DEF IInv, TransmitOK, Low, Floor
<1>4. Ascending(frames', Low', Queued')
  BY <1>1, <1>2, <1>3, LowFacts, AscendingTail DEF IInv
<1> QED BY <1>2, <1>3, <1>4 DEF IInv, WireStep

\* A record that is received may be written, and those behind it later.
LEMMA ReceiveStep == ASSUME IInv, Receive PROVE IInv' /\ WireStep
<1>1. /\ stage = "receive" /\ stage' = "writing"
      /\ frames # <<>> /\ frames' = Tail(frames) /\ hand' = Head(frames)
      /\ UNCHANGED <<capturing, socket, relay>>
  BY DEF Receive, GoTo
<1>2. CaptureOK' /\ Queued' = Queued /\ LinkOK' /\ HeardByRelay' = HeardByRelay
  BY <1>1, NothingQueued DEF HeardByRelay, IInv, LinkOK
<1>3. /\ hand' \in Record
      /\ Low <= hand'.position /\ hand'.position < Queued
      /\ Ascending(frames', hand'.position + 1, Queued)
  BY <1>1, LowFacts, AscendingTail DEF IInv
<1>4. Low' = hand'.position + 1
  BY <1>1 DEF Low, Floor
<1>5. HandOK(hand)'
  <2>1. /\ Low = IF relay.known THEN relay.position + 1
                 ELSE IF relay.open THEN relay.since ELSE 0
        /\ relay.known => relay.since <= relay.position
        /\ relay \in Relay
    BY <1>1 DEF Low, Floor, IInv, LinkOK
  <2>2. relay.since \in Nat /\ relay.position \in Nat /\ hand'.position \in Nat
    BY <1>3, <2>1 DEF Relay, Record
  <2> QED BY <1>1, <1>3, <2>1, <2>2 DEF HandOK
<1>6. TransmitOK'
  BY <1>1, <1>2, <1>3, <1>5 DEF IInv, TransmitOK
<1> QED BY <1>2, <1>3, <1>4, <1>6 DEF IInv, WireStep

\* A write that succeeds is SourceWire's Arrive, if the relay is still there.
LEMMA WriteStep == ASSUME IInv, Write PROVE IInv' /\ WireStep
<1>1. /\ stage = "writing" /\ stage' = "top"
      /\ Arrives(hand) /\ UNCHANGED <<capturing, frames, socket>>
  BY DEF Write, GoTo
<1>2. CaptureOK' /\ Queued' = Queued
  BY <1>1, NothingQueued
<1>3. HandOK(hand) /\ hand.position < Queued /\ LinkOK
  BY <1>1 DEF IInv, TransmitOK
<1>4. hand.position \in Nat /\ Queued \in Nat /\ Low = hand.position + 1
  BY <1>1, <1>3, LowFacts DEF HandOK, Record, Low, Floor
<1>5. CASE relay.open
  <2>1. /\ LinkOK' /\ relay'.open /\ relay'.known
        /\ relay'.since = relay.since /\ relay'.position = hand.position
    BY <1>1, <1>3, <1>5, ArrivesOK
  <2>2. TransmitOK' /\ Low' = Low
    BY <1>1, <1>2, <1>3, <1>4, <1>5, <2>1 DEF IInv, TransmitOK, Low, Floor
  <2>3. WireStep
    <3>1. /\ relay \in Relay /\ relay.known \in BOOLEAN
          /\ relay.since \in Nat /\ relay.position \in Nat
      BY <1>3 DEF LinkOK, Relay
    <3>2. HeardByRelay' = [HeardByRelay EXCEPT !.known = TRUE, !.position = hand.position]
      <4>1. /\ relay'.open = relay.open /\ relay'.since = relay.since
            /\ relay'.known = TRUE /\ relay'.position = hand.position
        BY <1>1, <1>5, <3>1 DEF Arrives, Relay
      <4>2. HeardByRelay' = [open |-> relay.open, since |-> relay.since, known |-> TRUE,
                             position |-> hand.position]
        BY <4>1 DEF HeardByRelay
      <4>3. /\ HeardByRelay \in HeardRecord
            /\ HeardByRelay.open = relay.open /\ HeardByRelay.since = relay.since
        BY <3>1 DEF HeardByRelay, HeardRecord, Relay
      <4> QED BY <1>4, <4>2, <4>3, HeardOfRecord
    <3>3. /\ HeardByRelay.open /\ HeardByRelay'.position = hand.position
          /\ HeardByRelay.since = relay.since /\ HeardByRelay.position = relay.position
          /\ HeardByRelay.known = relay.known
      BY <1>5, <2>1 DEF HeardByRelay
    <3>4. /\ HeardByRelay'.position \in HeardByRelay.since .. Queued - 1
          /\ HeardByRelay.known => HeardByRelay'.position > HeardByRelay.position
      BY <1>3, <1>4, <1>5, <3>1, <3>3 DEF HandOK
    <3> QED BY <1>2, <3>2, <3>3, <3>4 DEF WireStep, Wire!Next, Wire!Arrive
  <2> QED BY <1>1, <1>2, <2>1, <2>2, <2>3 DEF IInv
<1>6. CASE ~relay.open
  <2>1. relay' = relay /\ ~relay.known /\ LinkOK'
    BY <1>1, <1>3, <1>6, ArrivesOK
  <2>2. TransmitOK' /\ Low' = 0
    BY <1>1, <1>6, <2>1 DEF TransmitOK, Low, Floor
  <2>3. Ascending(frames', Low', Queued')
    BY <1>1, <1>2, <2>2, LowFacts, AscendingLower DEF IInv
  <2>4. HeardByRelay' = HeardByRelay
    BY <2>1 DEF HeardByRelay
  <2> QED BY <1>2, <2>1, <2>2, <2>3, <2>4 DEF IInv, WireStep
<1> QED BY <1>5, <1>6

\* A connection that ends, at either end, needs no floor for what is queued,
\* but for the record that is still being written.
LEMMA DownSteps == ASSUME IInv, WriteFails \/ RelayCloses PROVE IInv' /\ WireStep
<1>1. /\ LinkDown /\ UNCHANGED <<capturing, frames>>
      /\ \/ stage' = "failed"
         \/ UNCHANGED <<stage, hand>>
  BY DEF WriteFails, RelayCloses, GoTo, locals
<1>2. CaptureOK' /\ Queued' = Queued
  BY <1>1, NothingQueued
<1>3. LinkOK' /\ ~relay'.open /\ ~relay'.known
  BY <1>1, LinkDownOK
<1>4. TransmitOK'
  BY <1>1, <1>2, <1>3 DEF IInv, TransmitOK, HandOK
<1>5. Low' = Low \/ Low' = 0
  BY <1>1, <1>3 DEF Low, Floor
<1>6. Ascending(frames', Low', Queued')
  BY <1>1, <1>2, <1>5, LowFacts, AscendingLower DEF IInv
<1>7. WireStep
  BY <1>1, <1>2, DownIsDisconnect DEF IInv
<1> QED BY <1>2, <1>3, <1>4, <1>6, <1>7 DEF IInv

\* Every step preserves the inductive invariant and is one of SourceWire, or
\* none.
LEMMA StepKeepsToTheWire == IInv /\ [Next]_vars => IInv' /\ WireStep
<1> SUFFICES ASSUME IInv, [Next]_vars PROVE IInv' /\ WireStep
  OBVIOUS
<1>1. ASSUME NEW silent \in BOOLEAN, Capture(silent) PROVE IInv' /\ WireStep
  BY <1>1, CaptureStep
<1>2. CASE ReadFails \/ FillLine \/ DropOldest
  BY <1>2, EmptyPeriodStep, DropOldestStep
<1>3. CASE TransmitStep
  <2>1. CASE (\E answer \in BOOLEAN : AskConnected(answer))
                \/ EnsureNetwork \/ EnsureFails \/ StillConnected \/ NoFrame
    BY <2>1, WaitSteps
  <2>2. CASE Dial \/ Discard \/ DiscardAfterFailure
    BY <2>2, DialStep, DiscardSteps
  <2>3. CASE Skip \/ Receive \/ Write \/ WriteFails
    BY <2>3, SkipStep, ReceiveStep, WriteStep, DownSteps
  <2> QED BY <1>3, <2>1, <2>2, <2>3 DEF TransmitStep
<1>4. CASE RelayCloses
  BY <1>4, DownSteps
<1>5. CASE UNCHANGED vars
  <2>1. UNCHANGED <<filled, position, latest, capture, frames, stage, socket, hand, relay>>
    BY <1>5 DEF vars, capturing, locals
  <2> QED BY <2>1 DEF IInv, CaptureOK, LinkOK, TransmitOK, HandOK, Low, Floor, Queued, WireStep,
                      HeardByRelay
<1> QED BY <1>1, <1>2, <1>3, <1>4, <1>5 DEF Next

\* The firmware, with any depth of its queue and wherever captureTask preempts
\* transmitTask, sends the relay growing positions on each connection, and none
\* that was queued before it.
THEOREM Esp32KeepsToTheWire == Spec => KeepsToTheWire
<1>1. IInv /\ [Next]_vars => [Wire!Next]_<<Queued, HeardByRelay>>
  BY StepKeepsToTheWire DEF WireStep
<1>2. IInv /\ [Next]_vars => IInv'
  BY StepKeepsToTheWire
<1> QED BY <1>1, <1>2, InitEstablishesIInv, PTL DEF Spec, KeepsToTheWire, Wire!Spec
-----------------------------------------------------------------------------
(***************************************************************************)
(* What the relay knows when transmitTask has caught up.  The record that  *)
(* captureTask made last is followed through the queue: it is the newest   *)
(* there until transmitTask sends or skips it.  quiet outlives neither a   *)
(* failed write nor a failed ensureRelay, but a connection that is made    *)
(* between the two questions, so that on an open connection it only says   *)
(* that the relay was told nothing else.                                   *)
(***************************************************************************)
PaceOK == quiet \in BOOLEAN /\ lastQuiet \in Nat

NewestIsQueued == capture # "full" /\ frames # <<>> => Newest(frames) = latest

\* Where records may be skipped, the relay heard of the silence or of nothing.
QuietIsTold == relay.open /\ relay.known /\ quiet => relay.quiet

\* The last record left the queue to be sent, or was one more of a silence.
NewestIsTold ==
    judged /\ capture # "full" /\ frames = <<>> =>
        /\ stage = "writing" => hand = latest
        /\ stage # "writing" /\ relay.open =>
              /\ ~relay.known => latest.quiet
              /\ relay.known => relay.quiet = latest.quiet
              /\ relay.known /\ ~latest.quiet => relay.position = latest.position

\* The relay heard of a silence, or of the connection, no longer ago than
\* transmitTask believes.
HeartbeatIsTold ==
    relay.open /\ quiet /\ lastQuiet <= Heartbeat => relay.age <= lastQuiet

KnowsOK ==
    /\ PaceOK
    /\ NewestIsQueued
    /\ QuietIsTold
    /\ NewestIsTold
    /\ HeartbeatIsTold
    /\ SilenceIsNotDeath

\* While the delay line fills there is no record to judge.
LineOK == missed \in Nat /\ (filled < LineDepth => ~judged)

KnowsIInv == IInv /\ LineOK /\ KnowsOK

\* What the proofs below take from the inductive invariant.
LEMMA KnownFacts ==
  ASSUME IInv
  PROVE  /\ relay \in Relay /\ LinkOK
         /\ frames \in Seq(Record)
         /\ latest \in Record /\ latest.quiet \in BOOLEAN
         /\ capture \in {"read", "full"}
         /\ stage = "writing" => HandOK(hand) /\ hand.quiet \in BOOLEAN
  BY DEF IInv, LinkOK, TransmitOK, Ascending, CaptureOK, HandOK, Record

\* Records judge, and they come from a full line.
LEMMA LineStep == ASSUME IInv, LineOK, [Next]_vars PROVE LineOK'
<1>1. MaxAge \in Nat /\ LineDepth \in Nat
  BY LinkAssumption DEF MaxAge
<1>2. missed \in Nat
  BY DEF LineOK
<1>3. CASE ReadFails
  <2>1. missed' = Older(missed, MaxAge) /\ UNCHANGED <<filled, judged>>
    BY <1>3 DEF ReadFails, PeriodPasses
  <2> QED BY <1>1, <1>2, <2>1, OlderOK DEF LineOK
<1>4. CASE FillLine
  BY <1>4 DEF FillLine, PeriodPasses, LineOK
<1>5. ASSUME NEW silent \in BOOLEAN, Capture(silent) PROVE LineOK'
  <2>1. missed' = 0 /\ filled' = LineDepth
    BY <1>5 DEF Capture
  <2> QED BY <1>1, <2>1 DEF LineOK
<1>6. ASSUME UNCHANGED <<filled, missed>>, judged' => judged PROVE LineOK'
  BY <1>6 DEF LineOK
<1>7. ASSUME UNCHANGED <<filled, missed>>, frames # <<>> PROVE LineOK'
  <2>1. ~(filled < LineDepth)
    <3> SUFFICES ASSUME filled < LineDepth PROVE FALSE
      OBVIOUS
    <3>1. position = 0 /\ capture # "full"
      BY DEF IInv, CaptureOK
    <3>2. Queued = 0
      BY <3>1 DEF Queued
    <3>3. Low \in Nat /\ Low <= Head(frames).position /\ Head(frames).position < 0
          /\ Head(frames) \in Record
      BY <1>7, <3>2, LowFacts, AscendingTail DEF IInv
    <3>4. Head(frames).position \in Nat
      BY <3>3 DEF Record
    <3> QED BY <3>3, <3>4
  <2> QED BY <1>7, <2>1 DEF LineOK
<1>8. CASE Skip \/ Receive
  <2>1. UNCHANGED <<filled, missed>> /\ frames # <<>>
    BY <1>8 DEF Skip, Receive, capturing
  <2> QED BY <1>7, <2>1
<1>9. CASE DropOldest \/ RelayCloses \/ UNCHANGED vars
  <2>1. UNCHANGED <<filled, missed, judged>>
    BY <1>9 DEF DropOldest, RelayCloses, vars, capturing
  <2> QED BY <1>6, <2>1
<1>10. CASE TransmitStep /\ ~Skip /\ ~Receive
  <2>1. UNCHANGED <<filled, missed>> /\ (judged' => judged)
    BY <1>10 DEF TransmitStep, AskConnected, EnsureNetwork, EnsureFails, StillConnected, Dial,
                 Discard, NoFrame, Write, WriteFails, DiscardAfterFailure, capturing
  <2> QED BY <1>6, <2>1
<1> QED BY <1>3, <1>4, <1>5, <1>8, <1>9, <1>10 DEF Next

\* Initially there is nothing to know.
LEMMA InitKnows == Init => LineOK /\ KnowsOK
<1> SUFFICES ASSUME Init PROVE LineOK /\ KnowsOK
  OBVIOUS
<1>1. ~relay.known /\ ~relay.open
  BY DEF Init, NoLink
<1>2. Heartbeat + 1 \in Nat
  BY LinkAssumption
<1> QED BY <1>1, <1>2
        DEF Init, LineOK, KnowsOK, PaceOK, NewestIsQueued, QuietIsTold, NewestIsTold,
            HeartbeatIsTold, SilenceIsNotDeath

\* A period that passes brings a record, so that transmitTask has not caught
\* up.
LEMMA CaptureKnows ==
  ASSUME IInv, KnowsOK, NEW silent \in BOOLEAN, Capture(silent) PROVE KnowsOK'
<1>1. /\ capture = "read" /\ latest' = [position |-> position, quiet |-> silent]
      /\ IF Len(frames) < QueueDepth
         THEN frames' = Append(frames, latest') /\ UNCHANGED capture
         ELSE capture' = "full" /\ UNCHANGED frames
      /\ lastQuiet' = Older(lastQuiet, Heartbeat + 1)
      /\ LinkAges
      /\ UNCHANGED <<stage, quiet, hand, judged>>
  BY DEF Capture, PeriodPasses
<1>2. /\ relay'.open = relay.open /\ relay'.known = relay.known
      /\ relay'.quiet = relay.quiet
      /\ relay'.age <= relay.age + 1 /\ relay'.age \in Nat /\ relay.age \in Nat
  <2>1. LinkOK' /\ LinkOK
    BY <1>1, LinkAgesOK DEF IInv
  <2> QED BY <1>1, <2>1, LinkAgesOK, AgesOK DEF LinkOK, Relay
<1>3. /\ Heartbeat \in Nat /\ Heartbeat + 1 \in Nat
      /\ lastQuiet \in Nat /\ quiet \in BOOLEAN
  BY LinkAssumption DEF KnowsOK, PaceOK
<1>4. NewestIsQueued' /\ (capture' = "full" \/ frames' # <<>>)
  <2>1. frames \in Seq(Record) /\ latest' \in Record
    BY <1>1, KnownFacts DEF IInv, CaptureOK, Record
  <2>2. CASE Len(frames) < QueueDepth
    <3>1. frames' = Append(frames, latest')
      BY <1>1, <2>2
    <3>2. frames' # <<>> /\ Newest(frames') = latest'
      BY <2>1, <3>1, NewestOfOffer
    <3> QED BY <3>2 DEF NewestIsQueued
  <2>3. CASE ~(Len(frames) < QueueDepth)
    BY <1>1, <2>3 DEF NewestIsQueued
  <2> QED BY <2>2, <2>3
<1>5. PaceOK'
  BY <1>1, <1>3, OlderOK DEF PaceOK
<1>6. QuietIsTold' /\ NewestIsTold' /\ SilenceIsNotDeath'
  BY <1>1, <1>2, <1>4 DEF KnowsOK, QuietIsTold, NewestIsTold, SilenceIsNotDeath, CaughtUp
<1>7. HeartbeatIsTold'
  <2> SUFFICES ASSUME relay.open, quiet, lastQuiet' <= Heartbeat
               PROVE  relay'.age <= lastQuiet'
    BY <1>1, <1>2 DEF HeartbeatIsTold
  <2>1. lastQuiet' \in Nat /\ lastQuiet' < Heartbeat + 1
    BY <1>3, <1>5 DEF PaceOK
  <2>2. lastQuiet' = lastQuiet + 1
    BY <1>1, <1>3, <2>1, OlderOK
  <2>3. relay.age <= lastQuiet
    BY <1>3, <2>2 DEF KnowsOK, HeartbeatIsTold
  <2> QED BY <1>2, <1>3, <2>2, <2>3
<1> QED BY <1>4, <1>5, <1>6, <1>7 DEF KnowsOK

\* A period without a record ages what the relay heard, and where there was a
\* record to judge, it is one that the microphone missed.
LEMMA EmptyPeriodKnows ==
  ASSUME IInv, LineOK, KnowsOK, ReadFails \/ FillLine PROVE KnowsOK'
<1>1. /\ lastQuiet' = Older(lastQuiet, Heartbeat + 1)
      /\ LinkAges
      /\ UNCHANGED <<latest, capture, frames, stage, quiet, hand, judged>>
  BY DEF ReadFails, FillLine, PeriodPasses
<1>2. /\ relay'.open = relay.open /\ relay'.known = relay.known
      /\ relay'.position = relay.position /\ relay'.quiet = relay.quiet
      /\ relay'.age <= relay.age + 1 /\ relay'.age \in Nat /\ relay.age \in Nat
  <2>1. LinkOK' /\ LinkOK
    BY <1>1, LinkAgesOK DEF IInv
  <2> QED BY <1>1, <2>1, LinkAgesOK, AgesOK DEF LinkOK, Relay
<1>3. /\ Heartbeat \in Nat /\ Heartbeat + 1 \in Nat /\ MaxAge \in Nat
      /\ lastQuiet \in Nat /\ quiet \in BOOLEAN /\ missed \in Nat
  BY LinkAssumption DEF KnowsOK, PaceOK, LineOK, MaxAge
<1>4. PaceOK'
  BY <1>1, <1>3, OlderOK DEF PaceOK
<1>5. NewestIsQueued' /\ QuietIsTold' /\ NewestIsTold'
  BY <1>1, <1>2 DEF KnowsOK, NewestIsQueued, QuietIsTold, NewestIsTold
<1>6. HeartbeatIsTold'
  <2> SUFFICES ASSUME relay.open, quiet, lastQuiet' <= Heartbeat
               PROVE  relay'.age <= lastQuiet'
    BY <1>1, <1>2 DEF HeartbeatIsTold
  <2>1. lastQuiet' \in Nat /\ lastQuiet' < Heartbeat + 1
    BY <1>3, <1>4 DEF PaceOK
  <2>2. lastQuiet' = lastQuiet + 1
    BY <1>1, <1>3, <2>1, OlderOK
  <2>3. relay.age <= lastQuiet
    BY <1>3, <2>2 DEF KnowsOK, HeartbeatIsTold
  <2> QED BY <1>2, <1>3, <2>2, <2>3
<1>7. SilenceIsNotDeath'
  <2> SUFFICES ASSUME CaughtUp', relay.open PROVE relay'.age <= Heartbeat + missed'
    BY <1>2 DEF SilenceIsNotDeath
  <2>1. CaughtUp /\ judged
    BY <1>1 DEF CaughtUp
  <2>2. ReadFails
    BY <2>1 DEF FillLine, LineOK
  <2>3. missed' = Older(missed, MaxAge)
    BY <2>2 DEF ReadFails
  <2>4. relay.age <= Heartbeat + missed
    BY <2>1 DEF KnowsOK, SilenceIsNotDeath
  <2>5. relay'.age <= MaxAge
    <3>1. relay'.age = Older(relay.age, MaxAge)
      <4>1. relay \in Relay
        BY KnownFacts
      <4> QED BY <1>1, <4>1 DEF LinkAges, Relay
    <3> QED BY <1>2, <1>3, <3>1 DEF Older
  <2>6. CASE missed < MaxAge
    <3>1. missed' = missed + 1
      BY <2>3, <2>6 DEF Older
    <3> QED BY <1>2, <1>3, <2>4, <3>1
  <2>7. CASE ~(missed < MaxAge)
    <3>1. missed' = MaxAge
      BY <2>3, <2>7 DEF Older
    <3> QED BY <1>2, <1>3, <2>5, <3>1
  <2> QED BY <2>6, <2>7
<1> QED BY <1>4, <1>5, <1>6, <1>7 DEF KnowsOK

\* The record that found no room is queued after all.
LEMMA DropOldestKnows == ASSUME IInv, KnowsOK, DropOldest PROVE KnowsOK'
<1>1. /\ frames' = Append(IF frames = <<>> THEN frames ELSE Tail(frames), latest)
      /\ UNCHANGED <<latest, stage, quiet, lastQuiet, hand, judged, relay>>
  BY DEF DropOldest, locals
<1>2. frames' # <<>> /\ Newest(frames') = latest'
  <2>1. frames \in Seq(Record) /\ latest \in Record
    BY KnownFacts
  <2> QED BY <1>1, <2>1, NewestOfOffer
<1> QED BY <1>1, <1>2
        DEF KnowsOK, PaceOK, NewestIsQueued, QuietIsTold, NewestIsTold, HeartbeatIsTold,
            SilenceIsNotDeath, CaughtUp

\* The steps that only move on, or forget that the source is quiet.
LEMMA WaitKnows ==
  ASSUME KnowsOK, UNCHANGED <<capturing, frames, lastQuiet, hand, judged, relay>>,
         stage # "writing", stage' # "writing", quiet' \in BOOLEAN, quiet' => quiet
  PROVE  KnowsOK'
  BY DEF KnowsOK, PaceOK, NewestIsQueued, QuietIsTold, NewestIsTold, HeartbeatIsTold,
         SilenceIsNotDeath, CaughtUp, capturing

\* Asking for the network and the connection, waiting for a frame, and the end
\* of what is discarded are such steps.
LEMMA WaitStepsKnow ==
  ASSUME KnowsOK,
         \/ \E answer \in BOOLEAN : AskConnected(answer)
         \/ EnsureNetwork \/ EnsureFails \/ StillConnected \/ NoFrame
         \/ (Discard \/ DiscardAfterFailure) /\ frames = <<>>
  PROVE  KnowsOK'
<1>1. quiet \in BOOLEAN
  BY DEF KnowsOK, PaceOK
<1>2. CASE (\E answer \in BOOLEAN : AskConnected(answer)) \/ EnsureNetwork \/ EnsureFails
           \/ NoFrame
  <2>1. /\ UNCHANGED <<capturing, frames, lastQuiet, hand, judged, relay>>
        /\ stage # "writing" /\ stage' # "writing" /\ (quiet' = quiet \/ quiet' = FALSE)
    BY <1>2 DEF AskConnected, EnsureNetwork, EnsureFails, NoFrame, GoTo, locals
  <2>2. CASE quiet' = quiet
    BY <1>1, <2>1, <2>2, WaitKnows
  <2>3. CASE quiet' = FALSE
    <3>1. quiet' \in BOOLEAN /\ (quiet' => quiet)
      BY <2>3, Zenon
    <3> QED BY <2>1, <3>1, WaitKnows
  <2> QED BY <2>1, <2>2, <2>3
<1>3. CASE StillConnected
  <2>1. /\ UNCHANGED <<capturing, frames, lastQuiet, hand, judged, relay>>
        /\ stage # "writing" /\ stage' # "writing" /\ quiet' = (quiet /\ wasConnected)
    BY <1>3 DEF StillConnected, Ensured, GoTo
  <2>2. quiet' \in BOOLEAN /\ (quiet' => quiet)
    BY <2>1, Zenon
  <2> QED BY <2>1, <2>2, WaitKnows
<1>4. CASE Discard /\ frames = <<>>
  <2>1. /\ UNCHANGED <<capturing, frames, lastQuiet, hand, judged, relay>>
        /\ stage # "writing" /\ stage' # "writing" /\ quiet' = (quiet /\ wasConnected)
    BY <1>4 DEF Discard, Ensured, GoTo
  <2>2. quiet' \in BOOLEAN /\ (quiet' => quiet)
    BY <2>1, Zenon
  <2> QED BY <2>1, <2>2, WaitKnows
<1>5. CASE DiscardAfterFailure /\ frames = <<>>
  <2>1. /\ UNCHANGED <<capturing, frames, lastQuiet, hand, judged, relay, quiet>>
        /\ stage # "writing" /\ stage' # "writing"
    BY <1>5 DEF DiscardAfterFailure, GoTo, locals
  <2> QED BY <1>1, <2>1, WaitKnows
<1> QED BY <1>2, <1>3, <1>4, <1>5

\* A connection that is made was told nothing, nor a record on it judged.
LEMMA DialKnows == ASSUME IInv, KnowsOK, Dial PROVE KnowsOK'
<1>1. /\ LinkUp(Queued) /\ ~judged'
      /\ UNCHANGED <<latest, capture, frames, quiet, lastQuiet, hand>>
  BY DEF Dial, capturing, locals
<1>2. ~relay'.known /\ relay'.age = 0
  BY <1>1 DEF LinkUp, NoLink
<1> QED BY <1>1, <1>2
        DEF KnowsOK, PaceOK, NewestIsQueued, QuietIsTold, NewestIsTold, HeartbeatIsTold,
            SilenceIsNotDeath, CaughtUp

\* A record that is discarded was not judged.
LEMMA DiscardKnows ==
  ASSUME IInv, KnowsOK, Discard \/ DiscardAfterFailure, frames # <<>> PROVE KnowsOK'
<1>1. /\ frames' = Tail(frames) /\ ~judged'
      /\ UNCHANGED <<latest, capture, stage, quiet, lastQuiet, hand, relay>>
  BY DEF Discard, DiscardAfterFailure, capturing, locals
<1>2. NewestIsQueued'
  <2>1. frames \in Seq(Record)
    BY KnownFacts
  <2> QED BY <1>1, <2>1, NewestOfTail DEF KnowsOK, NewestIsQueued
<1> QED BY <1>1, <1>2
        DEF KnowsOK, PaceOK, QuietIsTold, NewestIsTold, HeartbeatIsTold, SilenceIsNotDeath,
            CaughtUp

\* A record that is skipped is as quiet as what the relay was told, and the
\* relay was told it, or connected, within the heartbeat.
LEMMA SkipKnows == ASSUME IInv, LineOK, KnowsOK, Skip PROVE KnowsOK'
<1>1. /\ stage = "receive" /\ stage' = "top" /\ frames # <<>> /\ frames' = Tail(frames)
      /\ Head(frames).quiet /\ quiet /\ lastQuiet <= Heartbeat
      /\ UNCHANGED <<latest, capture, missed, quiet, lastQuiet, hand, relay>>
  BY DEF Skip, capturing, locals, GoTo
<1>2. /\ Tail(frames) = <<>> => Head(frames) = Newest(frames)
      /\ Tail(frames) # <<>> => Newest(Tail(frames)) = Newest(frames)
  <2>1. frames \in Seq(Record)
    BY KnownFacts
  <2> QED BY <1>1, <2>1, NewestOfTail
<1>3. capture # "full" => Newest(frames) = latest
  BY <1>1 DEF KnowsOK, NewestIsQueued
<1>4. NewestIsTold'
  <2> SUFFICES ASSUME capture # "full", Tail(frames) = <<>>, relay.open
               PROVE  latest.quiet /\ (relay.known => relay.quiet = latest.quiet)
    BY <1>1 DEF NewestIsTold
  <2>1. latest.quiet /\ latest.quiet \in BOOLEAN /\ relay.quiet \in BOOLEAN
    BY <1>1, <1>2, <1>3, KnownFacts DEF Relay
  <2>2. relay.known => relay.quiet
    BY <1>1 DEF KnowsOK, QuietIsTold
  <2> QED BY <2>1, <2>2
<1>5. SilenceIsNotDeath'
  <2> SUFFICES ASSUME relay.open PROVE relay.age <= Heartbeat + missed
    BY <1>1 DEF SilenceIsNotDeath
  <2>1. relay.age <= lastQuiet /\ lastQuiet <= Heartbeat
    BY <1>1 DEF KnowsOK, HeartbeatIsTold
  <2>2. relay.age \in Nat /\ lastQuiet \in Nat /\ Heartbeat \in Nat /\ missed \in Nat
    BY KnownFacts, LinkAssumption DEF Relay, KnowsOK, PaceOK, LineOK
  <2> QED BY <2>1, <2>2
<1>6. PaceOK' /\ NewestIsQueued' /\ QuietIsTold' /\ HeartbeatIsTold'
  BY <1>1, <1>2, <1>3 DEF KnowsOK, PaceOK, NewestIsQueued, QuietIsTold, HeartbeatIsTold
<1> QED BY <1>4, <1>5, <1>6 DEF KnowsOK

\* The record that is received is the last, if it leaves the queue empty.
LEMMA ReceiveKnows == ASSUME IInv, KnowsOK, Receive PROVE KnowsOK'
<1>1. /\ stage' = "writing" /\ frames # <<>> /\ frames' = Tail(frames)
      /\ hand' = Head(frames)
      /\ UNCHANGED <<latest, capture, quiet, lastQuiet, relay>>
  BY DEF Receive, capturing, GoTo
<1>2. /\ Tail(frames) = <<>> => Head(frames) = Newest(frames)
      /\ Tail(frames) # <<>> => Newest(Tail(frames)) = Newest(frames)
  <2>1. frames \in Seq(Record)
    BY KnownFacts
  <2> QED BY <1>1, <2>1, NewestOfTail
<1>3. capture # "full" => Newest(frames) = latest
  BY <1>1 DEF KnowsOK, NewestIsQueued
<1>4. NewestIsQueued' /\ NewestIsTold'
  BY <1>1, <1>2, <1>3 DEF NewestIsQueued, NewestIsTold
<1>5. PaceOK' /\ QuietIsTold' /\ HeartbeatIsTold' /\ SilenceIsNotDeath'
  BY <1>1 DEF KnowsOK, PaceOK, QuietIsTold, HeartbeatIsTold, SilenceIsNotDeath, CaughtUp
<1> QED BY <1>4, <1>5 DEF KnowsOK

\* A record that is written is what the relay knows, just now.
LEMMA WriteKnows == ASSUME IInv, LineOK, KnowsOK, Write PROVE KnowsOK'
<1>1. /\ stage = "writing" /\ Arrives(hand) /\ stage' = "top"
      /\ quiet' = hand.quiet /\ lastQuiet' = IF hand.quiet THEN 0 ELSE lastQuiet
      /\ UNCHANGED <<latest, capture, missed, frames, judged>>
  BY DEF Write, capturing, GoTo
<1>2. HandOK(hand) /\ LinkOK /\ hand.quiet \in BOOLEAN
  BY <1>1, KnownFacts
<1>3. judged /\ capture # "full" /\ frames = <<>> => hand = latest
  BY <1>1 DEF KnowsOK, NewestIsTold
<1>4. PaceOK' /\ NewestIsQueued'
  BY <1>1, <1>2 DEF KnowsOK, PaceOK, NewestIsQueued
<1>5. CASE relay.open
  <2>1. /\ relay'.open /\ relay'.known /\ relay'.position = hand.position
        /\ relay'.quiet = hand.quiet /\ relay'.age = 0
    BY <1>1, <1>2, <1>5, ArrivesOK, ArrivesAnew
  <2>2. lastQuiet' \in Nat /\ Heartbeat \in Nat /\ missed' \in Nat
    BY <1>1, <1>4, LinkAssumption DEF PaceOK, LineOK
  <2>3. QuietIsTold' /\ NewestIsTold'
    BY <1>1, <1>3, <2>1 DEF QuietIsTold, NewestIsTold
  <2>4. HeartbeatIsTold'
    BY <2>1, <2>2 DEF HeartbeatIsTold
  <2>5. relay'.age <= Heartbeat + missed'
    <3>1. PICK n \in Nat : n = missed
      BY <1>1, <2>2
    <3>2. 0 <= Heartbeat + n
      BY <2>2, <3>1
    <3>3. relay'.age = 0 /\ missed' = n
      BY <1>1, <2>1, <3>1
    <3> QED BY <3>2, <3>3
  <2>6. SilenceIsNotDeath'
    BY <2>5 DEF SilenceIsNotDeath
  <2> QED BY <1>4, <2>3, <2>4, <2>6 DEF KnowsOK
<1>6. CASE ~relay.open
  <2>1. ~relay'.open
    BY <1>1, <1>2, <1>6, ArrivesOK
  <2>2. QuietIsTold' /\ NewestIsTold' /\ HeartbeatIsTold' /\ SilenceIsNotDeath'
    BY <1>1, <2>1 DEF QuietIsTold, NewestIsTold, HeartbeatIsTold, SilenceIsNotDeath
  <2> QED BY <1>4, <2>2 DEF KnowsOK
<1> QED BY <1>5, <1>6

\* Of a relay that is gone nothing is said.
LEMMA DownKnows == ASSUME KnowsOK, WriteFails \/ RelayCloses PROVE KnowsOK'
<1>1. /\ ~relay'.open /\ UNCHANGED <<latest, capture, frames, lastQuiet, judged>>
      /\ quiet' = quiet \/ quiet' = FALSE
      /\ stage' = "failed" \/ (stage' = stage /\ hand' = hand)
  <2>1. ~relay'.open
    BY DEF WriteFails, RelayCloses, LinkDown, NoLink
  <2>2. CASE WriteFails
    BY <2>1, <2>2 DEF WriteFails, capturing, GoTo
  <2>3. CASE RelayCloses
    BY <2>1, <2>3 DEF RelayCloses, capturing, locals
  <2> QED BY <2>2, <2>3
<1> QED BY <1>1
        DEF KnowsOK, PaceOK, NewestIsQueued, QuietIsTold, NewestIsTold, HeartbeatIsTold,
            SilenceIsNotDeath

\* Every step preserves what the relay knows.
LEMMA StepKnows == KnowsIInv /\ [Next]_vars => KnowsIInv'
<1> SUFFICES ASSUME IInv, LineOK, KnowsOK, [Next]_vars PROVE KnowsOK'
  BY StepKeepsToTheWire, LineStep DEF KnowsIInv
<1>1. ASSUME NEW silent \in BOOLEAN, Capture(silent) PROVE KnowsOK'
  BY <1>1, CaptureKnows
<1>2. CASE ReadFails \/ FillLine \/ DropOldest
  BY <1>2, EmptyPeriodKnows, DropOldestKnows
<1>3. CASE TransmitStep
  <2>1. CASE (\E answer \in BOOLEAN : AskConnected(answer))
                \/ EnsureNetwork \/ EnsureFails \/ StillConnected \/ NoFrame
    BY <2>1, WaitStepsKnow
  <2>2. CASE Discard \/ DiscardAfterFailure
    BY <2>2, WaitStepsKnow, DiscardKnows
  <2>3. CASE Dial \/ Skip \/ Receive \/ Write \/ WriteFails
    BY <2>3, DialKnows, SkipKnows, ReceiveKnows, WriteKnows, DownKnows
  <2> QED BY <1>3, <2>1, <2>2, <2>3 DEF TransmitStep
<1>4. CASE RelayCloses
  BY <1>4, DownKnows
<1>5. CASE UNCHANGED vars
  <2>1. UNCHANGED <<latest, capture, missed, frames, stage, quiet, lastQuiet, hand, judged,
                    relay>>
    BY <1>5 DEF vars, capturing, locals
  <2> QED BY <2>1 DEF KnowsOK, PaceOK, NewestIsQueued, QuietIsTold, NewestIsTold,
                      HeartbeatIsTold, SilenceIsNotDeath, CaughtUp
<1> QED BY <1>1, <1>2, <1>3, <1>4, <1>5 DEF Next

\* The strengthened invariant holds in every state, and it is what the two
\* theorems below are read off.
LEMMA Esp32Knows == Spec => []KnowsIInv
<1>1. Init => KnowsIInv
  BY InitEstablishesIInv, InitKnows DEF KnowsIInv
<1> QED BY <1>1, StepKnows, PTL DEF Spec

\* Whatever the queue drops, whichever connections fail and wherever WiFi
\* blocks transmitTask, once it has caught up the relay knows whether the
\* source is quiet, and if it is not, its last record.
THEOREM Esp32TellsTheState == Spec => []RelayKnowsTheState
<1>1. KnowsIInv => RelayKnowsTheState
  <2> SUFFICES ASSUME KnowsIInv, CaughtUp, relay.open
               PROVE  /\ ~relay.known => latest.quiet
                      /\ relay.known => relay.quiet = latest.quiet
                      /\ relay.known /\ ~latest.quiet => relay.position = latest.position
    BY DEF RelayKnowsTheState
  <2>1. NewestIsTold /\ capture # "full" /\ frames = <<>> /\ stage # "writing" /\ judged
    BY DEF KnowsIInv, KnowsOK, CaughtUp
  <2> QED BY <2>1 DEF NewestIsTold
<1> QED BY <1>1, Esp32Knows, PTL

\* A source that is quiet for ever is heard of once a heartbeat, and the time
\* its microphone fails, on every connection, also one made between the two
\* questions.
THEOREM Esp32BeatsInTime == Spec => []SilenceIsNotDeath
<1>1. KnowsIInv => SilenceIsNotDeath
  BY DEF KnowsIInv, KnowsOK
<1> QED BY <1>1, Esp32Knows, PTL
=============================================================================
