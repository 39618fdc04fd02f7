--------------------------- MODULE ConsoleProofs ----------------------------
(***************************************************************************)
(* The console keeps to module SourceWire, for every depth of its queues   *)
(* and every period: each step maps to a step of SourceWire or to none.    *)
(* And what the relay knows of it is its state: the newest record is       *)
(* followed through the queues until it is sent, or known to be skipped.   *)
(***************************************************************************)
EXTENDS Console, SourceLinkProofs

\* What is queued must not be below this position.
Low == Floor(transmit = "writing", hand, transmit # "discarding")

\* The numbering of encode: nothing left the delay line before it was full, and
\* a record that waits for the second select of its Offer is the last, and the
\* next to be queued.
EncodeOK ==
    /\ position \in Nat
    /\ filled < LineDepth => position = 0
    /\ latest \in Record
    /\ encode \in {"select", "full", "returned"}
    /\ encode = "full" => position > 0 /\ latest.position = position - 1

\* Run has a connection only where transmitUntilClosed is.
TransmitOK ==
    /\ transmit \in {"dialing", "discarding", "select", "writing", "delay", "returned"}
    /\ relay.open => relay.since <= Queued /\ transmit \in {"discarding", "select", "writing"}
    /\ relay.known => relay.position < Queued /\ transmit # "discarding"
    /\ transmit = "writing" => HandOK(hand) /\ hand.position < Queued

IInv ==
    /\ EncodeOK
    /\ LinkOK
    /\ TransmitOK
    /\ Ascending(records, Low, Queued)

\* What a step is to SourceWire.
WireStep == [Wire!Next]_<<Queued, HeardByRelay>>

-----------------------------------------------------------------------------
\* The floor is a position queued already, so that the next may be queued.
LEMMA LowFacts ==
  ASSUME IInv
  PROVE  Queued \in Nat /\ Low \in Nat /\ Low <= Queued
<1>1. /\ position \in Nat
      /\ encode = "full" => position > 0
      /\ relay \in Relay
      /\ relay.open => relay.since <= Queued
      /\ relay.known => relay.position < Queued
      /\ transmit = "writing" => hand \in Record /\ hand.position < Queued
  BY DEF IInv, EncodeOK, LinkOK, TransmitOK, HandOK
<1>2. Queued \in Nat
  BY <1>1 DEF Queued
<1>3. relay.since \in Nat /\ relay.position \in Nat
  BY <1>1 DEF Relay
<1>4. transmit = "writing" => hand.position \in Nat
  BY <1>1 DEF Record
<1> QED BY <1>1, <1>2, <1>3, <1>4 DEF Low, Floor

\* To SourceWire a closed connection is Nothing.
LEMMA ClosedIsNothing ==
  ASSUME LinkOK, ~relay.open PROVE HeardByRelay = Wire!Nothing
<1>1. relay = NoLink
  BY DEF LinkOK
<1>2. relay.open = FALSE /\ relay.since = 0 /\ relay.known = FALSE /\ relay.position = 0
  BY <1>1 DEF NoLink
<1> QED BY <1>2 DEF HeardByRelay, Wire!Nothing

\* Giving up a connection is SourceWire's Disconnect, if there was one.
LEMMA DownIsDisconnect ==
  ASSUME LinkOK, LinkDown, Queued' = Queued
  PROVE  WireStep
<1>1. HeardByRelay' = Wire!Nothing
  BY DEF LinkDown, NoLink, HeardByRelay, Wire!Nothing
<1>2. CASE relay.open
  <2>1. HeardByRelay.open
    BY <1>2 DEF HeardByRelay
  <2> QED BY <1>1, <2>1 DEF WireStep, Wire!Next, Wire!Disconnect
<1>3. CASE ~relay.open
  BY <1>1, <1>3, ClosedIsNothing DEF WireStep
<1> QED BY <1>2, <1>3

\* Initially nothing is queued, and there is no connection.
LEMMA InitEstablishesIInv == Init => IInv /\ Wire!Init
<1> SUFFICES ASSUME Init PROVE IInv /\ Wire!Init
  OBVIOUS
<1>1. LinkOK /\ relay.known = FALSE /\ relay.open = FALSE
  BY DEF Init, LinkOK, NoLink, Relay
<1>2. EncodeOK /\ Queued = 0
  BY LinkAssumption DEF Init, EncodeOK, NoRecord, Record, Queued
<1>3. TransmitOK
  BY <1>1 DEF Init, TransmitOK
<1>4. Ascending(records, Low, Queued)
  BY DEF Init, Ascending
<1>5. HeardByRelay = Wire!Nothing
  BY <1>1, ClosedIsNothing
<1> QED BY <1>1, <1>2, <1>3, <1>4, <1>5 DEF IInv, Wire!Init

-----------------------------------------------------------------------------
\* The environment and capture: positions and queues stay.
LEMMA OutsideStep ==
  ASSUME IInv, Tick \/ Cancel \/ CaptureReturns PROVE IInv' /\ WireStep
<1>1. /\ UNCHANGED <<encode, filled, position, latest, records, transmit, hand>>
      /\ LinkAges \/ UNCHANGED relay
  BY DEF Tick, Cancel, CaptureReturns, sender
<1>2. /\ LinkOK'
      /\ HeardByRelay' = HeardByRelay
      /\ relay'.open = relay.open /\ relay'.since = relay.since
      /\ relay'.known = relay.known /\ relay'.position = relay.position
  <2>1. CASE LinkAges
    BY <2>1, LinkAgesOK DEF IInv
  <2>2. CASE UNCHANGED relay
    BY <2>2 DEF IInv, LinkOK, HeardByRelay
  <2> QED BY <1>1, <2>1, <2>2
<1>3. Queued' = Queued /\ Low' = Low
  BY <1>1, <1>2 DEF Queued, Low, Floor
<1>4. EncodeOK' /\ TransmitOK' /\ Ascending(records', Low', Queued')
  BY <1>1, <1>2, <1>3 DEF IInv, EncodeOK, TransmitOK, HandOK
<1> QED BY <1>2, <1>3, <1>4 DEF IInv, WireStep

\* encode queues the next record, which is SourceWire's Enqueue, or finds the
\* queue full.
LEMMA EncodeStepOK ==
  ASSUME IInv, EncodeStep PROVE IInv' /\ WireStep
<1>1. /\ UNCHANGED <<transmit, hand, relay>>
      /\ HeardByRelay' = HeardByRelay /\ LinkOK' /\ Low' = Low
  <2>1. UNCHANGED <<transmit, hand, relay>>
    BY DEF EncodeStep, FillLine, Push, EvictOldest, EncodeReturns, sender
  <2> QED BY <2>1 DEF HeardByRelay, IInv, LinkOK, Low, Floor
<1>2. /\ Queued \in Nat /\ Low \in Nat /\ Low <= Queued
      /\ Ascending(records, Low, Queued)
      /\ position \in Nat /\ latest \in Record
      /\ encode = "full" => position > 0 /\ latest.position = position - 1
      /\ filled < LineDepth => position = 0
      /\ LineDepth \in Nat
  BY LowFacts, LinkAssumption DEF IInv, EncodeOK
<1>3. ASSUME Queued' \in Nat, Queued <= Queued' PROVE TransmitOK'
  <2>1. relay \in Relay /\ (transmit = "writing" => hand \in Record)
    BY DEF IInv, LinkOK, TransmitOK, HandOK
  <2>2. relay.since \in Nat /\ relay.position \in Nat
    BY <2>1 DEF Relay
  <2>3. transmit = "writing" => hand.position \in Nat
    BY <2>1 DEF Record
  <2> QED BY <1>1, <1>2, <1>3, <2>2, <2>3 DEF IInv, TransmitOK, HandOK
<1>4. ASSUME NEW silent \in BOOLEAN, Push(silent) PROVE IInv' /\ WireStep
  <2>1. /\ encode = "select" /\ Queued = position /\ position' = position + 1
        /\ latest' = [position |-> position, quiet |-> silent]
        /\ filled' = LineDepth
    BY <1>4 DEF Push, Queued
  <2>2. latest' \in Record /\ latest'.position = Queued
    BY <1>2, <2>1 DEF Record
  <2>3. CASE Len(records) < QueueDepth
    <3>1. records' = Append(records, latest') /\ encode' = encode
      BY <1>4, <2>3 DEF Push
    <3>2. Queued' = Queued + 1
      BY <2>1, <3>1 DEF Queued
    <3>3. Ascending(records', Low', Queued')
      BY <1>1, <1>2, <2>2, <3>1, <3>2, AscendingAppend
    <3>4. EncodeOK' /\ TransmitOK'
      BY <1>2, <1>3, <2>1, <2>2, <3>1, <3>2 DEF EncodeOK
    <3> QED BY <1>1, <3>2, <3>3, <3>4 DEF IInv, WireStep, Wire!Next, Wire!Enqueue
  <2>4. CASE ~(Len(records) < QueueDepth)
    <3>1. encode' = "full" /\ records' = records
      BY <1>4, <2>4 DEF Push
    <3>2. Queued' = Queued
      BY <1>2, <2>1, <3>1 DEF Queued
    <3>3. EncodeOK' /\ TransmitOK'
      BY <1>2, <1>3, <2>1, <2>2, <3>1, <3>2 DEF EncodeOK
    <3> QED BY <1>1, <1>2, <3>1, <3>2, <3>3 DEF IInv, WireStep
  <2> QED BY <2>3, <2>4
<1>5. CASE EvictOldest
  <2>1. /\ encode = "full" /\ encode' = "select" /\ UNCHANGED <<filled, position, latest>>
        /\ records' = Append(IF records = <<>> THEN records ELSE Tail(records), latest)
    BY <1>5 DEF EvictOldest
  <2>2. Queued = position - 1 /\ Queued' = Queued + 1 /\ latest.position = Queued
    BY <1>2, <2>1 DEF Queued
  <2>3. Ascending(records', Low', Queued')
    BY <1>1, <1>2, <2>1, <2>2, AscendingOffer
  <2>4. EncodeOK' /\ TransmitOK'
    BY <1>2, <1>3, <2>1, <2>2 DEF EncodeOK
  <2> QED BY <1>1, <2>2, <2>3, <2>4 DEF IInv, WireStep, Wire!Next, Wire!Enqueue
<1>6. CASE EncodeReturns
  <2>1. /\ encode = "select" /\ encode' = "returned"
        /\ UNCHANGED <<filled, position, latest, records>>
    BY <1>6 DEF EncodeReturns
  <2>2. Queued' = Queued
    BY <2>1 DEF Queued
  <2>3. EncodeOK' /\ TransmitOK'
    BY <1>2, <1>3, <2>1, <2>2 DEF EncodeOK
  <2> QED BY <1>1, <1>2, <2>1, <2>2, <2>3 DEF IInv, WireStep
<1>7. CASE FillLine
  <2>1. filled < LineDepth /\ UNCHANGED <<encode, position, latest, records>>
    BY <1>7 DEF FillLine
  <2>2. Queued' = Queued
    BY <2>1 DEF Queued
  <2>3. EncodeOK' /\ TransmitOK'
    BY <1>2, <1>3, <2>1, <2>2 DEF IInv, EncodeOK
  <2> QED BY <1>1, <1>2, <2>1, <2>2, <2>3 DEF IInv, WireStep
<1> QED BY <1>4, <1>5, <1>6, <1>7 DEF EncodeStep

-----------------------------------------------------------------------------
\* transmit does not queue anything.
LEMMA NothingQueued ==
  ASSUME IInv, UNCHANGED pipeline
  PROVE  EncodeOK' /\ Queued' = Queued
  BY DEF pipeline, IInv, EncodeOK, Queued

\* Where a connection is lost, what is queued needs no floor until the next.
LEMMA LostStep ==
  ASSUME IInv, LinkDown, UNCHANGED <<encode, filled, position, latest, records>>,
         transmit' \in {"dialing", "delay", "returned"}
  PROVE  IInv' /\ WireStep
<1>1. EncodeOK' /\ Queued' = Queued
  BY DEF IInv, EncodeOK, Queued
<1>2. LinkOK' /\ ~relay'.open /\ ~relay'.known
  BY LinkDownOK
<1>3. TransmitOK' /\ Low' = 0
  BY <1>2 DEF TransmitOK, Low, Floor
<1>4. Ascending(records', Low', Queued')
  BY <1>1, <1>3, LowFacts, AscendingLower DEF IInv
<1>5. WireStep
  BY <1>1, DownIsDisconnect DEF IInv
<1> QED BY <1>1, <1>2, <1>3, <1>4, <1>5 DEF IInv

\* A connection that is made is SourceWire's Connect.
LEMMA DialStep == ASSUME IInv, Dial PROVE IInv' /\ WireStep
<1>1. /\ transmit = "dialing" /\ transmit' = "discarding"
      /\ LinkUp(Queued) /\ UNCHANGED <<pipeline, records, hand>>
  BY DEF Dial, GoTo
<1>2. EncodeOK' /\ Queued' = Queued /\ Queued \in Nat
  BY <1>1, NothingQueued, LowFacts
<1>3. LinkOK' /\ relay'.open /\ ~relay'.known /\ relay'.since = Queued
  BY <1>1, <1>2, LinkUpOK
<1>4. TransmitOK' /\ Low' = 0
  BY <1>1, <1>2, <1>3 DEF TransmitOK, Low, Floor
<1>5. Ascending(records', Low', Queued')
  BY <1>1, <1>2, <1>4, LowFacts, AscendingLower DEF IInv
<1>6. WireStep
  <2>1. HeardByRelay = Wire!Nothing /\ ~HeardByRelay.open
    <3>1. ~relay.open
      BY <1>1 DEF IInv, TransmitOK
    <3> QED BY <3>1, ClosedIsNothing DEF IInv, Wire!Nothing
  <2>2. HeardByRelay' = [Wire!Nothing EXCEPT !.open = TRUE, !.since = Queued]
    <3>1. /\ relay'.open = TRUE /\ relay'.since = Queued
          /\ relay'.known = FALSE /\ relay'.position = 0
      BY <1>1 DEF LinkUp, NoLink
    <3>2. HeardByRelay' =
             [open |-> TRUE, since |-> Queued, known |-> FALSE, position |-> 0]
      BY <3>1 DEF HeardByRelay
    <3>3. [Wire!Nothing EXCEPT !.open = TRUE, !.since = Queued] =
             [open |-> TRUE, since |-> Queued, known |-> FALSE, position |-> 0]
      <4>1. /\ Wire!Nothing \in HeardRecord
            /\ Wire!Nothing.open = FALSE /\ Wire!Nothing.known = FALSE
            /\ Wire!Nothing.position = 0
        BY DEF Wire!Nothing, HeardRecord
      <4> QED BY <1>2, <4>1, HeardOfConnection
    <3> QED BY <3>2, <3>3
  <2> QED BY <1>2, <2>1, <2>2 DEF WireStep, Wire!Next, Wire!Connect
<1> QED BY <1>2, <1>3, <1>4, <1>5, <1>6 DEF IInv

\* Waiting and dialling again change nothing the relay hears.
LEMMA RedialStep == ASSUME IInv, Redial PROVE IInv' /\ WireStep
<1>1. /\ transmit = "delay" /\ transmit' \in {"dialing", "returned"}
      /\ UNCHANGED <<pipeline, records, hand, relay>>
  BY DEF Redial, GoTo
<1>2. EncodeOK' /\ Queued' = Queued
  BY <1>1, NothingQueued
<1>3. ~relay.open /\ ~relay.known /\ LinkOK'
  BY <1>1 DEF IInv, TransmitOK, LinkOK, NoLink
<1>4. TransmitOK' /\ Low = 0 /\ Low' = 0
  BY <1>1, <1>3 DEF TransmitOK, Low, Floor
<1>5. HeardByRelay' = HeardByRelay
  BY <1>1 DEF HeardByRelay
<1> QED BY <1>1, <1>2, <1>3, <1>4, <1>5 DEF IInv, WireStep

\* The backlog is discarded until nothing is left: what comes then was queued
\* after the connection.
LEMMA DiscardStep == ASSUME IInv, Discard PROVE IInv' /\ WireStep
<1>1. transmit = "discarding" /\ UNCHANGED <<pipeline, hand, relay>>
  BY DEF Discard
<1>2. EncodeOK' /\ Queued' = Queued /\ LinkOK' /\ HeardByRelay' = HeardByRelay
  BY <1>1, NothingQueued DEF HeardByRelay, IInv, LinkOK
<1>3. ~relay.known
  BY <1>1 DEF IInv, TransmitOK
<1>4. CASE records # <<>>
  <2>1. records' = Tail(records) /\ transmit' = transmit
    BY <1>4 DEF Discard
  <2>2. TransmitOK' /\ Low' = Low
    BY <1>1, <1>2, <2>1 DEF IInv, TransmitOK, Low, Floor
  <2>3. Ascending(records', Low', Queued')
    BY <1>2, <1>4, <2>1, <2>2, LowFacts, AscendingTail DEF IInv
  <2> QED BY <1>2, <2>2, <2>3 DEF IInv, WireStep
<1>5. CASE records = <<>>
  <2>1. records' = records /\ transmit' = "select"
    BY <1>5 DEF Discard, GoTo
  <2>2. TransmitOK'
    BY <1>1, <1>2, <1>3, <2>1 DEF IInv, TransmitOK
  <2>3. Ascending(records', Low', Queued')
    BY <1>5, <2>1 DEF Ascending
  <2> QED BY <1>2, <2>2, <2>3 DEF IInv, WireStep
<1> QED BY <1>4, <1>5

\* A record that is held back leaves the rest in order.
LEMMA SkipStep == ASSUME IInv, Skip PROVE IInv' /\ WireStep
<1>1. /\ records # <<>> /\ records' = Tail(records)
      /\ UNCHANGED <<pipeline, transmit, hand, relay>>
  BY DEF Skip, sender
<1>2. EncodeOK' /\ Queued' = Queued /\ LinkOK' /\ HeardByRelay' = HeardByRelay
  BY <1>1, NothingQueued DEF HeardByRelay, IInv, LinkOK
<1>3. TransmitOK' /\ Low' = Low
  BY <1>1, <1>2 DEF IInv, TransmitOK, HandOK, Low, Floor
<1>4. Ascending(records', Low', Queued')
  BY <1>1, <1>2, <1>3, LowFacts, AscendingTail DEF IInv
<1> QED BY <1>2, <1>3, <1>4 DEF IInv, WireStep

\* A record that is taken may be written, and those behind it later.
LEMMA TakeStep == ASSUME IInv, Take PROVE IInv' /\ WireStep
<1>1. /\ transmit = "select" /\ transmit' = "writing"
      /\ records # <<>> /\ records' = Tail(records) /\ hand' = Head(records)
      /\ UNCHANGED <<pipeline, relay>>
  BY DEF Take, GoTo
<1>2. EncodeOK' /\ Queued' = Queued /\ LinkOK' /\ HeardByRelay' = HeardByRelay
  BY <1>1, NothingQueued DEF HeardByRelay, IInv, LinkOK
<1>3. /\ hand' \in Record
      /\ Low <= hand'.position /\ hand'.position < Queued
      /\ Ascending(records', hand'.position + 1, Queued)
  BY <1>1, LowFacts, AscendingTail DEF IInv
<1>4. Low' = hand'.position + 1
  BY <1>1 DEF Low, Floor
<1>5. HandOK(hand)'
  <2>1. /\ Low = IF relay.known THEN relay.position + 1
                 ELSE IF relay.open THEN relay.since ELSE 0
        /\ relay.known => relay.since <= relay.position
        /\ relay \in Relay
    BY <1>1 DEF Low, Floor, IInv, LinkOK
  <2>2. relay.since \in Nat /\ relay.position \in Nat /\ hand'.position \in Nat
    BY <1>3, <2>1 DEF Relay, Record
  <2> QED BY <1>1, <1>3, <2>1, <2>2 DEF HandOK
<1>6. TransmitOK'
  BY <1>1, <1>2, <1>3, <1>5 DEF IInv, TransmitOK
<1> QED BY <1>2, <1>3, <1>4, <1>6 DEF IInv, WireStep

\* A write that succeeds is SourceWire's Arrive, if the relay is still there.
LEMMA WriteStep == ASSUME IInv, Write PROVE IInv' /\ WireStep
<1>1. /\ transmit = "writing" /\ transmit' = "select"
      /\ Arrives(hand) /\ UNCHANGED <<pipeline, records>>
  BY DEF Write, GoTo
<1>2. EncodeOK' /\ Queued' = Queued
  BY <1>1, NothingQueued
<1>3. HandOK(hand) /\ hand.position < Queued /\ LinkOK
  BY <1>1 DEF IInv, TransmitOK
<1>4. hand.position \in Nat /\ Queued \in Nat /\ Low = hand.position + 1
  BY <1>1, <1>3, LowFacts DEF HandOK, Record, Low, Floor
<1>5. CASE relay.open
  <2>1. /\ LinkOK' /\ relay'.open /\ relay'.known
        /\ relay'.since = relay.since /\ relay'.position = hand.position
    BY <1>1, <1>3, <1>5, ArrivesOK
  <2>2. TransmitOK' /\ Low' = Low
    BY <1>1, <1>2, <1>3, <1>4, <1>5, <2>1 DEF IInv, TransmitOK, Low, Floor
  <2>3. WireStep
    <3>1. /\ relay \in Relay /\ relay.known \in BOOLEAN
          /\ relay.since \in Nat /\ relay.position \in Nat
      BY <1>3 DEF LinkOK, Relay
    <3>2. HeardByRelay' = [HeardByRelay EXCEPT !.known = TRUE, !.position = hand.position]
      <4>1. /\ relay'.open = relay.open /\ relay'.since = relay.since
            /\ relay'.known = TRUE /\ relay'.position = hand.position
        BY <1>1, <1>5, <3>1 DEF Arrives, Relay
      <4>2. HeardByRelay' = [open |-> relay.open, since |-> relay.since, known |-> TRUE,
                             position |-> hand.position]
        BY <4>1 DEF HeardByRelay
      <4>3. /\ HeardByRelay \in HeardRecord
            /\ HeardByRelay.open = relay.open /\ HeardByRelay.since = relay.since
        BY <3>1 DEF HeardByRelay, HeardRecord, Relay
      <4> QED BY <1>4, <4>2, <4>3, HeardOfRecord
    <3>3. /\ HeardByRelay.open /\ HeardByRelay'.position = hand.position
          /\ HeardByRelay.since = relay.since /\ HeardByRelay.position = relay.position
          /\ HeardByRelay.known = relay.known
      BY <1>5, <2>1 DEF HeardByRelay
    <3>4. /\ HeardByRelay'.position \in HeardByRelay.since .. Queued - 1
          /\ HeardByRelay.known => HeardByRelay'.position > HeardByRelay.position
      BY <1>3, <1>4, <1>5, <3>1, <3>3 DEF HandOK
    <3> QED BY <1>2, <3>2, <3>3, <3>4 DEF WireStep, Wire!Next, Wire!Arrive
  <2> QED BY <1>1, <1>2, <2>1, <2>2, <2>3 DEF IInv
<1>6. CASE ~relay.open
  <2>1. relay' = relay /\ ~relay.known /\ LinkOK'
    BY <1>1, <1>3, <1>6, ArrivesOK
  <2>2. TransmitOK' /\ Low' = 0
    BY <1>1, <1>6, <2>1 DEF TransmitOK, Low, Floor
  <2>3. Ascending(records', Low', Queued')
    BY <1>1, <1>2, <2>2, LowFacts, AscendingLower DEF IInv
  <2>4. HeardByRelay' = HeardByRelay
    BY <2>1 DEF HeardByRelay
  <2> QED BY <1>2, <2>1, <2>2, <2>3, <2>4 DEF IInv, WireStep
<1> QED BY <1>5, <1>6

\* A relay that closes does not disturb the record being written.
LEMMA RelayClosesStep == ASSUME IInv, RelayCloses PROVE IInv' /\ WireStep
<1>1. LinkDown /\ UNCHANGED <<pipeline, records, transmit, hand>>
  BY DEF RelayCloses, sender
<1>2. EncodeOK' /\ Queued' = Queued
  BY <1>1, NothingQueued
<1>3. LinkOK' /\ ~relay'.open /\ ~relay'.known
  BY <1>1, LinkDownOK
<1>4. TransmitOK'
  BY <1>1, <1>2, <1>3 DEF IInv, TransmitOK, HandOK
<1>5. Low' = IF transmit = "writing" THEN Low ELSE 0
  BY <1>1, <1>3 DEF Low, Floor
<1>6. Ascending(records', Low', Queued')
  BY <1>1, <1>2, <1>5, LowFacts, AscendingLower DEF IInv
<1>7. WireStep
  BY <1>1, <1>2, DownIsDisconnect DEF IInv
<1> QED BY <1>2, <1>3, <1>4, <1>6, <1>7 DEF IInv

\* Every step preserves the inductive invariant and is one of SourceWire, or
\* none.
LEMMA StepKeepsToTheWire == IInv /\ [Next]_vars => IInv' /\ WireStep
<1> SUFFICES ASSUME IInv, [Next]_vars PROVE IInv' /\ WireStep
  OBVIOUS
<1>1. CASE Tick \/ Cancel \/ CaptureReturns
  BY <1>1, OutsideStep
<1>2. CASE EncodeStep
  BY <1>2, EncodeStepOK
<1>3. CASE DialFails \/ WriteFails
  <2>1. /\ LinkDown /\ transmit' \in {"dialing", "delay", "returned"}
        /\ UNCHANGED <<encode, filled, position, latest, records>>
    BY <1>3 DEF DialFails, WriteFails, ConnectionLost, GoTo, pipeline
  <2> QED BY <2>1, LostStep
<1>4. CASE TransmitReturns
  <2>1. /\ LinkDown /\ transmit' \in {"dialing", "delay", "returned"}
        /\ UNCHANGED <<encode, filled, position, latest, records>>
    BY <1>4 DEF TransmitReturns, GoTo, pipeline
  <2> QED BY <2>1, LostStep
<1>5. CASE Dial \/ Redial \/ Discard \/ Skip \/ Take \/ Write
  BY <1>5, DialStep, RedialStep, DiscardStep, SkipStep, TakeStep, WriteStep
<1>6. CASE RelayCloses
  BY <1>6, RelayClosesStep
<1>7. CASE UNCHANGED vars
  <2>1. UNCHANGED <<encode, filled, position, latest, records, transmit, hand, relay>>
    BY <1>7 DEF vars, pipeline, sender
  <2> QED BY <2>1 DEF IInv, EncodeOK, LinkOK, TransmitOK, HandOK, Low, Floor, Queued, WireStep,
                      HeardByRelay
<1> QED BY <1>1, <1>2, <1>3, <1>4, <1>5, <1>6, <1>7 DEF Next, TransmitStep

\* The console, with any depth of its queues, any timeouts and any loss of
\* connections, sends the relay growing positions on each connection, and none
\* that was queued before it.
THEOREM ConsoleKeepsToTheWire == Spec => KeepsToTheWire
<1>1. IInv /\ [Next]_vars => [Wire!Next]_<<Queued, HeardByRelay>>
  BY StepKeepsToTheWire DEF WireStep
<1>2. IInv /\ [Next]_vars => IInv'
  BY StepKeepsToTheWire
<1> QED BY <1>1, <1>2, InitEstablishesIInv, PTL DEF Spec, KeepsToTheWire, Wire!Spec
-----------------------------------------------------------------------------
(***************************************************************************)
(* What the relay knows when transmit has caught up.  The record that      *)
(* encode made last is followed through the queue: it is the newest there  *)
(* until transmit sends or skips it, and transmit skips it only where      *)
(* quiet says what the relay was told.                                     *)
(***************************************************************************)
PaceOK == frames \in Nat /\ waited \in Nat /\ lastQuiet \in Nat /\ quiet \in BOOLEAN

NewestIsQueued == encode # "full" /\ records # <<>> => Newest(records) = latest

\* The next frame is work to do.
Behind == frames > 0 \/ encode # "select" \/ records # <<>>

\* Without a connection, and on one that was told nothing yet, transmit does
\* not skip, and once a period has passed it has a record to send, if the gate
\* returns any yet.
NothingHeard ==
    /\ transmit \in {"dialing", "discarding", "delay", "returned"} => ~quiet
    /\ transmit = "select" /\ relay.open /\ ~relay.known =>
          ~quiet /\ (waited = 0 \/ position = 0 \/ Behind)

\* transmit's quiet is that of the record it sends or sent.
QuietIsTold ==
    /\ transmit = "writing" => quiet = hand.quiet
    /\ transmit = "select" /\ relay.known => relay.quiet = quiet

\* The last record left the queue to be sent, or was one more of a silence.
NewestIsTold ==
    encode # "full" /\ records = <<>> =>
        /\ transmit = "writing" => hand = latest
        /\ transmit = "select" /\ relay.known =>
              /\ relay.quiet = latest.quiet
              /\ ~latest.quiet => relay.position = latest.position

\* The relay heard of a silence no longer ago than transmit believes.
HeartbeatIsTold ==
    transmit = "select" /\ relay.known /\ quiet /\ Recent => relay.age <= lastQuiet

KnowsOK ==
    /\ PaceOK
    /\ NewestIsQueued
    /\ NothingHeard
    /\ QuietIsTold
    /\ NewestIsTold
    /\ HeartbeatIsTold
    /\ SilenceIsNotDeath

KnowsIInv == IInv /\ KnowsOK

\* What the proofs below take from the inductive invariant.
LEMMA KnownFacts ==
  ASSUME IInv
  PROVE  /\ transmit \in {"dialing", "discarding", "select", "writing", "delay", "returned"}
         /\ relay \in Relay /\ LinkOK
         /\ ~relay.open => relay = NoLink /\ ~relay.known
         /\ relay.known => relay.open /\ transmit # "discarding"
         /\ records \in Seq(Record)
         /\ latest \in Record
         /\ transmit = "writing" => HandOK(hand) /\ hand.quiet \in BOOLEAN
  BY DEF IInv, LinkOK, NoLink, TransmitOK, Ascending, EncodeOK, HandOK, Record

\* Initially there is nothing to know.
LEMMA InitKnows == Init => KnowsOK
<1> SUFFICES ASSUME Init PROVE KnowsOK
  OBVIOUS
<1>1. ~relay.known /\ ~relay.open
  BY DEF Init, NoLink
<1>2. Heartbeat + 1 \in Nat
  BY LinkAssumption
<1> QED BY <1>1, <1>2
        DEF Init, KnowsOK, PaceOK, NewestIsQueued, NothingHeard, QuietIsTold, NewestIsTold,
            HeartbeatIsTold, SilenceIsNotDeath

\* A period that passes leaves a frame, so that transmit has not caught up.
LEMMA TickKnows == ASSUME IInv, KnowsOK, Tick PROVE KnowsOK'
<1>1. /\ UNCHANGED <<encode, latest, records, transmit, hand, quiet>>
      /\ frames' = IF frames < QueueDepth THEN frames + 1 ELSE frames
      /\ waited' = Older(waited, WriteTimeout)
      /\ lastQuiet' = Older(lastQuiet, Heartbeat + 1)
      /\ LinkAges
  BY DEF Tick
<1>2. /\ relay'.open = relay.open /\ relay'.known = relay.known
      /\ relay'.position = relay.position /\ relay'.quiet = relay.quiet
      /\ relay'.age <= relay.age + 1 /\ relay'.age \in Nat /\ relay.age \in Nat
  <2>1. LinkOK' /\ LinkOK
    BY <1>1, LinkAgesOK DEF IInv
  <2> QED BY <1>1, <2>1, LinkAgesOK, AgesOK DEF LinkOK, Relay
<1>3. /\ QueueDepth \in Nat \ {0} /\ Heartbeat + 1 \in Nat /\ WriteTimeout \in Nat
      /\ Heartbeat \in Nat
      /\ frames \in Nat /\ waited \in Nat /\ lastQuiet \in Nat /\ quiet \in BOOLEAN
  BY LinkAssumption DEF KnowsOK, PaceOK
<1>4. frames' \in Nat /\ frames' > 0
  BY <1>1, <1>3
<1>5. PaceOK'
  BY <1>1, <1>3, <1>4, OlderOK DEF PaceOK
<1>6. NewestIsQueued' /\ QuietIsTold' /\ NewestIsTold'
  BY <1>1, <1>2 DEF KnowsOK, NewestIsQueued, QuietIsTold, NewestIsTold
<1>7. NothingHeard'
  BY <1>1, <1>2, <1>4 DEF KnowsOK, NothingHeard, Behind
<1>8. HeartbeatIsTold'
  <2> SUFFICES ASSUME transmit = "select", relay.known, quiet, lastQuiet' <= Heartbeat
               PROVE  relay'.age <= lastQuiet'
    BY <1>1, <1>2 DEF HeartbeatIsTold, Recent
  <2>1. lastQuiet' \in Nat /\ lastQuiet' < Heartbeat + 1
    BY <1>3, <1>5 DEF PaceOK
  <2>2. lastQuiet' = lastQuiet + 1
    BY <1>1, <1>3, <2>1, OlderOK
  <2>3. relay.age <= lastQuiet
    BY <1>3, <2>2 DEF KnowsOK, HeartbeatIsTold, Recent
  <2> QED BY <1>2, <1>3, <2>2, <2>3
<1>9. SilenceIsNotDeath'
  BY <1>4 DEF SilenceIsNotDeath, CaughtUp
<1> QED BY <1>5, <1>6, <1>7, <1>8, <1>9 DEF KnowsOK

\* Being told to stop changes nothing of it.
LEMMA CancelKnows == ASSUME KnowsOK, Cancel \/ CaptureReturns PROVE KnowsOK'
<1>1. UNCHANGED <<frames, encode, position, latest, records, transmit, waited, hand, quiet,
                  lastQuiet, relay>>
  BY DEF Cancel, CaptureReturns, sender
<1> QED BY <1>1 DEF KnowsOK, PaceOK, NewestIsQueued, NothingHeard, Behind, QuietIsTold,
                    NewestIsTold, HeartbeatIsTold, Recent, SilenceIsNotDeath, CaughtUp

\* Whatever encode does, it is work for transmit: the new record is in the
\* queue, or waits for room.
LEMMA EncodeKnows == ASSUME IInv, KnowsOK, EncodeStep PROVE KnowsOK'
<1>1. UNCHANGED <<transmit, waited, hand, quiet, lastQuiet, relay>>
  BY DEF EncodeStep, FillLine, Push, EvictOldest, EncodeReturns, sender
<1>2. records \in Seq(Record) /\ latest \in Record /\ frames \in Nat
  BY KnownFacts DEF KnowsOK, PaceOK
<1>3. ASSUME frames' \in Nat, NewestIsQueued', Behind',
             encode' = "full" \/ records' # <<>> \/ UNCHANGED <<latest, records, encode>>
             \/ (encode # "full" /\ encode' = "returned" /\ UNCHANGED <<latest, records>>),
             ~(encode' = "select" /\ records' = <<>>)
      PROVE  KnowsOK'
  <2>1. PaceOK' /\ QuietIsTold' /\ HeartbeatIsTold'
    BY <1>1, <1>3 DEF KnowsOK, PaceOK, QuietIsTold, HeartbeatIsTold, Recent
  <2>2. NothingHeard'
    BY <1>1, <1>3 DEF KnowsOK, NothingHeard
  <2>3. NewestIsTold'
    BY <1>1, <1>3 DEF KnowsOK, NewestIsTold
  <2>4. SilenceIsNotDeath'
    BY <1>3 DEF SilenceIsNotDeath, CaughtUp
  <2> QED BY <1>3, <2>1, <2>2, <2>3, <2>4 DEF KnowsOK
<1>4. ASSUME NEW silent \in BOOLEAN, Push(silent) PROVE KnowsOK'
  <2>1. /\ frames > 0 /\ frames' = frames - 1
        /\ latest' = [position |-> position, quiet |-> silent]
        /\ IF Len(records) < QueueDepth
           THEN records' = Append(records, latest') /\ UNCHANGED encode
           ELSE encode' = "full" /\ UNCHANGED records
    BY <1>4 DEF Push
  <2>2. latest' \in Record /\ frames' \in Nat
    BY <1>2, <2>1 DEF IInv, EncodeOK, Record
  <2>3. CASE Len(records) < QueueDepth
    <3>1. records' = Append(records, latest')
      BY <2>1, <2>3
    <3>2. records' # <<>> /\ Newest(records') = latest'
      BY <1>2, <2>2, <3>1, NewestOfOffer
    <3> QED BY <1>3, <2>2, <3>2 DEF NewestIsQueued, Behind
  <2>4. CASE ~(Len(records) < QueueDepth)
    BY <1>3, <2>1, <2>2, <2>4 DEF NewestIsQueued, Behind
  <2> QED BY <2>3, <2>4
<1>5. CASE EvictOldest
  <2>1. /\ records' = Append(IF records = <<>> THEN records ELSE Tail(records), latest)
        /\ UNCHANGED <<frames, latest>>
    BY <1>5 DEF EvictOldest
  <2>2. records' # <<>> /\ Newest(records') = latest'
    BY <1>2, <2>1, NewestOfOffer
  <2> QED BY <1>2, <1>3, <2>1, <2>2 DEF NewestIsQueued, Behind
<1>6. CASE EncodeReturns
  <2>1. encode = "select" /\ encode' = "returned" /\ UNCHANGED <<frames, latest, records>>
    BY <1>6 DEF EncodeReturns
  <2> QED BY <1>2, <1>3, <2>1 DEF KnowsOK, NewestIsQueued, Behind
<1>7. CASE FillLine
  <2>1. /\ frames > 0 /\ frames' = frames - 1 /\ filled < LineDepth /\ encode = "select"
        /\ UNCHANGED <<encode, position, latest, records>>
    BY <1>7 DEF FillLine
  <2>2. position = 0 /\ frames' \in Nat
    BY <1>2, <2>1 DEF IInv, EncodeOK
  <2>3. ~relay.known
    <3>1. Queued = 0 /\ (relay.known => relay.position < Queued)
      BY <2>1, <2>2 DEF Queued, IInv, TransmitOK
    <3>2. relay.position \in Nat
      BY KnownFacts DEF Relay
    <3> QED BY <3>1, <3>2
  <2> QED BY <1>1, <2>1, <2>2, <2>3
          DEF KnowsOK, PaceOK, NewestIsQueued, NothingHeard, QuietIsTold, NewestIsTold,
              HeartbeatIsTold, SilenceIsNotDeath
<1> QED BY <1>4, <1>5, <1>6, <1>7 DEF EncodeStep

\* Where a connection is lost, its locals go with it.
LEMMA LostKnows ==
  ASSUME KnowsOK, LinkDown, Locals, UNCHANGED <<pipeline, records>>,
         transmit' \in {"dialing", "delay", "returned"}, waited' = 0
  PROVE  KnowsOK'
<1>1. /\ ~relay'.open /\ ~relay'.known
      /\ UNCHANGED <<frames, encode, latest, records>>
  BY DEF LinkDown, NoLink, pipeline
<1>2. lastQuiet' = Heartbeat + 1 /\ quiet' = FALSE /\ Heartbeat + 1 \in Nat
  BY LinkAssumption DEF Locals
<1> QED BY <1>1, <1>2
        DEF KnowsOK, PaceOK, NewestIsQueued, NothingHeard, QuietIsTold, NewestIsTold,
            HeartbeatIsTold, SilenceIsNotDeath, CaughtUp

\* Making a connection and waiting to: the relay knows nothing, and transmit
\* is not quiet.
LEMMA DialKnows == ASSUME IInv, KnowsOK, Dial \/ Redial PROVE KnowsOK'
<1>1. /\ transmit \in {"dialing", "delay"}
      /\ transmit' \in {"dialing", "discarding", "returned"}
      /\ waited' = 0 /\ UNCHANGED <<frames, encode, latest, records, hand, quiet, lastQuiet>>
  BY DEF Dial, Redial, GoTo, pipeline
<1> QED BY <1>1
        DEF KnowsOK, PaceOK, NewestIsQueued, NothingHeard, QuietIsTold, NewestIsTold,
            HeartbeatIsTold, SilenceIsNotDeath, CaughtUp

\* When the backlog is gone the new connection was told nothing yet.
LEMMA DiscardKnows == ASSUME IInv, KnowsOK, Discard PROVE KnowsOK'
<1>1. /\ transmit = "discarding" /\ ~quiet
      /\ UNCHANGED <<frames, encode, latest, hand, quiet, lastQuiet, relay>>
  BY DEF Discard, KnowsOK, NothingHeard, pipeline
<1>2. ~relay.known /\ records \in Seq(Record)
  BY <1>1, KnownFacts
<1>3. CASE records # <<>>
  <2>1. records' = Tail(records) /\ UNCHANGED <<transmit, waited>>
    BY <1>3 DEF Discard
  <2>2. NewestIsQueued'
    BY <1>1, <1>2, <1>3, <2>1, NewestOfTail DEF KnowsOK, NewestIsQueued
  <2> QED BY <1>1, <1>2, <2>1, <2>2
          DEF KnowsOK, PaceOK, NothingHeard, QuietIsTold, NewestIsTold, HeartbeatIsTold,
              SilenceIsNotDeath, CaughtUp
<1>4. CASE records = <<>>
  <2>1. records' = records /\ transmit' = "select" /\ waited' = 0
    BY <1>4 DEF Discard, GoTo
  <2> QED BY <1>1, <1>2, <1>4, <2>1
          DEF KnowsOK, PaceOK, NewestIsQueued, NothingHeard, QuietIsTold, NewestIsTold,
              HeartbeatIsTold, SilenceIsNotDeath, CaughtUp
<1> QED BY <1>3, <1>4

\* A record that is skipped is as quiet as what the relay was told, and the
\* relay was told it within the heartbeat.
LEMMA SkipKnows == ASSUME IInv, KnowsOK, Skip PROVE KnowsOK'
<1>1. /\ transmit = "select" /\ records # <<>> /\ records' = Tail(records)
      /\ Head(records).quiet /\ quiet /\ Recent
      /\ UNCHANGED <<frames, encode, position, latest, transmit, waited, hand, quiet, lastQuiet,
                     relay>>
  BY DEF Skip, pipeline, sender
<1>2. /\ records \in Seq(Record)
      /\ Tail(records) = <<>> => Head(records) = Newest(records)
      /\ Tail(records) # <<>> => Newest(Tail(records)) = Newest(records)
  <2>1. records \in Seq(Record)
    BY KnownFacts
  <2> QED BY <1>1, <2>1, NewestOfTail
<1>3. encode # "full" => Newest(records) = latest
  BY <1>1 DEF KnowsOK, NewestIsQueued
<1>4. relay.known => relay.quiet = quiet
  BY <1>1 DEF KnowsOK, QuietIsTold
<1>5. NewestIsTold'
  <2> SUFFICES ASSUME encode # "full", Tail(records) = <<>>, relay.known
               PROVE  relay.quiet = latest.quiet /\ latest.quiet
    BY <1>1 DEF NewestIsTold
  <2>1. latest.quiet /\ latest.quiet \in BOOLEAN /\ quiet \in BOOLEAN
    BY <1>1, <1>2, <1>3, KnownFacts DEF Record, KnowsOK, PaceOK
  <2> QED BY <1>1, <1>4, <2>1
<1>6. SilenceIsNotDeath'
  <2> SUFFICES ASSUME relay.known PROVE relay.age <= Heartbeat
    BY <1>1 DEF SilenceIsNotDeath
  <2>1. relay.age <= lastQuiet /\ lastQuiet <= Heartbeat
    BY <1>1 DEF KnowsOK, HeartbeatIsTold, Recent
  <2>2. relay.age \in Nat /\ lastQuiet \in Nat /\ Heartbeat \in Nat
    BY KnownFacts, LinkAssumption DEF Relay, KnowsOK, PaceOK
  <2> QED BY <2>1, <2>2
<1>7. PaceOK' /\ NewestIsQueued' /\ NothingHeard' /\ QuietIsTold' /\ HeartbeatIsTold'
  BY <1>1, <1>2, <1>3
  DEF KnowsOK, PaceOK, NewestIsQueued, NothingHeard, QuietIsTold, HeartbeatIsTold, Recent
<1> QED BY <1>5, <1>6, <1>7 DEF KnowsOK

\* The record that is taken is the last, if it leaves the queue empty.
LEMMA TakeKnows == ASSUME IInv, KnowsOK, Take PROVE KnowsOK'
<1>1. /\ transmit = "select" /\ records # <<>> /\ records' = Tail(records)
      /\ hand' = Head(records) /\ quiet' = hand'.quiet
      /\ lastQuiet' = IF quiet' THEN 0 ELSE lastQuiet
      /\ transmit' = "writing" /\ waited' = 0
      /\ UNCHANGED <<frames, encode, latest, relay>>
  BY DEF Take, pipeline, GoTo
<1>2. /\ records \in Seq(Record)
      /\ Tail(records) = <<>> => Head(records) = Newest(records)
      /\ Tail(records) # <<>> => Newest(Tail(records)) = Newest(records)
  <2>1. records \in Seq(Record)
    BY KnownFacts
  <2> QED BY <1>1, <2>1, NewestOfTail
<1>3. encode # "full" => Newest(records) = latest
  BY <1>1 DEF KnowsOK, NewestIsQueued
<1>4. PaceOK'
  <2>1. Head(records) \in Record
    BY <1>1, <1>2
  <2>2. quiet' \in BOOLEAN
    BY <1>1, <2>1 DEF Record
  <2> QED BY <1>1, <2>2 DEF KnowsOK, PaceOK
<1>5. NewestIsQueued' /\ NewestIsTold'
  BY <1>1, <1>2, <1>3 DEF NewestIsQueued, NewestIsTold
<1>6. NothingHeard' /\ QuietIsTold' /\ HeartbeatIsTold' /\ SilenceIsNotDeath'
  BY <1>1 DEF NothingHeard, QuietIsTold, HeartbeatIsTold, SilenceIsNotDeath, CaughtUp
<1> QED BY <1>4, <1>5, <1>6 DEF KnowsOK

\* A record that is written is what the relay knows, just now.
LEMMA WriteKnows == ASSUME IInv, KnowsOK, Write PROVE KnowsOK'
<1>1. /\ transmit = "writing" /\ Arrives(hand) /\ transmit' = "select" /\ waited' = 0
      /\ UNCHANGED <<frames, encode, latest, records, quiet, lastQuiet>>
  BY DEF Write, pipeline, GoTo
<1>2. HandOK(hand) /\ LinkOK /\ quiet = hand.quiet
  BY <1>1, KnownFacts DEF KnowsOK, QuietIsTold
<1>3. encode # "full" /\ records = <<>> => hand = latest
  BY <1>1 DEF KnowsOK, NewestIsTold
<1>4. PaceOK' /\ NewestIsQueued'
  BY <1>1 DEF KnowsOK, PaceOK, NewestIsQueued
<1>5. CASE relay.open
  <2>1. /\ relay'.open /\ relay'.known /\ relay'.position = hand.position
        /\ relay'.quiet = hand.quiet /\ relay'.age = 0
    BY <1>1, <1>2, <1>5, ArrivesOK, ArrivesAnew
  <2>2. lastQuiet \in Nat /\ Heartbeat \in Nat
    BY LinkAssumption DEF KnowsOK, PaceOK
  <2>3. NothingHeard' /\ QuietIsTold' /\ NewestIsTold'
    BY <1>1, <1>2, <1>3, <2>1 DEF NothingHeard, QuietIsTold, NewestIsTold
  <2>4. HeartbeatIsTold' /\ SilenceIsNotDeath'
    BY <1>1, <2>1, <2>2 DEF HeartbeatIsTold, SilenceIsNotDeath
  <2> QED BY <1>4, <2>3, <2>4 DEF KnowsOK
<1>6. CASE ~relay.open
  <2>1. ~relay'.open /\ ~relay'.known
    BY <1>1, <1>2, <1>6, ArrivesOK
  <2>2. NothingHeard' /\ QuietIsTold' /\ NewestIsTold' /\ HeartbeatIsTold' /\ SilenceIsNotDeath'
    BY <1>1, <2>1
    DEF NothingHeard, QuietIsTold, NewestIsTold, HeartbeatIsTold, SilenceIsNotDeath
  <2> QED BY <1>4, <2>2 DEF KnowsOK
<1> QED BY <1>5, <1>6

\* Of a relay that is gone nothing is said.
LEMMA RelayClosesKnows == ASSUME KnowsOK, RelayCloses PROVE KnowsOK'
<1>1. /\ ~relay'.open /\ ~relay'.known
      /\ UNCHANGED <<frames, encode, latest, records, transmit, waited, hand, quiet, lastQuiet>>
  BY DEF RelayCloses, LinkDown, NoLink, pipeline, sender
<1> QED BY <1>1
        DEF KnowsOK, PaceOK, NewestIsQueued, NothingHeard, QuietIsTold, NewestIsTold,
            HeartbeatIsTold, SilenceIsNotDeath, CaughtUp

\* Every step preserves what the relay knows.
LEMMA StepKnows == KnowsIInv /\ [Next]_vars => KnowsIInv'
<1> SUFFICES ASSUME IInv, KnowsOK, [Next]_vars PROVE KnowsOK'
  BY StepKeepsToTheWire DEF KnowsIInv
<1>1. CASE Tick \/ Cancel \/ CaptureReturns
  BY <1>1, TickKnows, CancelKnows
<1>2. CASE EncodeStep
  BY <1>2, EncodeKnows
<1>3. CASE DialFails \/ WriteFails \/ TransmitReturns
  <2>1. /\ LinkDown /\ Locals /\ UNCHANGED <<pipeline, records>> /\ waited' = 0
        /\ transmit' \in {"dialing", "delay", "returned"}
    BY <1>3 DEF DialFails, WriteFails, TransmitReturns, ConnectionLost, GoTo
  <2> QED BY <2>1, LostKnows
<1>4. CASE Dial \/ Redial \/ Discard
  BY <1>4, DialKnows, DiscardKnows
<1>5. CASE Skip \/ Take \/ Write
  BY <1>5, SkipKnows, TakeKnows, WriteKnows
<1>6. CASE RelayCloses
  BY <1>6, RelayClosesKnows
<1>7. CASE UNCHANGED vars
  <2>1. UNCHANGED <<frames, encode, position, latest, records, transmit, waited, hand, quiet,
                    lastQuiet, relay>>
    BY <1>7 DEF vars, pipeline, sender
  <2> QED BY <2>1 DEF KnowsOK, PaceOK, NewestIsQueued, NothingHeard, Behind, QuietIsTold,
                      NewestIsTold, HeartbeatIsTold, Recent, SilenceIsNotDeath, CaughtUp
<1> QED BY <1>1, <1>2, <1>3, <1>4, <1>5, <1>6, <1>7 DEF Next, TransmitStep

\* The strengthened invariant holds in every state, and it is what the two
\* theorems below are read off.
LEMMA ConsoleKnows == Spec => []KnowsIInv
<1>1. Init => KnowsIInv
  BY InitEstablishesIInv, InitKnows DEF KnowsIInv
<1> QED BY <1>1, StepKnows, PTL DEF Spec

\* Whatever the queues drop, whichever connections fail and however late the
\* goroutines are, once transmit has caught up the relay knows whether the
\* source is quiet, and if it is not, its last record; on a new connection it
\* does as soon as a period has passed, unless the gate returned no record yet.
THEOREM ConsoleTellsTheState == Spec => []RelayKnowsTheState
<1>1. KnowsIInv => RelayKnowsTheState
  <2> SUFFICES ASSUME KnowsIInv, CaughtUp, relay.open
               PROVE  /\ relay.known \/ waited = 0 \/ position = 0
                      /\ relay.known => relay.quiet = latest.quiet
                      /\ relay.known /\ ~latest.quiet => relay.position = latest.position
    BY DEF RelayKnowsTheState
  <2>1. frames = 0 /\ encode = "select" /\ records = <<>> /\ transmit = "select"
    BY DEF CaughtUp
  <2>2. ~Behind
    BY <2>1 DEF Behind
  <2>3. NothingHeard /\ NewestIsTold
    BY DEF KnowsIInv, KnowsOK
  <2> QED BY <2>1, <2>2, <2>3 DEF NothingHeard, NewestIsTold
<1> QED BY <1>1, ConsoleKnows, PTL

\* A source that is quiet for ever is heard of once a heartbeat, on every
\* connection and for every length of the heartbeat.
THEOREM ConsoleBeatsInTime == Spec => []SilenceIsNotDeath
<1>1. KnowsIInv => SilenceIsNotDeath
  BY DEF KnowsIInv, KnowsOK
<1> QED BY <1>1, ConsoleKnows, PTL
=============================================================================
