------------------------------- MODULE Esp32 --------------------------------
(***************************************************************************)
(* esp32/src/main.cpp: the firmware's two tasks and the queue between      *)
(* them.  captureTask has the higher priority and turns each frame into a  *)
(* record at once; transmitTask owns WiFi and the connection and may block *)
(* anywhere.  It asks the connection twice in each round whether it is up, *)
(* once for wasConnected and once in ensureRelay, and the answers differ   *)
(* when the connection breaks in between.                                  *)
(*                                                                         *)
(* Which records are quiet is any choice, as in module Console.  lwIP and  *)
(* WiFi take any time and fail at any moment.  A read of the microphone    *)
(* that fails costs no more than a period, and may fail again.             *)
(***************************************************************************)
EXTENDS SourceLink

VARIABLES
    filled,         \* captureTask's filled: frames in the delay line
    position,       \* records that left the line, and the position of the next
    latest,         \* the last of them
    capture,        \* "read", or "full": xQueueSend found the queue full
    frames,         \* g_frames
    stage,          \* where transmitTask is
    socket,         \* g_relay has a connection, as far as it knows
    wasConnected,   \* transmitTask's locals
    quiet,
    lastQuiet,      \* how long ago its lastQuiet is
    hand,           \* the frame it is writing, if any
    judged,         \* history: the last record was sent or skipped on this connection
    missed          \* history: reads that failed since the last frame

capturing == <<filled, position, latest, capture, missed>>
locals == <<wasConnected, quiet, lastQuiet, hand>>
vars == <<capturing, frames, stage, socket, locals, judged, relay>>

(***************************************************************************)
(* "top":        at the head of the loop;                                  *)
(* "network":    in ensureNetwork;                                         *)
(* "relay":      in ensureRelay, up to the header;                         *)
(* "discarding": in its discardBufferedFrames;                             *)
(* "receive":    in xQueueReceive;                                         *)
(* "writing":    in writeAll;                                              *)
(* "failed":     after a failed write, discarding.                         *)
(***************************************************************************)
Init ==
    /\ filled = 0
    /\ position = 0
    /\ latest = NoRecord
    /\ capture = "read"
    /\ frames = <<>>
    /\ stage = "top"
    /\ socket = FALSE
    /\ wasConnected = FALSE
    /\ quiet = FALSE
    /\ lastQuiet = Heartbeat + 1
    /\ hand = NoRecord
    /\ judged = FALSE
    /\ missed = 0
    /\ relay = NoLink

-----------------------------------------------------------------------------
\* A period passes; captureTask waits for its frame.
PeriodPasses ==
    /\ capture = "read"
    /\ lastQuiet' = Older(lastQuiet, Heartbeat + 1)
    /\ LinkAges
    /\ UNCHANGED <<stage, socket, wasConnected, quiet, hand, judged>>

\* i2s_channel_read fails, and what was read of the frame is lost.
ReadFails ==
    /\ PeriodPasses
    /\ missed' = Older(missed, MaxAge)
    /\ UNCHANGED <<filled, position, latest, capture, frames>>

\* A frame enters the delay line and none leaves it yet.
FillLine ==
    /\ PeriodPasses
    /\ filled < LineDepth
    /\ filled' = filled + 1
    /\ missed' = 0
    /\ UNCHANGED <<position, latest, capture, frames>>

\* The record of the frame that leaves the line is sent to the queue.
Capture(silent) ==
    /\ PeriodPasses
    /\ filled = LineDepth
    /\ position < MaxFrames
    /\ position' = position + 1
    /\ latest' = [position |-> position, quiet |-> silent]
    /\ IF Len(frames) < QueueDepth
       THEN frames' = Append(frames, latest') /\ UNCHANGED capture
       ELSE capture' = "full" /\ UNCHANGED frames
    /\ missed' = 0
    /\ UNCHANGED filled

\* The queue was full: its oldest is received and the record sent again.
DropOldest ==
    /\ capture = "full"
    /\ frames' = Append(IF frames = <<>> THEN frames ELSE Tail(frames), latest)
    /\ capture' = "read"
    /\ UNCHANGED <<filled, position, latest, missed, stage, socket, locals, judged, relay>>

Queued == IF capture = "full" THEN position - 1 ELSE position

-----------------------------------------------------------------------------
GoTo(s) == stage' = s

\* What g_relay.connected() may answer: a connection that broke is noticed
\* sooner or later, and then closed.
Connected(answer) ==
    /\ answer => socket
    /\ ~answer => ~socket \/ ~relay.open
    /\ socket' = answer

AskConnected(answer) ==
    /\ stage = "top"
    /\ Connected(answer)
    /\ wasConnected' = answer
    /\ GoTo("network")
    /\ UNCHANGED <<capturing, frames, quiet, lastQuiet, hand, judged, relay>>

EnsureNetwork ==
    /\ stage = "network"
    /\ GoTo("relay")
    /\ UNCHANGED <<capturing, frames, socket, locals, judged, relay>>

\* ensureNetwork or ensureRelay returns false; the next round comes after a
\* delay.
EnsureFails ==
    /\ \/ stage = "network" /\ UNCHANGED socket
       \/ stage = "relay" /\ Connected(FALSE)
    /\ quiet' = FALSE
    /\ GoTo("top")
    /\ UNCHANGED <<capturing, frames, wasConnected, lastQuiet, hand, judged, relay>>

\* `if (!wasConnected) quiet = false'
Ensured == quiet' = (quiet /\ wasConnected)

StillConnected ==
    /\ stage = "relay"
    /\ Connected(TRUE)
    /\ Ensured
    /\ GoTo("receive")
    /\ UNCHANGED <<capturing, frames, wasConnected, lastQuiet, hand, judged, relay>>

\* ensureRelay connects and sends the header.
Dial ==
    /\ stage = "relay"
    /\ ~socket \/ ~relay.open
    /\ socket' = TRUE
    /\ LinkUp(Queued)
    /\ judged' = FALSE
    /\ GoTo("discarding")
    /\ UNCHANGED <<capturing, frames, locals>>

\* Mutated: nothing is discarded.
DiscardNothing ==
    /\ stage = "discarding"
    /\ GoTo("receive") /\ Ensured
    /\ UNCHANGED <<capturing, frames, socket, wasConnected, lastQuiet, hand, judged, relay>>

\* One round of discardBufferedFrames in ensureRelay.
Discard ==
    /\ stage = "discarding"
    /\ IF frames # <<>>
       THEN frames' = Tail(frames) /\ judged' = FALSE /\ UNCHANGED <<stage, quiet>>
       ELSE GoTo("receive") /\ Ensured /\ UNCHANGED <<frames, judged>>
    /\ UNCHANGED <<capturing, socket, wasConnected, lastQuiet, hand, relay>>

\* No frame came within 100 ms.
NoFrame ==
    /\ stage = "receive" /\ frames = <<>>
    /\ GoTo("top")
    /\ UNCHANGED <<capturing, frames, socket, locals, judged, relay>>

\* Mutated: a quiet record that is skipped starts the five seconds anew.
SkipAndRestart ==
    /\ stage = "receive" /\ frames # <<>>
    /\ Head(frames).quiet /\ quiet /\ lastQuiet <= Heartbeat
    /\ frames' = Tail(frames)
    /\ lastQuiet' = 0
    /\ judged' = TRUE
    /\ GoTo("top")
    /\ UNCHANGED <<capturing, socket, wasConnected, quiet, hand, relay>>

\* A quiet record after a quiet one, within five seconds.
Skip ==
    /\ stage = "receive" /\ frames # <<>>
    /\ Head(frames).quiet /\ quiet /\ lastQuiet <= Heartbeat
    /\ frames' = Tail(frames)
    /\ judged' = TRUE
    /\ GoTo("top")
    /\ UNCHANGED <<capturing, socket, locals, relay>>

Receive ==
    /\ stage = "receive" /\ frames # <<>>
    /\ Head(frames).quiet /\ quiet => lastQuiet >= Heartbeat
    /\ frames' = Tail(frames)
    /\ hand' = Head(frames)
    /\ judged' = TRUE
    /\ GoTo("writing")
    /\ UNCHANGED <<capturing, socket, wasConnected, quiet, lastQuiet, relay>>

\* Mutated: audio does not end the quiet state.
WriteStaysQuiet ==
    /\ stage = "writing"
    /\ Arrives(hand)
    /\ quiet' = (quiet \/ hand.quiet)
    /\ lastQuiet' = IF hand.quiet THEN 0 ELSE lastQuiet
    /\ hand' = NoRecord
    /\ GoTo("top")
    /\ UNCHANGED <<capturing, frames, socket, wasConnected, judged>>

Write ==
    /\ stage = "writing"
    /\ Arrives(hand)
    /\ quiet' = hand.quiet
    /\ lastQuiet' = IF hand.quiet THEN 0 ELSE lastQuiet
    /\ hand' = NoRecord
    /\ GoTo("top")
    /\ UNCHANGED <<capturing, frames, socket, wasConnected, judged>>

\* The connection is stopped.
WriteFails ==
    /\ stage = "writing"
    /\ quiet' = FALSE
    /\ socket' = FALSE
    /\ LinkDown
    /\ hand' = NoRecord
    /\ GoTo("failed")
    /\ UNCHANGED <<capturing, frames, wasConnected, lastQuiet, judged>>

\* One round of discardBufferedFrames after a failed write, then the delay.
DiscardAfterFailure ==
    /\ stage = "failed"
    /\ IF frames # <<>>
       THEN frames' = Tail(frames) /\ judged' = FALSE /\ UNCHANGED stage
       ELSE GoTo("top") /\ UNCHANGED <<frames, judged>>
    /\ UNCHANGED <<capturing, socket, locals, relay>>

\* The relay, or the network, gives up the connection.
RelayCloses ==
    /\ relay.open
    /\ LinkDown
    /\ UNCHANGED <<capturing, frames, stage, socket, locals, judged>>

-----------------------------------------------------------------------------
TransmitStep ==
    \/ \E answer \in BOOLEAN : AskConnected(answer)
    \/ EnsureNetwork \/ EnsureFails \/ StillConnected \/ Dial \/ Discard
    \/ NoFrame \/ Skip \/ Receive \/ Write \/ WriteFails \/ DiscardAfterFailure

Next ==
    \/ ReadFails \/ FillLine
    \/ \E silent \in BOOLEAN : Capture(silent)
    \/ DropOldest
    \/ TransmitStep
    \/ RelayCloses

Spec == Init /\ [][Next]_vars

-----------------------------------------------------------------------------
Wire == INSTANCE SourceWire WITH queued <- Queued, heard <- HeardByRelay

\* The firmware keeps to the same wire as the console.
KeepsToTheWire == Wire!Spec

\* transmitTask has dealt with all records, the last on this connection.
CaughtUp == frames = <<>> /\ capture = "read" /\ stage # "writing" /\ judged

\* When transmitTask has caught up, the relay knows the state of the source.
\* Only a connection that was made between the two questions may be told
\* nothing of a silence yet, when the connection it replaces was.
RelayKnowsTheState ==
    CaughtUp /\ relay.open =>
        /\ ~relay.known => latest.quiet
        /\ relay.known => relay.quiet = latest.quiet
        /\ relay.known /\ ~latest.quiet => relay.position = latest.position

\* Also then the relay hears of the source within a heartbeat, give or take a
\* frame: the time by which the wait for the last heartbeat on the old
\* connection delays the first on the new one counts.  It waits longer only
\* while the microphone yields no frames.
SilenceIsNotDeath == CaughtUp /\ relay.open => relay.age <= Heartbeat + missed
=============================================================================
