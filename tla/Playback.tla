------------------------------ MODULE Playback ------------------------------
(***************************************************************************)
(* relay/web/playback-processor.js: the jitter buffer between the page,    *)
(* which posts frames as they come, and the audio device, which pulls a    *)
(* quantum at a time.  A message or a pull runs to its end.                *)
(*                                                                         *)
(* A sample is represented by its place on the source's timeline, and by   *)
(* whether it is audio or stands for a silence that was declared.  Module  *)
(* Ingest shows that the places advance within a session.  The records     *)
(* between two that arrive may have been suppressed or dropped: the buffer *)
(* has to tell which, by the quiet records alone.                          *)
(***************************************************************************)
EXTENDS Integers, Sequences

CONSTANTS
    RingSamples,    \* length of the ring
    PrefillSamples, \* buffered before it plays
    FrameSamples,   \* samples in a message
    Quantum,        \* samples in a pull
    MaxFrames,      \* bound: frames in a session
    MaxResets       \* bound: resets by the page

ASSUME PlaybackAssumption ==
    /\ {RingSamples, PrefillSamples, FrameSamples, Quantum} \subseteq Nat \ {0}
    /\ PrefillSamples <= RingSamples
    /\ FrameSamples <= RingSamples
    /\ {MaxFrames, MaxResets} \subseteq Nat

VARIABLES
    ring,           \* what is buffered, from readIndex on
    playing,
    quiet,
    nextPosition,   \* or Null
    underruns,
    dropped,
    wire,           \* the source's timeline: no message is from before it
    resets          \* resets by the page

playbackVars == <<ring, playing, quiet, nextPosition, underruns, dropped, wire, resets>>

Null == -1

PlaybackInit ==
    /\ ring = <<>>
    /\ playing = FALSE
    /\ quiet = FALSE
    /\ nextPosition = Null
    /\ underruns = 0
    /\ dropped = 0
    /\ wire = 0
    /\ resets = 0

-----------------------------------------------------------------------------
Samples(from, n, audio) == [i \in 1 .. n |-> [position |-> from + i - 1, audio |-> audio]]

Excess(samples) == IF Len(samples) > RingSamples THEN Len(samples) - RingSamples ELSE 0

\* Mutated: the oldest are overwritten, and nothing counts them.
KeepUncounted(samples) ==
    /\ ring' = SubSeq(samples, Excess(samples) + 1, Len(samples))
    /\ UNCHANGED dropped

\* append's loop: the oldest samples go when the ring is full.
Keep(samples) ==
    /\ ring' = SubSeq(samples, Excess(samples) + 1, Len(samples))
    /\ dropped' = dropped + Excess(samples)

\* The page resets the buffer when a session begins or ends.
Reset ==
    /\ resets < MaxResets
    /\ resets' = resets + 1
    /\ wire' = 0
    /\ ring' = <<>>
    /\ playing' = FALSE
    /\ quiet' = FALSE
    /\ nextPosition' = Null
    /\ UNCHANGED <<underruns, dropped>>

\* A message from further on than the buffer expects.
Ahead(position) == nextPosition # Null /\ position > nextPosition

\* Mutated: a heartbeat moves the boundary of the audio.
QuietMovesOn(position) ==
    /\ position >= wire
    /\ wire' = position + FrameSamples
    /\ underruns' = IF ~quiet /\ Ahead(position) THEN underruns + 1 ELSE underruns
    /\ quiet' = TRUE
    /\ nextPosition' = position
    /\ UNCHANGED <<ring, playing, dropped, resets>>

\* A quiet record, or the announcement of a session that is quiet.
Quiet(position) ==
    /\ position >= wire
    /\ wire' = position + FrameSamples
    /\ underruns' = IF ~quiet /\ Ahead(position) THEN underruns + 1 ELSE underruns
    /\ quiet' = TRUE
    /\ nextPosition' = IF nextPosition = Null THEN position ELSE nextPosition
    /\ UNCHANGED <<ring, playing, dropped, resets>>

\* A silence that fits between the tail, not played yet, and the new frame.
ShortSilence(position) ==
    /\ quiet /\ ring # <<>>
    /\ (position - nextPosition) + Len(ring) + FrameSamples <= RingSamples

\* Mutated: the tail is abutted to the new frame.
SilenceDropped(position) == <<>>

Silence(position) == Samples(nextPosition, position - nextPosition, FALSE)

\* A frame.  Unless it continues what is buffered, directly or after a short
\* silence, it replaces that.
Audio(position) ==
    /\ position >= wire
    /\ nextPosition # Null => position >= nextPosition
    /\ wire' = position + FrameSamples
    /\ LET frame == Samples(position, FrameSamples, TRUE)
           anew == Ahead(position) /\ ~ShortSilence(position)
       IN  /\ Keep(IF anew THEN frame
                   ELSE IF Ahead(position) THEN ring \o Silence(position) \o frame
                   ELSE ring \o frame)
           /\ playing' = (playing /\ ~anew)
           /\ underruns' = IF anew /\ ~quiet THEN underruns + 1 ELSE underruns
    /\ quiet' = FALSE
    /\ nextPosition' = position + FrameSamples
    /\ UNCHANGED resets

\* process may play: enough is buffered or, mutated, only then.
ReadyWhenPrefilled == playing \/ Len(ring) >= PrefillSamples

\* A silence that began will not bring more: the tail plays without prefill.
Ready == playing \/ Len(ring) >= PrefillSamples \/ (quiet /\ ring # <<>>)

\* process: the device pulls a quantum.  It gets zeros, and nothing changes,
\* unless it is ready.
Process ==
    /\ Ready
    /\ IF Len(ring) >= Quantum
       THEN /\ ring' = SubSeq(ring, Quantum + 1, Len(ring))
            /\ playing' = TRUE
            /\ UNCHANGED underruns
       ELSE /\ ring' = <<>>
            /\ playing' = FALSE
            /\ underruns' = IF quiet THEN underruns ELSE underruns + 1
    /\ UNCHANGED <<quiet, nextPosition, dropped, wire, resets>>

PlaybackNext ==
    \/ Reset
    \/ \E frame \in 0 .. MaxFrames - 1 :
          Quiet(frame * FrameSamples) \/ Audio(frame * FrameSamples)
    \/ Process

\* The device pulls as long as the graph runs.
PlaybackSpec == PlaybackInit /\ [][PlaybackNext]_playbackVars /\ WF_playbackVars(Process)

-----------------------------------------------------------------------------
\* What is buffered is a stretch of the timeline without holes or repeats up
\* to where the next frame is expected: a silence that was suppressed on the
\* wire takes its time in the buffer, whatever heartbeats fell into it.
RingKeepsTime ==
    \A i \in DOMAIN ring : ring[i].position = nextPosition - Len(ring) + i - 1

\* A message never loses audio that was buffered unless an underrun or a drop
\* is counted, or a silence was declared that would not fit behind it.
Lost == \E i \in DOMAIN ring : ring[i].audio /\ \A j \in DOMAIN ring' : ring'[j] # ring[i]

LossIsReported ==
    [][wire' > wire /\ Lost =>
           \/ underruns' > underruns
           \/ dropped' > dropped
           \/ quiet /\ nextPosition' - nextPosition + Len(ring) > RingSamples]_playbackVars

\* The end of what was said before a silence is played, however short it is.
TailIsPlayed == quiet /\ ring # <<>> ~> ring = <<>> \/ ~quiet
=============================================================================
