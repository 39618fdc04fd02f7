-------------------------------- MODULE Stats --------------------------------
(***************************************************************************)
(* internal/relay/status.go, handleStats: a request reads the relay's      *)
(* counters one after the other, while sources go on publishing and other  *)
(* goroutines take the stream's lock in between.  Of what it reports the   *)
(* model keeps the two counts of audio, in frames: ingressAudioBytes,      *)
(* which is read early, and PublishedFrames, which is read late.           *)
(***************************************************************************)
EXTENDS Ingest

VARIABLE request    \* the request that is being answered

statsVars == <<ingestVars, request>>

(***************************************************************************)
(* reading: it read ingressAudioBytes; ingress: what that was; before:     *)
(* history, the frames that were published then.                           *)
(***************************************************************************)
NoRequest == [reading |-> FALSE, ingress |-> 0, before |-> 0]

StatsInit == IngestInit /\ request = NoRequest

-----------------------------------------------------------------------------
\* ingressAudioBytes is an atomic: no lock is taken to read it.
LoadIngress ==
    /\ ~request.reading
    /\ request' = [reading |-> TRUE, ingress |-> ingressAudio, before |-> published]
    /\ UNCHANGED ingestVars

\* What is reported when Published is read.  Mutated: that was read first.
ReadBackwards == [ingress |-> ingressAudio, published |-> request.before]
Response == [ingress |-> request.ingress, published |-> published]

\* SuppressedSeconds and ListenerCount have had the stream's lock, so frames
\* were published meanwhile; Published is an atomic again.
Respond ==
    /\ request.reading
    /\ request' = NoRequest
    /\ UNCHANGED ingestVars

StatsNext == (IngestNext /\ UNCHANGED request) \/ LoadIngress \/ Respond

StatsSpec == StatsInit /\ [][StatsNext]_statsVars /\ IngestFairness

-----------------------------------------------------------------------------
\* A response is consistent, however many frames are published between its
\* two reads: it reports no audio as received that it does not report as
\* published, and lacks nothing of what was published when it began to read
\* but the frame then in flight.
StatsAddUp ==
    [][Respond => /\ Response.ingress <= Response.published
                  /\ request.before <= Response.ingress + 1]_statsVars
=============================================================================
