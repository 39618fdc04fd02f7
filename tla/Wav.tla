-------------------------------- MODULE Wav ---------------------------------
(***************************************************************************)
(* internal/relay/deliver.go, handleWavListener, waitForPacket and pumpWav: *)
(* the goroutine that turns a listener's queue into one endless WAV file.  *)
(* A file has one header, so it can hold one session's format only; while  *)
(* the source declares quiet a ticker of the relay writes zeros in its     *)
(* place.                                                                  *)
(*                                                                         *)
(* Only the order of what is written counts here: the ticker may fire at   *)
(* any moment while it runs.  Decoding and the byte counters are left out. *)
(***************************************************************************)
EXTENDS Ingest

VARIABLES
    stage,      \* where the goroutine of each listener is
    first,      \* waitForPacket's packet, without its frame
    quiet,      \* pumpWav's quiet: the ticker runs exactly while it is set
    file        \* the audio frame last written, and whether zeros follow it

wav == <<stage, first, quiet, file>>
wavVars == <<ingestVars, wav>>

(***************************************************************************)
(* "waiting":   in waitForPacket's select;                                 *)
(* "header":    got the first packet, has the WAV header to write;         *)
(* "handling":  took a packet and wrote nothing of it yet;                 *)
(* "select":    in pumpWav's inner select;                                 *)
(* "returning": the handler returned, Detach is still to come.             *)
(***************************************************************************)
Stage == {"off", "waiting", "header", "handling", "select", "returning"}

NoFile == [audio |-> EmptyPacket, zeros |-> FALSE]

WavTypeOK ==
    /\ IngestTypeOK
    /\ stage \in [Listener -> Stage]
    /\ first \in [Listener -> Packet]
    /\ quiet \in [Listener -> BOOLEAN]
    /\ file \in [Listener -> [audio : Packet, zeros : BOOLEAN]]

WavInit ==
    /\ IngestInit
    /\ stage = [l \in Listener |-> "off"]
    /\ first = [l \in Listener |-> EmptyPacket]
    /\ quiet = [l \in Listener |-> FALSE]
    /\ file = [l \in Listener |-> NoFile]

SourceSide == <<connection, ingressAudio, timeline>>

-----------------------------------------------------------------------------
\* A request for /stream.wav: the listener is attached before it waits.
Request(l) ==
    /\ stage[l] = "off"
    /\ Attach(l)
    /\ stage' = [stage EXCEPT ![l] = "waiting"]
    /\ UNCHANGED <<first, quiet, file, SourceSide>>

\* The packets waitForPacket does not pass over: it waits for the first audio
\* or quiet state, not for the announcement of a session.
StartsFile(p) == p.state # "waiting" /\ ~(p.state = "live" /\ p.frame = NoFormat)

WaitForPacket(l) ==
    /\ stage[l] = "waiting"
    /\ Receive(l)
    /\ IF StartsFile(held'[l])
         THEN /\ stage' = [stage EXCEPT ![l] = "header"]
              /\ first' = [first EXCEPT ![l] = WithoutFrame(held'[l])]
         ELSE UNCHANGED <<stage, first>>
    /\ UNCHANGED <<quiet, file, SourceSide>>

\* waitForPacket's timer, set once, fires, or the request was cancelled.
GiveUp(l) ==
    /\ stage[l] = "waiting"
    /\ stage' = [stage EXCEPT ![l] = "returning"]
    /\ UNCHANGED <<ingestVars, first, quiet, file>>

WriteHeader(l) ==
    /\ stage[l] = "header"
    /\ stage' = [stage EXCEPT ![l] = "handling"]
    /\ UNCHANGED <<ingestVars, first, quiet, file>>

\* The test at the head of pumpWav's loop; mutated, it leaves out the epoch,
\* or "waiting" (which has no format).
OverWithoutEpoch(l) == held[l].format # first[l].format \/ held[l].state = "waiting"
OverOnNextSession(l) == held[l].epoch # first[l].epoch

Over(l) ==
    \/ held[l].epoch # first[l].epoch
    \/ held[l].format # first[l].format
    \/ held[l].state = "waiting"

EndFile(l) ==
    /\ stage[l] = "handling"
    /\ Over(l)
    /\ stage' = [stage EXCEPT ![l] = "returning"]
    /\ UNCHANGED <<ingestVars, first, quiet, file>>

\* StartSilence mutated: after audio stopped the ticker it is not started anew.
StartSilenceOnce(l) ==
    /\ stage[l] = "handling"
    /\ ~Over(l)
    /\ held[l].state = "quiet"
    /\ quiet' = [quiet EXCEPT ![l] = @ \/ file[l].audio = EmptyPacket]
    /\ stage' = [stage EXCEPT ![l] = "select"]
    /\ UNCHANGED <<ingestVars, first, file>>

\* A quiet record starts the ticker, or lets it run.
StartSilence(l) ==
    /\ stage[l] = "handling"
    /\ ~Over(l)
    /\ held[l].state = "quiet"
    /\ quiet' = [quiet EXCEPT ![l] = TRUE]
    /\ stage' = [stage EXCEPT ![l] = "select"]
    /\ UNCHANGED <<ingestVars, first, file>>

\* WriteAudio mutated: the ticker is not stopped.
WriteAudioTicking(l) ==
    /\ stage[l] = "handling"
    /\ ~Over(l)
    /\ held[l].state # "quiet"
    /\ file' = [file EXCEPT ![l] = [audio |-> held[l], zeros |-> FALSE]]
    /\ stage' = [stage EXCEPT ![l] = "select"]
    /\ UNCHANGED <<ingestVars, first, quiet>>

\* A frame stops the ticker and is written.  (A packet without one would
\* change nothing, but the announcement of a session that waitForPacket passed
\* over is the only such packet of the session.)
WriteAudio(l) ==
    /\ stage[l] = "handling"
    /\ ~Over(l)
    /\ held[l].state # "quiet"
    /\ IF held[l].frame = NoFormat
         THEN UNCHANGED <<quiet, file>>
         ELSE /\ quiet' = [quiet EXCEPT ![l] = FALSE]
              /\ file' = [file EXCEPT ![l] = [audio |-> held[l], zeros |-> FALSE]]
    /\ stage' = [stage EXCEPT ![l] = "select"]
    /\ UNCHANGED <<ingestVars, first>>

\* A tick: one frame of zeros.
WriteSilence(l) ==
    /\ stage[l] = "select"
    /\ quiet[l]
    /\ file' = [file EXCEPT ![l].zeros = TRUE]
    /\ UNCHANGED <<ingestVars, stage, first, quiet>>

\* The inner select takes the next packet.
TakePacket(l) ==
    /\ stage[l] = "select"
    /\ Receive(l)
    /\ stage' = [stage EXCEPT ![l] = "handling"]
    /\ UNCHANGED <<first, quiet, file, SourceSide>>

\* A write of the header, a frame or zeros fails or passes its deadline; or
\* the inner select finds the request cancelled.
Interrupted(l) ==
    /\ \/ stage[l] \in {"header", "select"}
       \/ stage[l] = "handling" /\ ~Over(l) /\ held[l].state # "quiet"
            /\ held[l].frame # NoFormat
    /\ stage' = [stage EXCEPT ![l] = "returning"]
    /\ UNCHANGED <<ingestVars, first, quiet, file>>

\* The deferred Detach.
Return(l) ==
    /\ stage[l] = "returning"
    /\ Detach(l)
    /\ stage' = [stage EXCEPT ![l] = "off"]
    /\ first' = [first EXCEPT ![l] = EmptyPacket]
    /\ quiet' = [quiet EXCEPT ![l] = FALSE]
    /\ file' = [file EXCEPT ![l] = NoFile]
    /\ UNCHANGED SourceSide

-----------------------------------------------------------------------------
\* What the goroutine does with a packet in its hands.
HandleStep(l) ==
    WriteHeader(l) \/ EndFile(l) \/ StartSilence(l) \/ WriteAudio(l)

RequestStep(l) ==
    \/ Request(l)
    \/ WaitForPacket(l)
    \/ GiveUp(l)
    \/ HandleStep(l)
    \/ WriteSilence(l)
    \/ TakePacket(l)
    \/ Interrupted(l)
    \/ Return(l)

\* To a listener a source that died is one that pauses, so PeerDies is left
\* to module Ingest.
WavNext ==
    \/ (\E c \in Conn : SourceStep(c)) /\ UNCHANGED wav
    \/ DeliverStep /\ UNCHANGED wav
    \/ \E l \in Listener : RequestStep(l)

(***************************************************************************)
(* The goroutine runs, and every write ends, at its deadline if not        *)
(* before.  A select chooses at random among what is ready, so packets are *)
(* not passed over for ticks for ever.  Detach competes for the lock,      *)
(* which Go hands to whoever waited longest.                               *)
(***************************************************************************)
WavSpec ==
    /\ WavInit
    /\ [][WavNext]_wavVars
    /\ WF_wavVars(DeliverStep /\ UNCHANGED wav)
    /\ \A l \in Listener :
          /\ WF_wavVars(HandleStep(l))
          /\ WF_wavVars(TakePacket(l))
          /\ SF_wavVars(Return(l))

-----------------------------------------------------------------------------
\* A file holds frames of one session, the one its header describes, each
\* later in time than the one before: no drop, replacement of the source or
\* repeated position lets a frame in twice, late or in another format.
FileIsOneSession ==
    [][\A l \in Listener :
          stage[l] = "handling" /\ stage'[l] = "select" /\ file'[l].audio = held[l] =>
              /\ file'[l].audio.format = first[l].format
              /\ file'[l].audio.epoch = first[l].epoch
              /\ file[l].audio = EmptyPacket \/ file[l].audio.position < file'[l].audio.position
      ]_wavVars

\* "WAV uses a local clock only while the source explicitly declares quiet":
\* zeros are never written for frames that were dropped or are late.
ZerosAreDeclared ==
    [][\A l \in Listener : file'[l].zeros /\ ~file[l].zeros => held[l].state = "quiet"]_wavVars

\* Once it wrote everything in its queue, a file that goes on is of the
\* session that is on, and is being filled with zeros just while it is quiet.
DrainedFileFollowsSource ==
    \A l \in listeners \ todo :
        stage[l] = "select" /\ packets[l] = <<>> =>
            /\ source # NoFormat
            /\ current.epoch = first[l].epoch
            /\ current.format = first[l].format
            /\ quiet[l] = (current.state = "quiet")

\* A file ends when its session does, also if "waiting" was dropped.
FileEnds ==
    \A l \in Listener :
        (stage[l] \in {"header", "handling", "select"}
            /\ (source = NoFormat \/ current.epoch # first[l].epoch))
            ~> stage[l] = "off"
=============================================================================
