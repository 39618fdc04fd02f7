---------------------------- MODULE PlayerProofs ----------------------------
(***************************************************************************)
(* The two halves of the listener in the browser.  First the worklet's     *)
(* jitter buffer (module Playback), for every length of ring, prefill,     *)
(* frame and quantum and every pattern of drops and silences.  Then the    *)
(* page (module Player), for any rates, any number of sockets, contexts,   *)
(* sessions and messages, and every order of its callbacks: what its       *)
(* functions find after an await is what they left, or they notice.        *)
(***************************************************************************)
EXTENDS Player, Playback, Integers, TLAPS

-----------------------------------------------------------------------------
Sample == [position: Int, audio: BOOLEAN]

\* Before the first message nothing is expected, and nothing buffered.
BufferOK ==
    /\ ring \in Seq(Sample)
    /\ nextPosition \in Nat \union {Null}
    /\ nextPosition = Null => ring = <<>>

\* What is counted, and the source's time, are numbers.
CountersOK == wire \in Nat /\ underruns \in Nat /\ dropped \in Nat

PlaybackIInv == BufferOK /\ RingKeepsTime /\ CountersOK

-----------------------------------------------------------------------------
\* A stretch of the timeline without holes or repeats, up to `end'.
Stretch(samples, end) ==
    /\ samples \in Seq(Sample)
    /\ \A k \in 1 .. Len(samples) : samples[k].position = end - Len(samples) + k - 1

\* The samples that append makes are such a stretch.
LEMMA SamplesStretch ==
  ASSUME NEW from \in Int, NEW n \in Nat, NEW audio \in BOOLEAN
  PROVE  Stretch(Samples(from, n, audio), from + n) /\ Len(Samples(from, n, audio)) = n
<1> DEFINE s == [i \in 1 .. n |-> [position |-> from + i - 1, audio |-> audio]]
<1>1. s \in Seq(Sample) /\ Len(s) = n
  BY DEF Sample
<1>2. \A k \in 1 .. n : s[k].position = from + k - 1
  OBVIOUS
<1> HIDE DEF s
<1>3. \A k \in 1 .. n : from + k - 1 = (from + n) - n + k - 1
  OBVIOUS
<1>4. Stretch(s, from + n)
  BY <1>1, <1>2, <1>3 DEF Stretch
<1> QED BY <1>1, <1>4 DEF Samples, s

\* Two stretches, of which one begins where the other ends, are one.
LEMMA StretchesJoin ==
  ASSUME NEW s, NEW t, NEW end \in Int, Stretch(s, end), Stretch(t, end + Len(t))
  PROVE  Stretch(s \o t, end + Len(t)) /\ Len(s \o t) = Len(s) + Len(t)
<1>1. s \in Seq(Sample) /\ t \in Seq(Sample) /\ Len(s) \in Nat /\ Len(t) \in Nat
  BY DEF Stretch
<1>2. /\ s \o t \in Seq(Sample)
      /\ Len(s \o t) = Len(s) + Len(t)
      /\ \A k \in 1 .. Len(s) + Len(t) :
            (s \o t)[k] = IF k <= Len(s) THEN s[k] ELSE t[k - Len(s)]
  BY <1>1
<1>3. ASSUME NEW k \in 1 .. Len(s) + Len(t)
      PROVE  (s \o t)[k].position = (end + Len(t)) - (Len(s) + Len(t)) + k - 1
  <2>1. CASE k <= Len(s)
    <3>1. k \in 1 .. Len(s)
      BY <1>1, <2>1
    <3>2. s[k].position = end - Len(s) + k - 1
      BY <3>1 DEF Stretch
    <3> QED BY <1>1, <1>2, <2>1, <3>2
  <2>2. CASE ~(k <= Len(s))
    <3>1. k - Len(s) \in 1 .. Len(t)
      BY <1>1, <2>2
    <3>2. t[k - Len(s)].position = (end + Len(t)) - Len(t) + (k - Len(s)) - 1
      BY <3>1 DEF Stretch
    <3> QED BY <1>1, <1>2, <2>2, <3>2
  <2> QED BY <2>1, <2>2
<1> QED BY <1>2, <1>3 DEF Stretch

\* What is left of a stretch when its first samples go is a stretch.
LEMMA StretchShortens ==
  ASSUME NEW s, NEW end \in Int, Stretch(s, end), NEW n \in 0 .. Len(s)
  PROVE  Stretch(SubSeq(s, n + 1, Len(s)), end)
<1>1. s \in Seq(Sample) /\ Len(s) \in Nat
  BY DEF Stretch
<1> DEFINE t == SubSeq(s, n + 1, Len(s))
<1>2. /\ t \in Seq(Sample)
      /\ Len(t) = Len(s) - n
      /\ \A k \in 1 .. Len(s) - n : t[k] = s[k + n]
  BY <1>1
<1> HIDE DEF t
<1>3. ASSUME NEW k \in 1 .. Len(t) PROVE t[k].position = end - Len(t) + k - 1
  <2>1. k + n \in 1 .. Len(s) /\ t[k] = s[k + n]
    BY <1>1, <1>2
  <2>2. s[k + n].position = end - Len(s) + (k + n) - 1
    BY <2>1 DEF Stretch
  <2> QED BY <1>1, <1>2, <2>1, <2>2
<1>4. Stretch(t, end)
  BY <1>2, <1>3 DEF Stretch
<1> QED BY <1>4 DEF t

\* The invariant, in terms of stretches.
LEMMA RingIsAStretch ==
  ASSUME BufferOK
  PROVE  RingKeepsTime <=> (ring = <<>> \/ Stretch(ring, nextPosition))
<1>1. ring \in Seq(Sample) /\ DOMAIN ring = 1 .. Len(ring)
  BY DEF BufferOK
<1> QED BY <1>1 DEF RingKeepsTime, Stretch

-----------------------------------------------------------------------------
\* The buffer begins empty.
LEMMA InitEstablishesPlayback == PlaybackInit => PlaybackIInv
  BY DEF PlaybackInit, PlaybackIInv, BufferOK, RingKeepsTime, CountersOK, Null

\* A step counts up or not at all.
LEMMA StepsCount ==
  ASSUME CountersOK, Reset \/ Process \/ \E position \in Nat : Quiet(position)
  PROVE  CountersOK'
<1> USE PlaybackAssumption DEF CountersOK
<1>1. CASE Reset
  BY <1>1 DEF Reset
<1>2. CASE Process
  <2>1. wire' = wire /\ dropped' = dropped /\ underruns' \in {underruns, underruns + 1}
    BY <1>2 DEF Process
  <2> QED BY <2>1
<1>3. ASSUME NEW position \in Nat, Quiet(position) PROVE CountersOK'
  BY <1>3 DEF Quiet
<1> QED BY <1>1, <1>2, <1>3

\* A reset empties the buffer.
LEMMA ResetPreservesIInv == ASSUME PlaybackIInv, Reset PROVE PlaybackIInv'
<1>1. CountersOK'
  BY StepsCount DEF PlaybackIInv
<1> QED BY <1>1 DEF Reset, PlaybackIInv, BufferOK, RingKeepsTime, Null

\* A quiet record moves nothing that is buffered.
LEMMA QuietPreservesIInv ==
  ASSUME PlaybackIInv, NEW position \in Nat, Quiet(position) PROVE PlaybackIInv'
<1>1. CountersOK'
  BY StepsCount DEF PlaybackIInv
<1> QED BY <1>1 DEF Quiet, PlaybackIInv, BufferOK, RingKeepsTime, Null

\* A pull takes the oldest samples, or all of them.
LEMMA ProcessPreservesIInv == ASSUME PlaybackIInv, Process PROVE PlaybackIInv'
<1> USE PlaybackAssumption
<1>1. nextPosition' = nextPosition /\ ring \in Seq(Sample)
  BY DEF Process, PlaybackIInv, BufferOK
<1>c. CountersOK'
  BY StepsCount DEF PlaybackIInv
<1>2. CASE Len(ring) >= Quantum
  <2>1. ring' = SubSeq(ring, Quantum + 1, Len(ring))
    BY <1>2 DEF Process
  <2>2. ring # <<>> /\ Quantum \in 0 .. Len(ring)
    BY <1>1, <1>2
  <2>3. Stretch(ring, nextPosition)
    BY <2>2, RingIsAStretch DEF PlaybackIInv
  <2>4. nextPosition \in Int /\ nextPosition # Null
    BY <2>2 DEF PlaybackIInv, BufferOK, Null
  <2>5. Stretch(ring', nextPosition)
    BY <2>1, <2>2, <2>3, <2>4, StretchShortens
  <2>6. ring' \in Seq(Sample) /\ DOMAIN ring' = 1 .. Len(ring')
    BY <2>5 DEF Stretch
  <2> QED BY <1>1, <1>c, <2>4, <2>5, <2>6 DEF PlaybackIInv, BufferOK, RingKeepsTime, Stretch
<1>3. CASE ~(Len(ring) >= Quantum)
  <2>1. ring' = <<>>
    BY <1>3 DEF Process
  <2> QED BY <1>1, <1>c, <2>1 DEF PlaybackIInv, BufferOK, RingKeepsTime
<1> QED BY <1>2, <1>3

\* append keeps the newest of what it is given, which is a stretch.
LEMMA KeepStretches ==
  ASSUME NEW samples, NEW end \in Nat, Stretch(samples, end), Keep(samples), nextPosition' = end
  PROVE  BufferOK' /\ RingKeepsTime' /\ (dropped \in Nat => dropped' \in Nat)
<1> USE PlaybackAssumption
<1>1. samples \in Seq(Sample) /\ Len(samples) \in Nat
  BY DEF Stretch
<1>2. Excess(samples) \in 0 .. Len(samples)
  BY <1>1 DEF Excess
<1>3. Stretch(ring', end)
  BY <1>2, StretchShortens DEF Keep
<1>4. ring' \in Seq(Sample) /\ DOMAIN ring' = 1 .. Len(ring')
  BY <1>3 DEF Stretch
<1>5. dropped \in Nat => dropped' \in Nat
  <2>1. Excess(samples) \in Nat /\ dropped' = dropped + Excess(samples)
    BY <1>1, <1>2 DEF Keep
  <2> QED BY <2>1
<1> QED BY <1>3, <1>4, <1>5 DEF BufferOK, RingKeepsTime, Stretch, Null

\* A frame continues the buffer, after the silence it is told of or at once,
\* or begins it anew.
LEMMA AudioPreservesIInv ==
  ASSUME PlaybackIInv, NEW position \in Nat, Audio(position) PROVE PlaybackIInv'
<1> USE PlaybackAssumption
<1>c. wire' \in Nat /\ underruns' \in Nat /\ dropped \in Nat
  <2>1. wire' = position + FrameSamples /\ underruns' \in {underruns, underruns + 1}
    BY DEF Audio
  <2> QED BY <2>1 DEF PlaybackIInv, CountersOK
<1> SUFFICES BufferOK' /\ RingKeepsTime' /\ (dropped \in Nat => dropped' \in Nat)
  BY <1>c DEF PlaybackIInv, CountersOK
<1> DEFINE frame == Samples(position, FrameSamples, TRUE)
           anew == Ahead(position) /\ ~ShortSilence(position)
           end == position + FrameSamples
<1>1. Stretch(frame, end) /\ Len(frame) = FrameSamples
  <2>1. FrameSamples \in Nat /\ position \in Int /\ TRUE \in BOOLEAN
    OBVIOUS
  <2> HIDE PlaybackAssumption
  <2> QED BY <2>1, SamplesStretch
<1>2. end \in Nat /\ nextPosition' = end
  BY DEF Audio
<1>3. Keep(IF anew THEN frame
           ELSE IF Ahead(position) THEN ring \o Silence(position) \o frame
           ELSE ring \o frame)
  BY DEF Audio
<1>4. ring \in Seq(Sample) /\ nextPosition \in Nat \union {Null}
  BY DEF PlaybackIInv, BufferOK
<1> HIDE DEF frame, end
<1>5. CASE anew
  <2>1. Keep(frame)
    BY <1>3, <1>5
  <2> QED BY <1>1, <1>2, <2>1, KeepStretches
<1> HIDE DEF anew
<1>6. CASE ~anew /\ Ahead(position)
  <2>1. ring # <<>> /\ position > nextPosition /\ nextPosition # Null
    BY <1>6 DEF Ahead, ShortSilence, anew
  <2>2. nextPosition \in Nat /\ position - nextPosition \in Nat
    BY <1>4, <2>1
  <2>3. Stretch(ring, nextPosition)
    BY <2>1, RingIsAStretch DEF PlaybackIInv
  <2> DEFINE silence == Silence(position)
  <2>4. /\ Stretch(silence, nextPosition + (position - nextPosition))
        /\ Len(silence) = position - nextPosition
    <3>1. /\ nextPosition \in Int
          /\ position - nextPosition \in Nat
          /\ FALSE \in BOOLEAN
      BY <2>2
    <3> HIDE PlaybackAssumption
    <3> QED BY <3>1, SamplesStretch DEF Silence
  <2> HIDE DEF silence
  <2>5. Stretch(ring \o silence, nextPosition + Len(silence))
    BY <2>2, <2>3, <2>4, StretchesJoin
  <2>6. nextPosition + Len(silence) = position
    BY <2>2, <2>4
  <2>7. Stretch(frame, position + Len(frame)) /\ position + Len(frame) = end
    BY <1>1 DEF end
  <2> DEFINE held == ring \o silence
  <2>8. Stretch(held \o frame, end)
    <3>1. Stretch(held, position) /\ position \in Int
      BY <2>5, <2>6
    <3> HIDE DEF held
    <3> HIDE PlaybackAssumption
    <3>2. Stretch(held \o frame, position + Len(frame))
      BY <2>7, <3>1, StretchesJoin
    <3> QED BY <2>7, <3>2
  <2> HIDE DEF held
  <2>9. Keep(held \o frame)
    BY <1>3, <1>6 DEF silence, held
  <2> QED BY <1>2, <2>8, <2>9, KeepStretches
<1>7. CASE ~anew /\ ~Ahead(position)
  <2>1. Keep(ring \o frame)
    BY <1>3, <1>7
  <2>2. CASE ring = <<>>
    <3>1. ring \o frame = frame
      BY <1>1, <2>2 DEF Stretch
    <3> QED BY <1>1, <1>2, <2>1, <3>1, KeepStretches
  <2>3. CASE ring # <<>>
    <3>1. nextPosition # Null
      BY <2>3 DEF PlaybackIInv, BufferOK
    <3>2. nextPosition = position
      BY <1>4, <1>7, <3>1 DEF Audio, Ahead
    <3>3. Stretch(ring, position)
      BY <2>3, <3>2, RingIsAStretch DEF PlaybackIInv
    <3>4. Stretch(frame, position + Len(frame)) /\ position + Len(frame) = end
      BY <1>1 DEF end
    <3>5. Stretch(ring \o frame, end)
      <4> HIDE PlaybackAssumption
      <4>1. position \in Int
        OBVIOUS
      <4>2. Stretch(ring \o frame, position + Len(frame))
        BY <3>3, <3>4, <4>1, StretchesJoin
      <4> QED BY <3>4, <4>2
    <3> QED BY <1>2, <2>1, <3>5, KeepStretches
  <2> QED BY <2>2, <2>3
<1> QED BY <1>5, <1>6, <1>7

\* Every step preserves the inductive invariant.
LEMMA NextPreservesPlayback == PlaybackIInv /\ [PlaybackNext]_playbackVars => PlaybackIInv'
<1> SUFFICES ASSUME PlaybackIInv, [PlaybackNext]_playbackVars PROVE PlaybackIInv'
  OBVIOUS
<1>1. CASE Reset
  BY <1>1, ResetPreservesIInv
<1>2. ASSUME NEW frame \in 0 .. MaxFrames - 1,
             Quiet(frame * FrameSamples) \/ Audio(frame * FrameSamples)
      PROVE  PlaybackIInv'
  <2>1. frame * FrameSamples \in Nat
    BY PlaybackAssumption
  <2> QED BY <1>2, <2>1, QuietPreservesIInv, AudioPreservesIInv
<1>3. CASE Process
  BY <1>3, ProcessPreservesIInv
<1>4. CASE UNCHANGED playbackVars
  BY <1>4 DEF playbackVars, PlaybackIInv, BufferOK, RingKeepsTime, CountersOK
<1> QED BY <1>1, <1>2, <1>3, <1>4 DEF PlaybackNext

\* What the worklet buffers is a stretch of the source's timeline without holes
\* or repeats, whatever is dropped, suppressed or pulled, for every length of
\* the ring and of frames.
THEOREM PlaybackRingKeepsTime == PlaybackSpec => []RingKeepsTime
<1>1. PlaybackIInv => RingKeepsTime
  BY DEF PlaybackIInv
<1> QED BY <1>1, InitEstablishesPlayback, NextPreservesPlayback, PTL DEF PlaybackSpec

-----------------------------------------------------------------------------
\* What LossIsReported asks of a message.
Reported ==
    \/ underruns' > underruns
    \/ dropped' > dropped
    \/ quiet /\ nextPosition' - nextPosition + Len(ring) > RingSamples

\* What is kept of a buffer that was only added to holds all of it, unless
\* a drop is counted.
LEMMA KeepCountsWhatGoes ==
  ASSUME NEW samples \in Seq(Sample), ring \in Seq(Sample), dropped \in Nat,
         Len(ring) <= Len(samples), \A i \in 1 .. Len(ring) : samples[i] = ring[i],
         Keep(samples), Lost
  PROVE  dropped' > dropped
<1>1. Len(samples) \in Nat /\ Len(ring) \in Nat /\ RingSamples \in Nat
  BY PlaybackAssumption
<1>2. Excess(samples) \in Nat /\ dropped' = dropped + Excess(samples)
  BY <1>1 DEF Excess, Keep
<1>3. CASE Excess(samples) = 0
  <2>1. ring' = SubSeq(samples, 1, Len(samples))
    BY <1>3 DEF Keep
  <2>2. ring' = samples
    BY <2>1
  <2>3. DOMAIN ring = 1 .. Len(ring) /\ DOMAIN ring' = 1 .. Len(samples)
    BY <2>2
  <2>4. \A i \in DOMAIN ring : i \in DOMAIN ring' /\ ring'[i] = ring[i]
    BY <1>1, <2>2, <2>3
  <2> QED BY <2>4 DEF Lost
<1>4. CASE Excess(samples) # 0
  BY <1>2, <1>4
<1> QED BY <1>3, <1>4

\* A buffer that is only added to begins as before.
LEMMA AddedFacts ==
  ASSUME NEW s \in Seq(Sample), NEW t \in Seq(Sample)
  PROVE  /\ s \o t \in Seq(Sample)
         /\ Len(s) \in Nat /\ Len(s) <= Len(s \o t)
         /\ \A i \in 1 .. Len(s) : (s \o t)[i] = s[i]
  OBVIOUS

\* A frame that begins the buffer anew counts an underrun, or follows a silence
\* that was declared and leaves no room for what is buffered.
LEMMA AudioReportsLoss ==
  ASSUME PlaybackIInv, NEW position \in Nat, Audio(position), Lost
  PROVE  Reported
<1> USE PlaybackAssumption
<1> DEFINE frame == Samples(position, FrameSamples, TRUE)
           anew == Ahead(position) /\ ~ShortSilence(position)
<1>1. ring \in Seq(Sample) /\ nextPosition \in Nat \union {Null}
  BY DEF PlaybackIInv, BufferOK
<1>2. underruns \in Nat /\ dropped \in Nat
  BY DEF PlaybackIInv, CountersOK
<1>3. ring # <<>>
  BY DEF Lost
<1>4. nextPosition # Null /\ nextPosition \in Nat /\ Len(ring) \in Nat
  BY <1>1, <1>3 DEF PlaybackIInv, BufferOK
<1>5. frame \in Seq(Sample)
  <2>1. FrameSamples \in Nat /\ position \in Int /\ TRUE \in BOOLEAN
    OBVIOUS
  <2> HIDE PlaybackAssumption
  <2> QED BY <2>1, SamplesStretch DEF Stretch
<1>6. /\ Keep(IF anew THEN frame
              ELSE IF Ahead(position) THEN ring \o Silence(position) \o frame
              ELSE ring \o frame)
      /\ underruns' = IF anew /\ ~quiet THEN underruns + 1 ELSE underruns
      /\ nextPosition' = position + FrameSamples
  BY DEF Audio
<1> HIDE DEF frame
<1>7. CASE anew /\ ~quiet
  BY <1>2, <1>6, <1>7 DEF Reported
<1>8. CASE anew /\ quiet
  <2>1. ~((position - nextPosition) + Len(ring) + FrameSamples <= RingSamples)
    BY <1>3, <1>8 DEF ShortSilence
  <2>2. nextPosition' - nextPosition + Len(ring) > RingSamples
    BY <1>4, <1>6, <2>1
  <2> QED BY <1>8, <2>2 DEF Reported
<1>9. CASE ~anew /\ Ahead(position)
  <2> DEFINE silence == Silence(position)
  <2>1. silence \in Seq(Sample)
    <3>1. position - nextPosition \in Nat /\ nextPosition \in Int /\ FALSE \in BOOLEAN
      BY <1>4, <1>9 DEF Ahead
    <3> HIDE PlaybackAssumption
    <3> QED BY <3>1, SamplesStretch DEF Stretch, Silence
  <2>2. Keep((ring \o silence) \o frame)
    BY <1>6, <1>9
  <2> HIDE DEF silence
  <2>3. /\ ring \o silence \in Seq(Sample)
        /\ Len(ring) \in Nat /\ Len(ring) <= Len(ring \o silence)
        /\ \A i \in 1 .. Len(ring) : (ring \o silence)[i] = ring[i]
    BY <1>1, <2>1, AddedFacts
  <2> DEFINE held == ring \o silence
  <2>4. /\ held \o frame \in Seq(Sample)
        /\ Len(held) \in Nat /\ Len(held) <= Len(held \o frame)
        /\ \A i \in 1 .. Len(held) : (held \o frame)[i] = held[i]
    BY <1>5, <2>3, AddedFacts
  <2> HIDE DEF held
  <2> DEFINE all == held \o frame
  <2>5. Keep(all) /\ all \in Seq(Sample) /\ Len(all) \in Nat
    BY <2>2, <2>4 DEF held
  <2>6. Len(ring) <= Len(all) /\ \A i \in 1 .. Len(ring) : all[i] = ring[i]
    <3>1. Len(ring) <= Len(held) /\ \A i \in 1 .. Len(ring) : held[i] = ring[i]
      BY <2>3 DEF held
    <3> HIDE DEF all
    <3>2. /\ Len(held) \in Nat /\ Len(held) <= Len(all)
          /\ \A i \in 1 .. Len(held) : all[i] = held[i]
      BY <2>4 DEF all
    <3> QED BY <1>4, <2>5, <3>1, <3>2
  <2> HIDE DEF all
  <2>7. dropped' > dropped
    BY <1>1, <1>2, <2>5, <2>6, KeepCountsWhatGoes
  <2> QED BY <2>7 DEF Reported
<1>10. CASE ~anew /\ ~Ahead(position)
  <2> DEFINE all == ring \o frame
  <2>1. Keep(all)
    BY <1>6, <1>10
  <2>2. all \in Seq(Sample) /\ Len(ring) <= Len(all) /\ \A i \in 1 .. Len(ring) : all[i] = ring[i]
    BY <1>1, <1>5, AddedFacts
  <2> HIDE DEF all
  <2>3. dropped' > dropped
    BY <1>1, <1>2, <2>1, <2>2, KeepCountsWhatGoes
  <2> QED BY <2>3 DEF Reported
<1> QED BY <1>7, <1>8, <1>9, <1>10

\* Whatever the lengths of ring, frames and silences, a message that takes
\* audio out of the buffer unplayed leaves a trace: an underrun or a drop that
\* is counted, or a declared silence too long to keep what came before it.
THEOREM PlaybackReportsLoss == PlaybackSpec => LossIsReported
<1>1. ASSUME PlaybackIInv, [PlaybackNext]_playbackVars, wire' > wire, Lost PROVE Reported
  <2>1. CASE Reset
    <3>1. wire' = 0 /\ wire \in Nat
      BY <1>1, <2>1 DEF Reset, PlaybackIInv, CountersOK
    <3> QED BY <1>1, <3>1
  <2>2. ASSUME NEW frame \in 0 .. MaxFrames - 1,
               Quiet(frame * FrameSamples) \/ Audio(frame * FrameSamples)
        PROVE  Reported
    <3>1. frame * FrameSamples \in Nat
      BY PlaybackAssumption
    <3>2. CASE Quiet(frame * FrameSamples)
      BY <1>1, <3>2 DEF Quiet, Lost
    <3>3. CASE Audio(frame * FrameSamples)
      BY <1>1, <3>1, <3>3, AudioReportsLoss
    <3> QED BY <2>2, <3>2, <3>3
  <2>3. CASE Process
    <3>1. wire' = wire /\ wire \in Nat
      BY <1>1, <2>3 DEF Process, PlaybackIInv, CountersOK
    <3> QED BY <1>1, <3>1
  <2>4. CASE UNCHANGED playbackVars
    <3>1. wire' = wire /\ wire \in Nat
      BY <1>1, <2>4 DEF playbackVars, PlaybackIInv, CountersOK
    <3> QED BY <1>1, <3>1
  <2> QED BY <1>1, <2>1, <2>2, <2>3, <2>4 DEF PlaybackNext
<1>2. PlaybackIInv /\ [PlaybackNext]_playbackVars =>
        [wire' > wire /\ Lost =>
           \/ underruns' > underruns
           \/ dropped' > dropped
           \/ quiet /\ nextPosition' - nextPosition + Len(ring) > RingSamples]_playbackVars
  BY <1>1 DEF Reported
<1> QED BY <1>2, InitEstablishesPlayback, NextPreservesPlayback, PTL DEF PlaybackSpec, LossIsReported

-----------------------------------------------------------------------------
\* While a start awaits its graph, no other does: the button may be pressed as
\* hastily as one likes otherwise.
OneStart == \A t, u \in starting : t = u

\* What the relay says at the end of a session.
Ends == [epoch: 0 .. MaxEpoch, rate: {None}]

\* The messages that wait for their turn, and the handler that awaits.
Messages ==
    [socket: Sockets, kind: {"format", "record"}, session: Sessions]
      \union [socket: Sockets, kind: {"waiting"}, session: Ends]

Handlers ==
    [phase: {"close", "module", "resume"}, socket: Sockets, session: Sessions,
     context: Contexts \union {None}]
      \union {NoHandler}

Graphs == [state: {"none", "opening", "running", "failed"}, rate: Rates \union {None}]

PageOK ==
    /\ listening \in BOOLEAN
    /\ context \in Contexts \union {None}
    /\ worklet \in Contexts \union {None}
    /\ socket \in Sockets \union {None}
    /\ format \in Sessions \union {NoSession}
    /\ epoch \in Nat
    /\ retry \in BOOLEAN

AwaitsOK ==
    /\ starting \subseteq [context: Contexts, phase: {"module", "resume"}]
    /\ handler \in Handlers
    /\ messages \in Seq(Messages)

OutsideOK ==
    /\ sockets \in [Sockets -> Connection]
    /\ contexts \in [Contexts -> Graphs]
    /\ loaded \in Sessions \union {NoSession}
    /\ stopping \in Nat
    /\ misplayed \in BOOLEAN
    /\ doubled \in BOOLEAN

PlayerTypeOK == PageOK /\ AwaitsOK /\ OutsideOK

-----------------------------------------------------------------------------
\* The page keeps one connection, and its timer runs only while it has none.
OneConnection ==
    /\ \A s \in Sockets : sockets[s] # NoConnection => s = socket
    /\ retry => listening /\ socket = None

\* Nothing plays but the page's worklet, which is in the page's context.
OneGraph ==
    /\ worklet # None => worklet = context
    /\ \A c \in Contexts : contexts[c].state = "running" => c = worklet

\* A player that does not listen has no connection and plays nothing.
StoppedIsSilent == ~listening => socket = None /\ worklet = None

\* While start awaits, the graph is its own or was closed, and there is no
\* connection yet.
StartsAlone ==
    \A t \in starting :
        /\ socket = None /\ ~retry /\ worklet = None
        /\ context \in {None, t.context}
        /\ listening <=> context = t.context
        /\ t.context # handler.context

\* While a handler awaits, its context is the page's if nothing intervened.
RebuildsAlone ==
    /\ handler.phase \in {"module", "resume"} => handler.context # None
    /\ handler.context # None /\ context = handler.context =>
          /\ listening /\ worklet = None
          /\ contexts[context].rate = handler.session.rate
    /\ handler.phase # "none" /\ Live(handler.socket) =>
          worklet = None /\ context = handler.context

GraphIInv == OneConnection /\ OneGraph /\ StoppedIsSilent /\ StartsAlone /\ RebuildsAlone

-----------------------------------------------------------------------------
\* None is not a number of anything.
LEMMA NumberFacts ==
  /\ None \notin Contexts /\ None \notin Sockets /\ None \notin Rates
  /\ Contexts \subseteq Nat /\ Sockets \subseteq Nat /\ Rates \subseteq Nat
  /\ MaxEpoch \in Nat
  BY PlayerAssumption DEF None

\* Sessions have an epoch and a rate, and none is NoSession.
LEMMA SessionFacts ==
  /\ NoSession \notin Sessions
  /\ \A x \in Sessions : x.epoch \in Nat /\ x.epoch # None /\ x.rate \in Rates /\ x.rate # None
  BY NumberFacts DEF Sessions, NoSession, None

\* A number that is picked is free.
LEMMA AnyOfFacts ==
  ASSUME NEW S, S # {}
  PROVE  AnyOf(S) \in S
  BY DEF AnyOf

\* A handler that awaits has a connection and a session.
LEMMA HandlerFacts ==
  ASSUME NEW h \in Handlers
  PROVE  /\ h.phase \in {"none", "close", "module", "resume"}
         /\ h.phase = "none" <=> h = NoHandler
         /\ h = NoHandler => h.context = None /\ h.socket = None
         /\ h # NoHandler => h.socket \in Sockets /\ h.session \in Sessions
         /\ h.context \in Contexts \union {None}
  BY DEF Handlers, NoHandler

\* What was said on a connection is a session if it has a rate.
LEMMA ConnectionFacts ==
  ASSUME NEW k \in Connection
  PROVE  /\ k # NoConnection => k.state \in {"open", "closing"}
         /\ NoConnection.state = "none" /\ NoConnection.said = NoSession
         /\ k.said \in Sessions \union Ends
         /\ k.said.epoch \in 0 .. MaxEpoch
         /\ k.said.rate # None => k.said \in Sessions
  BY NumberFacts DEF Connection, NoConnection, Sessions, Ends, NoSession, None

\* What the parts of openPlayback and closePlayback do to the contexts.
LEMMA OpenContextFacts ==
  ASSUME PlayerTypeOK, NEW r \in Rates, OpenContext(r)
  PROVE  /\ context' \in Contexts /\ context' # None
         /\ context' \notin {context, worklet, handler.context}
         /\ \A t \in starting : t.context # context'
         /\ contexts[context'].state # "running"
         /\ contexts' \in [Contexts -> Graphs]
         /\ contexts'[context'] = [state |-> "opening", rate |-> r]
         /\ \A c \in Contexts : c # context' => contexts'[c] = contexts[c]
<1>1. context' \in FreeContexts
  BY AnyOfFacts DEF OpenContext
<1>2. contexts' = [contexts EXCEPT ![context'] = [state |-> "opening", rate |-> r]]
  BY DEF OpenContext
<1>3. contexts \in [Contexts -> Graphs]
  BY DEF PlayerTypeOK, OutsideOK
<1>4. [state |-> "opening", rate |-> r] \in Graphs
  BY DEF Graphs
<1> QED BY <1>1, <1>2, <1>3, <1>4, NumberFacts DEF FreeContexts

\* A worklet is only made in the page's context; no rate changes.
LEMMA MakeWorkletFacts ==
  ASSUME PlayerTypeOK, NEW c \in Contexts, MakeWorklet(c)
  PROVE  /\ \/ context = c /\ worklet' = c
            \/ context # c /\ worklet' = worklet /\ contexts' = contexts
         /\ contexts' \in [Contexts -> Graphs]
         /\ \A d \in Contexts :
              /\ contexts'[d].rate = contexts[d].rate
              /\ contexts'[d].state = "running" => contexts[d].state = "running" \/ d = worklet'
<1>1. contexts \in [Contexts -> Graphs]
  BY DEF PlayerTypeOK, OutsideOK
<1>2. CASE context = c
  <2>1. worklet' = c /\ contexts' = [contexts EXCEPT ![c].state = "running"]
    BY <1>2 DEF MakeWorklet
  <2>2. contexts' = [contexts EXCEPT ![c] = [contexts[c] EXCEPT !.state = "running"]]
    BY <2>1
  <2>3. [contexts[c] EXCEPT !.state = "running"] \in Graphs
    BY <1>1 DEF Graphs
  <2>4. [contexts[c] EXCEPT !.state = "running"].rate = contexts[c].rate
    BY <1>1 DEF Graphs
  <2> QED BY <1>1, <1>2, <2>1, <2>2, <2>3, <2>4
<1>3. CASE context # c
  BY <1>1, <1>3 DEF MakeWorklet
<1> QED BY <1>2, <1>3

\* A context that is given up does not begin to run.
LEMMA GiveUpFacts ==
  ASSUME PlayerTypeOK, NEW c \in Contexts, GiveUp(c)
  PROVE  /\ contexts' \in [Contexts -> Graphs]
         /\ \A d \in Contexts :
              /\ contexts'[d].rate = contexts[d].rate
              /\ contexts'[d].state = "running" => contexts[d].state = "running"
<1> DEFINE e == IF contexts[c].state = "opening" THEN "failed" ELSE contexts[c].state
<1>1. contexts \in [Contexts -> Graphs]
  BY DEF PlayerTypeOK, OutsideOK
<1>2. contexts' = [contexts EXCEPT ![c] = [contexts[c] EXCEPT !.state = e]]
  BY DEF GiveUp
<1>3. /\ [contexts[c] EXCEPT !.state = e] \in Graphs
      /\ [contexts[c] EXCEPT !.state = e].rate = contexts[c].rate
      /\ [contexts[c] EXCEPT !.state = e].state = e
  BY <1>1 DEF Graphs
<1> QED BY <1>1, <1>2, <1>3

\* What closePlayback leaves: no context of the page, no worklet.
LEMMA ClosePlaybackFacts ==
  ASSUME PlayerTypeOK, ClosePlayback
  PROVE  /\ worklet' = None /\ context' = None /\ loaded' = NoSession
         /\ contexts' \in [Contexts -> Graphs]
         /\ \A c \in Contexts : contexts'[c].state = "running" =>
               contexts[c].state = "running" /\ c # context
<1>1. contexts \in [Contexts -> Graphs]
  BY DEF PlayerTypeOK, OutsideOK
<1>2. NoGraph \in Graphs /\ NoGraph.state # "running"
  BY DEF NoGraph, Graphs
<1> QED BY <1>1, <1>2 DEF ClosePlayback

\* What openSocket and closeSocket do to the connections.
LEMMA OpenSocketFacts ==
  ASSUME PlayerTypeOK, OpenSocket
  PROVE  /\ ~listening => socket' = socket /\ sockets' = sockets
         /\ listening =>
              /\ socket' \in Sockets /\ socket' # None
              /\ socket' # handler.socket
              /\ \A i \in 1 .. Len(messages) : messages[i].socket # socket'
              /\ sockets'[socket'].said = NoSession
              /\ \A s \in Sockets : s # socket' => sockets'[s] = sockets[s]
         /\ socket' \in Sockets \union {None}
         /\ sockets' \in [Sockets -> Connection]
<1>1. sockets \in [Sockets -> Connection] /\ socket \in Sockets \union {None} /\ messages \in Seq(Messages)
  BY DEF PlayerTypeOK, OutsideOK, PageOK, AwaitsOK
<1>2. CASE listening
  <2>1. socket' \in FreeSockets
    BY <1>2, AnyOfFacts DEF OpenSocket
  <2>2. sockets' = [sockets EXCEPT ![socket'] = [sockets[socket'] EXCEPT !.state = "open"]]
    BY <1>2 DEF OpenSocket
  <2>3. [NoConnection EXCEPT !.state = "open"] = [state |-> "open", said |-> NoSession]
    BY DEF NoConnection
  <2>4. [state |-> "open", said |-> NoSession] \in Connection
    BY NumberFacts DEF Connection, NoSession, None
  <2>5. sockets[socket'] = NoConnection /\ socket' \in Sockets /\ socket' # handler.socket
    BY <2>1 DEF FreeSockets
  <2>6. \A i \in 1 .. Len(messages) : messages[i].socket # socket'
    BY <1>1, <2>1 DEF FreeSockets
  <2>7. /\ sockets'[socket'] = [state |-> "open", said |-> NoSession]
        /\ \A s \in Sockets : s # socket' => sockets'[s] = sockets[s]
        /\ sockets' \in [Sockets -> Connection]
    BY <1>1, <2>2, <2>3, <2>4, <2>5
  <2> QED BY <1>2, <2>5, <2>6, <2>7, NumberFacts
<1>3. CASE ~listening
  BY <1>1, <1>3 DEF OpenSocket
<1> QED BY <1>2, <1>3

\* What closeSocket leaves: the page has no connection.
LEMMA CloseSocketFacts ==
  ASSUME PlayerTypeOK, CloseSocket
  PROVE  /\ socket' = None
         /\ sockets' \in [Sockets -> Connection]
         /\ \A s \in Sockets : sockets'[s] # NoConnection => s # socket /\ sockets[s] # NoConnection
<1>1. sockets \in [Sockets -> Connection]
  BY DEF PlayerTypeOK, OutsideOK
<1>2. NoConnection \in Connection
  BY DEF Connection
<1> QED BY <1>1, <1>2 DEF CloseSocket

\* A message is said on a connection that is open, and joins those that wait.
LEMMA SaysFacts ==
  ASSUME PlayerTypeOK, NEW s \in Sockets, NEW kind, NEW session, Says(s, kind, session),
         Message(s, kind, session) \in Messages, session \in Sessions \union Ends
  PROVE  /\ messages' = Append(messages, Message(s, kind, session))
         /\ messages' \in Seq(Messages)
         /\ sockets' \in [Sockets -> Connection]
         /\ sockets'[s].said = session
         /\ \A t \in Sockets : t # s => sockets'[t] = sockets[t]
         /\ sockets[s] # NoConnection
<1>1. sockets \in [Sockets -> Connection] /\ messages \in Seq(Messages)
  BY DEF PlayerTypeOK, OutsideOK, AwaitsOK
<1>2. sockets[s].state = "open" /\ sockets[s] # NoConnection
  BY DEF Says, NoConnection
<1>3. sockets' = [sockets EXCEPT ![s] = [sockets[s] EXCEPT !.said = session]]
  BY DEF Says
<1>4. sockets[s] \in [state: {"open", "closing"}, said: Sessions \union Ends]
  BY <1>1, <1>2 DEF Connection, Ends
<1>5. [sockets[s] EXCEPT !.said = session] \in [state: {"open", "closing"}, said: Sessions \union Ends]
  BY <1>4
<1>6. [sockets[s] EXCEPT !.said = session] \in Connection
  BY <1>5 DEF Connection, Ends
<1>7. [sockets[s] EXCEPT !.said = session].said = session
  BY <1>4
<1> QED BY <1>1, <1>2, <1>3, <1>6, <1>7 DEF Says

\* The page is well typed when it is loaded.
LEMMA InitEstablishesTypes == Init => PlayerTypeOK
<1> SUFFICES ASSUME Init PROVE PlayerTypeOK
  OBVIOUS
<1>1. PageOK
  BY DEF Init, PageOK, None
<1>2. AwaitsOK
  BY DEF Init, AwaitsOK, Handlers
<1>3. OutsideOK
  BY DEF Init, OutsideOK, Connection, Graphs, NoGraph, None
<1> QED BY <1>1, <1>2, <1>3 DEF PlayerTypeOK

\* A page that was just loaded has no connection and no graph.
LEMMA InitEstablishesGraph == Init => GraphIInv
  BY NumberFacts
     DEF Init, GraphIInv, OneConnection, OneGraph, StoppedIsSilent, StartsAlone, RebuildsAlone,
         NoHandler, NoGraph

\* A message that the relay sends is one.
LEMMA MessageFacts ==
  ASSUME NEW s \in Sockets
  PROVE  /\ \A x \in Sessions, kind \in {"format", "record"} : Message(s, kind, x) \in Messages
         /\ \A x \in Ends : Message(s, "waiting", x) \in Messages
  BY DEF Message, Messages

\* The message whose turn it is.
LEMMA TurnFacts ==
  ASSUME PlayerTypeOK, messages # <<>>
  PROVE  /\ Head(messages) \in Messages /\ Head(messages) = messages[1]
         /\ Tail(messages) \in Seq(Messages)
         /\ Head(messages).socket \in Sockets
         /\ Head(messages).kind \in {"format", "record"} => Head(messages).session \in Sessions
<1>1. messages \in Seq(Messages)
  BY DEF PlayerTypeOK, AwaitsOK
<1>2. Head(messages) \in Messages /\ Head(messages) = messages[1] /\ Tail(messages) \in Seq(Messages)
  BY <1>1
<1> QED BY <1>2 DEF Messages

\* The continuations of start keep types.
LEMMA StartStepKeepsTypes ==
  ASSUME PlayerTypeOK, NEW t \in starting, ModuleAdded(t) \/ Resumed(t) \/ StartFails(t)
  PROVE  PlayerTypeOK'
<1>1. t \in [context: Contexts, phase: {"module", "resume"}]
  BY DEF PlayerTypeOK, AwaitsOK
<1>2. CASE ModuleAdded(t)
  <2>1. [t EXCEPT !.phase = "resume"] \in [context: Contexts, phase: {"module", "resume"}]
    BY <1>1
  <2>2. starting' \subseteq [context: Contexts, phase: {"module", "resume"}]
    BY <1>2, <2>1 DEF ModuleAdded, PlayerTypeOK, AwaitsOK
  <2>3. OpenSocket \/ UNCHANGED <<socket, sockets>>
    BY <1>2 DEF ModuleAdded
  <2>4. socket' \in Sockets \union {None} /\ sockets' \in [Sockets -> Connection]
    BY <2>3, OpenSocketFacts DEF PlayerTypeOK, PageOK, OutsideOK
  <2> QED BY <1>2, <2>2, <2>4 DEF ModuleAdded, PlayerTypeOK, PageOK, AwaitsOK, OutsideOK, history
<1>3. CASE Resumed(t)
  <2>1. MakeWorklet(t.context) /\ OpenSocket /\ starting' \subseteq starting
    BY <1>3 DEF Resumed
  <2>2. socket' \in Sockets \union {None} /\ sockets' \in [Sockets -> Connection]
    BY <2>1, OpenSocketFacts
  <2>3. worklet' \in Contexts \union {None} /\ contexts' \in [Contexts -> Graphs]
    BY <1>1, <2>1, MakeWorkletFacts DEF PlayerTypeOK, PageOK
  <2> QED BY <1>3, <2>1, <2>2, <2>3 DEF Resumed, PlayerTypeOK, PageOK, AwaitsOK, OutsideOK, history
<1>4. CASE StartFails(t)
  <2>1. contexts' \in [Contexts -> Graphs]
    BY <1>1, <1>4, GiveUpFacts DEF StartFails
  <2> QED BY <1>4, <2>1 DEF StartFails, PlayerTypeOK, PageOK, AwaitsOK, OutsideOK, history
<1> QED BY <1>2, <1>3, <1>4

\* start and stop, up to their awaits and after, keep types.
LEMMA ButtonKeepsTypes ==
  ASSUME PlayerTypeOK, Start \/ Stop \/ Stopped
  PROVE  PlayerTypeOK'
<1>1. doubled' \in BOOLEAN
  BY DEF Start, Stop, Stopped, history, PlayerTypeOK, OutsideOK
<1>2. CASE Start
  <2>1. context' \in Contexts /\ contexts' \in [Contexts -> Graphs]
    BY <1>2, OpenContextFacts, PlayerAssumption DEF Start
  <2>2. starting' \subseteq [context: Contexts, phase: {"module", "resume"}]
    BY <1>2, <2>1 DEF Start, PlayerTypeOK, AwaitsOK
  <2> QED BY <1>1, <1>2, <2>1, <2>2 DEF Start, PlayerTypeOK, PageOK, AwaitsOK, OutsideOK
<1>3. CASE Stop
  <2>1. CloseSocket /\ ClosePlayback
    BY <1>3 DEF Stop
  <2>2. socket' = None /\ sockets' \in [Sockets -> Connection]
    BY <2>1, CloseSocketFacts
  <2>3. worklet' = None /\ context' = None /\ loaded' = NoSession /\ contexts' \in [Contexts -> Graphs]
    BY <2>1, ClosePlaybackFacts
  <2>4. format' \in Sessions \union {NoSession} /\ epoch' \in Nat /\ stopping' \in Nat
    BY <1>3 DEF Stop, PlayerTypeOK, PageOK, OutsideOK, None
  <2>5. /\ listening' = FALSE /\ retry' = FALSE
        /\ UNCHANGED <<starting, handler, messages, misplayed>>
    BY <1>3 DEF Stop
  <2> QED BY <1>1, <2>2, <2>3, <2>4, <2>5 DEF PlayerTypeOK, PageOK, AwaitsOK, OutsideOK
<1>4. CASE Stopped
  BY <1>4 DEF Stopped, PlayerTypeOK, PageOK, AwaitsOK, OutsideOK, outside, history, None
<1> QED BY <1>2, <1>3, <1>4

\* So do the relay's messages and the end of a connection.
LEMMA RelayKeepsTypes ==
  ASSUME PlayerTypeOK, NEW s \in Sockets,
         Announce(s) \/ Record(s) \/ Waiting(s) \/ SocketCloses(s)
  PROVE  PlayerTypeOK'
<1>1. sockets[s] \in Connection
  BY DEF PlayerTypeOK, OutsideOK
<1>2. sockets[s].said.epoch \in 0 .. MaxEpoch /\ sockets[s].said \in Sessions \union Ends
  BY <1>1, ConnectionFacts
<1>3. ASSUME NEW kind, NEW session, Says(s, kind, session),
             Message(s, kind, session) \in Messages, session \in Sessions \union Ends
      PROVE  PlayerTypeOK'
  BY <1>3, SaysFacts
     DEF Says, page, history, PlayerTypeOK, PageOK, AwaitsOK, OutsideOK
<1>4. CASE Announce(s)
  BY <1>3, <1>4, MessageFacts DEF Announce
<1>5. CASE Record(s)
  <2>1. sockets[s].said \in Sessions
    BY <1>1, <1>5, ConnectionFacts DEF Record
  <2> QED BY <1>3, <1>5, <2>1, MessageFacts DEF Record
<1>6. CASE Waiting(s)
  <2>1. [sockets[s].said EXCEPT !.rate = None] \in Ends
    BY <1>2, NumberFacts DEF Sessions, Ends, None
  <2> QED BY <1>3, <1>6, <2>1, MessageFacts DEF Waiting
<1>7. CASE SocketCloses(s)
  <2>1. sockets' \in [Sockets -> Connection]
    BY <1>7 DEF SocketCloses, PlayerTypeOK, OutsideOK, Connection
  <2>2. /\ socket' \in Sockets \union {None}
        /\ format' \in Sessions \union {NoSession}
        /\ epoch' \in Nat
        /\ loaded' \in Sessions \union {NoSession}
    BY <1>7 DEF SocketCloses, PlayerTypeOK, PageOK, OutsideOK, None
  <2>3. retry' \in BOOLEAN
    BY <1>7 DEF SocketCloses, RetryDue, PlayerTypeOK, PageOK
  <2> QED BY <1>7, <2>1, <2>2, <2>3
          DEF SocketCloses, awaits, PlayerTypeOK, PageOK, AwaitsOK, OutsideOK
<1> QED BY <1>4, <1>5, <1>6, <1>7

\* And the end of applyFormat.
LEMMA AdoptFacts ==
  ASSUME PlayerTypeOK, NEW session \in Sessions, Adopt(session)
  PROVE  /\ format' \in Sessions \union {NoSession}
         /\ epoch' \in Nat
         /\ loaded' \in Sessions \union {NoSession}
  BY SessionFacts DEF Adopt, PlayerTypeOK, OutsideOK

\* And a message whose turn it is.
LEMMA TurnKeepsTypes ==
  ASSUME PlayerTypeOK, Ignore \/ PlayFrame \/ ApplyWaiting \/ ApplyFormat \/ Rebuild
  PROVE  PlayerTypeOK'
<1>1. messages # <<>> /\ messages' = Tail(messages)
  BY DEF Ignore, PlayFrame, ApplyWaiting, ApplyFormat, Rebuild, Handle
<1>2. messages' \in Seq(Messages)
  BY <1>1, TurnFacts
<1>3. CASE Ignore
  BY <1>2, <1>3 DEF Ignore, page, outside, history, PlayerTypeOK, PageOK, AwaitsOK, OutsideOK
<1>4. CASE PlayFrame
  <2>1. Head(messages).session \in Sessions
    BY <1>1, <1>4, TurnFacts DEF PlayFrame, Handle
  <2>2. loaded' \in Sessions \union {NoSession}
    BY <1>4, <2>1 DEF PlayFrame, PlayerTypeOK, OutsideOK
  <2>3. misplayed' \in BOOLEAN
    BY <1>4 DEF PlayFrame, PlayerTypeOK, OutsideOK
  <2> QED BY <1>2, <1>4, <2>2, <2>3
          DEF PlayFrame, page, outside, PlayerTypeOK, PageOK, AwaitsOK, OutsideOK
<1>5. CASE ApplyWaiting
  BY <1>2, <1>5 DEF ApplyWaiting, outside, PlayerTypeOK, PageOK, AwaitsOK, OutsideOK
<1>6. CASE ApplyFormat
  <2>1. Head(messages).session \in Sessions /\ Adopt(Head(messages).session)
    BY <1>1, <1>6, TurnFacts DEF ApplyFormat, Handle
  <2> QED BY <1>2, <1>6, <2>1, AdoptFacts
          DEF ApplyFormat, outside, PlayerTypeOK, PageOK, AwaitsOK, OutsideOK
<1>7. CASE Rebuild
  <2>1. Head(messages).session \in Sessions /\ Head(messages).socket \in Sockets /\ ClosePlayback
    BY <1>1, <1>7, TurnFacts DEF Rebuild, Handle
  <2>2. handler' \in Handlers
    BY <1>7, <2>1 DEF Rebuild, Handlers
  <2> QED BY <1>2, <1>7, <2>1, <2>2, ClosePlaybackFacts
          DEF Rebuild, PlayerTypeOK, PageOK, AwaitsOK, OutsideOK
<1> QED BY <1>3, <1>4, <1>5, <1>6, <1>7

\* And a rebuild, whose context was opened before it is waited for.
LEMMA RebuildKeepsTypes ==
  ASSUME PlayerTypeOK, GraphIInv, RebuildClosed \/ RebuildModule \/ RebuildDone \/ RebuildFails
  PROVE  PlayerTypeOK'
<1>1. handler \in Handlers /\ NoHandler \in Handlers
  BY DEF PlayerTypeOK, AwaitsOK, Handlers
<1>2. handler.phase # "none"
  BY DEF RebuildClosed, RebuildModule, RebuildDone, RebuildFails
<1>3. handler \in [phase: {"close", "module", "resume"}, socket: Sockets, session: Sessions,
                   context: Contexts \union {None}]
  BY <1>1, <1>2, HandlerFacts DEF Handlers
<1>4. handler.session \in Sessions /\ handler.session.rate \in Rates /\ handler.socket \in Sockets
  BY <1>3, SessionFacts
<1>5. handler.phase \in {"module", "resume"} => handler.context \in Contexts
  BY <1>3 DEF GraphIInv, RebuildsAlone
<1>6. CASE RebuildClosed
  <2>1. CASE Live(handler.socket)
    <3>1. context' \in Contexts /\ contexts' \in [Contexts -> Graphs]
      BY <1>4, <1>6, <2>1, OpenContextFacts DEF RebuildClosed
    <3>2. handler' \in Handlers
      BY <1>3, <1>6, <2>1, <3>1 DEF RebuildClosed, Handlers
    <3> QED BY <1>6, <3>1, <3>2 DEF RebuildClosed, history, PlayerTypeOK, PageOK, AwaitsOK, OutsideOK
  <2>2. CASE ~Live(handler.socket)
    BY <1>1, <1>6, <2>2 DEF RebuildClosed, history, PlayerTypeOK, PageOK, AwaitsOK, OutsideOK
  <2> QED BY <2>1, <2>2
<1>7. CASE RebuildModule
  <2>1. handler' \in Handlers
    BY <1>3, <1>7 DEF RebuildModule, Handlers
  <2> QED BY <1>7, <2>1
          DEF RebuildModule, page, outside, history, PlayerTypeOK, PageOK, AwaitsOK, OutsideOK
<1>8. CASE RebuildDone
  <2>1. MakeWorklet(handler.context) /\ handler.context \in Contexts
    BY <1>5, <1>8 DEF RebuildDone
  <2>2. worklet' \in Contexts \union {None} /\ contexts' \in [Contexts -> Graphs]
    BY <2>1, MakeWorkletFacts DEF PlayerTypeOK, PageOK
  <2>3. Adopt(handler.session) \/ UNCHANGED <<format, epoch, loaded>>
    BY <1>8 DEF RebuildDone
  <2>4. /\ format' \in Sessions \union {NoSession}
        /\ epoch' \in Nat
        /\ loaded' \in Sessions \union {NoSession}
    BY <1>4, <2>3, AdoptFacts DEF PlayerTypeOK, PageOK, OutsideOK
  <2> QED BY <1>1, <1>8, <2>2, <2>4 DEF RebuildDone, PlayerTypeOK, PageOK, AwaitsOK, OutsideOK
<1>9. CASE RebuildFails
  <2>1. contexts' \in [Contexts -> Graphs]
    <3>1. CASE UNCHANGED contexts
      BY <3>1 DEF PlayerTypeOK, OutsideOK
    <3>2. CASE handler.phase \in {"module", "resume"} /\ GiveUp(handler.context)
      BY <1>5, <3>2, GiveUpFacts
    <3> QED BY <1>9, <3>1, <3>2 DEF RebuildFails
  <2>2. sockets' \in [Sockets -> Connection] /\ loaded' \in Sessions \union {NoSession}
    <3>1. CASE socket = handler.socket
      <4>1. sockets' = [sockets EXCEPT ![socket] = [sockets[socket] EXCEPT !.state = "closing"]]
        BY <1>9, <3>1 DEF RebuildFails
      <4>2. sockets[socket] \in Connection /\ socket \in Sockets
        BY <1>4, <3>1 DEF PlayerTypeOK, OutsideOK
      <4>3. sockets[socket] \in [state: {"open", "closing", "none"}, said: Sessions \union Ends]
        BY <4>2, NumberFacts DEF Connection, NoConnection, NoSession, Ends, None
      <4>4. [sockets[socket] EXCEPT !.state = "closing"] \in Connection
        BY <4>3 DEF Connection, Ends
      <4> QED BY <1>9, <3>1, <4>1, <4>4 DEF RebuildFails, PlayerTypeOK, OutsideOK
    <3>2. CASE socket # handler.socket
      BY <1>9, <3>2 DEF RebuildFails, PlayerTypeOK, OutsideOK
    <3> QED BY <3>1, <3>2
  <2> QED BY <1>1, <1>9, <2>1, <2>2 DEF RebuildFails, page, PlayerTypeOK, PageOK, AwaitsOK, OutsideOK
<1> QED BY <1>6, <1>7, <1>8, <1>9

\* Every step keeps types.
LEMMA NextPreservesTypes == PlayerTypeOK /\ GraphIInv /\ [Next]_vars => PlayerTypeOK'
<1> SUFFICES ASSUME PlayerTypeOK, GraphIInv, [Next]_vars PROVE PlayerTypeOK'
  OBVIOUS
<1>1. CASE Retry
  <2>1. OpenSocket
    BY <1>1 DEF Retry
  <2>2. socket' \in Sockets \union {None} /\ sockets' \in [Sockets -> Connection]
    BY <2>1, OpenSocketFacts
  <2> QED BY <1>1, <2>2 DEF Retry, awaits, history, PlayerTypeOK, PageOK, AwaitsOK, OutsideOK
<1>2. CASE UNCHANGED vars
  BY <1>2 DEF vars, page, awaits, outside, history, PlayerTypeOK, PageOK, AwaitsOK, OutsideOK
<1> QED BY <1>1, <1>2, ButtonKeepsTypes, StartStepKeepsTypes, RelayKeepsTypes, TurnKeepsTypes,
           RebuildKeepsTypes DEF Next, StartStep, HandlerStep

-----------------------------------------------------------------------------
\* The button.  A start that is the only one has a graph of its own.
LEMMA StartKeepsGraph ==
  ASSUME PlayerTypeOK, GraphIInv, OneStart', Start
  PROVE  GraphIInv'
<1>1. /\ context' \in Contexts /\ context' # None
      /\ context' # handler.context
      /\ contexts'[context'] = [state |-> "opening", rate |-> NominalRate]
      /\ \A c \in Contexts : c # context' => contexts'[c] = contexts[c]
  BY OpenContextFacts, PlayerAssumption DEF Start
<1>2. socket = None /\ worklet = None /\ ~retry
  BY DEF Start, GraphIInv, OneConnection, StoppedIsSilent
<1>3. /\ listening' = TRUE
      /\ UNCHANGED <<worklet, socket, retry, handler, sockets>>
      /\ starting' = starting \union {[context |-> context', phase |-> "module"]}
  BY DEF Start
<1>4. \A t \in starting' : t.context = context'
  <2> DEFINE u == [context |-> context', phase |-> "module"]
  <2>1. u \in starting' /\ u.context = context'
    BY <1>3
  <2> QED BY <2>1 DEF OneStart
<1>5. OneConnection'
  BY <1>2, <1>3 DEF GraphIInv, OneConnection
<1>6. OneGraph'
  BY <1>1, <1>2, <1>3 DEF GraphIInv, OneGraph
<1>7. StoppedIsSilent'
  BY <1>2, <1>3 DEF StoppedIsSilent
<1>8. StartsAlone'
  BY <1>1, <1>2, <1>3, <1>4 DEF StartsAlone
<1>9. RebuildsAlone'
  <2>1. handler.phase # "none" => handler.socket # None
    BY HandlerFacts, NumberFacts DEF PlayerTypeOK, AwaitsOK
  <2> QED BY <1>1, <1>2, <1>3, <2>1 DEF GraphIInv, RebuildsAlone, Live
<1> QED BY <1>5, <1>6, <1>7, <1>8, <1>9 DEF GraphIInv

\* stop closes the one connection and the one graph there are.
LEMMA StopKeepsGraph ==
  ASSUME PlayerTypeOK, GraphIInv, Stop \/ Stopped
  PROVE  GraphIInv'
<1>1. CASE Stop
  <2>1. CloseSocket /\ ClosePlayback
    BY <1>1 DEF Stop
  <2>2. listening' = FALSE /\ retry' = FALSE /\ UNCHANGED <<starting, handler>>
    BY <1>1 DEF Stop
  <2>3. /\ socket' = None
        /\ \A s \in Sockets : sockets'[s] # NoConnection => s # socket /\ sockets[s] # NoConnection
    BY <2>1, CloseSocketFacts
  <2>4. /\ worklet' = None /\ context' = None
        /\ \A c \in Contexts : contexts'[c].state = "running" =>
              contexts[c].state = "running" /\ c # context
    BY <2>1, ClosePlaybackFacts
  <2>5. OneConnection'
    BY <2>2, <2>3 DEF GraphIInv, OneConnection
  <2>6. OneGraph'
    BY <2>4, NumberFacts DEF GraphIInv, OneGraph
  <2>7. StoppedIsSilent'
    BY <2>3, <2>4 DEF StoppedIsSilent
  <2>8. StartsAlone'
    <3>1. \A t \in starting : t.context # None
      BY NumberFacts DEF PlayerTypeOK, AwaitsOK
    <3> QED BY <2>2, <2>3, <2>4, <3>1 DEF GraphIInv, StartsAlone
  <2>9. RebuildsAlone'
    BY <2>2, <2>4 DEF GraphIInv, RebuildsAlone, Live
  <2> QED BY <2>5, <2>6, <2>7, <2>8, <2>9 DEF GraphIInv
<1>2. CASE Stopped
  BY <1>2 DEF Stopped, outside, GraphIInv, OneConnection, OneGraph, StoppedIsSilent, StartsAlone,
              RebuildsAlone, Live
<1> QED BY <1>1, <1>2

\* A connection that is opened while there is none.
LEMMA OpenSocketKeepsGraph ==
  ASSUME PlayerTypeOK, GraphIInv, OpenSocket, socket = None
  PROVE  /\ \A s \in Sockets : sockets'[s] # NoConnection => s = socket'
         /\ ~listening => socket' = None
         /\ handler.phase # "none" => socket' # handler.socket
<1>1. handler.phase # "none" => handler.socket # None
  BY HandlerFacts, NumberFacts DEF PlayerTypeOK, AwaitsOK
<1>2. \A s \in Sockets : sockets[s] = NoConnection
  BY NumberFacts DEF GraphIInv, OneConnection
<1>3. CASE listening
  <2>1. /\ socket' # handler.socket
        /\ \A s \in Sockets : s # socket' => sockets'[s] = sockets[s]
    BY <1>3, OpenSocketFacts
  <2> QED BY <1>2, <1>3, <2>1
<1>4. CASE ~listening
  <2>1. socket' = None /\ sockets' = sockets
    BY <1>4, OpenSocketFacts
  <2> QED BY <1>1, <1>2, <2>1
<1> QED BY <1>3, <1>4

\* A start that goes on finds no connection, and the graph it made or none.
LEMMA StartStepKeepsGraph ==
  ASSUME PlayerTypeOK, GraphIInv, OneStart,
         NEW t \in starting, ModuleAdded(t) \/ Resumed(t) \/ StartFails(t)
  PROVE  GraphIInv'
<1>1. /\ socket = None /\ ~retry /\ worklet = None
      /\ context \in {None, t.context}
      /\ listening <=> context = t.context
      /\ t.context # handler.context
      /\ t.context \in Contexts
  BY DEF GraphIInv, StartsAlone, PlayerTypeOK, AwaitsOK
<1>2. starting = {t} /\ t.context # None
  BY <1>1, NumberFacts DEF OneStart
<1>3. CASE ModuleAdded(t)
  <2>1. UNCHANGED <<listening, context, worklet, retry, handler, contexts>>
    BY <1>3 DEF ModuleAdded
  <2>2. CASE context = t.context
    <3>1. /\ UNCHANGED <<socket, sockets>>
          /\ starting' = {[t EXCEPT !.phase = "resume"]}
      BY <1>2, <1>3, <2>2 DEF ModuleAdded
    <3>2. [t EXCEPT !.phase = "resume"].context = t.context
      BY DEF PlayerTypeOK, AwaitsOK
    <3>3. StartsAlone'
      BY <1>1, <2>1, <3>1, <3>2 DEF StartsAlone
    <3> QED BY <2>1, <3>1, <3>3
            DEF GraphIInv, OneConnection, OneGraph, StoppedIsSilent, RebuildsAlone, Live
  <2>3. CASE context # t.context
    <3>1. ~listening /\ starting' = {} /\ OpenSocket
      BY <1>1, <1>2, <1>3, <2>3 DEF ModuleAdded
    <3>2. UNCHANGED <<socket, sockets>>
      BY <3>1 DEF OpenSocket
    <3> QED BY <2>1, <3>1, <3>2
            DEF GraphIInv, OneConnection, OneGraph, StoppedIsSilent, StartsAlone, RebuildsAlone, Live
  <2> QED BY <2>2, <2>3
<1>4. CASE Resumed(t)
  <2>1. /\ UNCHANGED <<listening, context, retry, handler>>
        /\ starting' = {} /\ MakeWorklet(t.context) /\ OpenSocket
    BY <1>2, <1>4 DEF Resumed
  <2>2. /\ \A s \in Sockets : sockets'[s] # NoConnection => s = socket'
        /\ ~listening => socket' = None
        /\ handler.phase # "none" => socket' # handler.socket
    BY <1>1, <2>1, OpenSocketKeepsGraph
  <2>3. /\ \/ context = t.context /\ worklet' = t.context
           \/ context # t.context /\ worklet' = worklet /\ contexts' = contexts
        /\ \A d \in Contexts :
              /\ contexts'[d].rate = contexts[d].rate
              /\ contexts'[d].state = "running" => contexts[d].state = "running" \/ d = worklet'
    BY <1>1, <2>1, MakeWorkletFacts
  <2>4. OneConnection'
    BY <1>1, <2>1, <2>2 DEF OneConnection
  <2>5. OneGraph'
    BY <1>1, <2>1, <2>3, NumberFacts DEF GraphIInv, OneGraph
  <2>6. StoppedIsSilent'
    BY <1>1, <2>1, <2>2, <2>3 DEF StoppedIsSilent
  <2>7. StartsAlone'
    BY <2>1 DEF StartsAlone
  <2>8. RebuildsAlone'
    <3>1. handler.context # None => context # handler.context
      BY <1>1
    <3> QED BY <2>1, <2>2, <3>1 DEF GraphIInv, RebuildsAlone, Live
  <2> QED BY <2>4, <2>5, <2>6, <2>7, <2>8 DEF GraphIInv
<1>5. CASE StartFails(t)
  <2>1. /\ listening' = FALSE /\ starting' = {} /\ GiveUp(t.context)
        /\ UNCHANGED <<context, worklet, socket, retry, handler, sockets>>
    BY <1>2, <1>5 DEF StartFails
  <2>2. \A d \in Contexts :
              /\ contexts'[d].rate = contexts[d].rate
              /\ contexts'[d].state = "running" => contexts[d].state = "running"
    BY <1>1, <2>1, GiveUpFacts
  <2>3. OneConnection'
    BY <1>1, <2>1 DEF GraphIInv, OneConnection
  <2>4. OneGraph'
    BY <2>1, <2>2 DEF GraphIInv, OneGraph
  <2>5. StoppedIsSilent' /\ StartsAlone'
    BY <1>1, <2>1 DEF StoppedIsSilent, StartsAlone
  <2>6. RebuildsAlone'
    <3>1. handler.context # None => context # handler.context
      BY <1>1
    <3> QED BY <2>1, <3>1 DEF GraphIInv, RebuildsAlone, Live
  <2> QED BY <2>3, <2>4, <2>5, <2>6 DEF GraphIInv
<1> QED BY <1>3, <1>4, <1>5

-----------------------------------------------------------------------------
\* The relay's messages, the end of a connection, and the timer.
LEMMA RelayKeepsGraph ==
  ASSUME PlayerTypeOK, GraphIInv, NEW s \in Sockets,
         Announce(s) \/ Record(s) \/ Waiting(s) \/ SocketCloses(s)
  PROVE  GraphIInv'
<1>1. ASSUME NEW kind, NEW session, Says(s, kind, session)
      PROVE  GraphIInv'
  <2>1. UNCHANGED <<page, starting, handler, contexts>>
    BY <1>1 DEF Says
  <2>2. sockets[s] # NoConnection /\ sockets' = [sockets EXCEPT ![s].said = session]
    BY <1>1 DEF Says, NoConnection
  <2>3. \A r \in Sockets : sockets'[r] # NoConnection => sockets[r] # NoConnection
    BY <2>2 DEF PlayerTypeOK, OutsideOK
  <2>4. OneConnection'
    BY <2>1, <2>3 DEF page, GraphIInv, OneConnection
  <2> QED BY <2>1, <2>4
          DEF page, GraphIInv, OneGraph, StoppedIsSilent, StartsAlone, RebuildsAlone, Live
<1>2. CASE SocketCloses(s)
  <2>1. /\ UNCHANGED <<listening, context, worklet, starting, handler, contexts>>
        /\ sockets' = [sockets EXCEPT ![s] = NoConnection]
        /\ sockets[s] # NoConnection
    BY <1>2 DEF SocketCloses, awaits
  <2>2. s = socket
    BY <2>1 DEF GraphIInv, OneConnection
  <2>3. socket' = None /\ retry' = (retry \/ listening) /\ s # None
    BY <1>2, <2>2, NumberFacts DEF SocketCloses, RetryDue
  <2>4. OneConnection'
    BY <2>1, <2>2, <2>3 DEF GraphIInv, OneConnection, PlayerTypeOK, OutsideOK
  <2>5. StoppedIsSilent'
    BY <2>1, <2>3 DEF GraphIInv, StoppedIsSilent
  <2>6. StartsAlone'
    BY <2>1, <2>2, <2>3 DEF GraphIInv, StartsAlone
  <2>7. RebuildsAlone'
    <3>1. handler.phase # "none" => handler.socket # None
      BY HandlerFacts, NumberFacts DEF PlayerTypeOK, AwaitsOK
    <3> QED BY <2>1, <2>3, <3>1 DEF GraphIInv, RebuildsAlone, Live
  <2> QED BY <2>1, <2>4, <2>5, <2>6, <2>7 DEF GraphIInv, OneGraph
<1> QED BY <1>1, <1>2 DEF Announce, Record, Waiting

\* The timer fires when there is no connection, and no start awaits.
LEMMA RetryKeepsGraph ==
  ASSUME PlayerTypeOK, GraphIInv, Retry
  PROVE  GraphIInv'
<1>1. /\ retry /\ retry' = FALSE /\ OpenSocket
      /\ UNCHANGED <<listening, context, worklet, starting, handler, contexts>>
  BY DEF Retry, awaits
<1>2. socket = None /\ listening
  BY <1>1 DEF GraphIInv, OneConnection
<1>3. /\ \A s \in Sockets : sockets'[s] # NoConnection => s = socket'
      /\ handler.phase # "none" => socket' # handler.socket
  BY <1>1, <1>2, OpenSocketKeepsGraph
<1>4. starting = {}
  BY <1>1 DEF GraphIInv, StartsAlone
<1> QED BY <1>1, <1>2, <1>3, <1>4
        DEF GraphIInv, OneConnection, OneGraph, StoppedIsSilent, StartsAlone, RebuildsAlone, Live

-----------------------------------------------------------------------------
\* The handlers of messages.
LEMMA TurnKeepsGraph ==
  ASSUME PlayerTypeOK, GraphIInv, Ignore \/ PlayFrame \/ ApplyWaiting \/ ApplyFormat \/ Rebuild
  PROVE  GraphIInv'
<1>1. CASE Ignore \/ PlayFrame \/ ApplyWaiting \/ ApplyFormat
  <2>1. UNCHANGED <<listening, context, worklet, socket, retry, starting, handler, sockets, contexts>>
    BY <1>1 DEF Ignore, PlayFrame, ApplyWaiting, ApplyFormat, page, outside
  <2> QED BY <2>1 DEF GraphIInv, OneConnection, OneGraph, StoppedIsSilent, StartsAlone,
                      RebuildsAlone, Live
<1>2. CASE Rebuild
  <2> DEFINE m == Head(messages)
  <2>1. /\ handler' = [phase |-> "close", socket |-> m.socket, session |-> m.session, context |-> None]
        /\ Live(m.socket) /\ ClosePlayback /\ m.socket \in Sockets
        /\ UNCHANGED <<listening, socket, retry, starting, sockets>>
    BY <1>2, TurnFacts DEF Rebuild, Handle
  <2>2. /\ worklet' = None /\ context' = None
        /\ \A c \in Contexts : contexts'[c].state = "running" =>
              contexts[c].state = "running" /\ c # context
    BY <2>1, ClosePlaybackFacts
  <2>3. starting = {}
    BY <2>1, NumberFacts DEF Live, GraphIInv, StartsAlone
  <2>4. OneConnection' /\ StoppedIsSilent'
    BY <2>1, <2>2 DEF GraphIInv, OneConnection, StoppedIsSilent
  <2>5. OneGraph'
    BY <2>2, NumberFacts DEF GraphIInv, OneGraph
  <2>6. StartsAlone'
    BY <2>1, <2>3 DEF StartsAlone
  <2>7. RebuildsAlone'
    BY <2>1, <2>2 DEF RebuildsAlone, Live
  <2> QED BY <2>4, <2>5, <2>6, <2>7 DEF GraphIInv
<1> QED BY <1>1, <1>2

\* A rebuild that goes on finds its connection and what it made, or notices.
LEMMA RebuildKeepsGraph ==
  ASSUME PlayerTypeOK, GraphIInv, RebuildClosed \/ RebuildModule \/ RebuildDone \/ RebuildFails
  PROVE  GraphIInv'
<1>1. handler \in Handlers /\ handler.phase # "none"
  BY DEF PlayerTypeOK, AwaitsOK, RebuildClosed, RebuildModule, RebuildDone, RebuildFails
<1>2. handler \in [phase: {"close", "module", "resume"}, socket: Sockets, session: Sessions,
                   context: Contexts \union {None}]
  BY <1>1, HandlerFacts DEF Handlers
<1>3. handler.socket \in Sockets /\ handler.socket # None /\ handler.session.rate \in Rates
  BY <1>2, SessionFacts, NumberFacts
<1>4. NoHandler.phase = "none" /\ NoHandler.context = None
  BY DEF NoHandler
<1>5. \A t \in starting : t.context # None
  BY NumberFacts DEF PlayerTypeOK, AwaitsOK
<1>6. CASE RebuildClosed
  <2>1. CASE Live(handler.socket)
    <3>1. /\ OpenContext(handler.session.rate)
          /\ handler' = [handler EXCEPT !.phase = "module", !.context = context']
          /\ UNCHANGED <<listening, worklet, socket, retry, starting, sockets>>
      BY <1>6, <2>1 DEF RebuildClosed
    <3>2. /\ context' \in Contexts /\ context' # None
          /\ contexts[context'].state # "running"
          /\ contexts'[context'] = [state |-> "opening", rate |-> handler.session.rate]
          /\ \A c \in Contexts : c # context' => contexts'[c] = contexts[c]
      BY <1>3, <3>1, OpenContextFacts
    <3>3. /\ handler'.phase = "module" /\ handler'.context = context'
          /\ handler'.session = handler.session /\ handler'.socket = handler.socket
      BY <1>2, <3>1
    <3>4. starting = {} /\ worklet = None
      BY <1>1, <1>3, <2>1 DEF Live, GraphIInv, StartsAlone, RebuildsAlone
    <3>5. OneConnection' /\ StoppedIsSilent' /\ StartsAlone'
      BY <3>1, <3>4 DEF GraphIInv, OneConnection, StoppedIsSilent, StartsAlone
    <3>6. OneGraph'
      BY <3>1, <3>2, <3>4 DEF GraphIInv, OneGraph
    <3>7. RebuildsAlone'
      BY <2>1, <3>1, <3>2, <3>3, <3>4 DEF RebuildsAlone, Live
    <3> QED BY <3>5, <3>6, <3>7 DEF GraphIInv
  <2>2. CASE ~Live(handler.socket)
    <3>1. /\ handler' = NoHandler
          /\ UNCHANGED <<listening, context, worklet, socket, retry, starting, sockets, contexts>>
      BY <1>6, <2>2 DEF RebuildClosed
    <3>2. StartsAlone'
      BY <1>4, <1>5, <3>1 DEF GraphIInv, StartsAlone
    <3>3. RebuildsAlone'
      BY <1>4, <3>1 DEF RebuildsAlone
    <3> QED BY <3>1, <3>2, <3>3 DEF GraphIInv, OneConnection, OneGraph, StoppedIsSilent
  <2> QED BY <2>1, <2>2
<1>7. CASE RebuildModule
  <2>1. /\ handler.phase = "module" /\ handler' = [handler EXCEPT !.phase = "resume"]
        /\ UNCHANGED <<listening, context, worklet, socket, retry, starting, sockets, contexts>>
    BY <1>7 DEF RebuildModule, page, outside
  <2>2. /\ handler'.phase = "resume" /\ handler'.context = handler.context
        /\ handler'.session = handler.session /\ handler'.socket = handler.socket
    BY <1>2, <2>1
  <2>3. StartsAlone' /\ RebuildsAlone'
    BY <2>1, <2>2 DEF GraphIInv, StartsAlone, RebuildsAlone, Live
  <2> QED BY <2>1, <2>3 DEF GraphIInv, OneConnection, OneGraph, StoppedIsSilent
<1>8. CASE RebuildDone
  <2>1. /\ handler' = NoHandler /\ MakeWorklet(handler.context) /\ handler.phase \in {"module", "resume"}
        /\ UNCHANGED <<listening, context, socket, retry, starting, sockets>>
    BY <1>8 DEF RebuildDone
  <2>2. handler.context \in Contexts /\ handler.context # None
    BY <1>2, <2>1 DEF GraphIInv, RebuildsAlone
  <2>3. /\ \/ context = handler.context /\ worklet' = handler.context
           \/ context # handler.context /\ worklet' = worklet /\ contexts' = contexts
        /\ \A d \in Contexts :
              contexts'[d].state = "running" => contexts[d].state = "running" \/ d = worklet'
    BY <2>1, <2>2, MakeWorkletFacts
  <2>4. context = handler.context => listening /\ worklet = None /\ starting = {}
    BY <2>2 DEF GraphIInv, StartsAlone, RebuildsAlone
  <2>5. OneConnection'
    BY <2>1 DEF GraphIInv, OneConnection
  <2>6. OneGraph'
    BY <2>1, <2>3, <2>4, NumberFacts DEF GraphIInv, OneGraph
  <2>7. StoppedIsSilent'
    BY <2>1, <2>3, <2>4 DEF GraphIInv, StoppedIsSilent
  <2>8. StartsAlone'
    BY <1>4, <1>5, <2>1, <2>3, <2>4 DEF GraphIInv, StartsAlone
  <2>9. RebuildsAlone'
    BY <1>4, <2>1 DEF RebuildsAlone
  <2> QED BY <2>5, <2>6, <2>7, <2>8, <2>9 DEF GraphIInv
<1>9. CASE RebuildFails
  <2>1. handler' = NoHandler /\ UNCHANGED <<listening, context, worklet, socket, retry, starting>>
    BY <1>9 DEF RebuildFails, page
  <2>3. \A d \in Contexts : contexts'[d].state = "running" => contexts[d].state = "running"
    <3>1. CASE UNCHANGED contexts
      BY <3>1
    <3>2. CASE handler.phase \in {"module", "resume"} /\ GiveUp(handler.context)
      <4>1. handler.context \in Contexts
        BY <1>2, <3>2 DEF GraphIInv, RebuildsAlone
      <4> QED BY <3>2, <4>1, GiveUpFacts
    <3> QED BY <1>9, <3>1, <3>2 DEF RebuildFails
  <2>4. \A s \in Sockets : sockets'[s] # NoConnection => sockets[s] # NoConnection \/ s = socket
    BY <1>9 DEF RebuildFails, PlayerTypeOK, OutsideOK
  <2>5. OneConnection'
    BY <2>1, <2>4 DEF GraphIInv, OneConnection
  <2>6. OneGraph' /\ StoppedIsSilent'
    BY <2>1, <2>3 DEF GraphIInv, OneGraph, StoppedIsSilent
  <2>7. StartsAlone'
    BY <1>4, <1>5, <2>1 DEF GraphIInv, StartsAlone
  <2>8. RebuildsAlone'
    BY <1>4, <2>1 DEF RebuildsAlone
  <2> QED BY <2>5, <2>6, <2>7, <2>8 DEF GraphIInv
<1> QED BY <1>6, <1>7, <1>8, <1>9

\* Every step keeps one connection and one graph at a time, while starts come
\* one at a time.
LEMMA NextPreservesGraph ==
  PlayerTypeOK /\ GraphIInv /\ OneStart /\ OneStart' /\ [Next]_vars => GraphIInv'
<1> SUFFICES ASSUME PlayerTypeOK, GraphIInv, OneStart, OneStart', [Next]_vars PROVE GraphIInv'
  OBVIOUS
<1>1. CASE UNCHANGED vars
  BY <1>1 DEF vars, page, awaits, outside, GraphIInv, OneConnection, OneGraph, StoppedIsSilent,
              StartsAlone, RebuildsAlone, Live
<1> QED BY <1>1, StartKeepsGraph, StopKeepsGraph, StartStepKeepsGraph, RelayKeepsGraph,
           RetryKeepsGraph, TurnKeepsGraph, RebuildKeepsGraph DEF Next, StartStep, HandlerStep

\* A stopped player has no connection, hence no timer and none that is open,
\* and no worklet, hence no graph that runs.
LEMMA StoppedLeavesNothing == PlayerTypeOK /\ GraphIInv => StopLeavesNothing
  BY NumberFacts DEF GraphIInv, OneConnection, OneGraph, StoppedIsSilent, StopLeavesNothing,
                     PlayerTypeOK, OutsideOK

-----------------------------------------------------------------------------
\* The messages of connection s among those that wait: they are the last ones,
\* each record is of the session before it, epochs grow with announcements, and
\* the relay goes on from `said'.
InOrder(q, s, said) ==
    \A i \in 1 .. Len(q) : q[i].socket = s =>
        /\ said.epoch >= q[i].session.epoch
        /\ i = Len(q) => said = q[i].session
        /\ i < Len(q) /\ q[i + 1].kind = "record" => q[i + 1].session = q[i].session
        /\ \A j \in 1 .. Len(q) : i < j =>
              /\ q[j].socket = s
              /\ q[j].kind = "format" => q[j].session.epoch > q[i].session.epoch

\* A record of session x is what the handlers of connection s see next of it, or
\* would see if the relay sent one now.
Due(q, s, said, x) ==
    \/ \E i \in 1 .. Len(q) :
          /\ q[i] = Message(s, "record", x)
          /\ \A j \in 1 .. i - 1 : q[j].socket # s
    \/ said = x /\ \A i \in 1 .. Len(q) : q[i].socket # s

\* Whatever connection s still announces is of a later epoch than e.
Later(q, s, said, e) ==
    /\ said.epoch >= e
    /\ \A i \in 1 .. Len(q) : q[i].socket = s /\ q[i].kind = "format" => q[i].session.epoch > e

\* The relay says something more on connection s.
LEMMA LineSaid ==
  ASSUME NEW q \in Seq(Messages), NEW s \in Sockets, NEW said, NEW kind, NEW new,
         Message(s, kind, new) \in Messages, InOrder(q, s, said),
         said.epoch \in Nat, new.epoch \in Nat,
         \/ kind = "format" /\ new.epoch > said.epoch
         \/ kind = "record" /\ new = said
         \/ kind = "waiting" /\ new.epoch = said.epoch
  PROVE  /\ InOrder(Append(q, Message(s, kind, new)), s, new)
         /\ \A x \in Sessions : Due(Append(q, Message(s, kind, new)), s, new, x) => Due(q, s, said, x)
         /\ \A e \in Nat : Later(q, s, said, e) => Later(Append(q, Message(s, kind, new)), s, new, e)
<1> DEFINE m == Message(s, kind, new)
           r == Append(q, m)
<1>1. m.socket = s /\ m.kind = kind /\ m.session = new
  BY DEF Message
<1>2. /\ r \in Seq(Messages) /\ Len(q) \in Nat /\ Len(r) = Len(q) + 1
      /\ \A i \in 1 .. Len(q) : r[i] = q[i]
      /\ r[Len(q) + 1] = m
  OBVIOUS
<1>3. \A i \in 1 .. Len(q) : q[i].session.epoch \in Nat
  BY SessionFacts, NumberFacts DEF Messages, Ends
<1> HIDE DEF r, m
<1>4. InOrder(r, s, new)
  <2> SUFFICES ASSUME NEW i \in 1 .. Len(r), r[i].socket = s
               PROVE  /\ new.epoch >= r[i].session.epoch
                      /\ i = Len(r) => new = r[i].session
                      /\ i < Len(r) /\ r[i + 1].kind = "record" => r[i + 1].session = r[i].session
                      /\ \A j \in 1 .. Len(r) : i < j =>
                            /\ r[j].socket = s
                            /\ r[j].kind = "format" => r[j].session.epoch > r[i].session.epoch
    BY DEF InOrder
  <2>1. CASE i = Len(q) + 1
    BY <1>1, <1>2, <2>1
  <2>2. CASE i \in 1 .. Len(q)
    <3>1. /\ r[i] = q[i] /\ q[i].socket = s
          /\ said.epoch >= q[i].session.epoch
          /\ i = Len(q) => said = q[i].session
          /\ i < Len(q) /\ q[i + 1].kind = "record" => q[i + 1].session = q[i].session
          /\ \A j \in 1 .. Len(q) : i < j =>
                /\ q[j].socket = s
                /\ q[j].kind = "format" => q[j].session.epoch > q[i].session.epoch
      BY <1>2, <2>2 DEF InOrder
    <3>2. new.epoch >= r[i].session.epoch
      BY <1>3, <2>2, <3>1
    <3>3. i < Len(r) /\ r[i + 1].kind = "record" => r[i + 1].session = r[i].session
      <4>1. CASE i = Len(q)
        BY <1>1, <1>2, <3>1, <4>1
      <4>2. CASE i < Len(q)
        BY <1>2, <2>2, <3>1, <4>2
      <4> QED BY <2>2, <4>1, <4>2
    <3>4. ASSUME NEW j \in 1 .. Len(r), i < j
          PROVE  /\ r[j].socket = s
                 /\ r[j].kind = "format" => r[j].session.epoch > r[i].session.epoch
      <4>1. CASE j = Len(q) + 1
        BY <1>1, <1>2, <1>3, <2>2, <3>1, <4>1
      <4>2. CASE j \in 1 .. Len(q)
        BY <1>2, <3>1, <3>4, <4>2
      <4> QED BY <1>2, <4>1, <4>2
    <3> QED BY <1>2, <2>2, <3>2, <3>3, <3>4
  <2> QED BY <1>2, <2>1, <2>2
<1>5. ASSUME NEW x \in Sessions, Due(r, s, new, x)
      PROVE  Due(q, s, said, x)
  <2>1. r[Len(q) + 1].socket = s /\ Len(q) + 1 \in 1 .. Len(r)
    BY <1>1, <1>2
  <2>2. PICK i \in 1 .. Len(r) :
          /\ r[i] = Message(s, "record", x)
          /\ \A j \in 1 .. i - 1 : r[j].socket # s
    BY <1>5, <2>1 DEF Due
  <2>3. CASE i \in 1 .. Len(q)
    BY <1>2, <2>2, <2>3 DEF Due
  <2>4. CASE i = Len(q) + 1
    <3>1. kind = "record" /\ new = x
      BY <1>1, <1>2, <2>2, <2>4 DEF Message
    <3>2. \A j \in 1 .. Len(q) : q[j].socket # s
      BY <1>2, <2>2, <2>4
    <3> QED BY <3>1, <3>2 DEF Due
  <2> QED BY <1>2, <2>3, <2>4
<1>6. ASSUME NEW e \in Nat, Later(q, s, said, e)
      PROVE  Later(r, s, new, e)
  <2>1. said.epoch >= e /\ new.epoch >= e /\ (kind = "format" => new.epoch > e)
    BY <1>6 DEF Later
  <2>2. ASSUME NEW i \in 1 .. Len(r), r[i].socket = s, r[i].kind = "format"
        PROVE  r[i].session.epoch > e
    <3>1. CASE i = Len(q) + 1
      BY <1>1, <1>2, <2>1, <2>2, <3>1
    <3>2. CASE i \in 1 .. Len(q)
      BY <1>2, <1>6, <2>2, <3>2 DEF Later
    <3> QED BY <1>2, <3>1, <3>2
  <2> QED BY <2>1, <2>2 DEF Later
<1> QED BY <1>4, <1>5, <1>6 DEF r, m

\* A message is taken to be handled.
LEMMA LineTaken ==
  ASSUME NEW q \in Seq(Messages), NEW s \in Sockets, NEW said, q # <<>>, InOrder(q, s, said)
  PROVE  /\ InOrder(Tail(q), s, said)
         /\ \A e : Later(q, s, said, e) => Later(Tail(q), s, said, e)
         /\ q[1].socket # s => \A x \in Sessions : Due(Tail(q), s, said, x) => Due(q, s, said, x)
         /\ q[1].socket = s =>
              /\ \A x \in Sessions : Due(Tail(q), s, said, x) => x = q[1].session
              /\ Tail(q) # <<>> => Tail(q)[1].socket = s
              /\ q[1].kind = "record" => Due(q, s, said, q[1].session)
              /\ Later(Tail(q), s, said, q[1].session.epoch)
<1> DEFINE r == Tail(q)
<1>1. /\ r \in Seq(Messages) /\ Len(q) \in Nat \ {0} /\ Len(r) = Len(q) - 1
      /\ \A i \in 1 .. Len(q) - 1 : r[i] = q[i + 1]
      /\ r # <<>> => Len(r) # 0
  OBVIOUS
<1> HIDE DEF r
<1>2. ASSUME NEW i \in 1 .. Len(q) - 1
      PROVE  i + 1 \in 1 .. Len(q) /\ r[i] = q[i + 1] /\ i \in 1 .. Len(r)
  BY <1>1
<1>3. InOrder(r, s, said)
  <2> SUFFICES ASSUME NEW i \in 1 .. Len(r), r[i].socket = s
               PROVE  /\ said.epoch >= r[i].session.epoch
                      /\ i = Len(r) => said = r[i].session
                      /\ i < Len(r) /\ r[i + 1].kind = "record" => r[i + 1].session = r[i].session
                      /\ \A j \in 1 .. Len(r) : i < j =>
                            /\ r[j].socket = s
                            /\ r[j].kind = "format" => r[j].session.epoch > r[i].session.epoch
    BY DEF InOrder
  <2>1. i + 1 \in 1 .. Len(q) /\ r[i] = q[i + 1]
    BY <1>1
  <2>2. /\ said.epoch >= q[i + 1].session.epoch
        /\ i + 1 = Len(q) => said = q[i + 1].session
        /\ i + 1 < Len(q) /\ q[(i + 1) + 1].kind = "record" => q[(i + 1) + 1].session = q[i + 1].session
        /\ \A j \in 1 .. Len(q) : i + 1 < j =>
              /\ q[j].socket = s
              /\ q[j].kind = "format" => q[j].session.epoch > q[i + 1].session.epoch
    BY <2>1 DEF InOrder
  <2>3. ASSUME NEW j \in 1 .. Len(r), i < j
        PROVE  /\ r[j].socket = s
               /\ r[j].kind = "format" => r[j].session.epoch > r[i].session.epoch
    <3>1. j + 1 \in 1 .. Len(q) /\ i + 1 < j + 1 /\ r[j] = q[j + 1]
      BY <1>1, <2>3
    <3> QED BY <2>1, <2>2, <3>1
  <2>4. i < Len(r) => i + 1 < Len(q) /\ r[i + 1] = q[(i + 1) + 1]
    BY <1>1
  <2>5. i = Len(r) => i + 1 = Len(q)
    BY <1>1
  <2> QED BY <2>1, <2>2, <2>3, <2>4, <2>5
<1>4. ASSUME NEW e, Later(q, s, said, e)
      PROVE  Later(r, s, said, e)
  BY <1>1, <1>4 DEF Later
<1>5. ASSUME q[1].socket # s, NEW x \in Sessions, Due(r, s, said, x)
      PROVE  Due(q, s, said, x)
  <2>1. ASSUME NEW i \in 1 .. Len(q), i - 1 \in 1 .. Len(r) => r[i - 1].socket # s
        PROVE  q[i].socket # s
    BY <1>1, <1>5, <2>1
  <2>2. CASE \E i \in 1 .. Len(r) :
               /\ r[i] = Message(s, "record", x)
               /\ \A j \in 1 .. i - 1 : r[j].socket # s
    <3>1. PICK i \in 1 .. Len(r) :
               /\ r[i] = Message(s, "record", x)
               /\ \A j \in 1 .. i - 1 : r[j].socket # s
      BY <2>2
    <3>2. i + 1 \in 1 .. Len(q) /\ q[i + 1] = Message(s, "record", x)
      BY <1>1, <3>1
    <3>3. ASSUME NEW j \in 1 .. (i + 1) - 1
          PROVE  q[j].socket # s
      <4>1. j \in 1 .. Len(q) /\ (j - 1 \in 1 .. Len(r) => j - 1 \in 1 .. i - 1)
        BY <1>1
      <4> QED BY <2>1, <3>1, <4>1
    <3> QED BY <3>2, <3>3 DEF Due
  <2>3. CASE said = x /\ \A i \in 1 .. Len(r) : r[i].socket # s
    BY <2>1, <2>3 DEF Due
  <2> QED BY <1>5, <2>2, <2>3 DEF Due
<1>6. ASSUME q[1].socket = s
      PROVE  /\ \A x \in Sessions : Due(r, s, said, x) => x = q[1].session
             /\ r # <<>> => r[1].socket = s
             /\ q[1].kind = "record" => Due(q, s, said, q[1].session)
             /\ Later(r, s, said, q[1].session.epoch)
  <2>1. /\ 1 \in 1 .. Len(q)
        /\ said.epoch >= q[1].session.epoch
        /\ 1 = Len(q) => said = q[1].session
        /\ 1 < Len(q) /\ q[1 + 1].kind = "record" => q[1 + 1].session = q[1].session
        /\ \A j \in 1 .. Len(q) : 1 < j =>
              /\ q[j].socket = s
              /\ q[j].kind = "format" => q[j].session.epoch > q[1].session.epoch
    BY <1>1, <1>6 DEF InOrder
  <2>2. \A i \in 1 .. Len(r) : r[i].socket = s
    BY <1>1, <2>1
  <2>3. ASSUME NEW x \in Sessions, Due(r, s, said, x)
        PROVE  x = q[1].session
    <3>1. CASE Len(r) = 0
      <4>1. Len(q) = 1
        BY <1>1, <3>1
      <4>2. \A i \in 1 .. Len(r) : FALSE
        BY <3>1
      <4>3. said = x
        BY <2>3, <4>2 DEF Due
      <4> QED BY <2>1, <4>1, <4>3
    <3>2. CASE Len(r) # 0
      <4>1. 1 \in 1 .. Len(r) /\ r[1] = q[1 + 1] /\ 1 < Len(q)
        BY <1>1, <3>2
      <4>2. PICK i \in 1 .. Len(r) :
               /\ r[i] = Message(s, "record", x)
               /\ \A j \in 1 .. i - 1 : r[j].socket # s
        BY <2>2, <2>3, <4>1 DEF Due
      <4>3. i = 1
        BY <1>1, <2>2, <4>1, <4>2
      <4>4. r[1].kind = "record" /\ r[1].session = x
        BY <4>2, <4>3 DEF Message
      <4> QED BY <2>1, <4>1, <4>4
    <3> QED BY <3>1, <3>2
  <2>4. r # <<>> => r[1].socket = s
    BY <1>1, <2>2
  <2>5. q[1].kind = "record" => Due(q, s, said, q[1].session)
    <3>1. q[1] \in Messages
      BY <2>1
    <3>2. q[1] = Message(q[1].socket, q[1].kind, q[1].session)
      BY <3>1 DEF Messages, Message
    <3>3. \A j \in 1 .. 1 - 1 : q[j].socket # s
      OBVIOUS
    <3> QED BY <1>6, <2>1, <3>2, <3>3 DEF Due
  <2>6. Later(r, s, said, q[1].session.epoch)
    BY <1>1, <2>1 DEF Later
  <2> QED BY <2>3, <2>4, <2>5, <2>6
<1> QED BY <1>3, <1>4, <1>5, <1>6 DEF r

-----------------------------------------------------------------------------
\* A frame of session x would be played as such.
Fits(x) ==
    format # NoSession /\ worklet # None =>
        /\ format = x
        /\ contexts[worklet].rate = x.rate
        /\ loaded \in {NoSession, x}

LineIsInOrder == socket # None => InOrder(messages, socket, sockets[socket].said)

\* The record that comes next fits, or is of the session that the handler is
\* about to adopt.
DueFits ==
    socket # None =>
        \A x \in Sessions : Due(messages, socket, sockets[socket].said, x) =>
            /\ messages # <<>> => messages[1].socket = socket
            /\ IF handler.phase = "none"
               THEN Fits(x)
               ELSE handler.socket = socket /\ handler.session = x

\* The epoch is that of the format, and what is buffered is of no later one.
EpochsAgree ==
    /\ format # NoSession => epoch = format.epoch
    /\ worklet = None => loaded = NoSession
    /\ loaded # NoSession =>
          socket # None /\ Later(messages, socket, sockets[socket].said, epoch)

\* Every frame so far went where it belongs.
WellPlayed == ~misplayed

FramesIInv == LineIsInOrder /\ DueFits /\ EpochsAgree /\ WellPlayed

\* A page that was just loaded has played nothing.
LEMMA InitEstablishesFrames == Init => FramesIInv
  BY DEF Init, FramesIInv, LineIsInOrder, DueFits, EpochsAgree, WellPlayed

\* Without a connection nothing is due.
LEMMA NoSocketKeepsFrames ==
  ASSUME FramesIInv, socket' = None, loaded' = NoSession, misplayed' = misplayed,
         format' # NoSession => epoch' = format'.epoch
  PROVE  FramesIInv'
  BY DEF FramesIInv, LineIsInOrder, DueFits, EpochsAgree, WellPlayed

\* On a new connection nothing was said.
LEMMA OpenSocketKeepsFrames ==
  ASSUME PlayerTypeOK, FramesIInv, OpenSocket, socket = None,
         UNCHANGED <<messages, format, epoch, loaded, misplayed>>
  PROVE  FramesIInv'
<1>1. loaded = NoSession
  BY DEF FramesIInv, EpochsAgree
<1>2. CASE listening
  <2>1. /\ \A i \in 1 .. Len(messages) : messages[i].socket # socket'
        /\ sockets'[socket'].said = NoSession
    BY <1>2, OpenSocketFacts
  <2>2. InOrder(messages', socket', sockets'[socket'].said)
    BY <2>1 DEF InOrder
  <2>3. ASSUME NEW x \in Sessions, Due(messages', socket', sockets'[socket'].said, x)
        PROVE  FALSE
    <3>1. \A i \in 1 .. Len(messages) : messages[i] # Message(socket', "record", x)
      BY <2>1 DEF Message
    <3>2. sockets'[socket'].said = x
      BY <2>3, <3>1 DEF Due
    <3> QED BY <2>1, <3>2, SessionFacts
  <2>4. LineIsInOrder' /\ DueFits'
    BY <2>2, <2>3 DEF LineIsInOrder, DueFits
  <2> QED BY <1>1, <2>4 DEF FramesIInv, EpochsAgree, WellPlayed
<1>3. CASE ~listening
  <2>1. socket' = None
    BY <1>3, OpenSocketFacts
  <2> QED BY <1>1, <2>1, NoSocketKeepsFrames DEF FramesIInv, EpochsAgree
<1> QED BY <1>2, <1>3

\* While the button or the timer is at work there is no connection, or a new
\* one on which nothing was said.
LEMMA ButtonKeepsFrames ==
  ASSUME PlayerTypeOK, GraphIInv, FramesIInv,
         Start \/ Stop \/ Stopped \/ Retry
           \/ \E t \in starting : ModuleAdded(t) \/ Resumed(t) \/ StartFails(t)
  PROVE  FramesIInv'
<1>1. socket = None => loaded = NoSession
  BY DEF FramesIInv, EpochsAgree
<1>2. format # NoSession => epoch = format.epoch
  BY DEF FramesIInv, EpochsAgree
<1>3. CASE Start
  <2>1. socket = None
    BY <1>3 DEF Start, GraphIInv, StoppedIsSilent
  <2>2. UNCHANGED <<socket, loaded, misplayed, format, epoch>>
    BY <1>3 DEF Start
  <2> QED BY <1>1, <1>2, <2>1, <2>2, NoSocketKeepsFrames
<1>4. CASE Stop
  <2>1. socket' = None /\ loaded' = NoSession /\ misplayed' = misplayed
    BY <1>4 DEF Stop, CloseSocket, ClosePlayback
  <2>2. format' # NoSession => epoch' = format'.epoch
    BY <1>2, <1>4 DEF Stop
  <2> QED BY <2>1, <2>2, NoSocketKeepsFrames
<1>5. CASE Stopped
  <2>1. /\ format' = NoSession /\ epoch' = None
        /\ UNCHANGED <<worklet, socket, handler, messages, sockets, contexts, loaded, misplayed>>
    BY <1>5 DEF Stopped, outside, history
  <2>2. LineIsInOrder'
    BY <2>1 DEF FramesIInv, LineIsInOrder
  <2>3. DueFits'
    BY <2>1 DEF FramesIInv, DueFits, Fits
  <2>4. ASSUME socket # None PROVE Later(messages, socket, sockets[socket].said, None)
    <3>1. sockets[socket].said.epoch \in Nat
      BY <2>4, ConnectionFacts, NumberFacts DEF PlayerTypeOK, OutsideOK, PageOK
    <3>2. \A i \in 1 .. Len(messages) : messages[i] \in Messages
      BY DEF PlayerTypeOK, AwaitsOK
    <3>3. \A i \in 1 .. Len(messages) : messages[i].kind = "format" => messages[i].session \in Sessions
      BY <3>2 DEF Messages
    <3>4. \A x \in Sessions : x.epoch > None
      BY SessionFacts DEF None
    <3>5. sockets[socket].said.epoch >= None
      BY <3>1 DEF None
    <3> QED BY <3>3, <3>4, <3>5 DEF Later
  <2>5. EpochsAgree'
    BY <2>1, <2>4 DEF FramesIInv, EpochsAgree
  <2> QED BY <2>1, <2>2, <2>3, <2>5 DEF FramesIInv, WellPlayed
<1>6. CASE Retry
  <2>1. socket = None
    BY <1>6 DEF Retry, GraphIInv, OneConnection
  <2> QED BY <1>6, <2>1, OpenSocketKeepsFrames DEF Retry, awaits, history
<1>7. ASSUME NEW t \in starting, ModuleAdded(t) \/ Resumed(t) \/ StartFails(t)
      PROVE  FramesIInv'
  <2>1. socket = None
    BY DEF GraphIInv, StartsAlone
  <2>2. UNCHANGED <<messages, format, epoch, loaded, misplayed>>
    BY <1>7 DEF ModuleAdded, Resumed, StartFails, history
  <2>3. OpenSocket \/ UNCHANGED socket
    BY <1>7 DEF ModuleAdded, Resumed, StartFails
  <2> QED BY <1>1, <1>2, <2>1, <2>2, <2>3, OpenSocketKeepsFrames, NoSocketKeepsFrames
<1> QED BY <1>3, <1>4, <1>5, <1>6, <1>7

\* What the relay says goes on from what it said before.
LEMMA RelayKeepsFrames ==
  ASSUME PlayerTypeOK, GraphIInv, FramesIInv, NEW s \in Sockets,
         Announce(s) \/ Record(s) \/ Waiting(s) \/ SocketCloses(s)
  PROVE  FramesIInv'
<1>1. sockets[s] \in Connection
  BY DEF PlayerTypeOK, OutsideOK
<1>2. sockets[s].said.epoch \in Nat /\ sockets[s].said \in Sessions \union Ends
  BY <1>1, ConnectionFacts, NumberFacts
<1>3. ASSUME NEW kind, NEW new, Says(s, kind, new), Message(s, kind, new) \in Messages,
             new \in Sessions \union Ends,
             \/ kind = "format" /\ new.epoch > sockets[s].said.epoch
             \/ kind = "record" /\ new = sockets[s].said
             \/ kind = "waiting" /\ new.epoch = sockets[s].said.epoch
      PROVE  FramesIInv'
  <2> DEFINE said == sockets[s].said
             q == Append(messages, Message(s, kind, new))
  <2>1. messages' = q /\ sockets'[s].said = new /\ sockets[s] # NoConnection
    BY <1>3, SaysFacts
  <2>2. socket = s /\ socket # None
    BY <2>1, NumberFacts DEF GraphIInv, OneConnection
  <2>3. UNCHANGED <<worklet, socket, format, epoch, handler, contexts, loaded, misplayed>>
    BY <1>3 DEF Says, page, history
  <2>4. messages \in Seq(Messages) /\ epoch \in Nat
    BY DEF PlayerTypeOK, AwaitsOK, PageOK
  <2>5. InOrder(messages, s, said)
    BY <2>2 DEF FramesIInv, LineIsInOrder
  <2>6. new.epoch \in Nat
    BY <1>3, SessionFacts, NumberFacts DEF Ends
  <2>7. /\ InOrder(q, s, new)
        /\ \A x \in Sessions : Due(q, s, new, x) => Due(messages, s, said, x)
        /\ \A e \in Nat : Later(messages, s, said, e) => Later(q, s, new, e)
    BY <1>2, <1>3, <2>4, <2>5, <2>6, LineSaid
  <2>8. messages # <<>> => q[1] = messages[1]
    BY <1>3, <2>4
  <2>9. messages = <<>> => q[1] = Message(s, kind, new)
    BY <1>3, <2>4
  <2>10. Message(s, kind, new).socket = s
    BY DEF Message
  <2> HIDE DEF q, said
  <2>11. LineIsInOrder'
    BY <2>1, <2>2, <2>3, <2>7 DEF LineIsInOrder
  <2>12. DueFits'
    <3> SUFFICES ASSUME NEW x \in Sessions, Due(q, s, new, x)
                 PROVE  /\ q[1].socket = s
                        /\ IF handler.phase = "none"
                           THEN Fits(x)'
                           ELSE handler.socket = s /\ handler.session = x
      BY <2>1, <2>2, <2>3 DEF DueFits
    <3>1. Due(messages, s, said, x)
      BY <2>7
    <3>2. /\ messages # <<>> => messages[1].socket = s
          /\ IF handler.phase = "none" THEN Fits(x) ELSE handler.socket = s /\ handler.session = x
      BY <2>2, <3>1 DEF FramesIInv, DueFits, said
    <3>3. Fits(x) => Fits(x)'
      BY <2>3 DEF Fits
    <3> QED BY <2>8, <2>9, <2>10, <3>2, <3>3
  <2>13. EpochsAgree'
    BY <2>1, <2>2, <2>3, <2>4, <2>7 DEF FramesIInv, EpochsAgree, said
  <2> QED BY <2>3, <2>11, <2>12, <2>13 DEF FramesIInv, WellPlayed
<1>4. CASE Announce(s)
  BY <1>3, <1>4, MessageFacts DEF Announce
<1>5. CASE Record(s)
  <2>1. sockets[s].said \in Sessions
    BY <1>1, <1>5, ConnectionFacts DEF Record
  <2> QED BY <1>3, <1>5, <2>1, MessageFacts DEF Record
<1>6. CASE Waiting(s)
  <2>1. /\ [sockets[s].said EXCEPT !.rate = None] \in Ends
        /\ [sockets[s].said EXCEPT !.rate = None].epoch = sockets[s].said.epoch
    BY <1>2, NumberFacts DEF Sessions, Ends, None
  <2> QED BY <1>3, <1>6, <2>1, MessageFacts DEF Waiting
<1>7. CASE SocketCloses(s)
  <2>1. s = socket
    BY <1>7 DEF SocketCloses, GraphIInv, OneConnection
  <2>2. /\ socket' = None /\ format' = NoSession /\ loaded' = NoSession /\ misplayed' = misplayed
    BY <1>7, <2>1 DEF SocketCloses
  <2> QED BY <2>2, NoSocketKeepsFrames
<1> QED BY <1>4, <1>5, <1>6, <1>7

\* A handler that runs at once plays or adopts what comes next in the line.
LEMMA TurnKeepsFrames ==
  ASSUME PlayerTypeOK, GraphIInv, FramesIInv,
         Ignore \/ PlayFrame \/ ApplyWaiting \/ ApplyFormat \/ Rebuild
  PROVE  FramesIInv'
<1> DEFINE m == Head(messages)
           q == Tail(messages)
           said == sockets[socket].said
<1>1. /\ messages # <<>> /\ messages' = q /\ handler.phase = "none"
      /\ UNCHANGED <<socket, sockets>>
  BY DEF Ignore, PlayFrame, ApplyWaiting, ApplyFormat, Rebuild, Handle, Turn, page, outside
<1>2. CASE socket = None
  <2>1. Ignore
    <3>1. m.socket # None
      BY <1>1, TurnFacts, NumberFacts
    <3> QED BY <1>2, <3>1 DEF PlayFrame, ApplyWaiting, ApplyFormat, Rebuild, Live
  <2> QED BY <1>2, <2>1, NoSocketKeepsFrames DEF Ignore, page, history, FramesIInv, EpochsAgree
<1>3. CASE socket # None
  <2>1. listening /\ socket \in Sockets
    BY <1>3 DEF GraphIInv, StoppedIsSilent, PlayerTypeOK, PageOK
  <2>2. messages \in Seq(Messages) /\ InOrder(messages, socket, said)
    BY <1>3 DEF PlayerTypeOK, AwaitsOK, FramesIInv, LineIsInOrder
  <2>3. messages[1] = m /\ m \in Messages
    BY <1>1, TurnFacts
  <2>4. /\ InOrder(q, socket, said)
        /\ \A e : Later(messages, socket, said, e) => Later(q, socket, said, e)
        /\ m.socket # socket =>
              \A x \in Sessions : Due(q, socket, said, x) => Due(messages, socket, said, x)
        /\ m.socket = socket =>
              /\ \A x \in Sessions : Due(q, socket, said, x) => x = m.session
              /\ q # <<>> => q[1].socket = socket
              /\ m.kind = "record" => Due(messages, socket, said, m.session)
              /\ Later(q, socket, said, m.session.epoch)
    BY <1>1, <2>1, <2>2, <2>3, LineTaken
  <2>5. \A x \in Sessions : Due(messages, socket, said, x) => m.socket = socket /\ Fits(x)
    BY <1>1, <1>3, <2>3 DEF FramesIInv, DueFits
  <2>6. /\ format # NoSession => epoch = format.epoch
        /\ worklet = None => loaded = NoSession
        /\ loaded # NoSession => Later(messages, socket, said, epoch)
    BY DEF FramesIInv, EpochsAgree
  <2> HIDE DEF m, q, said
  <2>7. LineIsInOrder'
    BY <1>1, <2>4 DEF LineIsInOrder, said
  <2>8. CASE Ignore
    <3>1. UNCHANGED <<worklet, format, epoch, handler, contexts, loaded, misplayed>>
      BY <2>8 DEF Ignore, page, outside, history
    <3>2. m.socket # socket
      BY <2>1, <2>8 DEF Ignore, Live, m
    <3>3. \A x \in Sessions : ~Due(q, socket, said, x)
      BY <2>4, <2>5, <3>2
    <3>4. DueFits'
      BY <1>1, <3>3 DEF DueFits, said
    <3>5. EpochsAgree'
      BY <1>1, <1>3, <2>4, <2>6, <3>1 DEF EpochsAgree, said
    <3> QED BY <2>7, <3>1, <3>4, <3>5 DEF FramesIInv, WellPlayed
  <2>9. ASSUME ~Ignore PROVE m.socket = socket
    BY <2>9 DEF PlayFrame, ApplyWaiting, ApplyFormat, Rebuild, Live, m
  <2>10. CASE PlayFrame
    <3>1. m.socket = socket /\ m.kind = "record" /\ m.session \in Sessions
      BY <1>1, <2>10, TurnFacts DEF PlayFrame, Handle, Live, m
    <3>0. PICK x \in Sessions : x = m.session
      BY <3>1
    <3>2. UNCHANGED <<worklet, format, epoch, handler, contexts>>
      BY <2>10 DEF PlayFrame, page, outside
    <3>3. Fits(m.session) /\ Later(q, socket, said, m.session.epoch)
      BY <2>4, <2>5, <3>1
    <3>4. CASE format = NoSession \/ worklet = None
      <4>1. UNCHANGED <<loaded, misplayed>>
        BY <2>10, <3>4 DEF PlayFrame
      <4>2. Fits(x)'
        BY <3>2, <3>4 DEF Fits
      <4>3. DueFits'
        BY <1>1, <2>4, <3>1, <3>0, <3>2, <4>2 DEF DueFits, said
      <4>4. EpochsAgree'
        BY <1>1, <1>3, <2>4, <2>6, <3>2, <4>1 DEF EpochsAgree, said
      <4> QED BY <2>7, <4>1, <4>3, <4>4 DEF FramesIInv, WellPlayed
    <3>5. CASE ~(format = NoSession \/ worklet = None)
      <4>1. /\ format = m.session
            /\ contexts[worklet].rate = m.session.rate
            /\ loaded \in {NoSession, m.session}
        BY <3>3, <3>5 DEF Fits
      <4>2. /\ loaded' = m.session
            /\ misplayed' = (misplayed \/ contexts[worklet].rate # m.session.rate
                                       \/ format # m.session
                                       \/ loaded \notin {NoSession, m.session})
        BY <2>10, <3>5 DEF PlayFrame, m
      <4>3. WellPlayed'
        BY <4>1, <4>2 DEF FramesIInv, WellPlayed
      <4>4. Fits(x)'
        BY <3>0, <3>2, <4>1, <4>2 DEF Fits
      <4>5. DueFits'
        BY <1>1, <2>4, <3>1, <3>0, <3>2, <4>4 DEF DueFits, said
      <4>6. epoch = m.session.epoch
        BY <2>6, <3>5, <4>1
      <4>7. EpochsAgree'
        BY <1>1, <1>3, <2>6, <3>2, <3>3, <3>5, <4>2, <4>6 DEF EpochsAgree, said
      <4> QED BY <2>7, <4>3, <4>5, <4>7 DEF FramesIInv
    <3> QED BY <3>4, <3>5
  <2>11. CASE ApplyWaiting
    <3>1. /\ format' = NoSession /\ loaded' = NoSession
          /\ UNCHANGED <<worklet, handler, misplayed>>
      BY <2>11 DEF ApplyWaiting
    <3>2. m.socket = socket
      BY <2>11 DEF ApplyWaiting, Live, m
    <3>3. DueFits'
      BY <1>1, <2>4, <3>1, <3>2 DEF DueFits, Fits, said
    <3> QED BY <2>7, <3>1, <3>3 DEF FramesIInv, EpochsAgree, WellPlayed
  <2>12. CASE ApplyFormat
    <3>1. /\ m.socket = socket /\ m.kind = "format" /\ m.session \in Sessions /\ Adopt(m.session)
          /\ context # None => contexts[context].rate = m.session.rate
          /\ UNCHANGED <<worklet, handler, contexts, misplayed>>
      BY <1>1, <2>12, TurnFacts DEF ApplyFormat, Handle, Live, outside, m
    <3>0. PICK x \in Sessions : x = m.session
      BY <3>1
    <3>2. format' = m.session /\ epoch' = m.session.epoch
      BY <3>1 DEF Adopt
    <3>3. loaded' = NoSession
      <4>1. CASE loaded = NoSession
        BY <3>1, <4>1 DEF Adopt
      <4>2. CASE loaded # NoSession
        <5>1. 1 \in 1 .. Len(messages)
          BY <1>1, <2>2
        <5>2. m.session.epoch > epoch
          BY <2>3, <2>6, <3>1, <4>2, <5>1 DEF Later
        <5>3. m.session.epoch \in Nat /\ epoch \in Nat
          BY <3>1, SessionFacts DEF PlayerTypeOK, PageOK
        <5> QED BY <3>1, <5>2, <5>3 DEF Adopt
      <4> QED BY <4>1, <4>2
    <3>4. Fits(x)'
      BY <3>1, <3>0, <3>2, <3>3 DEF Fits, GraphIInv, OneGraph
    <3>5. DueFits'
      BY <1>1, <2>4, <3>1, <3>0, <3>4 DEF DueFits, said
    <3> QED BY <2>7, <3>1, <3>2, <3>3, <3>5 DEF FramesIInv, EpochsAgree, WellPlayed
  <2>13. CASE Rebuild
    <3>1. /\ m.socket = socket /\ ClosePlayback
          /\ handler' = [phase |-> "close", socket |-> m.socket, session |-> m.session,
                         context |-> None]
          /\ UNCHANGED <<format, epoch, misplayed>>
      BY <2>13 DEF Rebuild, Live, m
    <3>2. worklet' = None /\ loaded' = NoSession
      BY <3>1 DEF ClosePlayback
    <3>3. DueFits'
      BY <1>1, <2>4, <3>1 DEF DueFits, said
    <3> QED BY <2>6, <2>7, <3>1, <3>2, <3>3 DEF FramesIInv, EpochsAgree, WellPlayed
  <2> QED BY <2>8, <2>10, <2>11, <2>12, <2>13
<1> QED BY <1>2, <1>3

\* A rebuild adopts the session it was for, or its connection is gone and with
\* it every record of that session.
LEMMA RebuildKeepsFrames ==
  ASSUME PlayerTypeOK, GraphIInv, FramesIInv,
         RebuildClosed \/ RebuildModule \/ RebuildDone \/ RebuildFails
  PROVE  FramesIInv'
<1> DEFINE said == sockets[socket].said
<1>1. handler \in Handlers /\ handler.phase # "none"
  BY DEF PlayerTypeOK, AwaitsOK, RebuildClosed, RebuildModule, RebuildDone, RebuildFails
<1>2. handler \in [phase: {"close", "module", "resume"}, socket: Sockets, session: Sessions,
                   context: Contexts \union {None}]
  BY <1>1, HandlerFacts DEF Handlers
<1>3. UNCHANGED <<socket, messages, misplayed>>
  BY DEF RebuildClosed, RebuildModule, RebuildDone, RebuildFails, page, history
<1>4. socket # None => sockets'[socket].said = said
  <2>1. CASE RebuildFails /\ socket = handler.socket
    <3>1. sockets' = [sockets EXCEPT ![socket] = [sockets[socket] EXCEPT !.state = "closing"]]
      BY <2>1 DEF RebuildFails
    <3>2. socket \in Sockets /\ sockets[socket] \in Connection
      BY <1>2, <2>1 DEF PlayerTypeOK, OutsideOK
    <3>3. sockets[socket] \in [state: {"open", "closing", "none"}, said: Sessions \union Ends]
      BY <3>2, NumberFacts DEF Connection, NoConnection, NoSession, Ends, None
    <3> QED BY <3>1, <3>2, <3>3 DEF PlayerTypeOK, OutsideOK
  <2>2. CASE ~(RebuildFails /\ socket = handler.socket)
    BY <2>2 DEF RebuildClosed, RebuildModule, RebuildDone, RebuildFails, outside
  <2> QED BY <2>1, <2>2
<1>5. /\ socket # None => listening
      /\ Live(handler.socket) => worklet = None /\ context = handler.context
  BY <1>1 DEF GraphIInv, StoppedIsSilent, RebuildsAlone
<1>6. ASSUME socket # None, NEW x \in Sessions, Due(messages, socket, said, x)
      PROVE  /\ messages # <<>> => messages[1].socket = socket
             /\ Live(handler.socket) /\ handler.session = x
  BY <1>1, <1>5, <1>6 DEF FramesIInv, DueFits, Live
<1>7. /\ format # NoSession => epoch = format.epoch
      /\ worklet = None => loaded = NoSession
      /\ loaded # NoSession => socket # None /\ Later(messages, socket, said, epoch)
  BY DEF FramesIInv, EpochsAgree
<1> HIDE DEF said
<1>8. LineIsInOrder'
  BY <1>3, <1>4 DEF FramesIInv, LineIsInOrder, said
<1>9. ASSUME \A x \in Sessions :
                Live(handler.socket) /\ handler.session = x =>
                   IF handler'.phase = "none"
                   THEN Fits(x)'
                   ELSE handler'.socket = handler.socket /\ handler'.session = x
      PROVE  DueFits'
  BY <1>3, <1>4, <1>6, <1>9 DEF DueFits, Live
<1>10. ASSUME UNCHANGED <<format, epoch>>, loaded' \in {loaded, NoSession},
              worklet' = None => loaded' = NoSession
       PROVE  EpochsAgree'
  BY <1>3, <1>4, <1>7, <1>10 DEF EpochsAgree
<1>11. CASE RebuildClosed
  <2>1. UNCHANGED <<worklet, format, epoch, loaded>>
    BY <1>11 DEF RebuildClosed, history
  <2>2. Live(handler.socket) =>
          /\ handler'.phase = "module"
          /\ handler'.socket = handler.socket /\ handler'.session = handler.session
    BY <1>2, <1>11 DEF RebuildClosed
  <2>3. DueFits'
    BY <1>9, <2>2
  <2> QED BY <1>3, <1>7, <1>8, <1>10, <2>1, <2>3 DEF FramesIInv, WellPlayed
<1>12. CASE RebuildModule
  <2>1. UNCHANGED <<worklet, format, epoch, loaded>>
    BY <1>12 DEF RebuildModule, page, history
  <2>2. /\ handler'.phase = "resume"
        /\ handler'.socket = handler.socket /\ handler'.session = handler.session
    BY <1>2, <1>12 DEF RebuildModule
  <2>3. DueFits'
    BY <1>9, <2>2
  <2> QED BY <1>3, <1>7, <1>8, <1>10, <2>1, <2>3 DEF FramesIInv, WellPlayed
<1>13. CASE RebuildDone
  <2>1. handler' = NoHandler /\ MakeWorklet(handler.context) /\ handler.context \in Contexts
    BY <1>2, <1>13 DEF RebuildDone, GraphIInv, RebuildsAlone
  <2>2. /\ \/ context = handler.context /\ worklet' = handler.context
           \/ context # handler.context /\ worklet' = worklet
        /\ \A d \in Contexts : contexts'[d].rate = contexts[d].rate
    BY <2>1, MakeWorkletFacts
  <2>3. CASE Live(handler.socket)
    <3>1. Adopt(handler.session) /\ worklet = None /\ context = handler.context
      BY <1>5, <1>13, <2>3 DEF RebuildDone
    <3>2. loaded' = NoSession /\ format' = handler.session /\ epoch' = handler.session.epoch
      BY <1>7, <3>1 DEF Adopt
    <3>3. contexts'[worklet'].rate = handler.session.rate
      <4>1. worklet' = handler.context /\ context \in Contexts /\ handler.context # None
        BY <2>1, <2>2, <3>1, NumberFacts
      <4>2. contexts[context].rate = handler.session.rate
        BY <3>1, <4>1 DEF GraphIInv, RebuildsAlone
      <4> QED BY <2>2, <3>1, <4>1, <4>2
    <3>0. PICK x \in Sessions : x = handler.session
      BY <1>2
    <3>4. Fits(x)'
      BY <3>0, <3>2, <3>3 DEF Fits
    <3>5. DueFits'
      BY <1>9, <2>1, <3>0, <3>4 DEF NoHandler
    <3>6. EpochsAgree'
      BY <3>2 DEF EpochsAgree
    <3> QED BY <1>3, <1>8, <3>5, <3>6 DEF FramesIInv, WellPlayed
  <2>4. CASE ~Live(handler.socket)
    <3>1. UNCHANGED <<format, epoch, loaded>>
      BY <1>13, <2>4 DEF RebuildDone
    <3>2. DueFits'
      BY <1>9, <2>4
    <3>3. worklet' = None => worklet = None
      BY <2>1, <2>2, NumberFacts
    <3> QED BY <1>3, <1>7, <1>8, <1>10, <3>1, <3>2, <3>3 DEF FramesIInv, WellPlayed
  <2> QED BY <2>3, <2>4
<1>14. CASE RebuildFails
  <2>1. /\ UNCHANGED <<worklet, format, epoch>>
        /\ loaded' \in {loaded, NoSession}
    BY <1>14 DEF RebuildFails, page
  <2>2. Live(handler.socket) => \A x \in Sessions : Fits(x)'
    BY <1>5, <2>1 DEF Fits
  <2>3. DueFits'
    BY <1>9, <1>14, <2>2 DEF RebuildFails, NoHandler
  <2> QED BY <1>3, <1>7, <1>8, <1>10, <2>1, <2>3 DEF FramesIInv, WellPlayed
<1> QED BY <1>11, <1>12, <1>13, <1>14

\* Every step keeps frames in their place.
LEMMA NextPreservesFrames ==
  PlayerTypeOK /\ GraphIInv /\ FramesIInv /\ [Next]_vars => FramesIInv'
<1> SUFFICES ASSUME PlayerTypeOK, GraphIInv, FramesIInv, [Next]_vars PROVE FramesIInv'
  OBVIOUS
<1>1. CASE UNCHANGED vars
  BY <1>1 DEF vars, page, awaits, outside, history, FramesIInv, LineIsInOrder, DueFits, Fits,
              EpochsAgree, WellPlayed
<1> QED BY <1>1, ButtonKeepsFrames, RelayKeepsFrames, TurnKeepsFrames, RebuildKeepsFrames
        DEF Next, StartStep, HandlerStep

-----------------------------------------------------------------------------
(***************************************************************************)
(* While no start is called before the one before it is done, starts come  *)
(* one at a time and the page keeps its connection and its graph.  A start *)
(* that is doubled is so for good, so that nothing has to be said of what  *)
(* follows it.                                                             *)
(***************************************************************************)
PlayerIInv ==
    /\ doubled \in BOOLEAN
    /\ ~doubled => PlayerTypeOK /\ OneStart /\ GraphIInv /\ FramesIInv

\* A start is the only one, or doubled.
LEMMA StartsAreCounted ==
  ASSUME doubled \in BOOLEAN, ~doubled => OneStart, [Next]_vars
  PROVE  /\ doubled' \in BOOLEAN
         /\ doubled => doubled'
         /\ ~doubled' => OneStart'
<1>1. CASE Start
  <2>1. doubled' = (doubled \/ starting # {})
        /\ starting' = starting \union {[context |-> context', phase |-> "module"]}
    BY <1>1 DEF Start
  <2>2. ASSUME ~doubled' PROVE OneStart'
    <3>1. starting = {}
      BY <2>1, <2>2
    <3>2. starting' = {[context |-> context', phase |-> "module"]}
      BY <2>1, <3>1
    <3> QED BY <3>2 DEF OneStart
  <2>3. doubled' \in BOOLEAN /\ (doubled => doubled')
    BY <2>1
  <2> QED BY <2>2, <2>3
<1>2. ASSUME NEW t \in starting, ModuleAdded(t) \/ Resumed(t) \/ StartFails(t)
      PROVE  doubled' \in BOOLEAN /\ (doubled => doubled') /\ (~doubled' => OneStart')
  <2>1. UNCHANGED doubled
    BY <1>2 DEF ModuleAdded, Resumed, StartFails, history
  <2>2. ASSUME ~doubled PROVE OneStart'
    <3>1. starting = {t}
      BY <2>2 DEF OneStart
    <3>2. starting' = {} \/ \E u : starting' = {u}
      <4>1. CASE ModuleAdded(t) /\ context = t.context
        <5>1. starting' = {[t EXCEPT !.phase = "resume"]}
          BY <3>1, <4>1 DEF ModuleAdded
        <5> QED BY <5>1
      <4>2. CASE ~(ModuleAdded(t) /\ context = t.context)
        <5>1. starting' = starting \ {t}
          BY <1>2, <4>2 DEF ModuleAdded, Resumed, StartFails
        <5> QED BY <3>1, <5>1
      <4> QED BY <4>1, <4>2
    <3> QED BY <3>2 DEF OneStart
  <2> QED BY <2>1, <2>2
<1>3. CASE UNCHANGED <<starting, doubled>>
  BY <1>3 DEF OneStart
<1>4. CASE Stop \/ Stopped \/ HandlerStep \/ Retry \/ UNCHANGED vars
             \/ \E s \in Sockets : Announce(s) \/ Record(s) \/ Waiting(s) \/ SocketCloses(s)
  <2>1. UNCHANGED <<starting, doubled>>
    BY <1>4 DEF Stop, Stopped, HandlerStep, Ignore, PlayFrame, ApplyWaiting, ApplyFormat, Rebuild,
                RebuildClosed, RebuildModule, RebuildDone, RebuildFails, Retry, Announce, Record,
                Waiting, Says, SocketCloses, vars, awaits, history
  <2> QED BY <1>3, <2>1
<1> QED BY <1>1, <1>2, <1>4 DEF Next, StartStep

\* The invariant of Player holds in every behavior.
LEMMA PlayerInvariant == Spec => []PlayerIInv
<1>1. Init => PlayerIInv
  <2> SUFFICES ASSUME Init PROVE PlayerIInv
    OBVIOUS
  <2>1. OneStart /\ doubled \in BOOLEAN
    BY DEF Init, OneStart
  <2> QED BY <2>1, InitEstablishesTypes, InitEstablishesGraph, InitEstablishesFrames
          DEF PlayerIInv
<1>2. ASSUME PlayerIInv, [Next]_vars PROVE PlayerIInv'
  <2>1. doubled' \in BOOLEAN /\ (doubled => doubled') /\ (~doubled' => OneStart')
    BY <1>2, StartsAreCounted DEF PlayerIInv
  <2>2. ASSUME ~doubled' PROVE PlayerTypeOK' /\ OneStart' /\ GraphIInv' /\ FramesIInv'
    <3>1. /\ PlayerTypeOK /\ OneStart /\ GraphIInv /\ FramesIInv
          /\ OneStart'
      BY <1>2, <2>1, <2>2 DEF PlayerIInv
    <3> QED BY <1>2, <3>1, NextPreservesTypes, NextPreservesGraph, NextPreservesFrames
  <2> QED BY <2>1, <2>2 DEF PlayerIInv
<1> QED BY <1>1, <1>2, PTL DEF Spec

\* Whatever the relay, the browser and the user do and in whichever order,
\* until start is called while an earlier start still awaits its graph: frames
\* only go to a graph of their rate, and no buffer mixes those of two sessions,
\* for any rates and any number of sessions and connections.
THEOREM PlayerFitsFrames == Spec => []FramesFitTheGraph
<1>1. PlayerIInv => FramesFitTheGraph
  BY DEF PlayerIInv, FramesIInv, WellPlayed, FramesFitTheGraph
<1> QED BY <1>1, PlayerInvariant, PTL

\* And when the player is stopped, no timer, connection or running graph is
\* left.
THEOREM PlayerStopsCleanly == Spec => []StopLeavesNothing
<1>1. PlayerIInv => StopLeavesNothing
  BY StoppedLeavesNothing DEF PlayerIInv, StopLeavesNothing
<1> QED BY <1>1, PlayerInvariant, PTL
=============================================================================
