----------------------------- MODULE WavProofs ------------------------------
(***************************************************************************)
(* What WAV listeners get out of the stream that StreamProofs is about,    *)
(* for any number of listeners and sources, any formats, any queue depth   *)
(* and any bounds.  That positions rise in every backlog and that only the *)
(* first packet of a session announces it is proved there; here it is      *)
(* followed into the file.                                                 *)
(***************************************************************************)
EXTENDS Wav, StreamProofs

-----------------------------------------------------------------------------
\* What is in the file is of earlier than packet p, or at the latest p itself.
Later(l, p) == file[l].audio = EmptyPacket \/ file[l].audio.position < p.position
Reached(l, p) == file[l].audio = EmptyPacket \/ file[l].audio.position <= p.position

\* A packet in hand that is of the file's session is later than what was
\* written, and is not the announcement, which waitForPacket passed over; a
\* packet that was dealt with decides whether the ticker runs.
FileOK(l) ==
    /\ stage[l] = "off" <=> l \notin listeners
    /\ stage[l] \in {"off", "waiting", "header"} => ~quiet[l] /\ file[l] = NoFile
    /\ stage[l] = "header" => StartsFile(held[l]) /\ held[l].state # ""
    /\ stage[l] = "handling" =>
          /\ held[l].state # ""
          /\ held[l].epoch = first[l].epoch /\ held[l].state # "waiting" =>
                ~Announcing(held[l]) /\ Later(l, held[l])
    /\ stage[l] = "select" =>
          /\ ~Over(l) /\ held[l].state # "" /\ ~Announcing(held[l])
          /\ quiet[l] = (held[l].state = "quiet")
          /\ Reached(l, held[l])

\* The inductive invariant of Wav.
WavIInv ==
    /\ IngestIInv
    /\ WavTypeOK
    /\ \A l \in Listener : FileOK(l)

-----------------------------------------------------------------------------
\* A file that a step does not touch.
LEMMA FileUntouched ==
  ASSUME NEW l \in Listener, FileOK(l),
         UNCHANGED <<stage[l], first[l], quiet[l], file[l], held[l]>>,
         l \in listeners' <=> l \in listeners
  PROVE  FileOK(l)'
  BY DEF FileOK, Later, Reached, Over

\* The variables of one listener, when nothing else changes.
LEMMA OthersFacts ==
  ASSUME WavTypeOK, NEW l \in Listener,
         NEW s \in Stage, stage' = [stage EXCEPT ![l] = s],
         first' = first \/ \E p \in Packet : first' = [first EXCEPT ![l] = p],
         quiet' = quiet \/ \E b \in BOOLEAN : quiet' = [quiet EXCEPT ![l] = b],
         file' = file \/ \E w \in [audio : Packet, zeros : BOOLEAN] : file' = [file EXCEPT ![l] = w]
  PROVE  /\ stage' \in [Listener -> Stage] /\ stage'[l] = s
         /\ first' \in [Listener -> Packet] /\ quiet' \in [Listener -> BOOLEAN]
         /\ file' \in [Listener -> [audio : Packet, zeros : BOOLEAN]]
         /\ \A k \in Listener : k # l =>
               UNCHANGED <<stage[k], first[k], quiet[k], file[k]>>
<1>1. /\ stage \in [Listener -> Stage] /\ first \in [Listener -> Packet]
      /\ quiet \in [Listener -> BOOLEAN]
      /\ file \in [Listener -> [audio : Packet, zeros : BOOLEAN]]
  BY DEF WavTypeOK
<1>2. /\ stage' \in [Listener -> Stage] /\ stage'[l] = s
      /\ \A k \in Listener : k # l => stage'[k] = stage[k]
  BY <1>1
<1>3. first' \in [Listener -> Packet] /\ \A k \in Listener : k # l => first'[k] = first[k]
  BY <1>1
<1>4. quiet' \in [Listener -> BOOLEAN] /\ \A k \in Listener : k # l => quiet'[k] = quiet[k]
  BY <1>1, Zenon
<1>5. /\ file' \in [Listener -> [audio : Packet, zeros : BOOLEAN]]
      /\ \A k \in Listener : k # l => file'[k] = file[k]
  BY <1>1
<1> QED BY <1>2, <1>3, <1>4, <1>5

\* What Ingest's variables are does not change when they do not.
LEMMA IngestTypesStay ==
  ASSUME WavTypeOK, UNCHANGED ingestVars
  PROVE  IngestTypeOK' /\ UNCHANGED <<listeners, held>>
<1>1. IngestTypeOK'
  BY DEF WavTypeOK, IngestTypeOK, TypeOK, ingestVars, vars, session, registry, channels,
         delivery, connection
<1>2. UNCHANGED <<listeners, held>>
  BY VarsFacts DEF ingestVars
<1> QED BY <1>1, <1>2

-----------------------------------------------------------------------------
\* A request attaches a listener that has no file yet.
LEMMA RequestKeeps ==
  ASSUME WavIInv, IngestIInv', NEW l \in Listener, Request(l)
  PROVE  WavTypeOK' /\ \A k \in Listener : FileOK(k)'
<1>0. IngestTypeOK'
  BY DEF IngestIInv, IInv, SourceOK, ConnectionTypes, IngestTypeOK
<1>1. WavTypeOK /\ TypeOK /\ (\A k \in Listener : FileOK(k)) /\ IngestTypeOK'
  BY <1>0 DEF WavIInv, IngestIInv, IInv
<1>2. /\ stage[l] = "off" /\ stage' = [stage EXCEPT ![l] = "waiting"]
      /\ UNCHANGED <<first, quiet, file>>
      /\ listeners' = listeners \cup {l} /\ held' = [held EXCEPT ![l] = EmptyPacket]
  BY DEF Request, Attach
<1>3. /\ stage' \in [Listener -> Stage] /\ stage'[l] = "waiting"
      /\ \A k \in Listener : k # l => UNCHANGED <<stage[k], first[k], quiet[k], file[k]>>
  BY <1>1, <1>2, OthersFacts DEF Stage
<1>4. WavTypeOK'
  BY <1>1, <1>2, <1>3 DEF WavTypeOK
<1>5. ASSUME NEW k \in Listener, k # l PROVE FileOK(k)'
  <2>1. held'[k] = held[k] /\ (k \in listeners' <=> k \in listeners)
    BY <1>1, <1>2, <1>5 DEF TypeOK
  <2> QED BY <1>1, <1>3, <1>5, <2>1, FileUntouched
<1>6. FileOK(l)'
  BY <1>1, <1>2, <1>3 DEF FileOK
<1> QED BY <1>4, <1>5, <1>6

\* The goroutine returns: the file is closed, and its listener detached.
LEMMA ReturnKeeps ==
  ASSUME WavIInv, IngestIInv', NEW l \in Listener, Return(l)
  PROVE  WavTypeOK' /\ \A k \in Listener : FileOK(k)'
<1>0. IngestTypeOK'
  BY DEF IngestIInv, IInv, SourceOK, ConnectionTypes, IngestTypeOK
<1>1. WavTypeOK /\ TypeOK /\ (\A k \in Listener : FileOK(k)) /\ IngestTypeOK'
  BY <1>0 DEF WavIInv, IngestIInv, IInv
<1>2. /\ stage' = [stage EXCEPT ![l] = "off"]
      /\ first' = [first EXCEPT ![l] = EmptyPacket]
      /\ quiet' = [quiet EXCEPT ![l] = FALSE]
      /\ file' = [file EXCEPT ![l] = NoFile]
      /\ listeners' = listeners \ {l} /\ held' = [held EXCEPT ![l] = EmptyPacket]
  BY DEF Return, Detach
<1>3. NoFile \in [audio : Packet, zeros : BOOLEAN] /\ EmptyPacket \in Packet
  BY EmptyFacts DEF NoFile
<1>4. /\ stage' \in [Listener -> Stage] /\ stage'[l] = "off"
      /\ first' \in [Listener -> Packet] /\ quiet' \in [Listener -> BOOLEAN]
      /\ file' \in [Listener -> [audio : Packet, zeros : BOOLEAN]]
      /\ \A k \in Listener : k # l => UNCHANGED <<stage[k], first[k], quiet[k], file[k]>>
  BY <1>1, <1>2, <1>3, OthersFacts DEF Stage
<1>5. WavTypeOK'
  BY <1>1, <1>4 DEF WavTypeOK
<1>6. ASSUME NEW k \in Listener, k # l PROVE FileOK(k)'
  <2>1. held'[k] = held[k] /\ (k \in listeners' <=> k \in listeners)
    BY <1>1, <1>2, <1>6 DEF TypeOK
  <2> QED BY <1>1, <1>4, <1>6, <2>1, FileUntouched
<1>7. quiet'[l] = FALSE /\ file'[l] = NoFile
  BY <1>1, <1>2 DEF WavTypeOK
<1>8. FileOK(l)'
  BY <1>2, <1>4, <1>7 DEF FileOK
<1> QED BY <1>5, <1>6, <1>8

-----------------------------------------------------------------------------
\* A packet taken from the queue, and how it follows the one in hand.
LEMMA ReceivedFacts ==
  ASSUME WavIInv, NEW l \in Listener, Receive(l)
  PROVE  /\ held'[l] \in Packet /\ held'[l].state # "" /\ Steps(held[l], held'[l])
         /\ held[l] \in Packet
         /\ listeners' = listeners
         /\ \A k \in Listener : k # l => held'[k] = held[k]
<1>1. /\ IngestIInv /\ TypeOK /\ l \in listeners /\ packets[l] # <<>>
      /\ held' = [held EXCEPT ![l] = Head(packets[l])] /\ listeners' = listeners
  BY DEF WavIInv, IngestIInv, IInv, Receive, registry
<1>2. BacklogOK(l) /\ WayOK(l) /\ packets[l] \in Seq(Packet) /\ held[l] \in Packet
  BY <1>1, BacklogFacts
<1>3. Head(packets[l]) \in Members(packets[l]) /\ Members(packets[l]) \subseteq Packet
  BY <1>1, <1>2, MembersFacts, EmptyFacts
<1>4. held'[l] = Head(packets[l]) /\ \A k \in Listener : k # l => held'[k] = held[k]
  BY <1>1 DEF TypeOK
<1>5. \A q \in Members(packets[l]) : q.state # "" /\ Steps(held[l], q)
  BY <1>2 DEF BacklogOK, Stated, WayOK, Rising, Members
<1> QED BY <1>1, <1>2, <1>3, <1>4, <1>5

\* waitForPacket takes a packet: it starts the file, or it is passed over.
LEMMA WaitKeeps ==
  ASSUME WavIInv, IngestIInv', NEW l \in Listener, WaitForPacket(l)
  PROVE  WavTypeOK' /\ \A k \in Listener : FileOK(k)'
<1>0. IngestTypeOK'
  BY DEF IngestIInv, IInv, SourceOK, ConnectionTypes, IngestTypeOK
<1>1. /\ WavTypeOK /\ FileOK(l) /\ (\A k \in Listener : FileOK(k)) /\ IngestTypeOK'
      /\ stage[l] = "waiting" /\ Receive(l) /\ UNCHANGED <<quiet, file>>
  BY <1>0 DEF WavIInv, WaitForPacket
<1>2. /\ held'[l] \in Packet /\ held'[l].state # "" /\ listeners' = listeners
      /\ \A k \in Listener : k # l => held'[k] = held[k]
  BY <1>1, ReceivedFacts
<1>3. CASE StartsFile(held'[l])
  <2>1. stage' = [stage EXCEPT ![l] = "header"]
        /\ first' = [first EXCEPT ![l] = WithoutFrame(held'[l])]
    BY <1>3 DEF WaitForPacket
  <2>2. WithoutFrame(held'[l]) \in Packet
    BY <1>2, WithoutFrameFacts
  <2>3. /\ stage' \in [Listener -> Stage] /\ stage'[l] = "header"
        /\ first' \in [Listener -> Packet]
        /\ \A k \in Listener : k # l => UNCHANGED <<stage[k], first[k], quiet[k], file[k]>>
    BY <1>1, <2>1, <2>2, OthersFacts DEF Stage
  <2>4. WavTypeOK'
    BY <1>1, <2>3 DEF WavTypeOK
  <2>5. ASSUME NEW k \in Listener, k # l PROVE FileOK(k)'
    BY <1>1, <1>2, <2>3, <2>5, FileUntouched
  <2>6. FileOK(l)'
    BY <1>1, <1>2, <1>3, <2>3 DEF FileOK, StartsFile
  <2> QED BY <2>4, <2>5, <2>6
<1>4. CASE ~StartsFile(held'[l])
  <2>1. UNCHANGED <<stage, first>>
    BY <1>4 DEF WaitForPacket
  <2>2. WavTypeOK'
    BY <1>1, <2>1 DEF WavTypeOK
  <2>3. ASSUME NEW k \in Listener, k # l PROVE FileOK(k)'
    BY <1>1, <1>2, <2>1, <2>3, FileUntouched
  <2>4. FileOK(l)'
    BY <1>1, <1>2, <2>1 DEF FileOK
  <2> QED BY <2>2, <2>3, <2>4
<1> QED BY <1>3, <1>4

\* pumpWav takes a packet: if it is of the file's session it is later than the
\* last one, and does not announce the session again.
LEMMA TakeKeeps ==
  ASSUME WavIInv, IngestIInv', NEW l \in Listener, TakePacket(l)
  PROVE  WavTypeOK' /\ \A k \in Listener : FileOK(k)'
<1>0. IngestTypeOK'
  BY DEF IngestIInv, IInv, SourceOK, ConnectionTypes, IngestTypeOK
<1>1. /\ WavTypeOK /\ FileOK(l) /\ (\A k \in Listener : FileOK(k)) /\ IngestTypeOK'
      /\ stage[l] = "select" /\ Receive(l) /\ UNCHANGED <<first, quiet, file>>
      /\ stage' = [stage EXCEPT ![l] = "handling"]
  BY <1>0 DEF WavIInv, TakePacket
<1>2. /\ held'[l] \in Packet /\ held'[l].state # "" /\ listeners' = listeners
      /\ \A k \in Listener : k # l => held'[k] = held[k]
      /\ Steps(held[l], held'[l]) /\ held[l] \in Packet
  BY <1>1, ReceivedFacts
<1>3. /\ stage' \in [Listener -> Stage] /\ stage'[l] = "handling"
      /\ \A k \in Listener : k # l => UNCHANGED <<stage[k], first[k], quiet[k], file[k]>>
  BY <1>1, OthersFacts DEF Stage
<1>4. WavTypeOK'
  BY <1>1, <1>3 DEF WavTypeOK
<1>5. ASSUME NEW k \in Listener, k # l PROVE FileOK(k)'
  BY <1>1, <1>2, <1>3, <1>5, FileUntouched
<1>6. ASSUME held'[l].epoch = first[l].epoch, held'[l].state # "waiting"
      PROVE  ~Announcing(held'[l]) /\ Later(l, held'[l])
  <2>1. /\ held[l].epoch = first[l].epoch /\ held[l].state # "" /\ ~Announcing(held[l])
        /\ Reached(l, held[l])
    BY <1>1 DEF FileOK, Over
  <2>2. ~Announcing(held'[l]) /\ held[l].position < held'[l].position
    BY <1>2, <1>6, <2>1 DEF Steps, Advances
  <2>3. held[l].position \in Nat /\ held'[l].position \in Nat /\ file[l].audio.position \in Nat
    BY <1>1, <1>2 DEF WavTypeOK, Packet
  <2>4. ASSUME file[l].audio.position <= held[l].position
        PROVE  file[l].audio.position < held'[l].position
    BY <2>2, <2>3, <2>4
  <2>5. Later(l, held'[l])
    BY <2>1, <2>4 DEF Reached, Later
  <2> QED BY <2>2, <2>5
<1>7. FileOK(l)'
  BY <1>1, <1>2, <1>3, <1>6 DEF FileOK, Later
<1> QED BY <1>4, <1>5, <1>7

-----------------------------------------------------------------------------
\* The goroutine gives up on the file: nothing more is written.
LEMMA EndsKeeps ==
  ASSUME WavIInv, NEW l \in Listener, GiveUp(l) \/ EndFile(l) \/ Interrupted(l)
  PROVE  WavTypeOK' /\ \A k \in Listener : FileOK(k)'
<1>1. /\ WavTypeOK /\ FileOK(l) /\ (\A k \in Listener : FileOK(k))
      /\ stage[l] \notin {"off", "returning"}
      /\ stage' = [stage EXCEPT ![l] = "returning"]
      /\ UNCHANGED <<ingestVars, first, quiet, file>>
  BY DEF WavIInv, GiveUp, EndFile, Interrupted
<1>2. /\ stage' \in [Listener -> Stage] /\ stage'[l] = "returning"
      /\ \A k \in Listener : k # l => UNCHANGED <<stage[k], first[k], quiet[k], file[k]>>
  BY <1>1, OthersFacts DEF Stage
<1>3. IngestTypeOK' /\ UNCHANGED <<listeners, held>>
  BY <1>1, IngestTypesStay
<1>4. WavTypeOK'
  BY <1>1, <1>2, <1>3 DEF WavTypeOK
<1>5. ASSUME NEW k \in Listener, k # l PROVE FileOK(k)'
  BY <1>1, <1>2, <1>3, <1>5, FileUntouched
<1>6. FileOK(l)'
  BY <1>1, <1>2, <1>3 DEF FileOK
<1> QED BY <1>4, <1>5, <1>6

\* The header is written, and the packet that starts the file is next.
LEMMA HeaderKeeps ==
  ASSUME WavIInv, NEW l \in Listener, WriteHeader(l)
  PROVE  WavTypeOK' /\ \A k \in Listener : FileOK(k)'
<1>1. /\ WavTypeOK /\ FileOK(l) /\ (\A k \in Listener : FileOK(k))
      /\ stage[l] = "header"
      /\ stage' = [stage EXCEPT ![l] = "handling"]
      /\ UNCHANGED <<ingestVars, first, quiet, file>>
  BY DEF WavIInv, WriteHeader
<1>2. /\ stage' \in [Listener -> Stage] /\ stage'[l] = "handling"
      /\ \A k \in Listener : k # l => UNCHANGED <<stage[k], first[k], quiet[k], file[k]>>
  BY <1>1, OthersFacts DEF Stage
<1>3. IngestTypeOK' /\ UNCHANGED <<listeners, held>>
  BY <1>1, IngestTypesStay
<1>4. WavTypeOK'
  BY <1>1, <1>2, <1>3 DEF WavTypeOK
<1>5. ASSUME NEW k \in Listener, k # l PROVE FileOK(k)'
  BY <1>1, <1>2, <1>3, <1>5, FileUntouched
<1>6. held[l].state # "" /\ ~Announcing(held[l]) /\ file[l].audio = EmptyPacket
  <2>1. held[l].state # "" /\ StartsFile(held[l]) /\ file[l] = NoFile
    BY <1>1 DEF FileOK
  <2>2. NoFile.audio = EmptyPacket
    BY DEF NoFile
  <2> QED BY <2>1, <2>2 DEF StartsFile, Announcing
<1>7. FileOK(l)'
  BY <1>1, <1>2, <1>3, <1>6 DEF FileOK, Later
<1> QED BY <1>4, <1>5, <1>7

\* A quiet record starts the ticker.
LEMMA StartKeeps ==
  ASSUME WavIInv, NEW l \in Listener, StartSilence(l)
  PROVE  /\ WavTypeOK' /\ (\A k \in Listener : FileOK(k)')
         /\ file' = file /\ file[l].audio # held[l]
<1>1. /\ WavTypeOK /\ FileOK(l) /\ (\A k \in Listener : FileOK(k))
      /\ stage[l] = "handling" /\ ~Over(l) /\ held[l].state = "quiet"
      /\ stage' = [stage EXCEPT ![l] = "select"]
      /\ quiet' = [quiet EXCEPT ![l] = TRUE]
      /\ UNCHANGED <<ingestVars, first, file>>
  BY DEF WavIInv, StartSilence
<1>2. /\ stage' \in [Listener -> Stage] /\ stage'[l] = "select"
      /\ quiet' \in [Listener -> BOOLEAN]
      /\ \A k \in Listener : k # l => UNCHANGED <<stage[k], first[k], quiet[k], file[k]>>
  BY <1>1, OthersFacts DEF Stage
<1>3. IngestTypeOK' /\ UNCHANGED <<listeners, held>>
  BY <1>1, IngestTypesStay
<1>4. WavTypeOK'
  BY <1>1, <1>2, <1>3 DEF WavTypeOK
<1>5. ASSUME NEW k \in Listener, k # l PROVE FileOK(k)'
  BY <1>1, <1>2, <1>3, <1>5, FileUntouched
<1>6. quiet'[l] = TRUE
  BY <1>1 DEF WavTypeOK
<1>7. ~Announcing(held[l]) /\ Later(l, held[l])
  BY <1>1 DEF FileOK, Over
<1>8. held[l].position \in Nat /\ file[l].audio.position \in Nat
  BY <1>1 DEF WavTypeOK, IngestTypeOK, TypeOK, Packet
<1>9. Reached(l, held[l]) /\ file[l].audio # held[l]
  <2>1. CASE file[l].audio = EmptyPacket
    BY <1>1, <2>1, EmptyFacts DEF Reached
  <2>2. CASE file[l].audio.position < held[l].position
    BY <1>8, <2>2 DEF Reached
  <2> QED BY <1>7, <2>1, <2>2 DEF Later
<1>10. FileOK(l)'
  BY <1>1, <1>2, <1>3, <1>6, <1>7, <1>9 DEF FileOK, Reached, Over
<1> QED BY <1>1, <1>4, <1>5, <1>9, <1>10

\* A frame stops the ticker and is written.
LEMMA WriteKeeps ==
  ASSUME WavIInv, NEW l \in Listener, WriteAudio(l)
  PROVE  /\ WavTypeOK' /\ (\A k \in Listener : FileOK(k)')
         /\ held' = held /\ first' = first
         /\ file'[l] = [audio |-> held[l], zeros |-> FALSE]
         /\ ~Over(l) /\ Later(l, held[l])
         /\ \A k \in Listener : k # l => file'[k] = file[k]
<1>1. /\ WavTypeOK /\ FileOK(l) /\ (\A k \in Listener : FileOK(k))
      /\ stage[l] = "handling" /\ ~Over(l) /\ held[l].state # "quiet"
      /\ stage' = [stage EXCEPT ![l] = "select"]
      /\ UNCHANGED <<ingestVars, first>>
  BY DEF WavIInv, WriteAudio
<1>2. /\ ~Announcing(held[l]) /\ Later(l, held[l]) /\ held[l].state # ""
      /\ held[l] \in Packet
  BY <1>1 DEF FileOK, Over, WavTypeOK, IngestTypeOK, TypeOK
<1>3. held[l].state = "live" /\ held[l].frame # NoFormat
  BY <1>1, <1>2 DEF Over, Announcing, Packet
<1>4. /\ quiet' = [quiet EXCEPT ![l] = FALSE]
      /\ file' = [file EXCEPT ![l] = [audio |-> held[l], zeros |-> FALSE]]
  BY <1>3 DEF WriteAudio
<1>5. [audio |-> held[l], zeros |-> FALSE] \in [audio : Packet, zeros : BOOLEAN]
  BY <1>2
<1>6. /\ stage' \in [Listener -> Stage] /\ stage'[l] = "select"
      /\ quiet' \in [Listener -> BOOLEAN]
      /\ file' \in [Listener -> [audio : Packet, zeros : BOOLEAN]]
      /\ \A k \in Listener : k # l => UNCHANGED <<stage[k], first[k], quiet[k], file[k]>>
  BY <1>1, <1>4, <1>5, OthersFacts DEF Stage
<1>7. IngestTypeOK' /\ UNCHANGED <<listeners, held>>
  BY <1>1, IngestTypesStay
<1>8. WavTypeOK'
  BY <1>1, <1>6, <1>7 DEF WavTypeOK
<1>9. ASSUME NEW k \in Listener, k # l PROVE FileOK(k)'
  BY <1>1, <1>6, <1>7, <1>9, FileUntouched
<1>10. quiet'[l] = FALSE /\ file'[l] = [audio |-> held[l], zeros |-> FALSE]
  BY <1>1, <1>4 DEF WavTypeOK
<1>11. held[l].position \in Nat
  BY <1>2 DEF Packet
<1>12. (Reached(l, held[l]))' /\ ~Over(l)'
  <2>1. file'[l].audio = held[l] /\ held[l].position <= held[l].position
    BY <1>10, <1>11
  <2> QED BY <1>1, <1>7, <2>1 DEF Reached, Over
<1>13. FileOK(l)'
  <2>1. /\ stage'[l] = "select" /\ held'[l].state = "live" /\ ~Announcing(held'[l])
        /\ l \in listeners' /\ (Reached(l, held[l]))' /\ ~Over(l)'
    BY <1>1, <1>2, <1>3, <1>6, <1>7, <1>12 DEF FileOK
  <2>2. quiet'[l] = (held'[l].state = "quiet")
    BY <1>10, <2>1
  <2> QED BY <2>1, <2>2 DEF FileOK
<1> QED BY <1>1, <1>2, <1>6, <1>7, <1>8, <1>9, <1>10, <1>13

\* A tick writes zeros: the packet in hand is quiet.
LEMMA SilenceKeeps ==
  ASSUME WavIInv, NEW l \in Listener, WriteSilence(l)
  PROVE  /\ WavTypeOK' /\ (\A k \in Listener : FileOK(k)')
         /\ UNCHANGED <<stage, held>> /\ held[l].state = "quiet"
         /\ \A k \in Listener : k # l => file'[k] = file[k]
<1>1. /\ WavTypeOK /\ FileOK(l) /\ (\A k \in Listener : FileOK(k))
      /\ stage[l] = "select" /\ quiet[l]
      /\ file' = [file EXCEPT ![l].zeros = TRUE]
      /\ UNCHANGED <<ingestVars, stage, first, quiet>>
  BY DEF WavIInv, WriteSilence
<1>2. IngestTypeOK' /\ UNCHANGED <<listeners, held>>
  BY <1>1, IngestTypesStay
<1>3. /\ file[l] \in [audio : Packet, zeros : BOOLEAN]
      /\ file'[l] = [file[l] EXCEPT !.zeros = TRUE]
      /\ \A k \in Listener : k # l => file'[k] = file[k]
  BY <1>1 DEF WavTypeOK
<1>4. [file[l] EXCEPT !.zeros = TRUE] \in [audio : Packet, zeros : BOOLEAN]
      /\ file'[l].audio = file[l].audio
  BY <1>3
<1>5. file' \in [Listener -> [audio : Packet, zeros : BOOLEAN]]
  BY <1>1, <1>4 DEF WavTypeOK
<1>6. WavTypeOK'
  BY <1>1, <1>2, <1>5 DEF WavTypeOK
<1>7. ASSUME NEW k \in Listener, k # l PROVE FileOK(k)'
  BY <1>1, <1>2, <1>3, <1>7, FileUntouched
<1>8. FileOK(l)'
  BY <1>1, <1>2, <1>4 DEF FileOK, Reached, Over
<1>9. held[l].state = "quiet"
  BY <1>1 DEF FileOK
<1> QED BY <1>1, <1>2, <1>3, <1>6, <1>7, <1>8, <1>9

-----------------------------------------------------------------------------
\* To the relay's other side, a step of Wav is one of Ingest.
LEMMA WavStepIsIngestStep == WavNext => [IngestNext]_ingestVars
<1> SUFFICES ASSUME WavNext PROVE [IngestNext]_ingestVars
  OBVIOUS
<1>1. ASSUME NEW c \in Conn, SourceStep(c) PROVE IngestNext
  BY <1>1 DEF IngestNext
<1>2. CASE DeliverStep
  BY <1>2 DEF IngestNext
<1>3. ASSUME NEW l \in Listener, RequestStep(l) PROVE [IngestNext]_ingestVars
  <2>1. CASE Request(l)
    BY <2>1 DEF Request, IngestNext, ListenerStep, SourceSide
  <2>2. CASE WaitForPacket(l) \/ TakePacket(l)
    BY <2>2 DEF WaitForPacket, TakePacket, IngestNext, ListenerStep, SourceSide
  <2>3. CASE Return(l)
    BY <2>3 DEF Return, IngestNext, ListenerStep, SourceSide
  <2>4. CASE GiveUp(l) \/ HandleStep(l) \/ WriteSilence(l) \/ Interrupted(l)
    BY <2>4 DEF GiveUp, HandleStep, WriteHeader, EndFile, StartSilence, WriteAudio,
                WriteSilence, Interrupted
  <2> QED BY <1>3, <2>1, <2>2, <2>3, <2>4 DEF RequestStep
<1> QED BY <1>1, <1>2, <1>3 DEF WavNext

\* Initially there is no file.
LEMMA InitEstablishesWavIInv == WavInit => WavIInv
<1> SUFFICES ASSUME WavInit PROVE WavIInv
  OBVIOUS
<1>1. IngestIInv
  BY InitEstablishesIngestIInv DEF WavInit
<1>0. IngestTypeOK
  BY <1>1 DEF IngestIInv, IInv, SourceOK, ConnectionTypes, IngestTypeOK
<1>2. /\ listeners = {}
      /\ stage = [l \in Listener |-> "off"] /\ first = [l \in Listener |-> EmptyPacket]
      /\ quiet = [l \in Listener |-> FALSE] /\ file = [l \in Listener |-> NoFile]
  BY DEF WavInit, IngestInit, Init
<1>3. NoFile \in [audio : Packet, zeros : BOOLEAN] /\ EmptyPacket \in Packet
  BY EmptyFacts DEF NoFile
<1>4. WavTypeOK
  BY <1>0, <1>2, <1>3 DEF WavTypeOK, Stage
<1>5. ASSUME NEW l \in Listener PROVE FileOK(l)
  BY <1>2 DEF FileOK
<1> QED BY <1>1, <1>4, <1>5 DEF WavIInv

\* A step of the sources, or of the loop over the listeners, writes no file.
LEMMA OtherSideKeeps ==
  ASSUME WavIInv, IngestIInv', UNCHANGED <<wav, listeners, held>>
  PROVE  WavTypeOK' /\ \A l \in Listener : FileOK(l)'
<1>0. IngestTypeOK'
  BY DEF IngestIInv, IInv, SourceOK, ConnectionTypes, IngestTypeOK
<1>1. WavTypeOK /\ (\A l \in Listener : FileOK(l)) /\ IngestTypeOK'
      /\ UNCHANGED <<stage, first, quiet, file>>
  BY <1>0 DEF WavIInv, wav
<1>2. WavTypeOK'
  BY <1>1 DEF WavTypeOK
<1> QED BY <1>1, <1>2, FileUntouched

\* The invariant of Wav is inductive.
LEMMA WavNextKeeps == ASSUME WavIInv, WavNext PROVE WavIInv'
<1>1. IngestIInv
  BY DEF WavIInv
<1>2. IngestIInv'
  <2>1. [IngestNext]_ingestVars
    BY WavStepIsIngestStep
  <2> QED BY <1>1, <2>1, IngestNextKeeps, IngestStutterKeeps DEF ingestVars
<1>3. ASSUME NEW c \in Conn, SourceStep(c), UNCHANGED wav
      PROVE  WavTypeOK' /\ \A l \in Listener : FileOK(l)'
  BY <1>1, <1>2, <1>3, SourceKeeps, OtherSideKeeps DEF SourceMoves
<1>4. ASSUME DeliverStep, UNCHANGED wav
      PROVE  WavTypeOK' /\ \A l \in Listener : FileOK(l)'
  BY <1>1, <1>2, <1>4, DeliverKeeps, OtherSideKeeps DEF DeliverStep, DeliverMoves
<1>5. ASSUME NEW l \in Listener, RequestStep(l)
      PROVE  WavTypeOK' /\ \A k \in Listener : FileOK(k)'
  BY <1>2, <1>5, RequestKeeps, WaitKeeps, EndsKeeps, HeaderKeeps, StartKeeps, WriteKeeps,
     SilenceKeeps, TakeKeeps, ReturnKeeps DEF RequestStep, HandleStep
<1>6. WavTypeOK' /\ \A l \in Listener : FileOK(l)'
  BY <1>3, <1>4, <1>5 DEF WavNext
<1> QED BY <1>2, <1>6 DEF WavIInv

\* A step that changes nothing keeps it.
LEMMA WavStutterKeeps == ASSUME WavIInv, UNCHANGED wavVars PROVE WavIInv'
<1>1. IngestIInv'
  BY IngestStutterKeeps DEF WavIInv, wavVars, ingestVars
<1>2. UNCHANGED <<wav, listeners, held>>
  BY VarsFacts DEF wavVars, ingestVars
<1> QED BY <1>1, <1>2, OtherSideKeeps DEF WavIInv

\* The invariant of Wav holds in every behavior.
LEMMA WavIInvHolds == WavSpec => []WavIInv
<1>1. WavIInv /\ [WavNext]_wavVars => WavIInv'
  BY WavNextKeeps, WavStutterKeeps
<1> QED BY <1>1, InitEstablishesWavIInv, PTL DEF WavSpec

-----------------------------------------------------------------------------
\* The state of the files, and of the relay behind them, keeps its types.
THEOREM WavTypeCorrect == WavSpec => []WavTypeOK
<1>1. WavIInv => WavTypeOK
  BY DEF WavIInv
<1> QED BY <1>1, WavIInvHolds, PTL

\* A file that wrote everything in its queue is of the session that is on, in
\* its format, and is being filled with zeros just while it is quiet, however
\* many packets its queue dropped.
THEOREM DrainedFilesFollow == WavSpec => []DrainedFileFollowsSource
<1>1. WavIInv => DrainedFileFollowsSource
  <2> SUFFICES ASSUME WavIInv, NEW l \in listeners \ todo,
                      stage[l] = "select", packets[l] = <<>>
               PROVE  /\ source # NoFormat
                      /\ current.epoch = first[l].epoch /\ current.format = first[l].format
                      /\ quiet[l] = (current.state = "quiet")
    BY DEF DrainedFileFollowsSource
  <2>1. /\ l \in Listener /\ BacklogOK(l) /\ held[l] \in Packet /\ FileOK(l)
        /\ SourceState
    BY BacklogFacts DEF WavIInv, IngestIInv, IInv
  <2>2. Informed(held[l], current)
    BY <2>1 DEF BacklogOK, Last
  <2>3. /\ held[l].epoch = first[l].epoch /\ held[l].format = first[l].format
        /\ held[l].state # "waiting" /\ held[l].state # ""
        /\ quiet[l] = (held[l].state = "quiet")
    BY <2>1 DEF FileOK, Over
  <2>4. WithoutFrame(held[l]) = current
    BY <2>2, <2>3, EmptyFacts DEF Informed
  <2>5. /\ held[l].epoch = current.epoch /\ held[l].state = current.state
        /\ held[l].format = current.format
    BY <2>1, <2>4, WithoutFrameFacts DEF SameSession
  <2>6. source # NoFormat
    BY <2>1, <2>3, <2>5 DEF SourceState
  <2> QED BY <2>3, <2>5, <2>6
<1> QED BY <1>1, WavIInvHolds, PTL

\* A file takes frames of the session its header describes only, each later
\* than the last, whatever its queue dropped and whoever replaced the source.
THEOREM FilesAreOneSession == WavSpec => FileIsOneSession
<1> DEFINE Fair(l) ==
             stage[l] = "handling" /\ stage'[l] = "select" /\ file'[l].audio = held[l] =>
                 /\ file'[l].audio.format = first[l].format
                 /\ file'[l].audio.epoch = first[l].epoch
                 /\ file[l].audio = EmptyPacket \/ file[l].audio.position < file'[l].audio.position
<1>1. ASSUME WavIInv, [WavNext]_wavVars, NEW l \in Listener PROVE Fair(l)
  <2> SUFFICES ASSUME stage[l] = "handling", stage'[l] = "select", file'[l].audio = held[l]
               PROVE  /\ file'[l].audio.format = first[l].format
                      /\ file'[l].audio.epoch = first[l].epoch
                      /\ \/ file[l].audio = EmptyPacket
                         \/ file[l].audio.position < file'[l].audio.position
    OBVIOUS
  <2>1. WavTypeOK
    BY <1>1 DEF WavIInv
  <2>2. PICK k \in Listener : RequestStep(k)
    BY <1>1 DEF WavNext, wavVars, wav
  <2>3. k = l /\ (StartSilence(l) \/ WriteAudio(l))
    <3>1. CASE StartSilence(k) \/ WriteAudio(k)
      <4>1. stage' = [stage EXCEPT ![k] = "select"]
        BY <3>1 DEF StartSilence, WriteAudio
      <4>2. k = l
        BY <2>1, <4>1 DEF WavTypeOK
      <4> QED BY <3>1, <4>2
    <3>2. CASE ~(StartSilence(k) \/ WriteAudio(k))
      <4>1. \/ stage' = stage
            \/ \E s \in {"waiting", "header", "handling", "returning", "off"} :
                  stage' = [stage EXCEPT ![k] = s]
        BY <2>2, <3>2 DEF RequestStep, HandleStep, Request, WaitForPacket, GiveUp, WriteHeader,
           EndFile, WriteSilence, TakePacket, Interrupted, Return
      <4> QED BY <2>1, <4>1 DEF WavTypeOK
    <3> QED BY <3>1, <3>2
  <2>4. CASE StartSilence(l)
    BY <1>1, <2>4, StartKeeps
  <2>5. CASE WriteAudio(l)
    BY <1>1, <2>5, WriteKeeps DEF Over, Later
  <2> QED BY <2>3, <2>4, <2>5
<1>2. WavIInv /\ [WavNext]_wavVars => [\A l \in Listener : Fair(l)]_wavVars
  BY <1>1
<1> QED BY <1>2, WavIInvHolds, PTL DEF WavSpec, FileIsOneSession

\* Zeros are written while the packet that was last dealt with declares quiet,
\* and never to make up for frames that are late or were dropped.
THEOREM ZerosAreOnlyDeclared == WavSpec => ZerosAreDeclared
<1> DEFINE Said(l) == file'[l].zeros /\ ~file[l].zeros => held[l].state = "quiet"
<1>1. ASSUME WavIInv, [WavNext]_wavVars, NEW l \in Listener PROVE Said(l)
  <2> SUFFICES ASSUME file'[l].zeros, ~file[l].zeros PROVE held[l].state = "quiet"
    OBVIOUS
  <2>1. WavTypeOK
    BY <1>1 DEF WavIInv
  <2>2. PICK k \in Listener : RequestStep(k)
    BY <1>1 DEF WavNext, wavVars, wav
  <2>3. CASE WriteSilence(k)
    BY <1>1, <2>3, SilenceKeeps
  <2>4. CASE WriteAudio(k)
    <3>1. /\ file'[k] = [audio |-> held[k], zeros |-> FALSE]
          /\ \A j \in Listener : j # k => file'[j] = file[j]
      BY <1>1, <2>4, WriteKeeps
    <3>2. ~file'[k].zeros
      BY <3>1
    <3> QED BY <3>1, <3>2
  <2>5. CASE Return(k)
    BY <2>1, <2>5 DEF Return, WavTypeOK, NoFile
  <2>6. CASE file' = file
    BY <2>6
  <2> QED BY <2>2, <2>3, <2>4, <2>5, <2>6 DEF RequestStep, HandleStep, Request, WaitForPacket,
             GiveUp, WriteHeader, EndFile, StartSilence, TakePacket, Interrupted
<1>2. WavIInv /\ [WavNext]_wavVars => [\A l \in Listener : Said(l)]_wavVars
  BY <1>1
<1> QED BY <1>2, WavIInvHolds, PTL DEF WavSpec, ZerosAreDeclared
=============================================================================
