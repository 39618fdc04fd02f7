---------------------------- MODULE EncodeProofs ----------------------------
(***************************************************************************)
(* The invariants of the two packages between a microphone and the network: *)
(* first internal/activity's gate (module Gate), for every size of frame,  *)
(* line and period; then internal/queue (module Queue), for every capacity, *)
(* every number of items and every interleaving of Offer's three selects   *)
(* with the reader.                                                        *)
(***************************************************************************)
EXTENDS Gate, Queue, Integers, TLAPS

Pushed == Len(changes)

\* Sound is active at frame f: a change at most a settling period back.
Recent(f) == \E j \in 1 .. f : changes[j] /\ (f - j) * FrameSamples < Settle

\* The frame that a filled slot holds: the last one pushed is at index - 1.
Held(s) == IF s < index THEN Pushed - index + 1 + s ELSE Pushed - index + 1 + s - Depth

\* The line fills from the front before anything leaves it, and after that
\* stays full.
LineFills ==
    /\ Pushed = Len(records) + filled
    /\ position = Len(records) * FrameSamples
    /\ ~enabled => filled = 0
    /\ enabled /\ filled < Depth => index = filled /\ records = <<>>

LineHolds ==
    \A s \in Slot : s < filled =>
        line[s].frame = Held(s) /\ (line[s].active <=> Recent(Held(s)))

\* The last change was frame l, and stable the time since, up to the period.
Measures(l) ==
    /\ changes[l]
    /\ \A j \in l + 1 .. Pushed : ~changes[j]
    /\ IF stable < Settle
       THEN stable = (Pushed - l) * FrameSamples
       ELSE (Pushed - l) * FrameSamples >= Settle

StableMeasures ==
    enabled =>
        /\ initialized <=> Pushed > 0
        /\ Pushed > 0 => \E l \in 1 .. Pushed : Measures(l)

IInv ==
    /\ TypeOK
    /\ LineFills
    /\ LineHolds
    /\ StableMeasures
    /\ RecordsAreTheFrames
    /\ SoundIsSentAroundChanges

-----------------------------------------------------------------------------
\* Products keep the order of their first factors.
LEMMA Monotone ==
  ASSUME NEW a \in Nat, NEW b \in Nat, a <= b, NEW c \in Nat
  PROVE  a * c \in Nat /\ b * c \in Nat /\ a * c <= b * c
<1>1. PICK d \in Nat : b = a + d
  <2>1. b - a \in Nat /\ b = a + (b - a)
    OBVIOUS
  <2> QED BY <2>1
<1>2. a * c \in Nat /\ d * c \in Nat
  OBVIOUS
<1>3. b * c = a * c + d * c
  BY <1>1
<1> QED BY <1>2, <1>3

\* Appending to a sequence keeps what it has.
LEMMA AppendKeeps ==
  ASSUME NEW S, NEW q \in Seq(S), NEW e \in S
  PROVE  /\ Append(q, e) \in Seq(S)
         /\ Len(q) \in Nat
         /\ Len(Append(q, e)) = Len(q) + 1
         /\ \A k \in 1 .. Len(q) : Append(q, e)[k] = q[k]
         /\ Append(q, e)[Len(q) + 1] = e
  OBVIOUS

\* An empty line and no frame satisfy the inductive invariant.
LEMMA InitEstablishesIInv == Init => IInv
<1> SUFFICES ASSUME Init PROVE IInv
  OBVIOUS
<1> USE GateAssumption DEF Init
<1>1. TypeOK
  <2>1. line \in [Slot -> Entry] /\ 0 \in Slot
    BY DEF Slot, Entry
  <2>2. changes \in Seq(BOOLEAN) /\ records \in Seq(Record)
    BY DEF Record
  <2>3. 0 \in 0 .. Depth
    OBVIOUS
  <2> QED BY <2>1, <2>2, <2>3 DEF TypeOK
<1>2. LineFills
  BY DEF LineFills, Pushed
<1>3. LineHolds
  BY DEF LineHolds, Slot
<1>4. StableMeasures
  BY DEF StableMeasures, Pushed
<1>5. RecordsAreTheFrames /\ SoundIsSentAroundChanges
  BY DEF RecordsAreTheFrames, SoundIsSentAroundChanges
<1> QED BY <1>1, <1>2, <1>3, <1>4, <1>5 DEF IInv

-----------------------------------------------------------------------------
\* A frame that is pushed does not change what is recent at those before it.
LEMMA RecentKept ==
  ASSUME TypeOK, NEW changed \in BOOLEAN, changes' = Append(changes, changed)
  PROVE  /\ Pushed \in Nat
         /\ Pushed' = Pushed + 1
         /\ changes' \in Seq(BOOLEAN)
         /\ \A k \in 1 .. Pushed : changes'[k] = changes[k]
         /\ changes'[Pushed + 1] = changed
         /\ \A f \in 0 .. Pushed : Recent(f)' <=> Recent(f)
<1>1. /\ Pushed \in Nat
      /\ Pushed' = Pushed + 1
      /\ changes' \in Seq(BOOLEAN)
      /\ \A k \in 1 .. Pushed : changes'[k] = changes[k]
      /\ changes'[Pushed + 1] = changed
  <2>1. changes \in Seq(BOOLEAN)
    BY DEF TypeOK
  <2> QED BY <2>1, AppendKeeps DEF Pushed
<1>2. ASSUME NEW f \in 0 .. Pushed PROVE Recent(f)' <=> Recent(f)
  <2>1. \A j \in 1 .. f : j \in 1 .. Pushed
    BY <1>1
  <2>2. \A j \in 1 .. f : changes'[j] = changes[j]
    BY <1>1, <2>1
  <2> QED BY <2>2 DEF Recent
<1> QED BY <1>1, <1>2

\* Hear, the counter of Activity, measures the time since the last change also
\* after another frame.
LEMMA HearMeasures ==
  ASSUME TypeOK, StableMeasures, enabled, UNCHANGED enabled,
         NEW changed \in BOOLEAN, changes' = Append(changes, changed),
         initialized \/ changed, Hear(changed)
  PROVE  StableMeasures' /\ stable' \in Nat /\ initialized' \in BOOLEAN
<1> USE GateAssumption
<1>1. /\ Pushed \in Nat
      /\ Pushed' = Pushed + 1
      /\ \A k \in 1 .. Pushed : changes'[k] = changes[k]
      /\ changes'[Pushed + 1] = changed
  BY RecentKept
<1>2. stable \in Nat /\ initialized \in BOOLEAN
  BY DEF TypeOK
<1>3. stable' \in Nat /\ initialized' = TRUE
  BY <1>2 DEF Hear
<1>4. CASE changed
  <2>1. PICK n \in Nat : n = Pushed + 1
    BY <1>1
  <2>2. changes'[n] /\ \A j \in n + 1 .. Pushed' : ~changes'[j]
    <3>1. changes'[n] = TRUE
      BY <1>1, <1>4, <2>1
    <3>2. \A j \in n + 1 .. Pushed' : FALSE
      BY <1>1, <2>1
    <3> QED BY <3>1, <3>2
  <2>3. IF stable' < Settle
        THEN stable' = (Pushed' - n) * FrameSamples
        ELSE (Pushed' - n) * FrameSamples >= Settle
    <3>1. stable' = 0 /\ stable' < Settle
      BY <1>4 DEF Hear
    <3>2. (Pushed' - n) * FrameSamples = 0
      BY <1>1, <2>1
    <3> QED BY <3>1, <3>2
  <2>4. Measures(n)'
    BY <2>2, <2>3 DEF Measures
  <2>5. n \in 1 .. Pushed' /\ Pushed' > 0
    BY <1>1, <2>1
  <2> QED BY <1>3, <2>4, <2>5 DEF StableMeasures
<1>5. CASE ~changed
  <2>1. Pushed > 0
    BY <1>5 DEF StableMeasures
  <2>2. PICK l \in 1 .. Pushed : Measures(l)
    BY <2>1 DEF StableMeasures
  <2>3. l \in 1 .. Pushed' /\ Pushed' > 0 /\ Pushed - l \in Nat
    BY <1>1
  <2>4. changes'[l] /\ \A j \in l + 1 .. Pushed' : ~changes'[j]
    <3>1. changes'[l]
      BY <1>1, <2>2 DEF Measures
    <3>2. ASSUME NEW j \in l + 1 .. Pushed' PROVE ~changes'[j]
      <4>1. CASE j = Pushed + 1
        BY <1>1, <1>5, <4>1
      <4>2. CASE j # Pushed + 1
        <5>1. j \in l + 1 .. Pushed /\ j \in 1 .. Pushed
          BY <1>1, <4>2
        <5> QED BY <1>1, <2>2, <5>1 DEF Measures
      <4> QED BY <4>1, <4>2
    <3> QED BY <3>1, <3>2
  <2>5. IF stable' < Settle
        THEN stable' = (Pushed' - l) * FrameSamples
        ELSE (Pushed' - l) * FrameSamples >= Settle
    <3> DEFINE p == (Pushed - l) * FrameSamples
               q == (Pushed' - l) * FrameSamples
    <3>1. p \in Nat
      BY <2>3
    <3>2. q = p + FrameSamples
      <4>1. Pushed' - l = (Pushed - l) + 1
        BY <1>1
      <4>2. \A k \in Nat : (k + 1) * FrameSamples = k * FrameSamples + FrameSamples
        OBVIOUS
      <4> QED BY <4>1, <4>2, <2>3
    <3>3. IF stable < Settle THEN stable = p ELSE p >= Settle
      BY <2>2 DEF Measures
    <3>4. stable' = IF stable < Settle THEN stable + FrameSamples ELSE stable
      BY <1>5 DEF Hear
    <3> HIDE DEF p, q
    <3>5. IF stable' < Settle THEN stable' = q ELSE q >= Settle
      BY <1>2, <3>1, <3>2, <3>3, <3>4
    <3> QED BY <3>5 DEF q
  <2>6. Measures(l)'
    BY <2>4, <2>5 DEF Measures
  <2> QED BY <1>3, <2>3, <2>6 DEF StableMeasures
<1> QED BY <1>3, <1>4, <1>5

\* The counter tells whether sound is active at the frame pushed last.
LEMMA ActiveIsRecent ==
  changes \in Seq(BOOLEAN) /\ stable \in Nat /\ enabled /\ Pushed > 0 /\ StableMeasures
    => (stable < Settle <=> Recent(Pushed))
<1> SUFFICES ASSUME changes \in Seq(BOOLEAN), stable \in Nat, enabled, Pushed > 0,
                    StableMeasures
             PROVE  stable < Settle <=> Recent(Pushed)
  OBVIOUS
<1> USE GateAssumption
<1>1. Pushed \in Nat
  BY DEF Pushed
<1>2. PICK l \in 1 .. Pushed : Measures(l)
  BY DEF StableMeasures
<1>3. ASSUME stable < Settle PROVE Recent(Pushed)
  BY <1>2, <1>3 DEF Recent, Measures
<1>4. ASSUME Recent(Pushed) PROVE stable < Settle
  <2>1. PICK j \in 1 .. Pushed : changes[j] /\ (Pushed - j) * FrameSamples < Settle
    BY <1>4 DEF Recent
  <2>2. j <= l
    BY <1>1, <1>2, <2>1 DEF Measures
  <2>3. /\ Pushed - l \in Nat /\ Pushed - j \in Nat
        /\ Pushed - l <= Pushed - j
    BY <1>1, <2>2
  <2>4. (Pushed - l) * FrameSamples <= (Pushed - j) * FrameSamples
    BY <2>3, Monotone
  <2>5. /\ (Pushed - l) * FrameSamples \in Nat
        /\ (Pushed - j) * FrameSamples \in Nat
    BY <2>3
  <2> QED BY <1>2, <2>1, <2>4, <2>5 DEF Measures
<1> QED BY <1>3, <1>4

-----------------------------------------------------------------------------
\* A slot that is filled holds one of the frames pushed; when all are, the one
\* at the index holds the oldest, which is the next to leave.
LEMMA HeldFacts ==
  ASSUME TypeOK, LineFills, enabled
  PROVE  /\ \A s \in Slot : s < filled => Held(s) \in 1 .. Pushed
         /\ filled = Depth => index < filled /\ Held(index) = Len(records) + 1
<1> USE GateAssumption
<1>1. /\ Pushed \in Nat /\ Len(records) \in Nat
      /\ index \in 0 .. Depth - 1
      /\ filled \in 0 .. Depth
      /\ Pushed = Len(records) + filled
      /\ filled < Depth => index = filled
  BY DEF TypeOK, LineFills, Slot, Pushed
<1>2. ASSUME NEW s \in Slot, s < filled PROVE Held(s) \in 1 .. Pushed
  <2>1. s \in 0 .. Depth - 1
    BY DEF Slot
  <2>2. CASE s < index
    BY <1>1, <1>2, <2>1, <2>2 DEF Held
  <2>3. CASE s >= index
    BY <1>1, <1>2, <2>1, <2>3 DEF Held
  <2> QED BY <1>1, <2>1, <2>2, <2>3
<1>3. filled = Depth => index < filled /\ Held(index) = Len(records) + 1
  BY <1>1 DEF Held
<1> QED BY <1>2, <1>3

\* The index moves over the slot of the new frame, around the end of the ring
\* or not; the others hold what they held.
LEMMA HeldMoves ==
  ASSUME TypeOK, Pushed' = Pushed + 1,
         index' = IF index + 1 = Depth THEN 0 ELSE index + 1
  PROVE  /\ index' \in Slot
         /\ \A s \in Slot : Held(s)' = IF s = index THEN Pushed + 1 ELSE Held(s)
<1> USE GateAssumption
<1>1. Pushed \in Nat /\ index \in 0 .. Depth - 1
  BY DEF TypeOK, Slot, Pushed
<1>2. ASSUME NEW s \in Slot
      PROVE  Held(s)' = IF s = index THEN Pushed + 1 ELSE Held(s)
  <2>1. s \in 0 .. Depth - 1
    BY DEF Slot
  <2>2. CASE index + 1 = Depth
    BY <1>1, <2>1, <2>2 DEF Held
  <2>3. CASE index + 1 # Depth
    BY <1>1, <2>1, <2>3 DEF Held
  <2> QED BY <2>2, <2>3
<1>3. index' \in Slot
  BY <1>1 DEF Slot
<1> QED BY <1>2, <1>3

\* The line after a frame was stored in it.
LEMMA StoreHolds ==
  ASSUME TypeOK, LineFills, LineHolds, enabled, NEW changed \in BOOLEAN,
         changes' = Append(changes, changed),
         NEW n \in Nat, n = Pushed + 1, NEW a \in BOOLEAN, a <=> Recent(n)',
         Store(n, a), filled' = IF filled < Depth THEN filled + 1 ELSE filled
  PROVE  LineHolds' /\ line' \in [Slot -> Entry] /\ index' \in Slot /\ filled' \in 0 .. Depth
<1> USE GateAssumption
<1>1. /\ Pushed \in Nat
      /\ Pushed' = Pushed + 1
      /\ \A f \in 0 .. Pushed : Recent(f)' <=> Recent(f)
  BY RecentKept
<1>2. /\ index \in Slot /\ line \in [Slot -> Entry]
      /\ filled \in 0 .. Depth
      /\ filled < Depth => index = filled
  BY DEF TypeOK, LineFills
<1>3. /\ line' = [line EXCEPT ![index] = [frame |-> n, active |-> a]]
      /\ index' = IF index + 1 = Depth THEN 0 ELSE index + 1
  BY DEF Store
<1>4. /\ index' \in Slot
      /\ \A s \in Slot : Held(s)' = IF s = index THEN Pushed + 1 ELSE Held(s)
  BY <1>1, <1>3, HeldMoves
<1>5. line' \in [Slot -> Entry]
  BY <1>2, <1>3 DEF Entry
<1>6. filled' \in 0 .. Depth
  BY <1>2
<1>7. ASSUME NEW s \in Slot, s < filled'
      PROVE  line'[s].frame = Held(s)' /\ (line'[s].active <=> Recent(Held(s))')
  <2>1. CASE s = index
    <3>1. line'[s].frame = n /\ line'[s].active = a
      BY <1>2, <1>3, <2>1
    <3>2. Held(s)' = n
      BY <1>4, <2>1
    <3>3. Recent(n)' <=> Recent(Held(s))'
      BY <3>2 DEF Recent
    <3> QED BY <3>1, <3>2, <3>3
  <2>2. CASE s # index
    <3>1. line'[s] = line[s]
      BY <1>2, <1>3, <2>2
    <3>2. Held(s)' = Held(s)
      BY <1>4, <2>2
    <3>3. s < filled
      <4>1. s \in 0 .. Depth - 1
        BY DEF Slot
      <4> QED BY <1>2, <1>7, <2>2, <4>1
    <3>4. line[s].frame = Held(s) /\ (line[s].active <=> Recent(Held(s)))
      BY <3>3 DEF LineHolds
    <3>5. PICK h \in 1 .. Pushed : h = Held(s)
      BY <3>3, HeldFacts
    <3>6. Recent(h)' <=> Recent(h)
      BY <1>1, <3>5
    <3>7. Recent(Held(s))' <=> Recent(h)'
      BY <3>2, <3>5 DEF Recent
    <3> QED BY <3>1, <3>2, <3>4, <3>5, <3>6, <3>7
  <2> QED BY <2>1, <2>2
<1>8. LineHolds'
  BY <1>7 DEF LineHolds
<1> QED BY <1>4, <1>5, <1>6, <1>8

-----------------------------------------------------------------------------
\* What the code decides at the two ends of the line is right for the frame
\* that leaves.
EndsDecide ==
    \A i \in Nat : i + Depth = Pushed => (NearChange(i) <=> Recent(Pushed) \/ Recent(i))

\* Settle is longer than the line, so a change that came while the frame was in
\* it still makes sound active at the frame pushed last.
LEMMA TheEndsDecide == changes \in Seq(BOOLEAN) => EndsDecide
<1> SUFFICES ASSUME changes \in Seq(BOOLEAN), NEW i \in Nat, i + Depth = Pushed
             PROVE  NearChange(i) <=> Recent(Pushed) \/ Recent(i)
  BY DEF EndsDecide
<1> USE GateAssumption
<1>1. Pushed \in Nat /\ Pushed = Len(changes)
  BY DEF Pushed
<1>2. ASSUME NearChange(i) PROVE Recent(Pushed) \/ Recent(i)
  <2>1. PICK j \in 1 .. Pushed :
           changes[j] /\ j <= i + Depth /\ (i < j \/ (i - j) * FrameSamples < Settle)
    BY <1>1, <1>2 DEF NearChange
  <2>2. CASE i < j
    <3>1. Pushed - j \in Nat /\ Depth - 1 \in Nat /\ Pushed - j <= Depth - 1
      BY <1>1, <2>1, <2>2
    <3>2. (Pushed - j) * FrameSamples <= (Depth - 1) * FrameSamples
      BY <3>1, Monotone
    <3>3. /\ (Pushed - j) * FrameSamples \in Nat
          /\ (Depth - 1) * FrameSamples \in Nat
      BY <3>1, Monotone
    <3>4. (Pushed - j) * FrameSamples < Settle
      BY <3>2, <3>3
    <3> QED BY <2>1, <3>4 DEF Recent
  <2>3. CASE ~(i < j)
    <3>1. j \in 1 .. i
      BY <1>1, <2>3
    <3> QED BY <2>1, <2>3, <3>1 DEF Recent
  <2> QED BY <2>2, <2>3
<1>3. ASSUME Recent(i) PROVE NearChange(i)
  <2>1. PICK j \in 1 .. i : changes[j] /\ (i - j) * FrameSamples < Settle
    BY <1>3 DEF Recent
  <2>2. j \in 1 .. Pushed /\ j <= i + Depth
    BY <1>1
  <2> QED BY <1>1, <2>1, <2>2 DEF NearChange
<1>4. ASSUME Recent(Pushed) PROVE NearChange(i)
  <2>1. PICK j \in 1 .. Pushed : changes[j] /\ (Pushed - j) * FrameSamples < Settle
    BY <1>4 DEF Recent
  <2>2. CASE i < j
    BY <1>1, <2>1, <2>2 DEF NearChange
  <2>3. CASE ~(i < j)
    <3>1. i - j \in Nat /\ Pushed - j \in Nat /\ i - j <= Pushed - j
      BY <1>1, <2>3
    <3>2. (i - j) * FrameSamples <= (Pushed - j) * FrameSamples
      BY <3>1, Monotone
    <3>3. /\ (i - j) * FrameSamples \in Nat
          /\ (Pushed - j) * FrameSamples \in Nat
      BY <3>1, Monotone
    <3>4. (i - j) * FrameSamples < Settle
      BY <2>1, <3>2, <3>3
    <3> QED BY <1>1, <2>1, <3>4 DEF NearChange
  <2> QED BY <2>2, <2>3
<1> QED BY <1>2, <1>3, <1>4

\* A frame that left the line is not near any change of later frames.
LEMMA NearKept ==
  ASSUME TypeOK, NEW changed \in BOOLEAN, changes' = Append(changes, changed),
         NEW i \in Nat, i + Depth <= Pushed
  PROVE  NearChange(i)' <=> NearChange(i)
<1> USE GateAssumption
<1>1. /\ Pushed \in Nat /\ Pushed = Len(changes)
      /\ Len(changes') = Pushed + 1
      /\ \A k \in 1 .. Pushed : changes'[k] = changes[k]
  BY RecentKept DEF Pushed
<1>2. ASSUME NEW j \in 1 .. Pushed + 1, j <= i + Depth
      PROVE  j \in 1 .. Pushed
  BY <1>1, <1>2
<1>3. Pushed' = Pushed + 1
  BY <1>1 DEF Pushed
<1> HIDE GateAssumption
<1>4. ASSUME NearChange(i) PROVE NearChange(i)'
  <2>1. PICK j \in 1 .. Pushed : changes[j] /\ j <= i + Depth
                               /\ (i < j \/ (i - j) * FrameSamples < Settle)
    BY <1>4 DEF NearChange, Pushed
  <2>2. j \in 1 .. Pushed' /\ changes'[j]
    BY <1>1, <1>3, <2>1
  <2> QED BY <2>1, <2>2 DEF NearChange, Pushed
<1>5. ASSUME NearChange(i)' PROVE NearChange(i)
  <2>1. PICK j \in 1 .. Pushed' : changes'[j] /\ j <= i + Depth
                                /\ (i < j \/ (i - j) * FrameSamples < Settle)
    BY <1>5 DEF NearChange, Pushed
  <2>2. j \in 1 .. Pushed /\ changes[j]
    BY <1>1, <1>2, <1>3, <2>1
  <2> QED BY <2>1, <2>2 DEF NearChange, Pushed
<1> QED BY <1>4, <1>5

\* Push with a detector preserves the inductive invariant.
LEMMA DelayPreservesIInv ==
  ASSUME IInv, enabled, UNCHANGED enabled,
         NEW changed \in BOOLEAN, changes' = Append(changes, changed),
         initialized \/ changed, Hear(changed),
         NEW n \in Nat, n = Pushed + 1, NEW a \in BOOLEAN, a <=> (stable' < Settle),
         Delay(n, a)
  PROVE  IInv'
<1> USE GateAssumption
<1>1. TypeOK /\ LineFills /\ LineHolds /\ StableMeasures
      /\ RecordsAreTheFrames /\ SoundIsSentAroundChanges
  BY DEF IInv
<1>2. /\ Pushed \in Nat /\ Pushed' = n
      /\ changes' \in Seq(BOOLEAN)
      /\ \A f \in 0 .. Pushed : Recent(f)' <=> Recent(f)
  BY <1>1, RecentKept
<1>3. /\ index \in 0 .. Depth - 1 /\ filled \in 0 .. Depth
      /\ line \in [Slot -> Entry] /\ index \in Slot
      /\ position \in Nat
      /\ records \in Seq(Record) /\ Len(records) \in Nat
      /\ Pushed = Len(records) + filled
      /\ position = Len(records) * FrameSamples
      /\ filled < Depth => index = filled /\ records = <<>>
  BY <1>1 DEF TypeOK, LineFills, Slot
<1>4. StableMeasures' /\ stable' \in Nat /\ initialized' \in BOOLEAN
  BY <1>1, HearMeasures
<1>5. a <=> Recent(n)'
  <2>1. (stable < Settle <=> Recent(Pushed))'
    <3>1. (changes \in Seq(BOOLEAN) /\ stable \in Nat /\ enabled /\ Pushed > 0 /\ StableMeasures
             => (stable < Settle <=> Recent(Pushed)))'
      BY ActiveIsRecent, PTL
    <3>2. Pushed' > 0
      BY <1>2
    <3> QED BY <1>2, <1>4, <3>1, <3>2
  <2>2. Recent(Pushed)' <=> Recent(n)'
    BY <1>2 DEF Recent
  <2> QED BY <2>1, <2>2
<1>6. /\ Store(n, a)
      /\ filled' = IF filled < Depth THEN filled + 1 ELSE filled
  BY DEF Delay
<1>7. LineHolds' /\ line' \in [Slot -> Entry] /\ index' \in Slot /\ filled' \in 0 .. Depth
  BY <1>1, <1>5, <1>6, StoreHolds
<1>8. index' = IF index + 1 = Depth THEN 0 ELSE index + 1
  BY <1>6 DEF Store
<1>9. CASE filled < Depth
  <2>1. UNCHANGED <<position, records>>
    BY <1>9 DEF Delay
  <2>2. LineFills'
    BY <1>2, <1>3, <1>6, <1>8, <1>9, <2>1 DEF LineFills
  <2>3. TypeOK'
    BY <1>2, <1>3, <1>4, <1>7, <2>1 DEF TypeOK
  <2>4. RecordsAreTheFrames'
    BY <1>2, <1>3, <1>6, <1>9, <2>1 DEF RecordsAreTheFrames, Pushed
  <2>5. SoundIsSentAroundChanges'
    BY <1>3, <1>9, <2>1 DEF SoundIsSentAroundChanges
  <2> QED BY <1>4, <1>7, <2>2, <2>3, <2>4, <2>5 DEF IInv
<1>10. CASE filled = Depth
  <2> DEFINE i == Len(records) + 1
             r == [frame |-> line[index].frame, position |-> position,
                   quiet |-> ~(a \/ line[index].active)]
  <2>1. /\ records' = Append(records, r)
        /\ position' = position + FrameSamples
    BY <1>10 DEF Delay, Return
  <2>2. index < filled /\ Held(index) = i
    BY <1>1, <1>10, HeldFacts
  <2>3. line[index].frame = i /\ (line[index].active <=> Recent(i))
    <3>1. line[index].frame = Held(index) /\ (line[index].active <=> Recent(Held(index)))
      BY <1>1, <1>3, <2>2 DEF LineHolds
    <3> QED BY <2>2, <3>1 DEF Recent
  <2>4. r \in Record
    <3>1. line[index] \in Entry
      BY <1>3
    <3> QED BY <1>3, <3>1 DEF Entry, Record
  <2>5. /\ records' \in Seq(Record)
        /\ Len(records') = i
        /\ \A k \in 1 .. Len(records) : records'[k] = records[k]
        /\ records'[i] = r
    <3> HIDE DEF r
    <3> QED BY <1>3, <2>1, <2>4, AppendKeeps
  <2>6. r.frame = i /\ r.position = position /\ (r.quiet <=> ~(a \/ line[index].active))
    BY <2>3
  <2> HIDE DEF r
  <2>7. i \in Nat /\ i + Depth = n /\ filled' = Depth
    BY <1>3, <1>6, <1>10
  <2>8. LineFills'
    <3>1. position' = i * FrameSamples
      <4>1. \A k \in Nat : (k + 1) * FrameSamples = k * FrameSamples + FrameSamples
        OBVIOUS
      <4> QED BY <1>3, <2>1, <4>1
    <3> QED BY <1>2, <2>5, <2>7, <3>1 DEF LineFills
  <2>9. TypeOK'
    <3>1. position' \in Nat
      BY <1>3, <2>1
    <3> QED BY <1>2, <1>4, <1>7, <2>5, <3>1 DEF TypeOK
  <2>10. RecordsAreTheFrames'
    <3>1. ASSUME NEW k \in 1 .. i
          PROVE  records'[k].frame = k /\ records'[k].position = (k - 1) * FrameSamples
      <4>1. CASE k = i
        <5>1. k - 1 = Len(records)
          BY <1>3, <4>1
        <5> QED BY <1>3, <2>5, <2>6, <4>1, <5>1
      <4>2. CASE k # i
        <5>1. k \in 1 .. Len(records)
          BY <1>3, <4>2
        <5> QED BY <1>1, <2>5, <5>1 DEF RecordsAreTheFrames
      <4> QED BY <4>1, <4>2
    <3>2. Len(changes') = Len(records') + filled'
      BY <1>2, <2>5, <2>7 DEF Pushed
    <3> QED BY <2>5, <3>1, <3>2 DEF RecordsAreTheFrames
  <2>11. SoundIsSentAroundChanges'
    <3>1. ASSUME NEW k \in 1 .. i PROVE records'[k].quiet <=> ~NearChange(k)'
      <4>1. CASE k = i
        <5>1. (changes \in Seq(BOOLEAN) => EndsDecide)'
          BY TheEndsDecide, PTL
        <5>2. NearChange(k)' <=> Recent(Pushed)' \/ Recent(k)'
          BY <1>2, <2>7, <4>1, <5>1 DEF EndsDecide
        <5>3. Recent(Pushed)' <=> Recent(n)'
          BY <1>2 DEF Recent
        <5>4. Recent(k)' <=> Recent(k)
          BY <1>2, <2>7, <4>1
        <5>5. Recent(k) <=> Recent(i)
          BY <4>1
        <5>6. records'[k].quiet <=> ~(a \/ Recent(k))
          BY <2>3, <2>5, <2>6, <4>1, <5>5
        <5> QED BY <1>5, <5>2, <5>3, <5>4, <5>6
      <4>2. CASE k # i
        <5>1. k \in 1 .. Len(records)
          BY <1>3, <4>2
        <5>2. k \in Nat /\ k + Depth <= Pushed
          BY <1>3, <1>10, <5>1
        <5>3. NearChange(k)' <=> NearChange(k)
          BY <1>1, <5>2, NearKept
        <5> QED BY <1>1, <2>5, <5>1, <5>3 DEF SoundIsSentAroundChanges
      <4> QED BY <4>1, <4>2
    <3> QED BY <2>5, <3>1 DEF SoundIsSentAroundChanges
  <2> QED BY <1>4, <1>7, <2>8, <2>9, <2>10, <2>11 DEF IInv
<1> QED BY <1>3, <1>9, <1>10

\* Push without a detector preserves it: frames pass at once.
LEMMA PassPreservesIInv ==
  ASSUME IInv, ~enabled, UNCHANGED <<enabled, detector, line, index, filled>>,
         NEW changed \in BOOLEAN, changes' = Append(changes, changed),
         NEW n \in Nat, n = Pushed + 1, Return(n, TRUE)
  PROVE  IInv'
<1> USE GateAssumption
<1>1. TypeOK /\ LineFills /\ RecordsAreTheFrames
  BY DEF IInv
<1>2. /\ Pushed \in Nat /\ Pushed' = n
      /\ changes' \in Seq(BOOLEAN)
  BY <1>1, RecentKept
<1>3. /\ filled = 0 /\ records \in Seq(Record) /\ Len(records) \in Nat
      /\ Pushed = Len(records) + filled
      /\ position \in Nat
      /\ position = Len(records) * FrameSamples
  BY <1>1 DEF TypeOK, LineFills
<1> DEFINE r == [frame |-> n, position |-> position, quiet |-> ~TRUE]
<1>4. /\ records' = Append(records, r)
      /\ position' = position + FrameSamples
  BY DEF Return
<1>5. r \in Record /\ r.frame = n /\ r.position = position
  BY <1>3 DEF Record
<1>6. /\ records' \in Seq(Record)
      /\ Len(records') = Len(records) + 1
      /\ \A k \in 1 .. Len(records) : records'[k] = records[k]
      /\ records'[Len(records) + 1] = r
  <2> HIDE DEF r
  <2> QED BY <1>3, <1>4, <1>5, AppendKeeps
<1> HIDE DEF r
<1>7. TypeOK'
  <2>1. position' \in Nat
    BY <1>3, <1>4
  <2> QED BY <1>1, <1>2, <1>6, <2>1 DEF TypeOK, detector
<1>8. LineFills'
  <2>1. position' = (Len(records) + 1) * FrameSamples
    <3>1. \A k \in Nat : (k + 1) * FrameSamples = k * FrameSamples + FrameSamples
      OBVIOUS
    <3> QED BY <1>3, <1>4, <3>1
  <2> QED BY <1>2, <1>3, <1>6, <2>1 DEF LineFills
<1>9. LineHolds'
  <2>1. \A s \in Slot : ~(s < filled')
    BY <1>3 DEF Slot
  <2> QED BY <2>1 DEF LineHolds
<1>10. StableMeasures' /\ SoundIsSentAroundChanges'
  BY DEF StableMeasures, SoundIsSentAroundChanges
<1>11. RecordsAreTheFrames'
  <2>1. ASSUME NEW k \in 1 .. n
        PROVE  records'[k].frame = k /\ records'[k].position = (k - 1) * FrameSamples
    <3>1. CASE k = n
      <4>1. k - 1 = Len(records) /\ k = Len(records) + 1
        BY <1>3, <3>1
      <4> QED BY <1>3, <1>5, <1>6, <3>1, <4>1
    <3>2. CASE k # n
      <4>1. k \in 1 .. Len(records)
        BY <1>3, <3>2
      <4> QED BY <1>1, <1>6, <4>1 DEF RecordsAreTheFrames
    <3> QED BY <3>1, <3>2
  <2> QED BY <1>2, <1>3, <1>6, <2>1 DEF RecordsAreTheFrames, Pushed
<1> QED BY <1>7, <1>8, <1>9, <1>10, <1>11 DEF IInv

\* Every step preserves the inductive invariant.
LEMMA NextPreservesIInv == IInv /\ [Next]_vars => IInv'
<1> SUFFICES ASSUME IInv, [Next]_vars PROVE IInv'
  OBVIOUS
<1>1. ASSUME NEW changed \in BOOLEAN, Push(changed) PROVE IInv'
  <2>1. changes' = Append(changes, changed) /\ UNCHANGED enabled
    BY <1>1 DEF Push
  <2>2. Pushed \in Nat /\ Pushed' = Pushed + 1
    BY <2>1, RecentKept DEF IInv
  <2>3. PICK n \in Nat : n = Pushed + 1
    BY <2>2
  <2>4. Len(changes') = n
    BY <2>2, <2>3 DEF Pushed
  <2>5. CASE enabled
    <3> DEFINE a == (stable' < Settle)
    <3>1. a \in BOOLEAN /\ (a <=> (stable' < Settle))
      OBVIOUS
    <3>2. /\ initialized \/ changed
          /\ Hear(changed)
          /\ Delay(n, a)
      BY <1>1, <2>4, <2>5 DEF Push
    <3> HIDE DEF a
    <3> QED BY <2>1, <2>3, <2>5, <3>1, <3>2, DelayPreservesIInv
  <2>6. CASE ~enabled
    <3>1. Return(n, TRUE) /\ UNCHANGED <<detector, line, index, filled>>
      BY <1>1, <2>4, <2>6 DEF Push
    <3> QED BY <2>1, <2>3, <2>6, <3>1, PassPreservesIInv
  <2> QED BY <2>5, <2>6
<1>2. CASE UNCHANGED vars
  BY <1>2 DEF vars, detector, IInv, TypeOK, LineFills, LineHolds, StableMeasures, Measures,
              RecordsAreTheFrames, SoundIsSentAroundChanges, NearChange, Pushed, Recent, Held
<1> QED BY <1>1, <1>2 DEF Next

\* The inductive invariant holds in every reachable state of the gate.
LEMMA GateIInv == Spec => []IInv
  BY InitEstablishesIInv, NextPreservesIInv, PTL DEF Spec

\* The ring never leaves its bounds, for every length of the delay line.
THEOREM GateTypeCorrect == Spec => []TypeOK
<1>1. IInv => TypeOK
  BY DEF IInv
<1> QED BY <1>1, GateIInv, PTL

\* Push returns the frames it was given in order, each once and at the position
\* of its first sample, for every length of the delay line.
THEOREM GateReturnsEveryFrame == Spec => []RecordsAreTheFrames
<1>1. IInv => RecordsAreTheFrames
  BY DEF IInv
<1> QED BY <1>1, GateIInv, PTL

\* The gate sends exactly the sound around the changes, whenever they come, if
\* the settling period is longer than the delay line.
THEOREM GateSendsSoundAroundChanges == Spec => []SoundIsSentAroundChanges
<1>1. IInv => SoundIsSentAroundChanges
  BY DEF IInv
<1> QED BY <1>1, GateIInv, PTL

-----------------------------------------------------------------------------
\* Between the second and the third select the queue has room: the second
\* select made it or the reader did, and only Offer could take it back.
RoomWasMade == select = 3 => Len(queue) < Capacity

\* A call in progress has an item.
CallHasItem == select # 1 => item > 0

\* The reader is behind the producer, so an empty queue between calls means
\* that it has the newest item.
QueueIInv ==
    /\ QueueTypeOK
    /\ RoomWasMade
    /\ CallHasItem
    /\ WindowIsNewest
    /\ NewestSurvives
    /\ NothingVanishes
    /\ EveryDiscardIsReported

\* Every initial state satisfies the inductive invariant.
LEMMA QueueInitEstablishes == QueueInit => QueueIInv
  BY CapacityAssumption, MaxItemsAssumption
     DEF QueueInit, QueueIInv, QueueTypeOK, RoomWasMade, CallHasItem, WindowIsNewest,
         NewestSurvives, NothingVanishes, EveryDiscardIsReported, Newest

\* What sending an item on a channel does to its buffer.
LEMMA AppendFacts ==
  ASSUME NEW S, NEW q \in Seq(S), NEW e \in S
  PROVE  /\ Append(q, e) \in Seq(S)
         /\ Append(q, e) # <<>>
         /\ Len(Append(q, e)) = Len(q) + 1
         /\ DOMAIN Append(q, e) = 1..(Len(q) + 1)
         /\ \A k \in 1..Len(q) : Append(q, e)[k] = q[k]
         /\ Append(q, e)[Len(q) + 1] = e
  OBVIOUS

\* What receiving the oldest item of a channel does to its buffer.
LEMMA TailFacts ==
  ASSUME NEW S, NEW q \in Seq(S), q # <<>>
  PROVE  /\ Tail(q) \in Seq(S)
         /\ Len(q) \in Nat \ {0}
         /\ Len(Tail(q)) = Len(q) - 1
         /\ DOMAIN Tail(q) = 1..(Len(q) - 1)
         /\ \A k \in 1..(Len(q) - 1) : Tail(q)[k] = q[k + 1]
         /\ Head(q) = q[1]
         /\ Head(q) \in S
  OBVIOUS

\* Every step, of Offer or of the reader, preserves the inductive invariant.
LEMMA QueueNextPreserves == QueueIInv /\ [QueueNext]_queueVars => QueueIInv'
<1> SUFFICES ASSUME QueueIInv, [QueueNext]_queueVars PROVE QueueIInv'
  OBVIOUS
<1> USE CapacityAssumption, MaxItemsAssumption
<1>t. QueueTypeOK
  BY DEF QueueIInv
<1>w. \A i \in 1..Len(queue) : queue[i] \in Nat /\ queue[i] + Len(queue) = Newest + i
  BY <1>t DEF QueueTypeOK, QueueIInv, WindowIsNewest
<1>n. /\ select \in 1..3 /\ item \in Nat /\ taken \in Nat /\ Len(queue) \in Nat
      /\ Len(queue) <= Capacity
  BY <1>t DEF QueueTypeOK
<1>1. CASE OfferSend
  <2>1. item + 1 \in 1..MaxItems /\ queue' = Append(queue, item + 1) /\ HasRoom
    BY <1>1, <1>t DEF OfferSend, QueueTypeOK
  <2>2. /\ queue' \in Seq(1..MaxItems)
        /\ Len(queue') = Len(queue) + 1
        /\ Len(queue) \in Nat
        /\ Len(queue) < Capacity
        /\ queue' # <<>>
        /\ DOMAIN queue = 1..Len(queue)
        /\ DOMAIN queue' = 1..(Len(queue) + 1)
        /\ \A k \in 1..Len(queue) : queue'[k] = queue[k]
        /\ queue'[Len(queue) + 1] = item + 1
    BY <2>1, <1>t, AppendFacts DEF QueueTypeOK, HasRoom
  <2>3. QueueTypeOK' /\ RoomWasMade' /\ CallHasItem' /\ NewestSurvives'
    BY <1>1, <1>t, <2>2 DEF OfferSend, QueueTypeOK, RoomWasMade, CallHasItem, NewestSurvives
  <2>4. WindowIsNewest'
    <3> SUFFICES ASSUME NEW i \in 1..(Len(queue) + 1)
                 PROVE  queue'[i] + Len(queue') = Newest' + i
      BY <2>2 DEF WindowIsNewest
    <3>1. Newest = item /\ Newest' = item + 1
      BY <1>1, <1>n DEF OfferSend, Newest
    <3>2. Len(queue') = Len(queue) + 1
      BY <2>2
    <3>3. CASE i \in 1..Len(queue)
      <4>1. queue'[i] = queue[i]
        BY <2>2, <3>3
      <4>2. queue[i] \in Nat /\ queue[i] + Len(queue) = Newest + i
        BY <1>w, <3>3
      <4> QED BY <1>n, <3>1, <3>2, <4>1, <4>2
    <3>4. CASE i = Len(queue) + 1
      <4>1. queue'[i] = item + 1
        BY <2>2, <3>4
      <4> QED BY <1>n, <3>1, <3>2, <3>4, <4>1
    <3> QED BY <1>n, <3>3, <3>4
  <2>5. NothingVanishes' /\ EveryDiscardIsReported'
    BY <1>1, <1>t, <2>2
       DEF OfferSend, QueueTypeOK, QueueIInv, NothingVanishes, EveryDiscardIsReported, Newest
  <2> QED BY <2>3, <2>4, <2>5 DEF QueueIInv
<1>2. CASE OfferFull
  BY <1>2 DEF OfferFull, QueueIInv, QueueTypeOK, RoomWasMade, CallHasItem, WindowIsNewest,
              NewestSurvives, NothingVanishes, EveryDiscardIsReported, Newest
<1>3. CASE OfferEvict
  <2>1. CASE queue # <<>>
    <3>1. queue' = Tail(queue) /\ discarded' = discarded + 1
      BY <1>3, <2>1 DEF OfferEvict
    <3>2. /\ queue' \in Seq(1..MaxItems)
          /\ Len(queue) \in Nat \ {0}
          /\ Len(queue') = Len(queue) - 1
          /\ DOMAIN queue = 1..Len(queue)
          /\ DOMAIN queue' = 1..(Len(queue) - 1)
          /\ \A k \in 1..(Len(queue) - 1) : queue'[k] = queue[k + 1]
      BY <2>1, <3>1, <1>t, TailFacts DEF QueueTypeOK
    <3>3. QueueTypeOK' /\ RoomWasMade' /\ CallHasItem' /\ NewestSurvives'
      <4>1. select = 2 /\ select' = 3 /\ UNCHANGED <<item, taken, received, reported>>
        BY <1>3 DEF OfferEvict
      <4> QED BY <1>t, <1>n, <3>1, <3>2, <4>1
              DEF QueueIInv, QueueTypeOK, RoomWasMade, CallHasItem, NewestSurvives
    <3>4. WindowIsNewest'
      <4> SUFFICES ASSUME NEW i \in 1..(Len(queue) - 1)
                   PROVE  queue'[i] + Len(queue') = Newest' + i
        BY <3>2 DEF WindowIsNewest
      <4>1. Newest \in Int /\ Newest' = Newest
        BY <1>3, <1>n DEF OfferEvict, Newest
      <4>2. queue[i + 1] \in Nat /\ queue[i + 1] + Len(queue) = Newest + (i + 1)
        BY <1>w, <1>n
      <4>3. queue'[i] = queue[i + 1] /\ Len(queue') = Len(queue) - 1
        BY <3>2
      <4> QED BY <1>n, <4>1, <4>2, <4>3
    <3>5. NothingVanishes' /\ EveryDiscardIsReported'
      <4>1. select = 2 /\ select' = 3 /\ UNCHANGED <<item, taken, received, reported>>
        BY <1>3 DEF OfferEvict
      <4> QED BY <1>t, <3>1, <3>2, <4>1
              DEF QueueTypeOK, QueueIInv, NothingVanishes, EveryDiscardIsReported, Newest
    <3> QED BY <3>3, <3>4, <3>5 DEF QueueIInv
  <2>2. CASE queue = <<>>
    BY <1>3, <2>2 DEF OfferEvict, QueueIInv, QueueTypeOK, RoomWasMade, CallHasItem, WindowIsNewest,
                      NewestSurvives, NothingVanishes, EveryDiscardIsReported, Newest
  <2> QED BY <2>1, <2>2
<1>4. CASE OfferResend
  <2>1. HasRoom /\ item \in 1..MaxItems
    BY <1>4, <1>t DEF OfferResend, QueueIInv, QueueTypeOK, RoomWasMade, CallHasItem, HasRoom
  <2>2. queue' = Append(queue, item)
    BY <1>4, <2>1 DEF OfferResend
  <2>3. /\ queue' \in Seq(1..MaxItems)
        /\ Len(queue') = Len(queue) + 1
        /\ Len(queue) \in Nat
        /\ Len(queue) < Capacity
        /\ queue' # <<>>
        /\ DOMAIN queue = 1..Len(queue)
        /\ DOMAIN queue' = 1..(Len(queue) + 1)
        /\ \A k \in 1..Len(queue) : queue'[k] = queue[k]
        /\ queue'[Len(queue) + 1] = item
    BY <2>1, <2>2, <1>t, AppendFacts DEF QueueTypeOK, HasRoom
  <2>4. QueueTypeOK' /\ RoomWasMade' /\ CallHasItem' /\ NewestSurvives'
    BY <1>4, <1>t, <2>3 DEF OfferResend, QueueTypeOK, RoomWasMade, CallHasItem, NewestSurvives
  <2>5. WindowIsNewest'
    <3> SUFFICES ASSUME NEW i \in 1..(Len(queue) + 1)
                 PROVE  queue'[i] + Len(queue') = Newest' + i
      BY <2>3 DEF WindowIsNewest
    <3>1. Newest = item - 1 /\ Newest' = item
      BY <1>4, <1>n DEF OfferResend, Newest
    <3>2. Len(queue') = Len(queue) + 1
      BY <2>3
    <3>3. CASE i \in 1..Len(queue)
      <4>1. queue'[i] = queue[i]
        BY <2>3, <3>3
      <4>2. queue[i] \in Nat /\ queue[i] + Len(queue) = Newest + i
        BY <1>w, <3>3
      <4> QED BY <1>n, <3>1, <3>2, <4>1, <4>2
    <3>4. CASE i = Len(queue) + 1
      <4>1. queue'[i] = item
        BY <2>3, <3>4
      <4> QED BY <1>n, <3>1, <3>2, <3>4, <4>1
    <3> QED BY <1>n, <3>3, <3>4
  <2>6. NothingVanishes' /\ EveryDiscardIsReported'
    BY <1>4, <1>t, <2>3
       DEF OfferResend, QueueTypeOK, QueueIInv, NothingVanishes, EveryDiscardIsReported, Newest
  <2> QED BY <2>4, <2>5, <2>6 DEF QueueIInv
<1>5. CASE Receive
  <2>1. queue # <<>> /\ queue' = Tail(queue)
    BY <1>5 DEF Receive
  <2>2. /\ queue' \in Seq(1..MaxItems)
        /\ Len(queue) \in Nat \ {0}
        /\ Len(queue') = Len(queue) - 1
        /\ DOMAIN queue = 1..Len(queue)
        /\ DOMAIN queue' = 1..(Len(queue) - 1)
        /\ \A k \in 1..(Len(queue) - 1) : queue'[k] = queue[k + 1]
        /\ Head(queue) = queue[1]
        /\ Head(queue) \in 1..MaxItems
    BY <2>1, <1>t, TailFacts DEF QueueTypeOK
  <2>3. QueueTypeOK' /\ RoomWasMade' /\ CallHasItem'
    BY <1>5, <1>t, <2>2 DEF Receive, QueueIInv, QueueTypeOK, RoomWasMade, CallHasItem
  <2>4. WindowIsNewest'
    <3> SUFFICES ASSUME NEW i \in 1..(Len(queue) - 1)
                 PROVE  queue'[i] + Len(queue') = Newest' + i
      BY <2>2 DEF WindowIsNewest
    <3>1. Newest \in Int /\ Newest' = Newest
      BY <1>5, <1>n DEF Receive, Newest
    <3>2. queue[i + 1] \in Nat /\ queue[i + 1] + Len(queue) = Newest + (i + 1)
      BY <1>w, <1>n
    <3>3. queue'[i] = queue[i + 1] /\ Len(queue') = Len(queue) - 1
      BY <2>2
    <3> QED BY <1>n, <3>1, <3>2, <3>3
  <2>5. NewestSurvives'
    BY <1>5, <1>t, <2>2 DEF Receive, QueueTypeOK, QueueIInv, WindowIsNewest, NewestSurvives, Newest
  <2>6. NothingVanishes' /\ EveryDiscardIsReported'
    BY <1>5, <1>t, <2>2
       DEF Receive, QueueTypeOK, QueueIInv, NothingVanishes, EveryDiscardIsReported, Newest
  <2> QED BY <2>3, <2>4, <2>5, <2>6 DEF QueueIInv
<1>6. CASE UNCHANGED queueVars
  BY <1>6 DEF queueVars, QueueIInv, QueueTypeOK, RoomWasMade, CallHasItem, WindowIsNewest,
              NewestSurvives, NothingVanishes, EveryDiscardIsReported, Newest
<1> QED BY <1>1, <1>2, <1>3, <1>4, <1>5, <1>6 DEF QueueNext

\* The inductive invariant holds in every reachable state of queue.Offer and
\* its reader.
LEMMA QueueAlwaysIInv == QueueSpec => []QueueIInv
  BY QueueInitEstablishes, QueueNextPreserves, PTL DEF QueueSpec

\* Every variable keeps its type, and the buffer of the channel its bound,
\* for every capacity.
THEOREM QueueTypeCorrect == QueueSpec => []QueueTypeOK
<1>1. QueueIInv => QueueTypeOK
  BY DEF QueueIInv
<1> QED BY <1>1, QueueAlwaysIInv, PTL

\* Offer leaves no hole: the queue is at all times the newest items offered,
\* contiguous and in order, wherever the reader cuts in between its selects.
THEOREM QueueHoldsTheNewest == QueueSpec => []WindowIsNewest
<1>1. QueueIInv => WindowIsNewest
  BY DEF QueueIInv
<1> QED BY <1>1, QueueAlwaysIInv, PTL

\* The item last offered is never lost in favour of an older one: it is in
\* the queue or the reader has it.
THEOREM QueueNewestSurvives == QueueSpec => []NewestSurvives
<1>1. QueueIInv => NewestSurvives
  BY DEF QueueIInv
<1> QED BY <1>1, QueueAlwaysIInv, PTL

\* Every item is received, waiting or discarded by the second select, so the
\* third select of Offer never takes its default branch.
THEOREM QueueAccountsForEveryItem == QueueSpec => []NothingVanishes
<1>1. QueueIInv => NothingVanishes
  BY DEF QueueIInv
<1> QED BY <1>1, QueueAlwaysIInv, PTL

\* Each discard is a call that returned false, or is about to, so whoever
\* counts false results never counts fewer drops than there were.
THEOREM QueueReportsEveryDiscard == QueueSpec => []EveryDiscardIsReported
<1>1. QueueIInv => EveryDiscardIsReported
  BY DEF QueueIInv
<1> QED BY <1>1, QueueAlwaysIInv, PTL
=============================================================================
