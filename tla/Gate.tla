-------------------------------- MODULE Gate --------------------------------
(***************************************************************************)
(* internal/audio/activity.go: the gate that suppresses steady sound.  A   *)
(* delay line holds the lead-in, so that what precedes a change of the     *)
(* sound can still be sent once the change is heard.                       *)
(*                                                                         *)
(* What the detector makes of the samples, its filters and energies, comes *)
(* down to whether a frame changes the background; this is an input here.  *)
(* Sizes and positions are counted in samples, as in the code.             *)
(***************************************************************************)
EXTENDS Naturals, Sequences

CONSTANTS
    FrameSamples,   \* samples per frame
    Depth,          \* len(g.frames): frames in the delay line
    Settle,         \* samples without a change before sound is suppressed
    MaxFrames       \* bound: frames pushed

(***************************************************************************)
(* Depth is the lead-in of 200 ms rounded up to frames, and 1s the least   *)
(* settling period that Run of source.go and the firmware's static_assert  *)
(* accept: all frames of the line but one are shorter than Settle.         *)
(***************************************************************************)
ASSUME GateAssumption ==
    /\ FrameSamples \in Nat \ {0}
    /\ Depth \in Nat \ {0}
    /\ Settle \in Nat \ {0}
    /\ (Depth - 1) * FrameSamples < Settle
    /\ MaxFrames \in Nat

VARIABLES
    enabled,        \* the detector exists
    initialized,    \* it has heard a frame
    stable,         \* samples since the background changed, up to Settle
    line,           \* the ring of frames and their activity
    index,          \* where the next frame goes
    filled,         \* frames in the ring
    position,       \* of the next record
    changes,        \* history: which of the frames pushed changed the background
    records         \* history: the records returned

detector == <<initialized, stable>>
vars == <<enabled, detector, line, index, filled, position, changes, records>>

Slot == 0 .. Depth - 1

\* A frame is identified by its number.
Entry == [frame: Nat, active: BOOLEAN]
Record == [frame: Nat, position: Nat, quiet: BOOLEAN]

TypeOK ==
    /\ enabled \in BOOLEAN
    /\ initialized \in BOOLEAN
    /\ stable \in Nat
    /\ line \in [Slot -> Entry]
    /\ index \in Slot
    /\ filled \in 0 .. Depth
    /\ position \in Nat
    /\ changes \in Seq(BOOLEAN)
    /\ records \in Seq(Record)

Init ==
    /\ enabled \in BOOLEAN
    /\ initialized = FALSE
    /\ stable = 0
    /\ line = [s \in Slot |-> [frame |-> 0, active |-> FALSE]]
    /\ index = 0
    /\ filled = 0
    /\ position = 0
    /\ changes = <<>>
    /\ records = <<>>

-----------------------------------------------------------------------------
\* Mutated: only a change of a settled background starts the period anew.
HearLatched(changed) ==
    /\ initialized' = TRUE
    /\ stable' = IF changed /\ stable >= Settle THEN 0
                 ELSE IF stable < Settle THEN stable + FrameSamples
                 ELSE stable

\* Activity.Active: the first frame always changes the background.
Hear(changed) ==
    /\ initialized' = TRUE
    /\ stable' = IF changed THEN 0
                 ELSE IF stable < Settle THEN stable + FrameSamples
                 ELSE stable

\* Push returns a record for the frame, at the gate's position.
Return(frame, active) ==
    /\ records' = Append(records, [frame |-> frame, position |-> position, quiet |-> ~active])
    /\ position' = position + FrameSamples

\* Mutated: the frame is written after the index moved.
StoreAhead(frame, active) ==
    /\ index' = IF index + 1 = Depth THEN 0 ELSE index + 1
    /\ line' = [line EXCEPT ![index'] = [frame |-> frame, active |-> active]]

\* (index + 1) % Depth
Store(frame, active) ==
    /\ line' = [line EXCEPT ![index] = [frame |-> frame, active |-> active]]
    /\ index' = IF index + 1 = Depth THEN 0 ELSE index + 1

\* A frame enters the line, and while the line fills nothing leaves it.  Once
\* it is full the oldest leaves, sent if it or the frame that enters is active.
Delay(frame, active) ==
    /\ Store(frame, active)
    /\ IF filled < Depth
       THEN filled' = filled + 1 /\ UNCHANGED <<position, records>>
       ELSE /\ Return(line[index].frame, active \/ line[index].active)
            /\ UNCHANGED filled

Push(changed) ==
    /\ Len(changes) < MaxFrames
    /\ changes' = Append(changes, changed)
    /\ UNCHANGED enabled
    /\ \/ /\ enabled
          /\ initialized \/ changed
          /\ Hear(changed)
          /\ Delay(Len(changes'), stable' < Settle)
       \/ /\ ~enabled
          /\ Return(Len(changes'), TRUE)
          /\ UNCHANGED <<detector, line, index, filled>>

Next == \E changed \in BOOLEAN : Push(changed)

Spec == Init /\ [][Next]_vars

-----------------------------------------------------------------------------
\* Nothing is lost, doubled or moved by the ring: the records are the frames,
\* in order, each at the position of its first sample, and only the frames
\* of the line are still to come.
RecordsAreTheFrames ==
    /\ Len(changes) = Len(records) + filled
    /\ \A i \in 1 .. Len(records) :
          records[i].frame = i /\ records[i].position = (i - 1) * FrameSamples

\* A change of the background, the Settle samples from it on, and the
\* lead-in of Depth frames before it.
NearChange(i) ==
    \E j \in 1 .. Len(changes) :
        changes[j] /\ j <= i + Depth /\ (i < j \/ (i - j) * FrameSamples < Settle)

\* What is sent is exactly the sound near a change: of each change the whole
\* lead-in, then everything until it has settled, and nothing else.  The two
\* ends of the line alone decide on a frame, and between them, that is among
\* the frames that wait in the line, a change must not go unnoticed.
SoundIsSentAroundChanges ==
    enabled => \A i \in 1 .. Len(records) : records[i].quiet <=> ~NearChange(i)
=============================================================================
