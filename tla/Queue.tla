------------------------------- MODULE Queue -------------------------------
(***************************************************************************)
(* internal/queue: the project's backpressure policy.  Offer puts an item  *)
(* on a buffered channel and discards the oldest item rather than blocking *)
(* its producer.  It is three non-blocking selects, and the receiver of    *)
(* the channel may take items between any two of them, so each select is   *)
(* an action of its own here.                                              *)
(*                                                                         *)
(* Every caller is the only producer of its channel (the stream offers     *)
(* under its mutex, each capture stage is one goroutine), and each channel *)
(* has one reader; items are numbered in the order they are offered.       *)
(***************************************************************************)
EXTENDS Naturals, Sequences

CONSTANTS
    Capacity,   \* cap(queue): 16 for the capture queues, 48 for a listener
    MaxItems    \* bound: how many items the producer offers

ASSUME CapacityAssumption == Capacity \in Nat \ {0}
ASSUME MaxItemsAssumption == MaxItems \in Nat

VARIABLES
    queue,      \* the channel's buffer, oldest item first
    select,     \* the select statement of Offer to run next; 1 between calls
    item,       \* the item of the current call, or of the last one
    taken,      \* the last item the reader received; 0 before the first
    received,   \* how many items the reader received
    discarded,  \* how many items the second select threw away
    reported    \* how many calls returned false: what the caller counts

queueVars == <<queue, select, item, taken, received, discarded, reported>>

QueueTypeOK ==
    /\ queue \in Seq(1..MaxItems)
    /\ Len(queue) <= Capacity
    /\ select \in 1..3
    /\ item \in 0..MaxItems
    /\ taken \in 0..MaxItems
    /\ received \in Nat
    /\ discarded \in Nat
    /\ reported \in Nat

QueueInit ==
    /\ queue = <<>>
    /\ select = 1
    /\ item = 0
    /\ taken = 0
    /\ received = 0
    /\ discarded = 0
    /\ reported = 0

\* A mutated form: a buffer that takes one item more than its capacity.
HasRoomOffByOne == Len(queue) <= Capacity

(***************************************************************************)
(* A send on a buffered channel is ready when the buffer has room.         *)
(***************************************************************************)
HasRoom == Len(queue) < Capacity

\* The first select with its send ready: the call returns true at once.
OfferSend ==
    /\ select = 1
    /\ item < MaxItems
    /\ HasRoom
    /\ item' = item + 1
    /\ queue' = Append(queue, item + 1)
    /\ UNCHANGED <<select, taken, received, discarded, reported>>

\* The first select takes its default branch.
OfferFull ==
    /\ select = 1
    /\ item < MaxItems
    /\ ~HasRoom
    /\ item' = item + 1
    /\ select' = 2
    /\ UNCHANGED <<queue, taken, received, discarded, reported>>

(***************************************************************************)
(* Mutated forms of the second select: one without its default branch,     *)
(* which waits for an item, one that empties the queue, and one that makes *)
(* room at the wrong end.                                                  *)
(***************************************************************************)
EvictNewest ==
    /\ select = 2
    /\ queue' = IF queue = <<>> THEN queue ELSE SubSeq(queue, 1, Len(queue) - 1)
    /\ discarded' = IF queue = <<>> THEN discarded ELSE discarded + 1
    /\ select' = 3
    /\ UNCHANGED <<item, taken, received, reported>>

EvictWithoutDefault ==
    /\ select = 2
    /\ queue # <<>>
    /\ queue' = Tail(queue)
    /\ discarded' = discarded + 1
    /\ select' = 3
    /\ UNCHANGED <<item, taken, received, reported>>

EvictAll ==
    /\ select = 2
    /\ queue' = <<>>
    /\ discarded' = discarded + 1
    /\ select' = 3
    /\ UNCHANGED <<item, taken, received, reported>>

\* The second select: take the oldest item, or find that the reader drained
\* the queue in the meantime and take nothing.
OfferEvict ==
    /\ select = 2
    /\ \/ /\ queue # <<>>
          /\ queue' = Tail(queue)
          /\ discarded' = discarded + 1
       \/ /\ queue = <<>>
          /\ UNCHANGED <<queue, discarded>>
    /\ select' = 3
    /\ UNCHANGED <<item, taken, received, reported>>

(***************************************************************************)
(* Mutated forms of the third select: forgotten altogether, or returning   *)
(* true when its send succeeded.                                           *)
(***************************************************************************)
ResendForgotten ==
    /\ select = 3
    /\ reported' = reported + 1
    /\ select' = 1
    /\ UNCHANGED <<queue, item, taken, received, discarded>>

ResendReturnsTrue ==
    /\ select = 3
    /\ queue' = IF HasRoom THEN Append(queue, item) ELSE queue
    /\ select' = 1
    /\ UNCHANGED <<item, taken, received, discarded, reported>>

\* The third select, and the return of false.
OfferResend ==
    /\ select = 3
    /\ queue' = IF HasRoom THEN Append(queue, item) ELSE queue
    /\ reported' = reported + 1
    /\ select' = 1
    /\ UNCHANGED <<item, taken, received, discarded>>

\* The reader of the channel, at any moment.
Receive ==
    /\ queue # <<>>
    /\ taken' = Head(queue)
    /\ received' = received + 1
    /\ queue' = Tail(queue)
    /\ UNCHANGED <<select, item, discarded, reported>>

QueueNext == OfferSend \/ OfferFull \/ OfferEvict \/ OfferResend \/ Receive

(***************************************************************************)
(* A goroutine inside Offer is runnable, so its next select is eventually  *)
(* run.  Nothing is assumed of the reader: a stalled destination may never *)
(* receive again.                                                          *)
(***************************************************************************)
QueueSpec == QueueInit /\ [][QueueNext]_queueVars /\ WF_queueVars(OfferEvict) /\ WF_queueVars(OfferResend)

-----------------------------------------------------------------------------
\* The newest item whose Offer has got past its sends.
Newest == IF select = 1 THEN item ELSE item - 1

\* The queue always holds the newest items offered, contiguous and in order:
\* drops leave no hole between two items of the queue, whatever the reader
\* took between the selects of queue.Offer.
WindowIsNewest ==
    \A i \in DOMAIN queue : queue[i] + Len(queue) = Newest + i

\* An item offered is never lost in favour of an older one: when Offer is
\* between calls the newest item is in the queue or is the one the reader
\* received last ("the newest audio is the only audio anyone wants").
NewestSurvives ==
    select = 1 /\ queue = <<>> => taken = item

\* Every item offered was received, is in the queue, or was discarded by the
\* second select: the failing branch of the third select is never taken.
NothingVanishes ==
    Newest = received + Len(queue) + discarded

\* Every discarded item is one call that returned false, so a caller that
\* counts false results never under-counts its drops.
EveryDiscardIsReported ==
    discarded <= reported + (IF select = 3 THEN 1 ELSE 0)

\* What queue.go says of Offer: it discards "to make room when the queue is
\* full".  The reader may have made the room already.
DiscardsOnlyWhenFull ==
    [][discarded' > discarded => ~HasRoom]_queueVars

\* Offer "never blocks": whatever the reader does or fails to do, a call that
\* found the queue full returns.
OfferReturns == select # 1 ~> select = 1
=============================================================================
