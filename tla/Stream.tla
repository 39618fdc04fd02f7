------------------------------- MODULE Stream -------------------------------
(***************************************************************************)
(* internal/stream: one source at a time, fanned out to any number of      *)
(* listeners, each with a bounded queue.                                   *)
(*                                                                         *)
(* Stream.mu is taken for writing by every operation that changes state.   *)
(* What such an operation does before its loop over the listeners is one   *)
(* action; the loop is then run one select of queue.Offer at a time, while *)
(* the goroutines that read the listeners' channels, which need no lock,   *)
(* go on receiving.  The lock is held exactly while `todo' is not empty.   *)
(*                                                                         *)
(* Positions count frames, not samples, and suppressed time is counted in  *)
(* frames too: a session has one format, so the two differ by a factor.    *)
(* Of a listener's count of drops the model keeps whether it is zero; the  *)
(* stream's own count is the sum over all listeners, past ones included.   *)
(***************************************************************************)
EXTENDS Naturals, Sequences

CONSTANTS
    Listener,       \* the destinations
    NoListener,     \* no destination is being offered a packet
    Format,         \* the formats a source can declare
    NoFormat,       \* a nil *Format, and the zero Format of a packet
    QueueDepth,     \* cap(Listener.packets): 48 in the relay
    MaxEpoch,       \* bound: sessions
    MaxPosition,    \* bound: the last position of a record
    MaxBroadcasts   \* bound: broadcasts, after which nothing is published
                    \* (but sessions can still be opened and released)

ASSUME ListenerAssumption == NoListener \notin Listener
ASSUME FormatAssumption == NoFormat \notin Format
ASSUME QueueDepthAssumption == QueueDepth \in Nat \ {0}
ASSUME BoundAssumption ==
    MaxEpoch \in Nat /\ MaxPosition \in Nat /\ MaxBroadcasts \in Nat

VARIABLES
    source,         \* the format of the live source, or NoFormat
    current,        \* the state a new listener of a sparse session is given
    suppressed,     \* frames of declared silence that were never sent
    published,      \* audio frames accepted from sources
    listeners,      \* the attached listeners
    packets,        \* the channel of each listener
    held,           \* the last packet each listener's goroutine received
    dropped,        \* the listeners whose count of drops is not zero
    outgoing,       \* the packet the lock holder is delivering
    todo,           \* the listeners it has not delivered to yet
    offering,       \* the listener whose queue was found full, if any
    select,         \* the select of queue.Offer to run next
    broadcasts      \* how many packets were broadcast (for MaxBroadcasts)

registry == <<listeners, dropped>>
channels == <<packets, held>>
delivery == <<outgoing, todo, offering, select>>
session == <<source, current, suppressed, published>>
vars == <<session, registry, channels, delivery, broadcasts>>

(***************************************************************************)
(* A packet.  A frame is represented by the format it was encoded in, and  *)
(* no frame (an empty slice) by NoFormat.                                  *)
(***************************************************************************)
Packet ==
    [format: Format \cup {NoFormat}, frame: Format \cup {NoFormat}, position: Nat,
     epoch: Nat, state: {"", "live", "quiet", "waiting"}, sparse: BOOLEAN]

EmptyPacket ==
    [format |-> NoFormat, frame |-> NoFormat, position |-> 0,
     epoch |-> 0, state |-> "", sparse |-> FALSE]

TypeOK ==
    /\ source \in Format \cup {NoFormat}
    /\ current \in Packet
    /\ suppressed \in Nat
    /\ published \in Nat
    /\ listeners \subseteq Listener
    /\ packets \in [Listener -> Seq(Packet)]
    /\ \A l \in Listener : Len(packets[l]) <= QueueDepth
    /\ held \in [Listener -> Packet]
    /\ dropped \subseteq Listener
    /\ outgoing \in Packet
    /\ todo \subseteq Listener
    /\ offering \in todo \cup {NoListener}
    /\ select \in 1..3
    /\ broadcasts \in Nat

Init ==
    /\ source = NoFormat
    /\ current = EmptyPacket
    /\ suppressed = 0
    /\ published = 0
    /\ listeners = {}
    /\ packets = [l \in Listener |-> <<>>]
    /\ held = [l \in Listener |-> EmptyPacket]
    /\ dropped = {}
    /\ outgoing = EmptyPacket
    /\ todo = {}
    /\ offering = NoListener
    /\ select = 1
    /\ broadcasts = 0

\* The write lock can be taken: nobody is in the loop over the listeners.
Unlocked == todo = {}

\* Start the loop "for listener := range s.listeners" with packet p.
Broadcast(p) ==
    /\ broadcasts' = broadcasts + 1
    /\ outgoing' = p
    /\ todo' = listeners
    /\ UNCHANGED <<offering, select>>

-----------------------------------------------------------------------------
(***************************************************************************)
(* The operations of the source side.                                      *)
(***************************************************************************)

\* The state of a session that opens; mutated, it keeps the last epoch.
OpenedSameEpoch(f, sparse) ==
    [format |-> f, frame |-> NoFormat, position |-> 0, epoch |-> current.epoch,
     state |-> "live", sparse |-> sparse]

Opened(f, sparse) ==
    [format |-> f, frame |-> NoFormat, position |-> 0, epoch |-> current.epoch + 1,
     state |-> "live", sparse |-> sparse]

\* acquire mutated: listeners are not told that a sparse session opened.
AcquireSilently(f, sparse) ==
    /\ Unlocked
    /\ source = NoFormat
    /\ current.epoch < MaxEpoch
    /\ source' = f
    /\ current' = Opened(f, sparse)
    /\ UNCHANGED <<suppressed, published, registry, channels, delivery, broadcasts>>

\* AcquireSource and AcquireSparseSource.  They return false, and change
\* nothing, while another source holds the stream.
acquire(f, sparse) ==
    /\ Unlocked
    /\ source = NoFormat
    /\ current.epoch < MaxEpoch
    /\ source' = f
    /\ current' = Opened(f, sparse)
    /\ IF sparse THEN Broadcast(current') ELSE UNCHANGED <<delivery, broadcasts>>
    /\ UNCHANGED <<suppressed, published, registry, channels>>

\* The state between sessions.
Closed == [EmptyPacket EXCEPT !.epoch = current.epoch, !.state = "waiting"]

\* ReleaseSource mutated: listeners are not told that the session is over.
ReleaseSilently ==
    /\ Unlocked
    /\ source # NoFormat \/ broadcasts < MaxBroadcasts
    /\ source' = NoFormat
    /\ current' = Closed
    /\ broadcasts' = broadcasts + 1
    /\ UNCHANGED <<suppressed, published, registry, channels, delivery>>

ReleaseSource ==
    /\ Unlocked
    /\ source # NoFormat \/ broadcasts < MaxBroadcasts
    /\ source' = NoFormat
    /\ current' = Closed
    /\ Broadcast(current')
    /\ UNCHANGED <<suppressed, published, registry, channels>>

\* The silence that ends at position: only a quiet session suppresses frames.
\* Mutated, it does not look at the state.
GapAlways(position) ==
    IF position > current.position THEN position - current.position ELSE 0

Gap(position) ==
    IF current.state = "quiet" /\ position > current.position
    THEN position - current.position ELSE 0

\* The packet of a record: a record without a frame is a quiet one.
Published(position, frame) ==
    [format |-> source, frame |-> frame, position |-> position, epoch |-> current.epoch,
     state |-> IF frame = NoFormat THEN "quiet" ELSE "live", sparse |-> current.sparse]

WithoutFrame(p) == [p EXCEPT !.frame = NoFormat]

\* publish; when no source holds the stream it returns without effect.
publish(position, frame) ==
    /\ Unlocked
    /\ source # NoFormat
    /\ broadcasts < MaxBroadcasts
    /\ suppressed' = suppressed + Gap(position)
    /\ published' = published + (IF frame = NoFormat THEN 0 ELSE 1)
    /\ current' = WithoutFrame(Published(position, frame))
    /\ Broadcast(Published(position, frame))
    /\ UNCHANGED <<source, registry, channels>>

\* A legacy frame follows the previous one in the timeline.
Publish(frame) == publish(current.position + 1, frame)

PublishRecord(position, frame) == publish(position, frame)

-----------------------------------------------------------------------------
(***************************************************************************)
(* The listener side.  A listener of the model that was detached may be    *)
(* attached again: that is a new Listener of the code, with a new channel. *)
(***************************************************************************)
Attach(l) ==
    /\ Unlocked
    /\ l \notin listeners
    /\ listeners' = listeners \cup {l}
    /\ packets' = [packets EXCEPT ![l] = <<>>]
    /\ held' = [held EXCEPT ![l] = EmptyPacket]
    /\ dropped' = dropped \ {l}
    /\ IF source # NoFormat /\ current.sparse
         THEN outgoing' = current /\ todo' = {l} /\ UNCHANGED <<offering, select>>
         ELSE UNCHANGED delivery
    /\ UNCHANGED <<session, broadcasts>>

\* Detach mutated: it does not wait for the lock.
DetachUnlocked(l) ==
    /\ l \in listeners
    /\ listeners' = listeners \ {l}
    /\ packets' = [packets EXCEPT ![l] = <<>>]
    /\ held' = [held EXCEPT ![l] = EmptyPacket]
    /\ UNCHANGED <<session, dropped, delivery, broadcasts>>

\* Detach closes the channel.  It is deferred by the goroutine that reads
\* the channel, so what the channel still holds is never received.  A second
\* Detach returns without effect.
Detach(l) ==
    /\ Unlocked
    /\ l \in listeners
    /\ listeners' = listeners \ {l}
    /\ packets' = [packets EXCEPT ![l] = <<>>]
    /\ held' = [held EXCEPT ![l] = EmptyPacket]
    /\ UNCHANGED <<session, dropped, delivery, broadcasts>>

\* The listener's goroutine receives from its channel, without the lock.
Receive(l) ==
    /\ l \in listeners
    /\ packets[l] # <<>>
    /\ held' = [held EXCEPT ![l] = Head(packets[l])]
    /\ packets' = [packets EXCEPT ![l] = Tail(@)]
    /\ UNCHANGED <<session, registry, delivery, broadcasts>>

-----------------------------------------------------------------------------
\* A mutated form: the queue takes one packet more than its depth.
HasRoomOffByOne(l) == Len(packets[l]) <= QueueDepth

(***************************************************************************)
(* deliver: queue.Offer of the outgoing packet, one select at a time (see  *)
(* module Queue), and the counting of a false result.                      *)
(***************************************************************************)
HasRoom(l) == Len(packets[l]) < QueueDepth

DeliverSend(l) ==
    /\ l \in todo
    /\ offering = NoListener
    /\ HasRoom(l)
    /\ packets' = [packets EXCEPT ![l] = Append(@, outgoing)]
    /\ todo' = todo \ {l}
    /\ UNCHANGED <<session, registry, held, outgoing, offering, select, broadcasts>>

DeliverFull(l) ==
    /\ l \in todo
    /\ offering = NoListener
    /\ ~HasRoom(l)
    /\ offering' = l
    /\ select' = 2
    /\ UNCHANGED <<session, registry, channels, outgoing, todo, broadcasts>>

\* The second select mutated: it has no default branch.
EvictWithoutDefault ==
    /\ select = 2
    /\ packets[offering] # <<>>
    /\ packets' = [packets EXCEPT ![offering] = Tail(@)]
    /\ select' = 3
    /\ UNCHANGED <<session, registry, held, outgoing, todo, offering, broadcasts>>

DeliverEvict ==
    /\ select = 2
    /\ packets' = [packets EXCEPT ![offering] = IF @ = <<>> THEN @ ELSE Tail(@)]
    /\ select' = 3
    /\ UNCHANGED <<session, registry, held, outgoing, todo, offering, broadcasts>>

\* deliver mutated: it counts a drop only when the third select fails too.
ResendUncounted ==
    /\ select = 3
    /\ packets' = [packets EXCEPT ![offering] =
                       IF HasRoom(offering) THEN Append(@, outgoing) ELSE @]
    /\ dropped' = IF HasRoom(offering) THEN dropped ELSE dropped \cup {offering}
    /\ todo' = todo \ {offering}
    /\ offering' = NoListener
    /\ select' = 1
    /\ UNCHANGED <<session, listeners, held, outgoing, broadcasts>>

DeliverResend ==
    /\ select = 3
    /\ packets' = [packets EXCEPT ![offering] =
                       IF HasRoom(offering) THEN Append(@, outgoing) ELSE @]
    /\ dropped' = dropped \cup {offering}
    /\ todo' = todo \ {offering}
    /\ offering' = NoListener
    /\ select' = 1
    /\ UNCHANGED <<session, listeners, held, outgoing, broadcasts>>

deliver ==
    \/ \E l \in Listener : DeliverSend(l) \/ DeliverFull(l)
    \/ DeliverEvict
    \/ DeliverResend

-----------------------------------------------------------------------------
\* The relay publishes records to sparse sessions and frames to legacy ones,
\* encoded in the format of the source; otherwise the callers are arbitrary.
Next ==
    \/ \E f \in Format, sparse \in BOOLEAN : acquire(f, sparse)
    \/ ReleaseSource
    \/ ~current.sparse /\ current.position <= MaxPosition /\ Publish(source)
    \/ \E position \in 0..MaxPosition, frame \in {source, NoFormat} :
          current.sparse /\ PublishRecord(position, frame)
    \/ \E l \in Listener : Attach(l) \/ Detach(l) \/ Receive(l)
    \/ deliver

(***************************************************************************)
(* The goroutine that holds the lock is runnable, and eventually runs its  *)
(* next select.  Nothing is assumed of the callers or of the readers.      *)
(***************************************************************************)
Spec == Init /\ [][Next]_vars /\ WF_vars(deliver)

-----------------------------------------------------------------------------
\* A packet is never sent on a closed channel, which would panic: Detach
\* cannot close the queue of a listener the loop has yet to reach.
NoSendOnClosedChannel == todo \subseteq listeners

\* The newest packet a listener has or will get.
Newest(l) ==
    IF packets[l] = <<>> THEN held[l] ELSE packets[l][Len(packets[l])]

\* However far behind it fell, a listener that drains its queue ends up with
\* the state the stream is in.  The only exception is a legacy session, which
\* is not announced before its first frame: there it may have nothing yet, or
\* the "waiting" of an earlier session.
ListenersLearnTheState ==
    \A l \in listeners \ todo :
        \/ WithoutFrame(Newest(l)) = current
        \/ /\ ~current.sparse
           /\ \/ Newest(l) = EmptyPacket
              \/ Newest(l).state = "waiting" /\ Newest(l).epoch < current.epoch

\* q may follow p in what one listener receives: sessions come in order, a
\* session that was declared over stays over, and its format never changes.
MayFollow(p, q) ==
    /\ p.epoch <= q.epoch
    /\ p.epoch = q.epoch /\ p.state = "waiting" => q.state = "waiting"
    /\ p.epoch = q.epoch /\ p.state # "" /\ q.state # "waiting" =>
          p.format = q.format /\ p.sparse = q.sparse

\* No drop, join, source change or interleaving lets a listener receive
\* packets of two sessions out of order.
SessionsInOrder ==
    \A l \in listeners :
        /\ \A i \in 1..Len(packets[l]) : MayFollow(held[l], packets[l][i])
        /\ \A i, j \in 1..Len(packets[l]) :
              i < j => MayFollow(packets[l][i], packets[l][j])

\* The packet a listener gets right after p, if nothing was dropped between.
Follows(p, q) ==
    p.state = "live" /\ ~p.sparse =>
        q.epoch = p.epoch /\ (q.state = "waiting" \/ q.position = p.position + 1)

\* A listener that has counted no drop has an unbroken backlog: every frame of
\* a legacy session since its first, and the end of the session.
GapsAreCounted ==
    \A l \in listeners \ (dropped \cup {offering}) :
        /\ packets[l] # <<>> => Follows(held[l], packets[l][1])
        /\ \A i \in 1..(Len(packets[l]) - 1) : Follows(packets[l][i], packets[l][i + 1])

\* "One stalled destination can never delay the source": a broadcast ends
\* even if no listener ever receives.
BroadcastEnds == todo # {} ~> todo = {}
=============================================================================
