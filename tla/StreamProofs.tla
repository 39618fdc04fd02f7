---------------------------- MODULE StreamProofs ----------------------------
(***************************************************************************)
(* The safety properties of internal/stream, and of the TCP sources that   *)
(* drive it, hold for any listeners, any connections, any formats, any     *)
(* queue depth and any bounds, whatever the interleaving of the sources,   *)
(* the joins and leaves, the three selects of queue.Offer and the readers  *)
(* of the queues.                                                          *)
(*                                                                         *)
(* The invariants of Stream speak of one listener's backlog: the packet it *)
(* holds and the packets queued behind it.  The first part of this module  *)
(* states what appending to a backlog, receiving from it and evicting from *)
(* it preserve, for any packets.  The second part applies those lemmas to  *)
(* each action.  The third part is about module Ingest: how connections    *)
(* agree with the stream, how positions rise in every backlog, and what a  *)
(* request to /stats of module Stats reads meanwhile.                      *)
(***************************************************************************)
EXTENDS Stats, FiniteSetTheorems, Integers, TLAPS

-----------------------------------------------------------------------------
\* What an append to the buffer of a channel leaves.
LEMMA AppendFacts ==
  ASSUME NEW S, NEW q \in Seq(S), NEW e \in S
  PROVE  /\ Append(q, e) \in Seq(S)
         /\ Append(q, e) # <<>>
         /\ Len(q) \in Nat
         /\ Len(Append(q, e)) = Len(q) + 1
         /\ \A k \in 1..Len(q) : Append(q, e)[k] = q[k]
         /\ Append(q, e)[Len(q) + 1] = e
  OBVIOUS

\* What a receive from the buffer of a channel leaves.
LEMMA TailFacts ==
  ASSUME NEW S, NEW q \in Seq(S), q # <<>>
  PROVE  /\ Tail(q) \in Seq(S)
         /\ Len(q) \in Nat \ {0}
         /\ Len(Tail(q)) = Len(q) - 1
         /\ \A k \in 1..(Len(q) - 1) : Tail(q)[k] = q[k + 1]
         /\ Head(q) = q[1]
         /\ Head(q) \in S
  OBVIOUS

\* The elements of a sequence, as an index range.
LEMMA ElementFacts ==
  ASSUME NEW S, NEW q \in Seq(S)
  PROVE  /\ Len(q) \in Nat
         /\ \A k \in 1..Len(q) : q[k] \in S
         /\ q = <<>> <=> Len(q) = 0
  OBVIOUS

-----------------------------------------------------------------------------
\* q may follow p, and only the empty packet precedes one without a state.
Precedes(p, q) == MayFollow(p, q) /\ (q.state = "" => p.state = "")

\* A backlog whose packets come in order and precede the state cur.
Ordered(h, q, cur) ==
    /\ Precedes(h, cur)
    /\ \A i \in 1..Len(q) : Precedes(q[i], cur)
    /\ \A i \in 1..Len(q) : Precedes(h, q[i])
    /\ \A i, j \in 1..Len(q) : i < j => Precedes(q[i], q[j])

\* A backlog in which no packet is missing.
Unbroken(h, q) ==
    /\ q # <<>> => Follows(h, q[1])
    /\ \A i \in 1..(Len(q) - 1) : Follows(q[i], q[i + 1])

\* The last packet of a backlog.
Last(h, q) == IF q = <<>> THEN h ELSE q[Len(q)]

\* Precedes compares everything but the frame and the position.
SameSession(p, q) ==
    /\ p.epoch = q.epoch
    /\ p.state = q.state
    /\ p.format = q.format
    /\ p.sparse = q.sparse

\* Precedes is transitive.
LEMMA PrecedesTransitive ==
  ASSUME NEW p \in Packet, NEW q \in Packet, NEW r \in Packet,
         Precedes(p, q), Precedes(q, r)
  PROVE  Precedes(p, r)
<1>1. p.epoch \in Nat /\ q.epoch \in Nat /\ r.epoch \in Nat
  BY DEF Packet
<1>2. p.epoch <= q.epoch /\ q.epoch <= r.epoch
  BY DEF Precedes, MayFollow
<1>3. p.epoch <= r.epoch /\ (p.epoch = r.epoch => p.epoch = q.epoch /\ q.epoch = r.epoch)
  BY <1>1, <1>2
<1> QED BY <1>3 DEF Precedes, MayFollow

\* A packet that precedes the state cur precedes any packet in that state.
LEMMA PrecedesSame ==
  ASSUME NEW p, NEW q, NEW cur, Precedes(p, cur), SameSession(q, cur)
  PROVE  Precedes(p, q)
  BY DEF Precedes, MayFollow, SameSession

\* A state precedes itself.
LEMMA PrecedesItself ==
  ASSUME NEW q, NEW cur \in Packet, SameSession(q, cur)
  PROVE  Precedes(q, cur)
<1>1. cur.epoch \in Nat /\ q.epoch = cur.epoch
  BY DEF Packet, SameSession
<1>2. q.epoch <= cur.epoch
  BY <1>1
<1> QED BY <1>2, Zenon DEF Precedes, MayFollow, SameSession

\* Appending a packet in the state cur keeps a backlog in order.
LEMMA OrderedAppend ==
  ASSUME NEW h \in Packet, NEW q \in Seq(Packet), NEW p \in Packet, NEW cur \in Packet,
         Ordered(h, q, cur), SameSession(p, cur)
  PROVE  Ordered(h, Append(q, p), cur)
<1> DEFINE a == Append(q, p)
           n == Len(q)
<1>1. n \in Nat /\ Len(a) = n + 1 /\ a[n + 1] = p /\ \A k \in 1..n : a[k] = q[k]
  BY AppendFacts
<1>2. Precedes(p, cur) /\ Precedes(h, p)
  BY PrecedesItself, PrecedesSame DEF Ordered
<1>3. \A k \in 1..n : Precedes(q[k], cur) /\ Precedes(q[k], p) /\ Precedes(h, q[k])
  BY PrecedesSame DEF Ordered
<1>4. \A i, j \in 1..n : i < j => Precedes(q[i], q[j])
  BY DEF Ordered
<1> HIDE DEF a, n
<1>5. \A i \in 1..(n + 1) : Precedes(a[i], cur) /\ Precedes(h, a[i])
  <2> TAKE i \in 1..(n + 1)
  <2>1. CASE i = n + 1
    BY <2>1, <1>1, <1>2
  <2>2. CASE i \in 1..n
    BY <2>2, <1>1, <1>3
  <2> QED BY <1>1, <2>1, <2>2
<1>6. \A i, j \in 1..(n + 1) : i < j => Precedes(a[i], a[j])
  <2> SUFFICES ASSUME NEW i \in 1..(n + 1), NEW j \in 1..(n + 1), i < j
               PROVE  Precedes(a[i], a[j])
    OBVIOUS
  <2>1. i \in 1..n
    BY <1>1
  <2>2. CASE j = n + 1
    BY <2>1, <2>2, <1>1, <1>3
  <2>3. CASE j \in 1..n
    BY <2>1, <2>3, <1>1, <1>4
  <2> QED BY <1>1, <2>2, <2>3
<1>7. Precedes(h, cur)
  BY DEF Ordered
<1> QED BY <1>1, <1>5, <1>6, <1>7 DEF Ordered, a

\* Receiving from a backlog, or evicting its oldest queued packet, keeps it in
\* order.
LEMMA OrderedTail ==
  ASSUME NEW h \in Packet, NEW q \in Seq(Packet), NEW cur, q # <<>>, Ordered(h, q, cur)
  PROVE  Ordered(Head(q), Tail(q), cur) /\ Ordered(h, Tail(q), cur)
<1> DEFINE t == Tail(q)
           n == Len(q)
<1>1. n \in Nat \ {0} /\ Len(t) = n - 1 /\ Head(q) = q[1]
      /\ \A k \in 1..(n - 1) : t[k] = q[k + 1]
  BY TailFacts
<1>2. \A k \in 1..n : Precedes(q[k], cur) /\ Precedes(h, q[k])
  BY DEF Ordered
<1>3. \A i, j \in 1..n : i < j => Precedes(q[i], q[j])
  BY DEF Ordered
<1>4. Precedes(h, cur)
  BY DEF Ordered
<1> HIDE DEF t, n
<1>5. \A i \in 1..(n - 1) : Precedes(t[i], cur) /\ Precedes(h, t[i]) /\ Precedes(q[1], t[i])
  <2> TAKE i \in 1..(n - 1)
  <2>1. i + 1 \in 1..n /\ 1 \in 1..n /\ 1 < i + 1 /\ t[i] = q[i + 1]
    BY <1>1
  <2> QED BY <2>1, <1>2, <1>3
<1>6. \A i, j \in 1..(n - 1) : i < j => Precedes(t[i], t[j])
  <2> SUFFICES ASSUME NEW i \in 1..(n - 1), NEW j \in 1..(n - 1), i < j
               PROVE  Precedes(t[i], t[j])
    OBVIOUS
  <2>1. i + 1 \in 1..n /\ j + 1 \in 1..n /\ i + 1 < j + 1 /\ t[i] = q[i + 1] /\ t[j] = q[j + 1]
    BY <1>1
  <2> QED BY <2>1, <1>3
<1>7. Precedes(q[1], cur)
  BY <1>1, <1>2
<1> QED BY <1>1, <1>4, <1>5, <1>6, <1>7 DEF Ordered, t

\* A backlog that is in order stays so when the stream moves on to a state
\* that may follow.
LEMMA OrderedNewState ==
  ASSUME NEW h \in Packet, NEW q \in Seq(Packet), NEW cur \in Packet, NEW next \in Packet,
         Ordered(h, q, cur), Precedes(cur, next)
  PROVE  Ordered(h, q, next)
<1>1. \A k \in 1..Len(q) : q[k] \in Packet
  BY ElementFacts
<1> QED BY <1>1, PrecedesTransitive DEF Ordered

\* Appending the packet that follows the last one keeps a backlog unbroken.
LEMMA UnbrokenAppend ==
  ASSUME NEW h, NEW q \in Seq(Packet), NEW p \in Packet,
         Unbroken(h, q), Follows(Last(h, q), p)
  PROVE  Unbroken(h, Append(q, p))
<1> DEFINE a == Append(q, p)
           n == Len(q)
<1>1. n \in Nat /\ Len(a) = n + 1 /\ a[n + 1] = p /\ \A k \in 1..n : a[k] = q[k]
  BY AppendFacts
<1>2. q = <<>> <=> n = 0
  BY ElementFacts
<1>3. /\ n # 0 => Follows(h, q[1]) /\ Follows(q[n], p)
      /\ n = 0 => Follows(h, p)
      /\ \A i \in 1..(n - 1) : Follows(q[i], q[i + 1])
  BY <1>2 DEF Unbroken, Last
<1> HIDE DEF a, n
<1>4. Follows(h, a[1])
  BY <1>1, <1>3
<1>5. \A i \in 1..n : Follows(a[i], a[i + 1])
  <2> TAKE i \in 1..n
  <2>1. CASE i = n
    BY <2>1, <1>1, <1>3
  <2>2. CASE i \in 1..(n - 1)
    <3>1. i + 1 \in 1..n
      BY <1>1, <2>2
    <3> QED BY <2>2, <3>1, <1>1, <1>3
  <2> QED BY <1>1, <2>1, <2>2
<1> QED BY <1>1, <1>4, <1>5 DEF Unbroken, a

\* Receiving keeps a backlog unbroken.
LEMMA UnbrokenTail ==
  ASSUME NEW h, NEW q \in Seq(Packet), q # <<>>, Unbroken(h, q)
  PROVE  Unbroken(Head(q), Tail(q))
<1> DEFINE t == Tail(q)
           n == Len(q)
<1>1. n \in Nat \ {0} /\ Len(t) = n - 1 /\ Head(q) = q[1] /\ t \in Seq(Packet)
      /\ \A k \in 1..(n - 1) : t[k] = q[k + 1]
  BY TailFacts
<1>2. t = <<>> <=> n = 1
  BY <1>1, ElementFacts
<1>3. \A i \in 1..(n - 1) : Follows(q[i], q[i + 1])
  BY DEF Unbroken
<1> HIDE DEF t, n
<1>4. t # <<>> => Follows(q[1], t[1])
  BY <1>1, <1>2, <1>3
<1>5. \A i \in 1..(n - 2) : Follows(t[i], t[i + 1])
  <2> TAKE i \in 1..(n - 2)
  <2>1. i \in 1..(n - 1) /\ i + 1 \in 1..(n - 1)
    BY <1>1
  <2> QED BY <2>1, <1>1, <1>3
<1> QED BY <1>1, <1>4, <1>5 DEF Unbroken, t

\* The last packet of a backlog is the one appended last, and receiving does
\* not change it.
LEMMA LastFacts ==
  ASSUME NEW h \in Packet, NEW q \in Seq(Packet), NEW p \in Packet
  PROVE  /\ Last(h, Append(q, p)) = p
         /\ q # <<>> => Last(Head(q), Tail(q)) = Last(h, q)
         /\ Last(h, q) \in Packet
<1>1. Last(h, Append(q, p)) = p
  BY AppendFacts DEF Last
<1>2. ASSUME q # <<>> PROVE Last(Head(q), Tail(q)) = Last(h, q)
  <2>1. /\ Len(q) \in Nat \ {0} /\ Len(Tail(q)) = Len(q) - 1 /\ Head(q) = q[1]
        /\ Tail(q) \in Seq(Packet)
        /\ \A k \in 1..(Len(q) - 1) : Tail(q)[k] = q[k + 1]
    BY <1>2, TailFacts
  <2>2. Tail(q) = <<>> <=> Len(q) = 1
    BY <2>1, ElementFacts
  <2>3. CASE Len(q) = 1
    BY <1>2, <2>1, <2>2, <2>3 DEF Last
  <2>4. CASE Len(q) # 1
    <3>1. Len(q) - 1 \in 1..(Len(q) - 1)
      BY <2>1, <2>4
    <3>2. Tail(q)[Len(q) - 1] = q[Len(q)]
      BY <2>1, <3>1
    <3> QED BY <1>2, <2>1, <2>2, <2>4, <3>2 DEF Last
  <2> QED BY <2>3, <2>4
<1>3. Last(h, q) \in Packet
  BY ElementFacts DEF Last
<1> QED BY <1>1, <1>2, <1>3

-----------------------------------------------------------------------------
\* The packets that the operations of the source side build.
LEMMA OpenedFacts ==
  ASSUME TypeOK, NEW f \in Format, NEW sp \in BOOLEAN
  PROVE  /\ Opened(f, sp) \in Packet
         /\ Opened(f, sp).epoch = current.epoch + 1
         /\ Opened(f, sp).state = "live"
         /\ Opened(f, sp).sparse = sp
         /\ Opened(f, sp).format = f
         /\ Opened(f, sp).frame = NoFormat
<1>1. current \in Packet
  BY DEF TypeOK
<1>2. current.epoch \in Nat
  BY <1>1 DEF Packet
<1>3. current.epoch + 1 \in Nat
  BY <1>2
<1> QED BY <1>3 DEF Packet, Opened

LEMMA ClosedFacts ==
  ASSUME TypeOK
  PROVE  /\ Closed \in Packet
         /\ Closed.epoch = current.epoch
         /\ Closed.state = "waiting"
         /\ Closed.sparse = FALSE
         /\ Closed.frame = NoFormat
  BY DEF TypeOK, Packet, Closed, EmptyPacket

LEMMA PublishedFacts ==
  ASSUME TypeOK, NEW position \in Nat, NEW frame \in Format \cup {NoFormat}
  PROVE  /\ Published(position, frame) \in Packet
         /\ Published(position, frame).epoch = current.epoch
         /\ Published(position, frame).state \in {"live", "quiet"}
         /\ Published(position, frame).sparse = current.sparse
         /\ Published(position, frame).format = source
         /\ Published(position, frame).position = position
  BY DEF TypeOK, Packet, Published

LEMMA WithoutFrameFacts ==
  ASSUME NEW p \in Packet
  PROVE  /\ WithoutFrame(p) \in Packet
         /\ WithoutFrame(p).frame = NoFormat
         /\ WithoutFrame(p).position = p.position
         /\ SameSession(p, WithoutFrame(p))
  BY DEF Packet, WithoutFrame, SameSession

LEMMA EmptyFacts ==
  /\ EmptyPacket \in Packet
  /\ EmptyPacket.epoch = 0
  /\ EmptyPacket.state = ""
  BY DEF EmptyPacket, Packet

-----------------------------------------------------------------------------
\* What a listener whose newest packet is p knows of the state cur.
Informed(p, cur) ==
    \/ WithoutFrame(p) = cur
    \/ /\ ~cur.sparse
       /\ \/ p = EmptyPacket
          \/ p.state = "waiting" /\ p.epoch < cur.epoch

\* The source and the state kept for new listeners agree.
SourceState ==
    /\ current.frame = NoFormat
    /\ source = NoFormat => ~current.sparse /\ current.state \in {"", "waiting"}
    /\ source # NoFormat => current.state \in {"live", "quiet"} /\ current.format = source

\* What is being delivered is the state the stream is in.
OutgoingIsCurrent ==
    todo # {} => WithoutFrame(outgoing) = current /\ outgoing.state # ""

\* A second select is run for a listener, and leaves it room.
OfferState ==
    /\ select = 1 <=> offering = NoListener
    /\ select = 3 => Len(packets[offering]) < QueueDepth

\* Only the empty packet has no state, and it is never queued.
Stated(l) ==
    /\ held[l].state = "" => held[l] = EmptyPacket
    /\ \A i \in 1..Len(packets[l]) : packets[l][i].state # ""

\* A listener that has counted no drop misses nothing, and will not by the
\* packet that is on its way.
Complete(l) ==
    /\ Unbroken(held[l], packets[l])
    /\ l \in todo => Follows(Last(held[l], packets[l]), outgoing)

BacklogOK(l) ==
    /\ Ordered(held[l], packets[l], current)
    /\ Stated(l)
    /\ l \notin todo => Informed(Last(held[l], packets[l]), current)
    /\ l \notin dropped /\ l # offering => Complete(l)

\* The inductive invariant.
IInv ==
    /\ TypeOK
    /\ NoSendOnClosedChannel
    /\ SourceState
    /\ OutgoingIsCurrent
    /\ OfferState
    /\ \A l \in listeners : BacklogOK(l)

\* Every initial state satisfies the inductive invariant.
LEMMA InitEstablishesIInv == Init => IInv
<1> SUFFICES ASSUME Init PROVE IInv
  OBVIOUS
<1>1. TypeOK
  <2>1. <<>> \in Seq(Packet) /\ Len(<<>>) <= QueueDepth
    BY QueueDepthAssumption
  <2>2. packets = [l \in Listener |-> <<>>] /\ held = [l \in Listener |-> EmptyPacket]
    BY DEF Init
  <2> DEFINE none == <<>>
  <2> HIDE DEF none
  <2>3. none \in Seq(Packet) /\ Len(none) <= QueueDepth /\ packets = [l \in Listener |-> none]
    BY <2>1, <2>2 DEF none
  <2>4. packets \in [Listener -> Seq(Packet)] /\ held \in [Listener -> Packet]
    BY <2>2, <2>3, EmptyFacts
  <2>5. \A l \in Listener : Len(packets[l]) <= QueueDepth
    BY <2>3
  <2>6. /\ source = NoFormat /\ current = EmptyPacket /\ outgoing = EmptyPacket
        /\ suppressed = 0 /\ published = 0 /\ broadcasts = 0 /\ select = 1
        /\ listeners = {} /\ dropped = {} /\ todo = {} /\ offering = NoListener
    BY DEF Init
  <2>7. /\ source \in Format \cup {NoFormat} /\ current \in Packet /\ outgoing \in Packet
        /\ offering \in todo \cup {NoListener}
    BY <2>6, EmptyFacts, Zenon
  <2>8. listeners \subseteq Listener /\ dropped \subseteq Listener /\ todo \subseteq Listener
    BY <2>6, Zenon
  <2>9. suppressed \in Nat /\ published \in Nat /\ broadcasts \in Nat /\ select \in 1..3
    BY <2>6
  <2> QED BY <2>4, <2>5, <2>7, <2>8, <2>9, Zenon DEF TypeOK
<1>2. SourceState
  BY DEF Init, SourceState, EmptyPacket
<1>3. NoSendOnClosedChannel /\ OutgoingIsCurrent /\ OfferState
  BY DEF Init, NoSendOnClosedChannel, OutgoingIsCurrent, OfferState
<1>4. \A l \in listeners : BacklogOK(l)
  BY DEF Init
<1> QED BY <1>1, <1>2, <1>3, <1>4 DEF IInv

\* A listener that last got a frame of a legacy session is told only what
\* follows it: the session still runs, at that frame.
LEMMA InformedFollower ==
  ASSUME NEW p \in Packet, NEW cur \in Packet, Informed(p, cur), p.state = "live", ~p.sparse
  PROVE  cur.state = "live" /\ ~cur.sparse /\ cur.epoch = p.epoch /\ cur.position = p.position
<1>1. p # EmptyPacket
  BY EmptyFacts
<1>2. WithoutFrame(p) = cur
  BY <1>1 DEF Informed
<1> QED BY <1>2, WithoutFrameFacts DEF SameSession

-----------------------------------------------------------------------------
\* The types of what concerns one listener.
LEMMA TypeFacts ==
  ASSUME TypeOK, NEW l \in Listener
  PROVE  /\ held[l] \in Packet
         /\ packets[l] \in Seq(Packet)
         /\ Len(packets[l]) \in Nat
         /\ Len(packets[l]) <= QueueDepth
         /\ current \in Packet
         /\ outgoing \in Packet
<1>1. packets[l] \in Seq(Packet) /\ held[l] \in Packet /\ Len(packets[l]) <= QueueDepth
  BY DEF TypeOK
<1> QED BY <1>1, ElementFacts DEF TypeOK

\* Changing one queue.
LEMMA UpdateFacts ==
  ASSUME TypeOK, NEW l \in Listener, NEW q \in Seq(Packet), Len(q) <= QueueDepth,
         packets' = [packets EXCEPT ![l] = q]
  PROVE  /\ packets' \in [Listener -> Seq(Packet)]
         /\ \A k \in Listener : Len(packets'[k]) <= QueueDepth
         /\ packets'[l] = q
         /\ \A k \in Listener : k # l => packets'[k] = packets[k]
  BY DEF TypeOK

\* A listener whose backlog a step leaves alone.
LEMMA Untouched ==
  ASSUME NEW l, BacklogOK(l),
         held'[l] = held[l], packets'[l] = packets[l],
         current' = current, l \in todo => outgoing' = outgoing,
         l \in todo' <=> l \in todo,
         l \notin dropped' /\ l # offering' => l \notin dropped /\ l # offering
  PROVE  BacklogOK(l)'
<1>1. Ordered(held[l], packets[l], current)'
  BY DEF BacklogOK, Ordered
<1>2. Stated(l)'
  BY DEF BacklogOK, Stated
<1>3. (l \notin todo => Informed(Last(held[l], packets[l]), current))'
  BY DEF BacklogOK, Last
<1>4. (l \notin dropped /\ l # offering => Complete(l))'
  BY DEF BacklogOK, Complete, Last, Unbroken
<1> QED BY <1>1, <1>2, <1>3, <1>4 DEF BacklogOK

\* A broadcast puts every listener in a state to be delivered to.
LEMMA BroadcastPreserves ==
  ASSUME IInv, TypeOK', SourceState',
         todo = {}, todo' = listeners,
         UNCHANGED <<listeners, packets, held, dropped, offering, select>>,
         Precedes(current, current'),
         WithoutFrame(outgoing') = current', outgoing'.state # "",
         \A l \in listeners : Follows(Last(held[l], packets[l]), outgoing')
  PROVE  IInv'
<1>1. NoSendOnClosedChannel' /\ OutgoingIsCurrent' /\ OfferState'
  BY DEF IInv, NoSendOnClosedChannel, OutgoingIsCurrent, OfferState
<1>2. ASSUME NEW l \in listeners PROVE BacklogOK(l)'
  <2>1. BacklogOK(l) /\ l \in Listener /\ l \in todo'
    BY <1>2 DEF IInv, TypeOK
  <2>2. Ordered(held[l], packets[l], current)'
    <3>1. current' \in Packet /\ current \in Packet
      BY DEF IInv, TypeOK
    <3>2. Ordered(held[l], packets[l], current')
      BY <2>1, <3>1, TypeFacts, OrderedNewState DEF BacklogOK, IInv
    <3> QED BY <3>2 DEF Ordered
  <2>3. Stated(l)'
    BY <2>1 DEF BacklogOK, Stated
  <2>4. (l \notin dropped /\ l # offering => Complete(l))'
    BY <2>1, <1>2 DEF BacklogOK, Complete, Last, Unbroken
  <2> QED BY <2>1, <2>2, <2>3, <2>4 DEF BacklogOK
<1> QED BY <1>1, <1>2 DEF IInv

\* The listeners' newest packets before an operation of the source side.
LEMMA UnlockedFollowers ==
  ASSUME IInv, Unlocked, NEW l \in listeners,
         Last(held[l], packets[l]).state = "live", ~Last(held[l], packets[l]).sparse
  PROVE  /\ current.state = "live" /\ ~current.sparse
         /\ current.epoch = Last(held[l], packets[l]).epoch
         /\ current.position = Last(held[l], packets[l]).position
<1>1. l \in Listener /\ l \notin todo /\ BacklogOK(l) /\ TypeOK
  BY DEF IInv, Unlocked, TypeOK
<1>2. Last(held[l], packets[l]) \in Packet /\ current \in Packet
  BY <1>1, TypeFacts, LastFacts
<1>3. Informed(Last(held[l], packets[l]), current)
  BY <1>1 DEF BacklogOK
<1> QED BY <1>2, <1>3, InformedFollower

-----------------------------------------------------------------------------
\* Epochs grow.
LEMMA NextEpoch == \A e, f \in Nat : f < f + 1 /\ (e < f => e < f + 1)
  OBVIOUS

\* A legacy session that opens after cur is not announced: who knew cur knows
\* at most that an earlier session is over.
LEMMA InformedOfOpened ==
  ASSUME NEW p \in Packet, NEW cur \in Packet, NEW next,
         Informed(p, cur), p.state = "" => p = EmptyPacket,
         cur.state \in {"", "waiting"}, next.epoch = cur.epoch + 1, ~next.sparse
  PROVE  Informed(p, next)
<1>1. p.epoch \in Nat /\ cur.epoch \in Nat
  BY DEF Packet
<1>2. cur.epoch < next.epoch /\ (p.epoch < cur.epoch => p.epoch < next.epoch)
  BY <1>1, NextEpoch, Zenon
<1>3. CASE p = EmptyPacket \/ p.state = ""
  BY <1>3 DEF Informed
<1>4. CASE p.state # "" /\ WithoutFrame(p) = cur
  <2>1. p.state = cur.state /\ p.epoch = cur.epoch
    BY <1>4, WithoutFrameFacts DEF SameSession
  <2>2. p.state = "waiting"
    BY <1>4, <2>1
  <2> QED BY <1>2, <2>1, <2>2 DEF Informed
<1>5. CASE p # EmptyPacket /\ WithoutFrame(p) # cur
  BY <1>2, <1>5 DEF Informed
<1> QED BY <1>3, <1>4, <1>5

\* A session opens: nobody has heard of its epoch.
LEMMA AcquirePreserves ==
  ASSUME IInv, NEW f \in Format, NEW sparse \in BOOLEAN, acquire(f, sparse)
  PROVE  IInv'
<1>1. TypeOK /\ Unlocked /\ source = NoFormat
  BY DEF IInv, acquire
<1>2. current \in Packet /\ current.epoch \in Nat
  BY <1>1 DEF TypeOK, Packet
<1>3. /\ current' \in Packet /\ current'.epoch = current.epoch + 1
      /\ current'.state = "live" /\ current'.sparse = sparse
      /\ current'.format = f /\ current'.frame = NoFormat /\ source' = f
  BY <1>1, OpenedFacts DEF acquire
<1>4. SourceState'
  BY <1>3, FormatAssumption DEF SourceState
<1>5. current.epoch <= current'.epoch /\ current.epoch # current'.epoch
  BY <1>2, <1>3
<1>6. Precedes(current, current')
  BY <1>3, <1>5 DEF Precedes, MayFollow
<1>7. current.state \in {"", "waiting"} /\ ~current.sparse
  BY <1>1 DEF IInv, SourceState
<1>8. UNCHANGED <<listeners, packets, held, dropped, offering, select, suppressed, published>>
  BY DEF acquire, Broadcast, registry, channels, delivery
<1>9. CASE sparse
  <2>1. outgoing' = current' /\ todo' = listeners /\ broadcasts' = broadcasts + 1
    BY <1>9 DEF acquire, Broadcast
  <2>2. offering = NoListener
    BY <1>1 DEF TypeOK, Unlocked
  <2>3. source' \in Format \cup {NoFormat} /\ broadcasts' \in Nat
    BY <1>1, <1>3, <2>1 DEF TypeOK
  <2>4. TypeOK'
    BY <1>1, <1>3, <1>8, <2>1, <2>2, <2>3, Zenon DEF TypeOK
  <2>5. WithoutFrame(outgoing') = current' /\ outgoing'.state # ""
    BY <1>3, <2>1 DEF WithoutFrame, Packet
  <2>6. \A l \in listeners : Follows(Last(held[l], packets[l]), outgoing')
    BY <1>1, <1>7, UnlockedFollowers DEF Follows
  <2> QED BY <1>1, <1>4, <1>6, <1>8, <2>1, <2>4, <2>5, <2>6, BroadcastPreserves DEF Unlocked
<1>10. CASE ~sparse
  <2>1. UNCHANGED <<outgoing, todo, broadcasts>>
    BY <1>10 DEF acquire, delivery
  <2>2. TypeOK'
    BY <1>1, <1>3, <1>8, <2>1, Zenon DEF TypeOK
  <2>3. NoSendOnClosedChannel' /\ OutgoingIsCurrent' /\ OfferState'
    BY <1>1, <1>8, <2>1
       DEF IInv, NoSendOnClosedChannel, OutgoingIsCurrent, OfferState, Unlocked
  <2>4. ASSUME NEW l \in listeners PROVE BacklogOK(l)'
    <3>1. BacklogOK(l) /\ l \in Listener /\ l \notin todo
      BY <1>1, <2>4 DEF IInv, TypeOK, Unlocked
    <3>2. Ordered(held[l], packets[l], current')
      BY <1>1, <1>3, <1>6, <3>1, TypeFacts, OrderedNewState DEF BacklogOK
    <3>3. Stated(l)'
      BY <1>8, <3>1 DEF BacklogOK, Stated
    <3>4. (l \notin dropped /\ l # offering => Complete(l))'
      BY <1>8, <2>1, <3>1 DEF BacklogOK, Complete, Last, Unbroken
    <3> DEFINE p == Last(held[l], packets[l])
    <3>5. p \in Packet /\ Informed(p, current)
      BY <1>1, <3>1, TypeFacts, LastFacts DEF BacklogOK
    <3>6. p.state = "" => p = EmptyPacket
      <4>1. CASE packets[l] = <<>>
        BY <3>1, <4>1 DEF BacklogOK, Stated, Last
      <4>2. CASE packets[l] # <<>>
        <5>1. Len(packets[l]) \in 1..Len(packets[l])
          BY <1>1, <3>1, <4>2, TypeFacts, ElementFacts
        <5> QED BY <3>1, <4>2, <5>1 DEF BacklogOK, Stated, Last
      <4> QED BY <4>1, <4>2
    <3>7. Informed(p, current')
      <4> HIDE DEF p
      <4> QED BY <1>2, <1>3, <1>7, <1>10, <3>5, <3>6, InformedOfOpened
    <3>8. (Informed(Last(held[l], packets[l]), current))'
      BY <1>8, <3>7 DEF Last
    <3>9. Ordered(held[l], packets[l], current)'
      BY <1>8, <3>2 DEF Ordered
    <3> QED BY <3>3, <3>4, <3>8, <3>9 DEF BacklogOK
  <2> QED BY <1>4, <1>8, <2>2, <2>3, <2>4 DEF IInv
<1> QED BY <1>9, <1>10

\* A session closes: "waiting" may follow anything of that session.
LEMMA ReleasePreserves ==
  ASSUME IInv, ReleaseSource
  PROVE  IInv'
<1>1. TypeOK /\ Unlocked
  BY DEF IInv, ReleaseSource
<1>2. current \in Packet /\ current.epoch \in Nat
  BY <1>1 DEF TypeOK, Packet
<1>3. /\ current' \in Packet /\ current'.epoch = current.epoch
      /\ current'.state = "waiting" /\ current'.sparse = FALSE
      /\ current'.frame = NoFormat /\ source' = NoFormat
  BY <1>1, ClosedFacts DEF ReleaseSource
<1>4. SourceState'
  BY <1>3 DEF SourceState
<1>5. current.epoch <= current'.epoch
  BY <1>2, <1>3
<1>6. Precedes(current, current')
  BY <1>3, <1>5 DEF Precedes, MayFollow
<1>7. UNCHANGED <<listeners, packets, held, dropped, offering, select, suppressed, published>>
  BY DEF ReleaseSource, Broadcast, registry, channels
<1>8. outgoing' = current' /\ todo' = listeners /\ broadcasts' = broadcasts + 1
  BY DEF ReleaseSource, Broadcast
<1>9. offering = NoListener
  BY <1>1 DEF TypeOK, Unlocked
<1>10. source' \in Format \cup {NoFormat} /\ broadcasts' \in Nat
  BY <1>1, <1>3, <1>8 DEF TypeOK
<1>11. TypeOK'
  BY <1>1, <1>3, <1>7, <1>8, <1>9, <1>10, Zenon DEF TypeOK
<1>12. WithoutFrame(outgoing') = current' /\ outgoing'.state # ""
  BY <1>3, <1>8 DEF WithoutFrame, Packet
<1>13. \A l \in listeners : Follows(Last(held[l], packets[l]), outgoing')
  BY <1>1, <1>3, <1>8, UnlockedFollowers DEF Follows
<1> QED BY <1>1, <1>4, <1>6, <1>7, <1>8, <1>11, <1>12, <1>13, BroadcastPreserves DEF Unlocked

\* A record or a frame is published: it may follow anything of its session,
\* and in a legacy session it is the next frame.
LEMMA PublishPreserves ==
  ASSUME IInv, NEW position \in Nat, NEW frame \in {source, NoFormat},
         publish(position, frame), current.sparse \/ position = current.position + 1
  PROVE  IInv'
<1>1. TypeOK /\ Unlocked /\ source # NoFormat /\ frame \in Format \cup {NoFormat}
  BY DEF IInv, publish, TypeOK
<1> DEFINE p == Published(position, frame)
<1>2. current \in Packet /\ current.epoch \in Nat /\ current.position \in Nat
  BY <1>1 DEF TypeOK, Packet
<1>3. /\ p \in Packet /\ p.epoch = current.epoch /\ p.state \in {"live", "quiet"}
      /\ p.sparse = current.sparse /\ p.format = source /\ p.position = position
  BY <1>1, PublishedFacts
<1>4. /\ current' = WithoutFrame(p) /\ outgoing' = p /\ todo' = listeners
      /\ broadcasts' = broadcasts + 1
  BY DEF publish, Broadcast
<1> HIDE DEF p
<1>5. current' \in Packet /\ current'.frame = NoFormat /\ SameSession(p, current')
  BY <1>3, <1>4, WithoutFrameFacts
<1>6. UNCHANGED <<source, listeners, packets, held, dropped, offering, select>>
  BY DEF publish, Broadcast, registry, channels
<1>7. current.state \in {"live", "quiet"} /\ current.format = source
  BY <1>1 DEF IInv, SourceState
<1>8. SourceState'
  BY <1>1, <1>3, <1>5, <1>6 DEF SourceState, SameSession
<1>9. current.epoch <= current'.epoch
  BY <1>2, <1>3, <1>5 DEF SameSession
<1>10. Precedes(current, current')
  BY <1>3, <1>5, <1>7, <1>9 DEF Precedes, MayFollow, SameSession
<1>11. offering = NoListener
  BY <1>1 DEF TypeOK, Unlocked
<1>12. suppressed' \in Nat /\ published' \in Nat /\ broadcasts' \in Nat
  <2>1. Gap(position) \in Nat
    BY <1>2 DEF Gap
  <2>2. suppressed \in Nat /\ published \in Nat /\ broadcasts \in Nat
    BY <1>1 DEF TypeOK
  <2> QED BY <1>4, <2>1, <2>2 DEF publish
<1>13. TypeOK'
  BY <1>1, <1>3, <1>4, <1>5, <1>6, <1>11, <1>12, Zenon DEF TypeOK
<1>14. WithoutFrame(outgoing') = current' /\ outgoing'.state # ""
  BY <1>3, <1>4
<1>15. ASSUME NEW l \in listeners PROVE Follows(Last(held[l], packets[l]), outgoing')
  BY <1>1, <1>3, <1>4, <1>15, UnlockedFollowers DEF Follows
<1> QED
  BY <1>1, <1>4, <1>6, <1>8, <1>10, <1>13, <1>14, <1>15, BroadcastPreserves DEF Unlocked

-----------------------------------------------------------------------------
\* A listener joins: it has nothing, and is told of a sparse session.
LEMMA AttachPreserves ==
  ASSUME IInv, NEW l \in Listener, Attach(l)
  PROVE  IInv'
<1>1. TypeOK /\ todo = {} /\ offering = NoListener /\ select = 1 /\ SourceState
  BY DEF IInv, Attach, Unlocked, TypeOK, OfferState
<1>2. current \in Packet /\ current.epoch \in Nat
  BY <1>1 DEF TypeOK, Packet
<1>3. UNCHANGED <<source, current, suppressed, published, broadcasts, offering, select>>
  BY DEF Attach, session, delivery
<1>4. /\ listeners' = listeners \cup {l} /\ l \notin listeners
      /\ dropped' = dropped \ {l}
      /\ held' = [held EXCEPT ![l] = EmptyPacket]
      /\ packets' = [packets EXCEPT ![l] = <<>>]
  BY DEF Attach
<1>5. \/ source # NoFormat /\ current.sparse /\ outgoing' = current /\ todo' = {l}
      \/ ~(source # NoFormat /\ current.sparse) /\ outgoing' = outgoing /\ todo' = {}
  BY <1>1 DEF Attach, delivery
<1>6. /\ packets' \in [Listener -> Seq(Packet)]
      /\ \A k \in Listener : Len(packets'[k]) <= QueueDepth
      /\ packets'[l] = <<>>
      /\ \A k \in Listener : k # l => packets'[k] = packets[k]
  <2>1. <<>> \in Seq(Packet) /\ Len(<<>>) <= QueueDepth
    BY QueueDepthAssumption
  <2> QED BY <1>1, <1>4, <2>1, UpdateFacts
<1>7. /\ held' \in [Listener -> Packet] /\ held'[l] = EmptyPacket
      /\ \A k \in Listener : k # l => held'[k] = held[k]
  <2>1. held \in [Listener -> Packet]
    BY <1>1 DEF TypeOK
  <2> QED BY <1>4, <2>1, EmptyFacts, Zenon
<1>8. /\ listeners' \subseteq Listener /\ dropped' \subseteq Listener
      /\ todo' \subseteq Listener /\ outgoing' \in Packet
  BY <1>1, <1>2, <1>4, <1>5, Zenon DEF TypeOK
<1>9. TypeOK'
  BY <1>1, <1>3, <1>6, <1>7, <1>8, Zenon DEF TypeOK
<1>10. NoSendOnClosedChannel'
  BY <1>4, <1>5 DEF NoSendOnClosedChannel
<1>11. SourceState'
  BY <1>1, <1>3 DEF SourceState
<1>12. OutgoingIsCurrent'
  <2>1. WithoutFrame(current) = current
    BY <1>1, <1>2 DEF SourceState, WithoutFrame, Packet
  <2> QED BY <1>1, <1>3, <1>5, <2>1 DEF OutgoingIsCurrent, SourceState
<1>13. OfferState'
  BY <1>1, <1>3 DEF OfferState
<1>14. BacklogOK(l)'
  <2>1. 0 <= current.epoch
    BY <1>2
  <2>2. Precedes(EmptyPacket, current)
    BY <2>1, EmptyFacts DEF Precedes, MayFollow
  <2>3. (held[l] = EmptyPacket /\ packets[l] = <<>> /\ current = current)'
    BY <1>6, <1>7
  <2>4. Ordered(held[l], packets[l], current)'
    BY <1>3, <2>2, <2>3 DEF Ordered
  <2>5. Stated(l)'
    BY <2>3 DEF Stated
  <2>6. (l \notin todo => Informed(Last(held[l], packets[l]), current))'
    BY <1>1, <1>3, <1>5, <2>3 DEF SourceState, Informed, Last
  <2>7. Complete(l)'
    <3>1. Unbroken(held[l], packets[l])'
      <4>1. 1..(Len(<<>>) - 1) = {}
        OBVIOUS
      <4> QED BY <2>3, <4>1 DEF Unbroken
    <3>2. (Last(held[l], packets[l]))' = EmptyPacket
      BY <2>3 DEF Last
    <3>3. Follows(EmptyPacket, outgoing')
      BY EmptyFacts DEF Follows
    <3> QED BY <3>1, <3>2, <3>3 DEF Complete
  <2> QED BY <2>4, <2>5, <2>6, <2>7 DEF BacklogOK
<1>15. ASSUME NEW k \in listeners, k # l PROVE BacklogOK(k)'
  <2>1. BacklogOK(k) /\ k \in Listener /\ k # NoListener
    BY <1>1, <1>15, ListenerAssumption DEF IInv, TypeOK
  <2> QED BY <1>1, <1>3, <1>4, <1>5, <1>6, <1>7, <1>15, <2>1, Untouched
<1> QED BY <1>4, <1>9, <1>10, <1>11, <1>12, <1>13, <1>14, <1>15 DEF IInv

\* A listener leaves: the loop is not running, so it has no turn left.
LEMMA DetachPreserves ==
  ASSUME IInv, NEW l \in Listener, Detach(l)
  PROVE  IInv'
<1>1. TypeOK /\ todo = {} /\ offering = NoListener /\ select = 1
  BY DEF IInv, Detach, Unlocked, TypeOK, OfferState
<1>2. UNCHANGED <<source, current, suppressed, published, broadcasts, dropped,
                  outgoing, todo, offering, select>>
  BY DEF Detach, session, delivery
<1>3. /\ listeners' = listeners \ {l}
      /\ held' = [held EXCEPT ![l] = EmptyPacket]
      /\ packets' = [packets EXCEPT ![l] = <<>>]
  BY DEF Detach
<1>4. /\ packets' \in [Listener -> Seq(Packet)]
      /\ \A k \in Listener : Len(packets'[k]) <= QueueDepth
      /\ \A k \in Listener : k # l => packets'[k] = packets[k]
  <2>1. <<>> \in Seq(Packet) /\ Len(<<>>) <= QueueDepth
    BY QueueDepthAssumption
  <2> QED BY <1>1, <1>3, <2>1, UpdateFacts
<1>5. /\ held' \in [Listener -> Packet]
      /\ \A k \in Listener : k # l => held'[k] = held[k]
  <2>1. held \in [Listener -> Packet]
    BY <1>1 DEF TypeOK
  <2> QED BY <1>3, <2>1, EmptyFacts, Zenon
<1>6. TypeOK'
  BY <1>1, <1>2, <1>3, <1>4, <1>5, Zenon DEF TypeOK
<1>7. NoSendOnClosedChannel' /\ SourceState' /\ OutgoingIsCurrent' /\ OfferState'
  <2>1. NoSendOnClosedChannel' /\ OutgoingIsCurrent'
    BY <1>1, <1>2 DEF NoSendOnClosedChannel, OutgoingIsCurrent
  <2>2. SourceState'
    BY <1>2 DEF IInv, SourceState
  <2>3. OfferState'
    BY <1>1, <1>2 DEF OfferState
  <2> QED BY <2>1, <2>2, <2>3
<1>8. ASSUME NEW k \in listeners, k # l PROVE BacklogOK(k)'
  <2>1. BacklogOK(k) /\ k \in Listener
    BY <1>1, <1>8 DEF IInv, TypeOK
  <2> QED BY <1>2, <1>4, <1>5, <1>8, <2>1, Untouched
<1> QED BY <1>3, <1>6, <1>7, <1>8 DEF IInv

\* A listener's goroutine receives: its backlog moves up by one.
LEMMA ReceivePreserves ==
  ASSUME IInv, NEW l \in Listener, Receive(l)
  PROVE  IInv'
<1>1. TypeOK
  BY DEF IInv
<1>2. UNCHANGED <<source, current, suppressed, published, broadcasts, listeners, dropped,
                  outgoing, todo, offering, select>>
  BY DEF Receive, session, registry, delivery
<1> DEFINE q == packets[l]
           h == held[l]
<1>3. /\ q \in Seq(Packet) /\ q # <<>> /\ Len(q) <= QueueDepth /\ l \in listeners
      /\ h \in Packet /\ current \in Packet
      /\ held' = [held EXCEPT ![l] = Head(q)]
      /\ packets' = [packets EXCEPT ![l] = Tail(q)]
  BY <1>1, TypeFacts DEF Receive
<1>4. /\ Len(q) \in Nat \ {0} /\ Len(Tail(q)) = Len(q) - 1
      /\ Head(q) = q[1] /\ Head(q) \in Packet /\ Tail(q) \in Seq(Packet)
      /\ \A k \in 1..(Len(q) - 1) : Tail(q)[k] = q[k + 1]
  BY <1>3, TailFacts
<1>5. Len(Tail(q)) <= QueueDepth /\ Len(Tail(q)) < Len(q)
  BY <1>3, <1>4, QueueDepthAssumption
<1>6. /\ packets' \in [Listener -> Seq(Packet)]
      /\ \A k \in Listener : Len(packets'[k]) <= QueueDepth
      /\ packets'[l] = Tail(q)
      /\ \A k \in Listener : k # l => packets'[k] = packets[k]
  BY <1>1, <1>3, <1>4, <1>5, UpdateFacts
<1>7. /\ held' \in [Listener -> Packet] /\ held'[l] = Head(q)
      /\ \A k \in Listener : k # l => held'[k] = held[k]
  <2>1. held \in [Listener -> Packet]
    BY <1>1 DEF TypeOK
  <2> QED BY <1>3, <1>4, <2>1, Zenon
<1>8. TypeOK'
  BY <1>1, <1>2, <1>6, <1>7, Zenon DEF TypeOK
<1>9. NoSendOnClosedChannel' /\ SourceState' /\ OutgoingIsCurrent'
  BY <1>2 DEF IInv, NoSendOnClosedChannel, SourceState, OutgoingIsCurrent
<1>10. OfferState'
  <2>1. CASE offering = l
    <3>1. select = 3 => Len(q) < QueueDepth
      BY <2>1 DEF IInv, OfferState
    <3>2. select = 3 => Len(Tail(q)) < QueueDepth
      BY <1>4, <1>5, <3>1, QueueDepthAssumption
    <3> QED BY <1>2, <1>6, <2>1, <3>2 DEF IInv, OfferState
  <2>2. CASE offering # l
    <3>1. offering \in Listener \/ offering = NoListener
      BY <1>1 DEF TypeOK
    <3>2. select = 3 => offering # NoListener
      BY DEF IInv, OfferState
    <3>3. select = 3 => packets'[offering] = packets[offering]
      BY <1>6, <2>2, <3>1, <3>2
    <3> QED BY <1>2, <3>3 DEF IInv, OfferState
  <2> QED BY <2>1, <2>2
<1>11. BacklogOK(l)'
  <2>1. BacklogOK(l)
    BY <1>3 DEF IInv
  <2>2. Ordered(Head(q), Tail(q), current)
    BY <1>3, <2>1, OrderedTail DEF BacklogOK
  <2>3. Last(Head(q), Tail(q)) = Last(h, q)
    BY <1>3, LastFacts
  <2>4. Unbroken(h, q) => Unbroken(Head(q), Tail(q))
    BY <1>3, UnbrokenTail
  <2>5. \A i \in 1..Len(q) : q[i].state # ""
    BY <2>1 DEF BacklogOK, Stated
  <2>6. Head(q).state # "" /\ \A i \in 1..Len(Tail(q)) : Tail(q)[i].state # ""
    <3>1. 1 \in 1..Len(q) /\ \A i \in 1..Len(Tail(q)) : i + 1 \in 1..Len(q)
      BY <1>4
    <3>2. \A i \in 1..Len(Tail(q)) : Tail(q)[i] = q[i + 1]
      BY <1>4
    <3> QED BY <1>4, <2>5, <3>1, <3>2
  <2>7. Ordered(held[l], packets[l], current)'
    BY <1>2, <1>6, <1>7, <2>2 DEF Ordered
  <2>8. Stated(l)'
    BY <1>6, <1>7, <2>6 DEF Stated
  <2>9. (Last(held[l], packets[l]))' = Last(h, q)
    BY <1>6, <1>7, <2>3 DEF Last
  <2>10. (l \notin todo => Informed(Last(held[l], packets[l]), current))'
    BY <1>2, <2>1, <2>9 DEF BacklogOK
  <2>11. (l \notin dropped /\ l # offering => Complete(l))'
    <3>1. l \notin dropped /\ l # offering =>
            Unbroken(Head(q), Tail(q)) /\ (l \in todo => Follows(Last(h, q), outgoing))
      BY <2>1, <2>4 DEF BacklogOK, Complete
    <3>2. Unbroken(Head(q), Tail(q)) => Unbroken(held[l], packets[l])'
      BY <1>6, <1>7 DEF Unbroken
    <3> QED BY <1>2, <2>9, <3>1, <3>2 DEF Complete
  <2> QED BY <2>7, <2>8, <2>10, <2>11 DEF BacklogOK
<1>12. ASSUME NEW k \in listeners, k # l PROVE BacklogOK(k)'
  <2>1. BacklogOK(k) /\ k \in Listener
    BY <1>1, <1>12 DEF IInv, TypeOK
  <2> QED BY <1>2, <1>6, <1>7, <1>12, <2>1, Untouched
<1> QED BY <1>2, <1>8, <1>9, <1>10, <1>11, <1>12 DEF IInv

-----------------------------------------------------------------------------
\* What is being delivered is in the session the stream is in.
LEMMA OutgoingFacts ==
  ASSUME IInv, todo # {}
  PROVE  /\ outgoing \in Packet /\ current \in Packet
         /\ SameSession(outgoing, current)
         /\ Informed(outgoing, current)
         /\ outgoing.state # ""
<1>1. outgoing \in Packet /\ current \in Packet
  BY DEF IInv, TypeOK
<1>2. WithoutFrame(outgoing) = current /\ outgoing.state # ""
  BY DEF IInv, OutgoingIsCurrent
<1> QED BY <1>1, <1>2, WithoutFrameFacts DEF Informed

\* The packet that is delivered joins a backlog.
LEMMA DeliveredBacklog ==
  ASSUME IInv, NEW l \in todo, l \notin todo',
         UNCHANGED <<current, held, outgoing>>,
         packets'[l] = Append(packets[l], outgoing),
         l \notin dropped' => l \notin dropped /\ l # offering
  PROVE  BacklogOK(l)'
<1> DEFINE q == packets[l]
           h == held[l]
<1>1. TypeOK /\ l \in listeners /\ l \in Listener /\ BacklogOK(l)
  BY DEF IInv, NoSendOnClosedChannel, TypeOK
<1>2. h \in Packet /\ q \in Seq(Packet)
  BY <1>1, TypeFacts
<1>3. /\ outgoing \in Packet /\ current \in Packet /\ outgoing.state # ""
      /\ SameSession(outgoing, current) /\ Informed(outgoing, current)
  BY OutgoingFacts
<1>4. Ordered(h, Append(q, outgoing), current)
  BY <1>1, <1>2, <1>3, OrderedAppend DEF BacklogOK
<1>5. Last(h, Append(q, outgoing)) = outgoing
  <2> HIDE DEF q, h
  <2> QED BY <1>2, <1>3, LastFacts
<1>6. \A i \in 1..Len(Append(q, outgoing)) : Append(q, outgoing)[i].state # ""
  <2>1. /\ Len(q) \in Nat /\ Len(Append(q, outgoing)) = Len(q) + 1
        /\ Append(q, outgoing)[Len(q) + 1] = outgoing
        /\ \A k \in 1..Len(q) : Append(q, outgoing)[k] = q[k]
    <3>1. q \in Seq(Packet) /\ outgoing \in Packet
      BY <1>2, <1>3
    <3> QED BY <3>1, AppendFacts
  <2>2. \A i \in 1..(Len(q) + 1) : i \in 1..Len(q) \/ i = Len(q) + 1
    BY <2>1
  <2>3. \A i \in 1..Len(q) : q[i].state # ""
    BY <1>1 DEF BacklogOK, Stated
  <2> QED BY <1>3, <2>1, <2>2, <2>3
<1>7. Ordered(held[l], packets[l], current)'
  BY <1>4 DEF Ordered
<1>8. Stated(l)'
  BY <1>1, <1>6 DEF BacklogOK, Stated
<1>9. (Last(held[l], packets[l]))' = outgoing
  BY <1>5 DEF Last
<1>10. (l \notin todo => Informed(Last(held[l], packets[l]), current))'
  BY <1>3, <1>9
<1>11. (l \notin dropped /\ l # offering => Complete(l))'
  <2>1. ASSUME l \notin dropped, l # offering PROVE Unbroken(h, Append(q, outgoing))
    <3>1. Unbroken(h, q) /\ Follows(Last(h, q), outgoing)
      BY <1>1, <2>1 DEF BacklogOK, Complete
    <3> QED BY <1>2, <1>3, <3>1, UnbrokenAppend
  <2>2. Unbroken(h, Append(q, outgoing)) => Unbroken(held[l], packets[l])'
    BY DEF Unbroken
  <2> QED BY <2>1, <2>2 DEF Complete
<1> QED BY <1>7, <1>8, <1>10, <1>11 DEF BacklogOK

\* The first select sends.
LEMMA SendPreserves ==
  ASSUME IInv, NEW l \in Listener, DeliverSend(l)
  PROVE  IInv'
<1>1. TypeOK /\ l \in todo /\ offering = NoListener /\ todo' = todo \ {l}
      /\ Len(packets[l]) < QueueDepth
  BY DEF IInv, DeliverSend, HasRoom
<1>2. UNCHANGED <<source, current, suppressed, published, broadcasts, listeners, dropped,
                  held, outgoing, offering, select>>
  BY DEF DeliverSend, session, registry
<1>3. outgoing \in Packet /\ packets[l] \in Seq(Packet)
  BY <1>1, TypeFacts
<1> DEFINE q == Append(packets[l], outgoing)
<1>4. q \in Seq(Packet) /\ Len(q) = Len(packets[l]) + 1 /\ Len(packets[l]) \in Nat
  BY <1>3, AppendFacts
<1>5. Len(q) <= QueueDepth
  BY <1>1, <1>4, QueueDepthAssumption
<1>6. packets' = [packets EXCEPT ![l] = q]
  BY DEF DeliverSend
<1> HIDE DEF q
<1>7. /\ packets' \in [Listener -> Seq(Packet)]
      /\ \A k \in Listener : Len(packets'[k]) <= QueueDepth
      /\ packets'[l] = q
      /\ \A k \in Listener : k # l => packets'[k] = packets[k]
  BY <1>1, <1>4, <1>5, <1>6, UpdateFacts
<1>8. todo' \subseteq Listener /\ offering' \in todo' \cup {NoListener}
  BY <1>1, <1>2 DEF TypeOK
<1>9. TypeOK'
  BY <1>1, <1>2, <1>7, <1>8, Zenon DEF TypeOK
<1>10. NoSendOnClosedChannel' /\ OutgoingIsCurrent'
  BY <1>1, <1>2 DEF IInv, NoSendOnClosedChannel, OutgoingIsCurrent
<1>11. SourceState'
  BY <1>2 DEF IInv, SourceState
<1>12. OfferState'
  BY <1>1, <1>2 DEF IInv, OfferState
<1>13. BacklogOK(l)'
  <2>1. l # NoListener
    BY ListenerAssumption
  <2> QED BY <1>1, <1>2, <1>7, <2>1, DeliveredBacklog DEF q
<1>14. ASSUME NEW k \in listeners, k # l PROVE BacklogOK(k)'
  <2>1. BacklogOK(k) /\ k \in Listener
    BY <1>1, <1>14 DEF IInv, TypeOK
  <2> QED BY <1>1, <1>2, <1>7, <1>14, <2>1, Untouched
<1> QED BY <1>2, <1>9, <1>10, <1>11, <1>12, <1>13, <1>14 DEF IInv

\* The first select finds the queue full.
LEMMA FullPreserves ==
  ASSUME IInv, NEW l \in Listener, DeliverFull(l)
  PROVE  IInv'
<1>1. TypeOK /\ l \in todo /\ offering = NoListener /\ offering' = l /\ select' = 2
      /\ l # NoListener
  BY ListenerAssumption DEF IInv, DeliverFull
<1>2. UNCHANGED <<source, current, suppressed, published, broadcasts, listeners, dropped,
                  packets, held, outgoing, todo>>
  BY DEF DeliverFull, session, registry, channels
<1>3. offering' \in todo' \cup {NoListener} /\ select' \in 1..3
  BY <1>1, <1>2
<1>4. TypeOK'
  BY <1>1, <1>2, <1>3, Zenon DEF TypeOK
<1>5. NoSendOnClosedChannel' /\ OutgoingIsCurrent'
  BY <1>2 DEF IInv, NoSendOnClosedChannel, OutgoingIsCurrent
<1>6. SourceState'
  BY <1>2 DEF IInv, SourceState
<1>7. OfferState'
  BY <1>1 DEF OfferState
<1>8. ASSUME NEW k \in listeners PROVE BacklogOK(k)'
  <2>1. BacklogOK(k) /\ k # NoListener
    BY <1>1, <1>8, ListenerAssumption DEF IInv, TypeOK
  <2> QED BY <1>1, <1>2, <2>1, Untouched
<1> QED BY <1>2, <1>4, <1>5, <1>6, <1>7, <1>8 DEF IInv

\* Who is being offered a packet in the second and third selects.
LEMMA OfferingFacts ==
  ASSUME IInv, select # 1
  PROVE  offering \in todo /\ offering \in Listener /\ offering \in listeners
<1>1. offering # NoListener
  BY DEF IInv, OfferState
<1> QED BY <1>1 DEF IInv, TypeOK, NoSendOnClosedChannel

\* The second select evicts the oldest packet, if a reader left one.
LEMMA EvictPreserves ==
  ASSUME IInv, DeliverEvict
  PROVE  IInv'
<1> DEFINE l == offering
           q == IF packets[l] = <<>> THEN packets[l] ELSE Tail(packets[l])
<1>1. TypeOK /\ select = 2 /\ select' = 3
  BY DEF IInv, DeliverEvict
<1>2. l \in todo /\ l \in Listener /\ l \in listeners /\ BacklogOK(l)
  BY <1>1, OfferingFacts DEF IInv
<1>3. UNCHANGED <<source, current, suppressed, published, broadcasts, listeners, dropped,
                  held, outgoing, todo, offering>>
  BY DEF DeliverEvict, session, registry
<1>4. /\ packets[l] \in Seq(Packet) /\ Len(packets[l]) <= QueueDepth
      /\ held[l] \in Packet /\ current \in Packet
  BY <1>1, <1>2, TypeFacts
<1>5. q \in Seq(Packet) /\ Len(q) < QueueDepth
  <2>1. CASE packets[l] = <<>>
    BY <1>4, <2>1, QueueDepthAssumption
  <2>2. CASE packets[l] # <<>>
    <3>1. /\ Tail(packets[l]) \in Seq(Packet) /\ Len(packets[l]) \in Nat \ {0}
          /\ Len(Tail(packets[l])) = Len(packets[l]) - 1
      BY <1>4, <2>2, TailFacts
    <3> QED BY <1>4, <2>2, <3>1, QueueDepthAssumption
  <2> QED BY <2>1, <2>2
<1>6. packets' = [packets EXCEPT ![l] = q]
  <2>1. packets \in [Listener -> Seq(Packet)]
    BY <1>1 DEF TypeOK
  <2> QED BY <1>2, <2>1 DEF DeliverEvict
<1>7. Ordered(held[l], q, current) /\ \A i \in 1..Len(q) : q[i].state # ""
  <2>1. CASE packets[l] = <<>>
    BY <1>2, <2>1 DEF BacklogOK, Stated
  <2>2. CASE packets[l] # <<>>
    <3>1. Ordered(held[l], Tail(packets[l]), current)
      BY <1>2, <1>4, <2>2, OrderedTail DEF BacklogOK
    <3>2. /\ Len(packets[l]) \in Nat \ {0} /\ Len(Tail(packets[l])) = Len(packets[l]) - 1
          /\ \A k \in 1..(Len(packets[l]) - 1) : Tail(packets[l])[k] = packets[l][k + 1]
      BY <1>4, <2>2, TailFacts
    <3>3. \A i \in 1..Len(packets[l]) : packets[l][i].state # ""
      BY <1>2 DEF BacklogOK, Stated
    <3>4. \A i \in 1..Len(Tail(packets[l])) : i + 1 \in 1..Len(packets[l])
      BY <3>2
    <3>5. \A i \in 1..Len(Tail(packets[l])) : Tail(packets[l])[i].state # ""
      BY <3>2, <3>3, <3>4
    <3> QED BY <2>2, <3>1, <3>5
  <2> QED BY <2>1, <2>2
<1> HIDE DEF q
<1>8. Len(q) <= QueueDepth
  BY <1>5, ElementFacts, QueueDepthAssumption
<1>9. /\ packets' \in [Listener -> Seq(Packet)]
      /\ \A k \in Listener : Len(packets'[k]) <= QueueDepth
      /\ packets'[l] = q
      /\ \A k \in Listener : k # l => packets'[k] = packets[k]
  BY <1>1, <1>2, <1>5, <1>6, <1>8, UpdateFacts
<1>10. select' \in 1..3
  BY <1>1
<1>11. TypeOK'
  BY <1>1, <1>3, <1>9, <1>10, Zenon DEF TypeOK
<1>12. NoSendOnClosedChannel' /\ OutgoingIsCurrent'
  BY <1>3 DEF IInv, NoSendOnClosedChannel, OutgoingIsCurrent
<1>13. SourceState'
  BY <1>3 DEF IInv, SourceState
<1>14. OfferState'
  BY <1>1, <1>2, <1>3, <1>5, <1>9, ListenerAssumption DEF OfferState
<1>15. BacklogOK(l)'
  <2>1. Ordered(held[l], packets[l], current)'
    BY <1>3, <1>7, <1>9 DEF Ordered
  <2>2. Stated(l)'
    BY <1>2, <1>3, <1>7, <1>9 DEF BacklogOK, Stated
  <2> QED BY <1>2, <1>3, <2>1, <2>2 DEF BacklogOK
<1>16. ASSUME NEW k \in listeners, k # l PROVE BacklogOK(k)'
  <2>1. BacklogOK(k) /\ k \in Listener
    BY <1>1, <1>16 DEF IInv, TypeOK
  <2> QED BY <1>3, <1>9, <1>16, <2>1, Untouched
<1> QED BY <1>3, <1>11, <1>12, <1>13, <1>14, <1>15, <1>16 DEF IInv

\* The third select sends, for the second left room; the drop is counted.
LEMMA ResendPreserves ==
  ASSUME IInv, DeliverResend
  PROVE  IInv'
<1> PICK l : l = offering
  OBVIOUS
<1> DEFINE q == Append(packets[l], outgoing)
<1>1. TypeOK /\ select = 3
  BY DEF IInv, DeliverResend
<1>2. l \in todo /\ l \in Listener /\ l \in listeners /\ Len(packets[l]) < QueueDepth
  BY <1>1, OfferingFacts DEF IInv, OfferState
<1>3. UNCHANGED <<source, current, suppressed, published, broadcasts, listeners, held, outgoing>>
  BY DEF DeliverResend, session
<1>4. /\ todo' = todo \ {l} /\ offering' = NoListener /\ select' = 1
      /\ dropped' = dropped \cup {l}
  BY DEF DeliverResend
<1>5. outgoing \in Packet /\ packets[l] \in Seq(Packet)
  BY <1>1, <1>2, TypeFacts
<1>6. q \in Seq(Packet) /\ Len(q) = Len(packets[l]) + 1 /\ Len(packets[l]) \in Nat
  BY <1>5, AppendFacts
<1>7. Len(q) <= QueueDepth
  BY <1>2, <1>6, QueueDepthAssumption
<1>8. packets' = [packets EXCEPT ![l] = q]
  <2>1. packets \in [Listener -> Seq(Packet)] /\ HasRoom(l)
    BY <1>1, <1>2 DEF TypeOK, HasRoom
  <2> QED BY <1>2, <2>1 DEF DeliverResend
<1> HIDE DEF q
<1>9. /\ packets' \in [Listener -> Seq(Packet)]
      /\ \A k \in Listener : Len(packets'[k]) <= QueueDepth
      /\ packets'[l] = q
      /\ \A k \in Listener : k # l => packets'[k] = packets[k]
  BY <1>1, <1>2, <1>6, <1>7, <1>8, UpdateFacts
<1>10. /\ todo' \subseteq Listener /\ offering' \in todo' \cup {NoListener}
       /\ dropped' \subseteq Listener /\ select' \in 1..3
  BY <1>1, <1>2, <1>4 DEF TypeOK
<1>11. TypeOK'
  BY <1>1, <1>3, <1>9, <1>10, Zenon DEF TypeOK
<1>12. NoSendOnClosedChannel' /\ OutgoingIsCurrent'
  BY <1>2, <1>3, <1>4 DEF IInv, NoSendOnClosedChannel, OutgoingIsCurrent
<1>13. SourceState'
  BY <1>3 DEF IInv, SourceState
<1>14. OfferState'
  BY <1>4 DEF OfferState
<1>15. BacklogOK(l)'
  BY <1>2, <1>3, <1>4, <1>9, DeliveredBacklog DEF q
<1>16. ASSUME NEW k \in listeners, k # l PROVE BacklogOK(k)'
  <2>1. BacklogOK(k) /\ k \in Listener
    BY <1>1, <1>16 DEF IInv, TypeOK
  <2> QED BY <1>3, <1>4, <1>9, <1>16, <2>1, Untouched
<1> QED BY <1>3, <1>11, <1>12, <1>13, <1>14, <1>15, <1>16 DEF IInv

-----------------------------------------------------------------------------
\* A step that changes nothing.
LEMMA StutterPreserves ==
  ASSUME IInv, UNCHANGED vars
  PROVE  IInv'
<1>1. UNCHANGED <<source, current, suppressed, published, broadcasts, listeners, dropped,
                  packets, held, outgoing, todo, offering, select>>
  BY DEF vars, session, registry, channels, delivery
<1>2. TypeOK'
  BY <1>1, Zenon DEF IInv, TypeOK
<1>3. NoSendOnClosedChannel' /\ OutgoingIsCurrent'
  BY <1>1 DEF IInv, NoSendOnClosedChannel, OutgoingIsCurrent
<1>4. SourceState'
  BY <1>1 DEF IInv, SourceState
<1>5. OfferState'
  BY <1>1 DEF IInv, OfferState
<1>6. ASSUME NEW k \in listeners PROVE BacklogOK(k)'
  BY <1>1, <1>6, Untouched DEF IInv
<1> QED BY <1>1, <1>2, <1>3, <1>4, <1>5, <1>6 DEF IInv

\* Every step of the stream preserves the inductive invariant.
LEMMA NextPreservesIInv == IInv /\ [Next]_vars => IInv'
<1> SUFFICES ASSUME IInv, [Next]_vars PROVE IInv'
  OBVIOUS
<1>1. ASSUME NEW f \in Format, NEW sparse \in BOOLEAN, acquire(f, sparse) PROVE IInv'
  BY <1>1, AcquirePreserves
<1>2. CASE ReleaseSource
  BY <1>2, ReleasePreserves
<1>3. CASE ~current.sparse /\ current.position <= MaxPosition /\ Publish(source)
  <2>1. current.position \in Nat
    BY DEF IInv, TypeOK, Packet
  <2>2. current.position + 1 \in Nat
    BY <2>1
  <2>3. publish(current.position + 1, source)
    BY <1>3 DEF Publish
  <2> QED BY <2>2, <2>3, PublishPreserves
<1>4. ASSUME NEW position \in 0..MaxPosition, NEW frame \in {source, NoFormat},
             current.sparse, PublishRecord(position, frame)
      PROVE  IInv'
  <2>1. position \in Nat
    BY BoundAssumption
  <2>2. publish(position, frame)
    BY <1>4 DEF PublishRecord
  <2> QED BY <1>4, <2>1, <2>2, PublishPreserves
<1>5. ASSUME NEW l \in Listener, Attach(l) \/ Detach(l) \/ Receive(l) PROVE IInv'
  BY <1>5, AttachPreserves, DetachPreserves, ReceivePreserves
<1>6. CASE deliver
  BY <1>6, SendPreserves, FullPreserves, EvictPreserves, ResendPreserves DEF deliver
<1>7. CASE UNCHANGED vars
  BY <1>7, StutterPreserves
<1> QED BY <1>1, <1>2, <1>3, <1>4, <1>5, <1>6, <1>7 DEF Next

\* The inductive invariant holds in every reachable state.
LEMMA IInvHolds == Spec => []IInv
  BY InitEstablishesIInv, NextPreservesIInv, PTL DEF Spec

-----------------------------------------------------------------------------
\* The state of the stream and its queues keeps its types, and no queue ever
\* holds more packets than its depth.
THEOREM StreamTypeCorrect == Spec => []TypeOK
<1>1. IInv => TypeOK
  BY DEF IInv
<1> QED BY <1>1, IInvHolds, PTL

\* No packet is ever sent on a channel that Detach closed.
THEOREM StreamNeverSendsOnClosed == Spec => []NoSendOnClosedChannel
<1>1. IInv => NoSendOnClosedChannel
  BY DEF IInv
<1> QED BY <1>1, IInvHolds, PTL

\* A listener that drains its queue knows the state the stream is in, with
\* any number of packets dropped on the way.
THEOREM StreamInformsListeners == Spec => []ListenersLearnTheState
<1>1. IInv => ListenersLearnTheState
  <2> SUFFICES ASSUME IInv, NEW l \in listeners \ todo
               PROVE  \/ WithoutFrame(Newest(l)) = current
                      \/ /\ ~current.sparse
                         /\ \/ Newest(l) = EmptyPacket
                            \/ Newest(l).state = "waiting" /\ Newest(l).epoch < current.epoch
    BY DEF ListenersLearnTheState
  <2>1. Newest(l) = Last(held[l], packets[l])
    BY DEF Newest, Last
  <2>2. Informed(Last(held[l], packets[l]), current)
    BY DEF IInv, BacklogOK
  <2> QED BY <2>1, <2>2 DEF Informed
<1> QED BY <1>1, IInvHolds, PTL

\* Joins, drops, and sources that come and go never let a listener receive
\* the packets of two sessions out of order.
THEOREM StreamKeepsSessionsInOrder == Spec => []SessionsInOrder
<1>1. IInv => SessionsInOrder
  <2> SUFFICES ASSUME IInv, NEW l \in listeners
               PROVE  /\ \A i \in 1..Len(packets[l]) : MayFollow(held[l], packets[l][i])
                      /\ \A i, j \in 1..Len(packets[l]) :
                            i < j => MayFollow(packets[l][i], packets[l][j])
    BY DEF SessionsInOrder
  <2>1. Ordered(held[l], packets[l], current)
    BY DEF IInv, BacklogOK
  <2> QED BY <2>1 DEF Ordered, Precedes
<1> QED BY <1>1, IInvHolds, PTL

\* A listener whose count of drops is zero has missed no frame of a legacy
\* session it follows, and not the session's end.
THEOREM StreamCountsEveryGap == Spec => []GapsAreCounted
<1>1. IInv => GapsAreCounted
  <2> SUFFICES ASSUME IInv, NEW l \in listeners \ (dropped \cup {offering})
               PROVE  /\ packets[l] # <<>> => Follows(held[l], packets[l][1])
                      /\ \A i \in 1..(Len(packets[l]) - 1) :
                            Follows(packets[l][i], packets[l][i + 1])
    BY DEF GapsAreCounted
  <2>1. BacklogOK(l) /\ l \notin dropped /\ l # offering
    BY DEF IInv
  <2>2. Unbroken(held[l], packets[l])
    BY <2>1 DEF BacklogOK, Complete
  <2> QED BY <2>2 DEF Unbroken
<1> QED BY <1>1, IInvHolds, PTL

-----------------------------------------------------------------------------
\* q may come after p on the way to one listener: positions grow, and an
\* announcement without a frame comes first in its session or not at all.
Steps(p, q) ==
    /\ Advances(p, q)
    /\ p.epoch = q.epoch /\ p.state # "" => ~Announcing(q)

\* The packets of a backlog come in that order.
Rising(h, q) ==
    /\ \A i \in 1..Len(q) : Steps(h, q[i])
    /\ \A i, j \in 1..Len(q) : i < j => Steps(q[i], q[j])

\* The packets in a queue, and those with the one in hand.
Members(q) == {q[i] : i \in 1..Len(q)}
Backlog(l) == {held[l]} \cup Members(packets[l])

\* The packets of a queue after an append, or after a receive.
LEMMA MembersFacts ==
  ASSUME NEW q \in Seq(Packet), NEW e \in Packet
  PROVE  /\ Members(q) \subseteq Packet
         /\ Members(Append(q, e)) = Members(q) \cup {e}
         /\ q # <<>> => Head(q) \in Members(q) /\ Members(Tail(q)) \subseteq Members(q)
<1>1. Members(q) \subseteq Packet
  BY ElementFacts DEF Members
<1>2. Members(Append(q, e)) = Members(q) \cup {e}
  <2> DEFINE a == Append(q, e)
             n == Len(q)
  <2>1. n \in Nat /\ Len(a) = n + 1 /\ a[n + 1] = e /\ \A k \in 1..n : a[k] = q[k]
    BY AppendFacts
  <2> HIDE DEF a, n
  <2>2. 1..(n + 1) = 1..n \cup {n + 1}
    BY <2>1
  <2>3. {a[i] : i \in 1..(n + 1)} = {a[i] : i \in 1..n} \cup {a[n + 1]}
    BY <2>2
  <2>4. {a[i] : i \in 1..n} = {q[i] : i \in 1..n}
    BY <2>1
  <2> QED BY <2>1, <2>3, <2>4 DEF Members, a, n
<1>3. ASSUME q # <<>> PROVE Head(q) \in Members(q) /\ Members(Tail(q)) \subseteq Members(q)
  <2>1. /\ Len(q) \in Nat \ {0} /\ Len(Tail(q)) = Len(q) - 1 /\ Head(q) = q[1]
        /\ \A k \in 1..(Len(q) - 1) : Tail(q)[k] = q[k + 1]
    BY <1>3, TailFacts
  <2>2. 1 \in 1..Len(q) /\ \A k \in 1..(Len(q) - 1) : k + 1 \in 1..Len(q)
    BY <2>1
  <2> QED BY <2>1, <2>2 DEF Members
<1> QED BY <1>1, <1>2, <1>3

\* Appending a packet that comes after all others keeps a backlog rising.
LEMMA RisingAppend ==
  ASSUME NEW h, NEW q \in Seq(Packet), NEW e \in Packet,
         Rising(h, q), Steps(h, e), \A p \in Members(q) : Steps(p, e)
  PROVE  Rising(h, Append(q, e))
<1> DEFINE a == Append(q, e)
           n == Len(q)
<1>1. n \in Nat /\ Len(a) = n + 1 /\ a[n + 1] = e /\ \A k \in 1..n : a[k] = q[k]
  BY AppendFacts
<1>2. \A i \in 1..n : Steps(h, q[i]) /\ Steps(q[i], e)
  BY DEF Rising, Members
<1>3. \A i, j \in 1..n : i < j => Steps(q[i], q[j])
  BY DEF Rising
<1> HIDE DEF a, n
<1>4. \A i \in 1..(n + 1) : i \in 1..n \/ i = n + 1
  BY <1>1
<1>5. \A i \in 1..(n + 1) : Steps(h, a[i])
  BY <1>1, <1>2, <1>4
<1>6. ASSUME NEW i \in 1..(n + 1), NEW j \in 1..(n + 1), i < j PROVE Steps(a[i], a[j])
  <2>1. i \in 1..n
    BY <1>1, <1>6
  <2> QED BY <1>1, <1>2, <1>3, <1>4, <1>6, <2>1
<1> QED BY <1>1, <1>5, <1>6 DEF Rising, a

\* Receiving from a backlog, or evicting its oldest packet, keeps it rising.
LEMMA RisingTail ==
  ASSUME NEW h, NEW q \in Seq(Packet), q # <<>>, Rising(h, q)
  PROVE  Rising(Head(q), Tail(q)) /\ Rising(h, Tail(q))
<1> DEFINE t == Tail(q)
           n == Len(q)
<1>1. n \in Nat \ {0} /\ Len(t) = n - 1 /\ Head(q) = q[1]
      /\ \A k \in 1..(n - 1) : t[k] = q[k + 1]
  BY TailFacts
<1>2. \A i \in 1..n : Steps(h, q[i])
  BY DEF Rising
<1>3. \A i, j \in 1..n : i < j => Steps(q[i], q[j])
  BY DEF Rising
<1> HIDE DEF t, n
<1>4. \A k \in 1..(n - 1) : k + 1 \in 1..n /\ 1 < k + 1 /\ 1 \in 1..n
  BY <1>1
<1>5. \A i \in 1..(n - 1) : Steps(h, t[i]) /\ Steps(q[1], t[i])
  BY <1>1, <1>2, <1>3, <1>4
<1>6. ASSUME NEW i \in 1..(n - 1), NEW j \in 1..(n - 1), i < j PROVE Steps(t[i], t[j])
  <2>1. i + 1 < j + 1
    BY <1>1, <1>6
  <2> QED BY <1>1, <1>3, <1>4, <1>6, <2>1
<1> QED BY <1>1, <1>5, <1>6 DEF Rising, t

\* Packets of another epoch, or after the empty one, may have any position.
LEMMA StepsToAnother ==
  ASSUME NEW p, NEW q, p.epoch # q.epoch \/ p.state = ""
  PROVE  Steps(p, q)
  BY DEF Steps, Advances

\* So may the end of a session.
LEMMA StepsToWaiting ==
  ASSUME NEW p, NEW q, q.state = "waiting"
  PROVE  Steps(p, q)
  BY DEF Steps, Advances, Announcing

-----------------------------------------------------------------------------
\* A packet's parts fit: its frame is of its format, a session has a number
\* and a format, and only a sparse one goes quiet.
Fits(p) ==
    /\ p.frame \in {p.format, NoFormat}
    /\ p.state \in {"live", "quiet"} => p.epoch > 0 /\ p.format \in Format
    /\ p.state = "quiet" => p.sparse

\* The least position that connection c may publish next.
Due(c) == IF records[c] THEN nextPosition[c] ELSE nextPosition[c] + 1

\* What c publishes next comes after p.
Behind(p, c) ==
    p.epoch = current.epoch /\ p.state # "" =>
        p.position < Due(c) \/ (Announcing(p) /\ p.position = Due(c))

AllBehind(p) == \A c \in Holders : Behind(p, c)

\* A connection that holds the stream counts on from the stream's state.
CountsOn(c) ==
    IF records[c]
    THEN \/ nextPosition[c] = current.position + 1
         \/ nextPosition[c] = 0 /\ current.position = 0 /\ current.state = "live"
    ELSE current.state = "live" /\ nextPosition[c] = current.position

\* One that does not hold it has counted nothing.
CountsFromZero == \A c \in Conn \ Holders : nextPosition[c] = 0

\* What is published but not in ingressAudioBytes yet is the frame of the
\* connection that is being read.
IngressLag ==
    published = ingressAudio + Cardinality({c \in Conn : phase[c] = "counting"})

\* The frame of a quiet record is declared, and not counted as suppressed yet.
TimeLeft ==
    published + suppressed + (IF current.state = "quiet" THEN 1 ELSE 0) <= timeline

\* Everything in a listener's backlog, and what is on its way to it.
WayOK(l) ==
    /\ \A p \in Backlog(l) : Fits(p) /\ AllBehind(p)
    /\ l \in todo => \A p \in Backlog(l) : Steps(p, outgoing)
    /\ Rising(held[l], packets[l])

\* The types of Ingest's own variables.
ConnectionTypes ==
    /\ phase \in [Conn -> Phase]
    /\ alive \subseteq Conn
    /\ declared \in [Conn -> Format \cup {NoFormat}]
    /\ records \in [Conn -> BOOLEAN]
    /\ nextPosition \in [Conn -> Nat]
    /\ ingressAudio \in Nat
    /\ timeline \in Nat

\* The connections, and how they agree with the stream.
SourceOK ==
    /\ ConnectionTypes
    /\ SourceHasOneReader
    /\ CountsFromZero
    /\ \A c \in Holders : CountsOn(c)
    /\ IngressLag
    /\ TimeLeft
    /\ Fits(current)
    /\ todo # {} => Fits(outgoing) /\ AllBehind(outgoing)

\* The inductive invariant of Ingest.
IngestIInv ==
    /\ IInv
    /\ SourceOK
    /\ \A l \in listeners : WayOK(l)

\* What a step of a source does to the listeners' side: what came before the
\* state of the stream still does, and so does it before what is broadcast.
SourceMoves ==
    /\ UNCHANGED <<listeners, packets, held>>
    /\ Precedes(current, current')
    /\ \A p \in Packet : Precedes(p, current) /\ AllBehind(p) => AllBehind(p)'
    /\ \/ UNCHANGED <<outgoing, todo>>
       \/ \A p \in Packet : Precedes(p, current) /\ AllBehind(p) => Steps(p, outgoing')

\* What a step of the loop over the listeners does.
DeliverMoves ==
    /\ UNCHANGED <<listeners, held, current, outgoing>>
    /\ todo' \subseteq todo
    /\ \A l \in listeners :
          \/ Members(packets'[l]) \subseteq Members(packets[l])
          \/ l \in todo /\ Members(packets'[l]) \subseteq Members(packets[l]) \cup {outgoing}

\* Initially there is no connection and no listener.
LEMMA InitEstablishesIngestIInv == IngestInit => IngestIInv
<1> SUFFICES ASSUME IngestInit PROVE IngestIInv
  OBVIOUS
<1>1. IInv
  BY InitEstablishesIInv DEF IngestInit
<1>2. \A c \in Conn : phase[c] = "closed" /\ nextPosition[c] = 0
  BY DEF IngestInit
<1>3. Holders = {} /\ {c \in Conn : phase[c] = "counting"} = {}
  BY <1>2 DEF Holders
<1>4. ConnectionTypes
  BY DEF IngestInit, ConnectionTypes, Phase
<1>5. SourceHasOneReader /\ CountsFromZero /\ (\A c \in Holders : CountsOn(c))
  BY <1>2, <1>3 DEF IngestInit, Init, SourceHasOneReader, CountsFromZero
<1>6. published = 0 /\ suppressed = 0 /\ current = EmptyPacket /\ todo = {} /\ listeners = {}
  BY DEF IngestInit, Init
<1>7. ingressAudio = 0 /\ timeline = 0
  BY DEF IngestInit
<1>8. IngressLag
  BY <1>3, <1>6, <1>7, FS_EmptySet DEF IngressLag
<1>9. current.state = "" /\ current.frame = NoFormat
  BY <1>6 DEF EmptyPacket
<1>10. TimeLeft /\ Fits(current)
  <2>1. current.state # "live" /\ current.state # "quiet"
    BY <1>9
  <2>2. Fits(current)
    BY <1>9, <2>1 DEF Fits
  <2>3. published + suppressed + 0 <= timeline
    BY <1>6, <1>7
  <2> QED BY <2>1, <2>2, <2>3 DEF TimeLeft
<1> QED BY <1>1, <1>4, <1>5, <1>6, <1>8, <1>10 DEF IngestIInv, SourceOK

\* The connection that is read is the one that holds the stream.
LEMMA HolderFacts ==
  ASSUME IngestIInv, NEW c \in Holders
  PROVE  /\ Holders = {c}
         /\ source # NoFormat /\ source \in Format
         /\ declared[c] = source /\ records[c] = current.sparse
         /\ CountsOn(c) /\ c \in Conn
         /\ current.state \in {"live", "quiet"}
<1>1. SourceHasOneReader /\ CountsOn(c)
  BY DEF IngestIInv, SourceOK
<1>2. source \in Format \cup {NoFormat} /\ SourceState
  BY DEF IngestIInv, IInv, TypeOK
<1>3. source # NoFormat
  BY <1>1 DEF SourceHasOneReader
<1>4. PICK d \in Conn : Holders = {d} /\ declared[d] = source /\ records[d] = current.sparse
  BY <1>1, <1>3 DEF SourceHasOneReader
<1> QED BY <1>1, <1>2, <1>3, <1>4 DEF SourceState

\* The variables of Stream, one by one.
LEMMA VarsFacts ==
  UNCHANGED vars <=>
    UNCHANGED <<source, current, suppressed, published, listeners, dropped, packets, held,
                outgoing, todo, offering, select, broadcasts>>
  BY DEF vars, session, registry, channels, delivery

\* To the stream, every step of Ingest is one of module Stream: a connection
\* publishes in the format of the stream, and records where records are due.
LEMMA IngestStepIsStreamStep ==
  ASSUME IngestIInv, IngestNext
  PROVE  [Next]_vars
<1>1. ASSUME NEW c \in Conn, SourceStep(c) PROVE [Next]_vars
  <2>1. CASE AcceptConn(c) \/ HeaderFails(c) \/ HeaderRefused(c) \/ CountIngress(c)
    BY <2>1 DEF AcceptConn, HeaderFails, HeaderRefused, CountIngress
  <2>2. ASSUME NEW f \in Format, NEW sparse \in BOOLEAN, HeaderAccepted(c, f, sparse)
        PROVE  Next
    BY <2>2 DEF HeaderAccepted, Next
  <2>3. ASSUME NEW position \in 0..MaxPosition, NEW frame \in {declared[c], NoFormat},
               ReadRecord(c, position, frame)
        PROVE  Next
    <3>1. c \in Holders
      BY <2>3 DEF ReadRecord, Holders
    <3>2. current.sparse /\ frame \in {source, NoFormat} /\ PublishRecord(position, frame)
      BY <2>3, <3>1, HolderFacts DEF ReadRecord
    <3> QED BY <3>2 DEF Next
  <2>4. CASE ReadFrame(c)
    <3>1. c \in Holders
      BY <2>4 DEF ReadFrame, Holders
    <3>2. ~current.sparse /\ declared[c] = source /\ Publish(declared[c])
      BY <2>4, <3>1, HolderFacts DEF ReadFrame
    <3>3. current.position <= MaxPosition
      BY <2>4, <3>1, HolderFacts DEF ReadFrame, CountsOn
    <3> QED BY <3>2, <3>3 DEF Next
  <2>5. CASE ReadFails(c)
    BY <2>5 DEF ReadFails, Next
  <2> QED BY <1>1, <2>1, <2>2, <2>3, <2>4, <2>5 DEF SourceStep
<1>2. ASSUME NEW c \in Conn, PeerDies(c) PROVE [Next]_vars
  BY <1>2 DEF PeerDies
<1>3. ASSUME NEW l \in Listener, ListenerStep(l) PROVE [Next]_vars
  BY <1>3 DEF ListenerStep, Next
<1>4. CASE DeliverStep
  BY <1>4 DEF DeliverStep, Next
<1> QED BY <1>1, <1>2, <1>3, <1>4 DEF IngestNext

-----------------------------------------------------------------------------
\* How many connections are counting, if their phases are ph.
CountIn(ph) == Cardinality({d \in Conn : ph[d] = "counting"})

\* At most one connection is counting.
LEMMA CountingFacts ==
  ASSUME NEW ph, NEW c \in Conn, \A d \in Conn : d # c => ph[d] # "counting"
  PROVE  CountIn(ph) = IF ph[c] = "counting" THEN 1 ELSE 0
<1>1. CASE ph[c] = "counting"
  <2>1. {d \in Conn : ph[d] = "counting"} = {c}
    BY <1>1
  <2> QED BY <1>1, <2>1, FS_Singleton DEF CountIn
<1>2. CASE ph[c] # "counting"
  <2>1. {d \in Conn : ph[d] = "counting"} = {}
    BY <1>2
  <2> QED BY <1>2, <2>1, FS_EmptySet DEF CountIn
<1> QED BY <1>1, <1>2

\* Steps that neither touch the stream nor the connection that holds it.
LEMMA IdleKeeps ==
  ASSUME IngestIInv, UNCHANGED vars, Holders' = Holders,
         \A d \in Holders : UNCHANGED <<declared[d], records[d], nextPosition[d]>>
  PROVE  /\ SourceMoves
         /\ SourceHasOneReader'
         /\ (\A d \in Holders : CountsOn(d))'
         /\ Fits(current)'
         /\ (todo # {} => Fits(outgoing) /\ AllBehind(outgoing))'
<1>1. UNCHANGED <<source, current, listeners, packets, held, outgoing, todo>>
  BY VarsFacts
<1>2. \A p : AllBehind(p)' <=> AllBehind(p)
  BY <1>1 DEF AllBehind, Behind, Due
<1>3. current \in Packet
  BY DEF IngestIInv, IInv, TypeOK
<1>4. Precedes(current, current')
  BY <1>1, <1>3, PrecedesItself DEF SameSession
<1>5. SourceMoves
  BY <1>1, <1>2, <1>4 DEF SourceMoves
<1>6. SourceHasOneReader'
  BY <1>1 DEF IngestIInv, SourceOK, SourceHasOneReader
<1>7. (\A d \in Holders : CountsOn(d))'
  BY <1>1 DEF IngestIInv, SourceOK, CountsOn
<1>8. Fits(current)'
  BY <1>1 DEF IngestIInv, SourceOK, Fits
<1>9. (todo # {} => Fits(outgoing) /\ AllBehind(outgoing))'
  BY <1>1 DEF IngestIInv, SourceOK, Fits, AllBehind, Behind, Due
<1> QED BY <1>5, <1>6, <1>7, <1>8, <1>9

\* A connection that does not hold the stream comes, goes or loses its peer.
LEMMA BystanderKeeps ==
  ASSUME IngestIInv, NEW c \in Conn,
         AcceptConn(c) \/ PeerDies(c) \/ HeaderFails(c) \/ HeaderRefused(c)
  PROVE  SourceOK' /\ SourceMoves
<1>1. ConnectionTypes /\ CountsFromZero /\ IngressLag /\ TimeLeft
  BY DEF IngestIInv, SourceOK
<1>2. UNCHANGED vars /\ UNCHANGED <<ingressAudio, timeline>>
  BY DEF AcceptConn, PeerDies, HeaderFails, HeaderRefused
<1>3. /\ phase' \in [Conn -> Phase] /\ alive' \subseteq Conn
      /\ phase'[c] = phase[c] \/ (phase[c] \notin {"reading", "counting"}
                                   /\ phase'[c] \notin {"reading", "counting"})
      /\ \A d \in Conn \ {c} : phase'[d] = phase[d]
  BY <1>1 DEF ConnectionTypes, Phase, AcceptConn, PeerDies, HeaderFails, HeaderRefused, Close
<1>4. /\ declared' \in [Conn -> Format \cup {NoFormat}] /\ records' \in [Conn -> BOOLEAN]
      /\ nextPosition' \in [Conn -> Nat]
      /\ \A d \in Holders : UNCHANGED <<declared[d], records[d], nextPosition[d]>>
      /\ \A d \in Conn \ Holders : nextPosition'[d] = 0
  <2>1. CASE UNCHANGED <<declared, records, nextPosition>>
    BY <1>1, <2>1 DEF ConnectionTypes, CountsFromZero
  <2>2. CASE Close(c) /\ phase[c] = "header"
    <3>1. c \notin Holders
      BY <2>2 DEF Holders
    <3>2. /\ declared' = [declared EXCEPT ![c] = NoFormat]
          /\ records' = [records EXCEPT ![c] = FALSE]
          /\ nextPosition' = [nextPosition EXCEPT ![c] = 0]
      BY <2>2 DEF Close
    <3>3. /\ declared' \in [Conn -> Format \cup {NoFormat}]
          /\ \A d \in Conn : d # c => declared'[d] = declared[d]
      BY <1>1, <3>2 DEF ConnectionTypes
    <3>4. records' \in [Conn -> BOOLEAN] /\ \A d \in Conn : d # c => records'[d] = records[d]
      BY <1>1, <3>2 DEF ConnectionTypes
    <3>5. /\ nextPosition' \in [Conn -> Nat] /\ nextPosition'[c] = 0
          /\ \A d \in Conn : d # c => nextPosition'[d] = nextPosition[d]
      BY <1>1, <3>2 DEF ConnectionTypes
    <3>6. \A d \in Holders : d \in Conn /\ d # c
      BY <3>1 DEF Holders
    <3> QED BY <1>1, <3>3, <3>4, <3>5, <3>6 DEF CountsFromZero
  <2> QED BY <2>1, <2>2 DEF AcceptConn, PeerDies, HeaderFails, HeaderRefused
<1>5. Holders' = Holders
      /\ {d \in Conn : phase'[d] = "counting"} = {d \in Conn : phase[d] = "counting"}
  BY <1>3 DEF Holders
<1>6. ConnectionTypes'
  BY <1>1, <1>2, <1>3, <1>4 DEF ConnectionTypes
<1>7. CountsFromZero'
  BY <1>4, <1>5 DEF CountsFromZero
<1>8. IngressLag' /\ TimeLeft'
  BY <1>1, <1>2, <1>5, VarsFacts DEF IngressLag, TimeLeft
<1> QED BY <1>2, <1>4, <1>5, <1>6, <1>7, <1>8, IdleKeeps DEF SourceOK

\* A frame is counted after it was published.
LEMMA CountIngressKeeps ==
  ASSUME IngestIInv, NEW c \in Conn, CountIngress(c)
  PROVE  SourceOK' /\ SourceMoves
<1>1. ConnectionTypes /\ CountsFromZero /\ IngressLag /\ TimeLeft
  BY DEF IngestIInv, SourceOK
<1>2. /\ UNCHANGED vars /\ UNCHANGED <<alive, declared, records, nextPosition, timeline>>
      /\ phase[c] = "counting" /\ phase' = [phase EXCEPT ![c] = "reading"]
      /\ ingressAudio' = ingressAudio + 1
  BY DEF CountIngress
<1>3. Holders = {c}
  BY <1>2, HolderFacts DEF Holders
<1>4. phase' \in [Conn -> Phase] /\ phase'[c] = "reading" /\ \A d \in Conn \ {c} : phase'[d] = phase[d]
  BY <1>1, <1>2 DEF ConnectionTypes, Phase
<1>5. Holders' = Holders
  BY <1>2, <1>4 DEF Holders
<1>6. ConnectionTypes'
  BY <1>1, <1>2, <1>4 DEF ConnectionTypes
<1>7. CountsFromZero'
  BY <1>1, <1>2, <1>5 DEF CountsFromZero
<1>8. IngressLag'
  <2>1. \A d \in Conn : d # c => phase[d] # "counting" /\ phase'[d] # "counting"
    BY <1>3, <1>4 DEF Holders
  <2>2. CountIn(phase) = 1 /\ CountIn(phase') = 0
    BY <1>2, <1>4, <2>1, CountingFacts
  <2>3. published' = published /\ ingressAudio \in Nat
    BY <1>1, <1>2, VarsFacts DEF ConnectionTypes
  <2> QED BY <1>1, <1>2, <2>2, <2>3 DEF IngressLag, CountIn
<1>9. TimeLeft'
  BY <1>1, <1>2, VarsFacts DEF TimeLeft
<1>10. \A d \in Holders : UNCHANGED <<declared[d], records[d], nextPosition[d]>>
  BY <1>2
<1> QED BY <1>2, <1>5, <1>6, <1>7, <1>8, <1>9, <1>10, IdleKeeps DEF SourceOK

\* A connection claims the stream: nobody has heard of the session that opens.
LEMMA HeaderAcceptedKeeps ==
  ASSUME IngestIInv, NEW c \in Conn, NEW f \in Format, NEW sparse \in BOOLEAN,
         HeaderAccepted(c, f, sparse)
  PROVE  SourceOK' /\ SourceMoves
<1>1. /\ ConnectionTypes /\ CountsFromZero /\ IngressLag /\ TimeLeft
      /\ TypeOK /\ SourceHasOneReader
  BY DEF IngestIInv, SourceOK, IInv
<1>2. /\ phase[c] = "header" /\ acquire(f, sparse)
      /\ phase' = [phase EXCEPT ![c] = "reading"]
      /\ declared' = [declared EXCEPT ![c] = f]
      /\ records' = [records EXCEPT ![c] = sparse]
      /\ UNCHANGED <<alive, nextPosition, ingressAudio, timeline>>
  BY DEF HeaderAccepted
<1>3. /\ source = NoFormat /\ todo = {} /\ source' = f /\ current' = Opened(f, sparse)
      /\ UNCHANGED <<suppressed, published, listeners, packets, held>>
  BY <1>2 DEF acquire, Unlocked, registry, channels
<1>4. IF sparse THEN outgoing' = current' ELSE UNCHANGED <<outgoing, todo>>
  BY <1>2 DEF acquire, Broadcast, delivery
<1>5. /\ current' \in Packet /\ current'.epoch = current.epoch + 1
      /\ current'.state = "live" /\ current'.sparse = sparse
      /\ current'.format = f /\ current'.frame = NoFormat /\ current'.position = 0
  BY <1>1, <1>3, OpenedFacts DEF Opened
<1>6. current \in Packet /\ current.epoch \in Nat
  BY <1>1 DEF TypeOK, Packet
<1>7. \A p \in Packet : Precedes(p, current) => p.epoch # current'.epoch
  <2> SUFFICES ASSUME NEW p \in Packet, Precedes(p, current) PROVE p.epoch # current'.epoch
    OBVIOUS
  <2>1. p.epoch \in Nat /\ p.epoch <= current.epoch
    BY DEF Packet, Precedes, MayFollow
  <2> QED BY <1>5, <1>6, <2>1
<1>8. SourceMoves
  <2>1. Precedes(current, current')
    <3>1. current.epoch <= current'.epoch /\ current.epoch # current'.epoch
      BY <1>5, <1>6
    <3> QED BY <1>5, <3>1 DEF Precedes, MayFollow
  <2>2. \A p \in Packet : Precedes(p, current) /\ AllBehind(p) => AllBehind(p)'
    BY <1>7 DEF AllBehind, Behind
  <2>3. CASE sparse
    <3>1. \A p \in Packet : Precedes(p, current) => Steps(p, outgoing')
      BY <1>4, <1>7, <2>3, StepsToAnother
    <3> QED BY <1>3, <2>1, <2>2, <3>1 DEF SourceMoves
  <2>4. CASE ~sparse
    BY <1>3, <1>4, <2>1, <2>2, <2>4 DEF SourceMoves
  <2> QED BY <2>3, <2>4
<1>9. Holders = {} /\ Holders' = {c}
  <2>1. Holders = {}
    BY <1>1, <1>3 DEF SourceHasOneReader
  <2> QED BY <1>1, <1>2, <2>1 DEF Holders, ConnectionTypes
<1>10. declared'[c] = f /\ records'[c] = sparse /\ nextPosition'[c] = 0
  BY <1>1, <1>2, <1>9 DEF ConnectionTypes, CountsFromZero
<1>11. ConnectionTypes'
  BY <1>1, <1>2 DEF ConnectionTypes, Phase
<1>12. SourceHasOneReader'
  BY <1>3, <1>5, <1>9, <1>10, FormatAssumption DEF SourceHasOneReader
<1>13. CountsFromZero'
  BY <1>1, <1>2, <1>9 DEF CountsFromZero
<1>14. (\A d \in Holders : CountsOn(d))'
  BY <1>5, <1>9, <1>10 DEF CountsOn
<1>15. IngressLag'
  <2>1. {d \in Conn : phase'[d] = "counting"} = {d \in Conn : phase[d] = "counting"}
    BY <1>1, <1>2 DEF ConnectionTypes
  <2> QED BY <1>1, <1>2, <1>3, <2>1 DEF IngressLag
<1>16. TimeLeft'
  <2>1. published + suppressed <= timeline
    BY <1>1 DEF TimeLeft, TypeOK, ConnectionTypes
  <2>2. published' + suppressed' <= timeline' /\ published + suppressed + 0 = published + suppressed
    BY <1>1, <1>2, <1>3, <2>1 DEF TypeOK
  <2> QED BY <1>3, <1>5, <2>2 DEF TimeLeft
<1>17. Fits(current)'
  BY <1>5, <1>6 DEF Fits
<1>18. (todo # {} => Fits(outgoing) /\ AllBehind(outgoing))'
  <2>1. CASE sparse
    <3>1. Behind(current, c)'
      BY <1>5, <1>10, <2>1 DEF Behind, Due, Announcing
    <3>2. AllBehind(outgoing)' /\ Fits(outgoing)'
      BY <1>4, <1>9, <1>17, <2>1, <3>1 DEF AllBehind, Behind, Fits
    <3> QED BY <3>2
  <2>2. CASE ~sparse
    BY <1>3, <1>4, <2>2
  <2> QED BY <2>1, <2>2
<1> QED BY <1>8, <1>11, <1>12, <1>13, <1>14, <1>15, <1>16, <1>17, <1>18 DEF SourceOK

\* A connection ends and gives the stream back: only "waiting" follows.
LEMMA ReadFailsKeeps ==
  ASSUME IngestIInv, NEW c \in Conn, ReadFails(c)
  PROVE  SourceOK' /\ SourceMoves
<1>1. /\ ConnectionTypes /\ CountsFromZero /\ IngressLag /\ TimeLeft /\ TypeOK
  BY DEF IngestIInv, SourceOK, IInv
<1>2. /\ phase[c] = "reading" /\ ReleaseSource /\ Close(c)
      /\ UNCHANGED <<ingressAudio, timeline>>
  BY DEF ReadFails
<1>3. /\ source' = NoFormat /\ current' = Closed /\ outgoing' = current'
      /\ UNCHANGED <<suppressed, published, listeners, packets, held>>
  BY <1>2 DEF ReleaseSource, Broadcast, registry, channels
<1>4. /\ current' \in Packet /\ current'.epoch = current.epoch
      /\ current'.state = "waiting" /\ current'.frame = NoFormat
  BY <1>1, <1>3, ClosedFacts
<1>5. Holders = {c}
  BY <1>2, HolderFacts DEF Holders
<1>6. /\ phase' \in [Conn -> Phase] /\ phase'[c] = "closed"
      /\ \A d \in Conn : d # c => phase'[d] = phase[d]
  BY <1>1, <1>2 DEF Close, ConnectionTypes, Phase
<1>7. Holders' = {}
  BY <1>5, <1>6 DEF Holders
<1>8. SourceMoves
  <2>1. current \in Packet /\ current.epoch \in Nat
    BY <1>1 DEF TypeOK, Packet
  <2>2. current.epoch <= current'.epoch
    BY <1>4, <2>1
  <2>3. Precedes(current, current')
    BY <1>4, <2>2 DEF Precedes, MayFollow
  <2>4. \A p \in Packet : AllBehind(p)'
    BY <1>7 DEF AllBehind
  <2>5. \A p \in Packet : Steps(p, outgoing')
    BY <1>3, <1>4, StepsToWaiting
  <2> QED BY <1>3, <2>3, <2>4, <2>5 DEF SourceMoves
<1>9. ConnectionTypes'
  <2>1. declared' \in [Conn -> Format \cup {NoFormat}]
    BY <1>1, <1>2 DEF Close, ConnectionTypes
  <2>2. records' \in [Conn -> BOOLEAN]
    BY <1>1, <1>2 DEF Close, ConnectionTypes
  <2>3. nextPosition' \in [Conn -> Nat] /\ alive' \subseteq Conn
    BY <1>1, <1>2 DEF Close, ConnectionTypes
  <2> QED BY <1>1, <1>2, <1>6, <2>1, <2>2, <2>3 DEF ConnectionTypes
<1>10. SourceHasOneReader' /\ (\A d \in Holders : CountsOn(d))'
  BY <1>3, <1>7 DEF SourceHasOneReader
<1>11. CountsFromZero'
  BY <1>1, <1>2, <1>5, <1>7 DEF CountsFromZero, Close, ConnectionTypes
<1>12. IngressLag'
  <2>1. {d \in Conn : phase'[d] = "counting"} = {d \in Conn : phase[d] = "counting"}
    BY <1>2, <1>6
  <2> QED BY <1>1, <1>2, <1>3, <2>1 DEF IngressLag
<1>13. TimeLeft'
  <2>1. published + suppressed <= timeline
    BY <1>1 DEF TimeLeft, TypeOK, ConnectionTypes
  <2>2. published' + suppressed' + 0 <= timeline'
    BY <1>1, <1>2, <1>3, <2>1 DEF TypeOK
  <2> QED BY <1>4, <2>2 DEF TimeLeft
<1>14. Fits(current)' /\ (Fits(outgoing) /\ AllBehind(outgoing))'
  BY <1>3, <1>4, <1>7 DEF Fits, AllBehind
<1> QED BY <1>8, <1>9, <1>10, <1>11, <1>12, <1>13, <1>14 DEF SourceOK

\* What is published comes after everything, and everything is behind what
\* may be published next.
LEMMA BehindPublished ==
  ASSUME NEW p \in Packet, NEW q \in Packet, NEW c, Behind(p, c), Due(c) \in Nat,
         q.epoch = current.epoch, ~Announcing(q), q.position >= Due(c)
  PROVE  Steps(p, q) /\ (p.epoch = q.epoch /\ p.state # "" => p.position < q.position + 1)
<1>1. p.position \in Nat /\ q.position \in Nat
  BY DEF Packet
<1>2. CASE p.epoch = q.epoch /\ p.state # ""
  <2>1. p.position < Due(c) \/ (Announcing(p) /\ p.position = Due(c))
    BY <1>2 DEF Behind
  <2>2. p.position < q.position \/ (Announcing(p) /\ p.position = q.position)
    BY <1>1, <2>1
  <2>3. Advances(p, q)
    BY <2>2 DEF Advances
  <2>4. p.position < q.position + 1
    BY <1>1, <2>2
  <2> QED BY <2>3, <2>4 DEF Steps
<1>3. CASE ~(p.epoch = q.epoch /\ p.state # "")
  BY <1>3, StepsToAnother
<1> QED BY <1>2, <1>3

\* A connection publishes a record or a frame.
LEMMA PublishKeeps ==
  ASSUME IngestIInv, NEW c \in Conn, phase[c] = "reading",
         NEW position \in Nat, NEW frame \in {source, NoFormat},
         publish(position, frame), position >= Due(c),
         ~records[c] => frame = source /\ position = current.position + 1,
         nextPosition' = [nextPosition EXCEPT ![c] = IF records[c] THEN position + 1 ELSE position],
         timeline' = timeline + (nextPosition'[c] - nextPosition[c]),
         phase' = [phase EXCEPT ![c] = IF frame = NoFormat THEN @ ELSE "counting"],
         UNCHANGED <<alive, declared, records, ingressAudio>>
  PROVE  SourceOK' /\ SourceMoves
<1>1. /\ ConnectionTypes /\ CountsFromZero /\ IngressLag /\ TimeLeft
      /\ TypeOK /\ SourceHasOneReader /\ Fits(current)
  BY DEF IngestIInv, SourceOK, IInv
<1>2. /\ Holders = {c} /\ source # NoFormat /\ source \in Format /\ declared[c] = source
      /\ records[c] = current.sparse /\ CountsOn(c) /\ current.state \in {"live", "quiet"}
  BY HolderFacts DEF Holders
<1> DEFINE p == Published(position, frame)
<1>3. /\ p \in Packet /\ p.epoch = current.epoch /\ p.sparse = current.sparse
      /\ p.format = source /\ p.position = position /\ p.frame = frame
      /\ p.state = IF frame = NoFormat THEN "quiet" ELSE "live"
  <2>1. p.frame = frame /\ p.state = IF frame = NoFormat THEN "quiet" ELSE "live"
    BY DEF Published
  <2>2. frame \in Format \cup {NoFormat}
    BY <1>2
  <2> QED BY <1>1, <2>1, <2>2, PublishedFacts
<1>4. /\ outgoing' = p /\ current' = WithoutFrame(p)
      /\ suppressed' = suppressed + Gap(position)
      /\ published' = published + (IF frame = NoFormat THEN 0 ELSE 1)
      /\ UNCHANGED <<source, listeners, packets, held>>
  BY DEF publish, Broadcast, registry, channels
<1> HIDE DEF p
<1>5. /\ current' \in Packet /\ current'.frame = NoFormat /\ current'.position = position
      /\ current'.epoch = current.epoch /\ current'.state = p.state
      /\ current'.format = source /\ current'.sparse = current.sparse
  BY <1>3, <1>4, WithoutFrameFacts DEF SameSession
<1>6. /\ current \in Packet /\ current.epoch \in Nat /\ current.position \in Nat
      /\ nextPosition[c] \in Nat /\ timeline \in Nat
      /\ published \in Nat /\ suppressed \in Nat
  BY <1>1 DEF TypeOK, Packet, ConnectionTypes
<1>7. /\ nextPosition' \in [Conn -> Nat]
      /\ nextPosition'[c] = IF records[c] THEN position + 1 ELSE position
      /\ \A d \in Conn : d # c => nextPosition'[d] = nextPosition[d]
  BY <1>1 DEF ConnectionTypes
<1>8. /\ phase' \in [Conn -> Phase]
      /\ phase'[c] = IF frame = NoFormat THEN "reading" ELSE "counting"
      /\ \A d \in Conn : d # c => phase'[d] = phase[d]
  BY <1>1 DEF ConnectionTypes, Phase
<1>9. Holders' = {c}
  BY <1>2, <1>8 DEF Holders
<1>10. Due(c) \in Nat /\ (Due(c))' = position + 1
  BY <1>6, <1>7 DEF Due
<1>11. ~Announcing(p)
  BY <1>2, <1>3 DEF Announcing
<1>12. SourceMoves
  <2>1. Precedes(current, current')
    <3>1. current.epoch <= current'.epoch
      BY <1>5, <1>6
    <3>2. current.format = source
      BY <1>2 DEF IngestIInv, IInv, SourceState
    <3> QED BY <1>2, <1>3, <1>5, <3>1, <3>2 DEF Precedes, MayFollow
  <2>2. ASSUME NEW q \in Packet, AllBehind(q) PROVE AllBehind(q)' /\ Steps(q, outgoing')
    <3>1. Behind(q, c)
      BY <1>2, <2>2 DEF AllBehind
    <3>2. Steps(q, p) /\ (q.epoch = p.epoch /\ q.state # "" => q.position < position + 1)
      BY <1>3, <1>10, <1>11, <3>1, BehindPublished
    <3>3. Behind(q, c)'
      BY <1>3, <1>5, <1>10, <3>2 DEF Behind
    <3> QED BY <1>4, <1>9, <3>2, <3>3 DEF AllBehind
  <2> QED BY <1>4, <2>1, <2>2 DEF SourceMoves
<1>13. ConnectionTypes'
  <2>1. timeline' \in Nat
    BY <1>6, <1>7 DEF Due
  <2> QED BY <1>1, <1>7, <1>8, <2>1 DEF ConnectionTypes
<1>14. SourceHasOneReader'
  BY <1>2, <1>4, <1>5, <1>9 DEF SourceHasOneReader
<1>15. CountsFromZero'
  BY <1>1, <1>2, <1>7, <1>9 DEF CountsFromZero
<1>16. (\A d \in Holders : CountsOn(d))'
  BY <1>2, <1>3, <1>5, <1>7, <1>9 DEF CountsOn
<1>17. IngressLag'
  <2>1. \A d \in Conn : d # c => phase[d] # "counting" /\ phase'[d] # "counting"
    BY <1>2, <1>8 DEF Holders
  <2>2. CountIn(phase) = 0 /\ CountIn(phase') = IF frame = NoFormat THEN 0 ELSE 1
    BY <1>8, <2>1, CountingFacts
  <2>3. ingressAudio \in Nat
    BY <1>1 DEF ConnectionTypes
  <2> QED BY <1>1, <1>4, <2>2, <2>3 DEF IngressLag, CountIn
<1>18. TimeLeft'
  <2> DEFINE before == IF current.state = "quiet" THEN 1 ELSE 0
             after == IF frame = NoFormat THEN 1 ELSE 0
  <2>1. published + suppressed + before <= timeline
    BY <1>1 DEF TimeLeft
  <2>2. Gap(position) + 1 <= nextPosition'[c] - nextPosition[c] + before
        /\ Gap(position) \in Nat
    BY <1>2, <1>6, <1>7 DEF Gap, CountsOn, Due
  <2>3. published' + suppressed' + after = published + suppressed + Gap(position) + 1
    BY <1>4, <1>6, <2>2
  <2>4. nextPosition'[c] - nextPosition[c] \in Int /\ before \in {0, 1} /\ after \in {0, 1}
    BY <1>6, <1>7
  <2>5. (IF current.state = "quiet" THEN 1 ELSE 0)' = after
    BY <1>3, <1>5
  <2> HIDE DEF before, after
  <2>6. published' + suppressed' + after <= timeline'
    BY <1>6, <2>1, <2>2, <2>3, <2>4
  <2> QED BY <2>5, <2>6 DEF TimeLeft
<1>19. Fits(outgoing)' /\ Fits(current)'
  <2>1. current.epoch > 0
    BY <1>1, <1>2 DEF Fits
  <2>2. current.state = "live" \/ current.sparse
    BY <1>1, <1>2 DEF Fits
  <2>3. frame = NoFormat => current.sparse
    BY <1>2
  <2> QED BY <1>2, <1>3, <1>4, <1>5, <2>1, <2>3 DEF Fits
<1>20. AllBehind(outgoing)'
  <2>1. position < position + 1 /\ outgoing'.position = position
    BY <1>3, <1>4
  <2>2. outgoing'.position < (Due(c))'
    BY <1>10, <2>1
  <2> QED BY <1>9, <2>2 DEF AllBehind, Behind
<1> QED BY <1>12, <1>13, <1>14, <1>15, <1>16, <1>17, <1>18, <1>19, <1>20 DEF SourceOK

\* A record is read: its position is the next, or a later one.
LEMMA ReadRecordKeeps ==
  ASSUME IngestIInv, NEW c \in Conn, NEW position \in 0..MaxPosition,
         NEW frame \in {declared[c], NoFormat}, ReadRecord(c, position, frame)
  PROVE  SourceOK' /\ SourceMoves
<1>1. c \in Holders
  BY DEF ReadRecord, Holders
<1>2. frame \in {source, NoFormat} /\ declared[c] = source
  BY <1>1, HolderFacts
<1>3. position \in Nat /\ nextPosition[c] \in Nat /\ timeline \in Nat
      /\ nextPosition \in [Conn -> Nat]
  BY BoundAssumption DEF IngestIInv, SourceOK, ConnectionTypes
<1>4. records[c] /\ publish(position, frame) /\ position >= Due(c)
  BY DEF ReadRecord, PublishRecord, ValidPosition, Due
<1>5. nextPosition' = [nextPosition EXCEPT ![c] = IF records[c] THEN position + 1 ELSE position]
  BY <1>4 DEF ReadRecord
<1>6. timeline' = timeline + (nextPosition'[c] - nextPosition[c])
  <2>1. timeline' = timeline + position + 1 - nextPosition[c] /\ nextPosition'[c] = position + 1
    BY <1>3 DEF ReadRecord
  <2> QED BY <1>3, <2>1
<1>7. /\ phase[c] = "reading"
      /\ phase' = [phase EXCEPT ![c] = IF frame = NoFormat THEN @ ELSE "counting"]
      /\ UNCHANGED <<alive, declared, records, ingressAudio>>
  BY DEF ReadRecord
<1> QED BY <1>2, <1>3, <1>4, <1>5, <1>6, <1>7, PublishKeeps

\* A legacy frame is read: its position is one more than the last.
LEMMA ReadFrameKeeps ==
  ASSUME IngestIInv, NEW c \in Conn, ReadFrame(c)
  PROVE  SourceOK' /\ SourceMoves
<1>1. c \in Holders
  BY DEF ReadFrame, Holders
<1>2. declared[c] = source /\ source # NoFormat /\ CountsOn(c) /\ ~records[c]
  BY <1>1, HolderFacts DEF ReadFrame
<1>3. nextPosition[c] \in Nat /\ timeline \in Nat /\ nextPosition \in [Conn -> Nat]
  BY DEF IngestIInv, SourceOK, ConnectionTypes
<1> DEFINE position == nextPosition[c] + 1
<1>4. position \in Nat /\ position = current.position + 1 /\ position >= Due(c)
  BY <1>2, <1>3 DEF CountsOn, Due
<1>5. publish(position, source)
  BY <1>2, <1>4 DEF ReadFrame, Publish
<1>6. nextPosition' = [nextPosition EXCEPT ![c] = IF records[c] THEN position + 1 ELSE position]
  BY <1>2 DEF ReadFrame
<1>7. timeline' = timeline + (nextPosition'[c] - nextPosition[c])
  <2>1. timeline' = timeline + 1 /\ nextPosition'[c] = nextPosition[c] + 1
    BY <1>3 DEF ReadFrame
  <2> QED BY <1>3, <2>1
<1>8. /\ phase[c] = "reading"
      /\ phase' = [phase EXCEPT ![c] = IF source = NoFormat THEN @ ELSE "counting"]
      /\ UNCHANGED <<alive, declared, records, ingressAudio>>
  BY <1>2 DEF ReadFrame
<1> HIDE DEF position
<1> QED BY <1>2, <1>4, <1>5, <1>6, <1>7, <1>8, PublishKeeps

\* Every step of a source keeps the invariant's own part of it.
LEMMA SourceKeeps ==
  ASSUME IngestIInv, NEW c \in Conn, SourceStep(c) \/ PeerDies(c)
  PROVE  SourceOK' /\ SourceMoves
  BY BystanderKeeps, HeaderAcceptedKeeps, ReadRecordKeeps, ReadFrameKeeps, CountIngressKeeps,
     ReadFailsKeeps DEF SourceStep

-----------------------------------------------------------------------------
\* The packets of a backlog come before the state of the stream.
LEMMA BacklogFacts ==
  ASSUME IngestIInv, NEW l \in listeners
  PROVE  /\ l \in Listener /\ BacklogOK(l) /\ WayOK(l)
         /\ held[l] \in Packet /\ packets[l] \in Seq(Packet)
         /\ current \in Packet /\ outgoing \in Packet
         /\ \A p \in Backlog(l) : p \in Packet /\ Precedes(p, current)
<1>1. l \in Listener /\ BacklogOK(l) /\ WayOK(l) /\ TypeOK
  BY DEF IngestIInv, IInv, TypeOK
<1>2. /\ held[l] \in Packet /\ packets[l] \in Seq(Packet)
      /\ current \in Packet /\ outgoing \in Packet
  BY <1>1, TypeFacts
<1>3. Members(packets[l]) \subseteq Packet
  BY <1>2, MembersFacts, EmptyFacts
<1>4. Precedes(held[l], current) /\ \A p \in Members(packets[l]) : Precedes(p, current)
  BY <1>1 DEF BacklogOK, Ordered, Members
<1> QED BY <1>1, <1>2, <1>3, <1>4 DEF Backlog

\* A step of a source leaves every listener's way in order.
LEMMA SourceMovesKeepWays ==
  ASSUME IngestIInv, SourceMoves, NEW l \in listeners
  PROVE  WayOK(l)'
<1>1. /\ WayOK(l) /\ \A p \in Backlog(l) : p \in Packet /\ Precedes(p, current)
  BY BacklogFacts
<1>2. UNCHANGED <<packets, held>>
  BY DEF SourceMoves
<1>3. (Backlog(l))' = Backlog(l) /\ Rising(held[l], packets[l])'
  BY <1>1, <1>2 DEF Backlog, Members, WayOK, Rising
<1>4. ASSUME NEW p \in Backlog(l) PROVE AllBehind(p)' /\ (l \in todo' => Steps(p, outgoing'))
  <2>1. p \in Packet /\ Precedes(p, current) /\ AllBehind(p) /\ (l \in todo => Steps(p, outgoing))
    BY <1>1 DEF WayOK
  <2>2. AllBehind(p)'
    BY <2>1 DEF SourceMoves
  <2>3. l \in todo' => Steps(p, outgoing')
    BY <2>1 DEF SourceMoves
  <2> QED BY <2>2, <2>3
<1> QED BY <1>1, <1>3, <1>4 DEF WayOK, Fits

\* So does a step of the listeners' side: a packet is delivered, evicted or
\* received, or nothing happens to this listener.
LEMMA WayStep ==
  ASSUME IngestIInv, NEW l \in listeners, UNCHANGED <<current, connection>>,
         l \in todo' => l \in todo /\ outgoing' = outgoing,
         \/ held'[l] = held[l] /\ packets'[l] = packets[l]
         \/ packets[l] # <<>> /\ held'[l] \in {held[l], Head(packets[l])}
               /\ packets'[l] = Tail(packets[l])
         \/ l \in todo /\ l \notin todo' /\ held'[l] = held[l]
               /\ packets'[l] = Append(packets[l], outgoing)
  PROVE  WayOK(l)'
<1>1. /\ WayOK(l) /\ packets[l] \in Seq(Packet) /\ outgoing \in Packet
      /\ Rising(held[l], packets[l])
  BY BacklogFacts DEF WayOK
<1>2. \A p : AllBehind(p)' <=> AllBehind(p)
  BY DEF AllBehind, Behind, Due, Holders, connection
<1>3. CASE \/ held'[l] = held[l] /\ packets'[l] = packets[l]
           \/ packets[l] # <<>> /\ held'[l] \in {held[l], Head(packets[l])}
                 /\ packets'[l] = Tail(packets[l])
  <2>1. (Backlog(l))' \subseteq Backlog(l)
    <3>1. packets[l] # <<>> =>
            Head(packets[l]) \in Members(packets[l])
              /\ Members(Tail(packets[l])) \subseteq Members(packets[l])
      BY <1>1, MembersFacts, EmptyFacts
    <3>2. (Backlog(l))' = {held'[l]} \cup Members(packets'[l])
      BY DEF Backlog
    <3> QED BY <1>3, <3>1, <3>2 DEF Backlog
  <2>2. Rising(held[l], packets[l])'
    <3>1. Rising(held'[l], packets'[l])
      BY <1>1, <1>3, RisingTail
    <3> QED BY <3>1 DEF Rising
  <2> QED BY <1>1, <1>2, <2>1, <2>2 DEF WayOK, Fits
<1>4. CASE l \in todo /\ l \notin todo' /\ held'[l] = held[l]
              /\ packets'[l] = Append(packets[l], outgoing)
  <2>1. Fits(outgoing) /\ AllBehind(outgoing)
    BY <1>4 DEF IngestIInv, SourceOK
  <2>2. (Backlog(l))' = Backlog(l) \cup {outgoing}
    BY <1>1, <1>4, MembersFacts DEF Backlog
  <2>3. \A p \in (Backlog(l))' : Fits(p) /\ AllBehind(p)
    BY <1>1, <2>1, <2>2 DEF WayOK
  <2>4. Rising(held[l], packets[l])'
    <3>1. Steps(held[l], outgoing) /\ \A p \in Members(packets[l]) : Steps(p, outgoing)
      BY <1>1, <1>4 DEF WayOK, Backlog
    <3>2. Rising(held[l], Append(packets[l], outgoing))
      BY <1>1, <3>1, RisingAppend
    <3> QED BY <1>4, <3>2 DEF Rising
  <2> QED BY <1>2, <1>4, <2>3, <2>4 DEF WayOK, Fits
<1> QED BY <1>3, <1>4

\* The state of a session is not ahead of the connection that is read.
LEMMA CurrentIsBehind ==
  ASSUME IngestIInv, current.sparse
  PROVE  Fits(current) /\ AllBehind(current)
<1>1. Fits(current) /\ SourceState
  BY DEF IngestIInv, IInv, SourceOK
<1>2. ASSUME NEW c \in Holders PROVE Behind(current, c)
  <2>1. records[c] /\ CountsOn(c)
    BY HolderFacts
  <2>2. current.position \in Nat
    BY DEF IngestIInv, IInv, TypeOK, Packet
  <2>3. CASE nextPosition[c] = current.position + 1
    <3>1. current.position < Due(c)
      BY <2>1, <2>2, <2>3 DEF Due
    <3> QED BY <3>1 DEF Behind
  <2>4. CASE nextPosition[c] = 0 /\ current.position = 0 /\ current.state = "live"
    BY <1>1, <2>1, <2>4 DEF Due, Behind, Announcing, SourceState
  <2> QED BY <2>1, <2>3, <2>4 DEF CountsOn
<1> QED BY <1>1, <1>2 DEF AllBehind

\* Steps of the listeners' side leave the sources alone.
LEMMA ListenersKeepSource ==
  ASSUME IngestIInv, UNCHANGED <<session, connection, ingressAudio, timeline>>,
         todo' # {} => \/ todo # {} /\ outgoing' = outgoing
                       \/ current.sparse /\ outgoing' = current
  PROVE  SourceOK'
<1>1. SourceOK
  BY DEF IngestIInv
<1>2. UNCHANGED <<source, current, suppressed, published, phase, alive, declared, records,
                  nextPosition, ingressAudio, timeline>>
  BY DEF session, connection
<1>3. Holders' = Holders
  BY <1>2 DEF Holders
<1>4. \A p : AllBehind(p)' <=> AllBehind(p)
  BY <1>2, <1>3 DEF AllBehind, Behind, Due
<1>5. (todo # {} => Fits(outgoing) /\ AllBehind(outgoing))'
  <2>1. todo' # {} => Fits(outgoing') /\ AllBehind(outgoing')
    BY <1>1, CurrentIsBehind DEF SourceOK
  <2>2. AllBehind(outgoing)' <=> AllBehind(outgoing')
    BY <1>2, <1>3 DEF AllBehind, Behind, Due
  <2> QED BY <2>1, <2>2 DEF Fits
<1>6. ConnectionTypes' /\ SourceHasOneReader' /\ CountsFromZero'
  BY <1>1, <1>2, <1>3 DEF SourceOK, ConnectionTypes, SourceHasOneReader, CountsFromZero
<1>7. (\A c \in Holders : CountsOn(c))' /\ IngressLag' /\ TimeLeft' /\ Fits(current)'
  BY <1>1, <1>2, <1>3 DEF SourceOK, CountsOn, IngressLag, TimeLeft, Fits
<1> QED BY <1>5, <1>6, <1>7 DEF SourceOK

\* A listener joins, with nothing behind it but the state of the stream.
LEMMA AttachKeeps ==
  ASSUME IngestIInv, NEW l \in Listener, Attach(l),
         UNCHANGED <<connection, ingressAudio, timeline>>
  PROVE  SourceOK' /\ \A k \in listeners' : WayOK(k)'
<1>1. /\ todo = {} /\ listeners' = listeners \cup {l} /\ l \notin listeners
      /\ held' = [held EXCEPT ![l] = EmptyPacket]
      /\ packets' = [packets EXCEPT ![l] = <<>>]
      /\ UNCHANGED session /\ UNCHANGED current
  BY DEF Attach, Unlocked, session
<1>2. \/ todo' = {}
      \/ current.sparse /\ outgoing' = current /\ todo' = {l}
  BY <1>1 DEF Attach, delivery
<1>3. SourceOK'
  BY <1>1, <1>2, ListenersKeepSource
<1>4. TypeOK
  BY DEF IngestIInv, IInv
<1>5. ASSUME NEW k \in listeners PROVE WayOK(k)'
  <2>1. k # l /\ k \in Listener
    BY <1>1, <1>4 DEF TypeOK
  <2>2. held'[k] = held[k] /\ packets'[k] = packets[k]
    BY <1>1, <1>4, <2>1 DEF TypeOK
  <2>3. k \notin todo'
    BY <1>2, <2>1
  <2> QED BY <1>1, <2>2, <2>3, WayStep
<1>6. WayOK(l)'
  <2>1. held'[l] = EmptyPacket /\ packets'[l] = <<>>
    BY <1>1, <1>4 DEF TypeOK
  <2>2. (Backlog(l))' = {EmptyPacket}
    <3>1. Members(packets'[l]) = {}
      BY <2>1 DEF Members
    <3>2. (Backlog(l))' = {held'[l]} \cup Members(packets'[l])
      BY DEF Backlog
    <3> QED BY <2>1, <3>1, <3>2
  <2>3. Rising(held[l], packets[l])'
    BY <2>1 DEF Rising
  <2>4. /\ EmptyPacket.state = "" /\ EmptyPacket.frame = NoFormat
    BY DEF EmptyPacket
  <2>5. Fits(EmptyPacket) /\ AllBehind(EmptyPacket)' /\ Steps(EmptyPacket, outgoing')
    BY <2>4 DEF Fits, AllBehind, Behind, Steps, Advances
  <2> QED BY <2>2, <2>3, <2>5 DEF WayOK, AllBehind, Behind, Due, Holders, Announcing
<1> QED BY <1>1, <1>3, <1>5, <1>6

\* A listener leaves, or receives, or is delivered to.
LEMMA ListenerKeeps ==
  ASSUME IngestIInv, NEW l \in Listener, Detach(l) \/ Receive(l),
         UNCHANGED <<connection, ingressAudio, timeline>>
  PROVE  SourceOK' /\ \A k \in listeners' : WayOK(k)'
<1>1. /\ UNCHANGED session /\ UNCHANGED <<current, outgoing, todo>> /\ listeners' \subseteq listeners
  BY DEF Detach, Receive, session, registry, delivery
<1>2. SourceOK'
  BY <1>1, ListenersKeepSource
<1>3. ASSUME NEW k \in listeners' PROVE WayOK(k)'
  <2>1. k \in listeners /\ k \in Listener
    BY <1>1 DEF IngestIInv, IInv, TypeOK
  <2>2. \/ held'[k] = held[k] /\ packets'[k] = packets[k]
        \/ packets[k] # <<>> /\ held'[k] = Head(packets[k]) /\ packets'[k] = Tail(packets[k])
    <3>1. CASE Detach(l)
      <4>1. k # l
        BY <3>1, <1>3 DEF Detach
      <4> QED BY <2>1, <3>1, <4>1 DEF Detach, IngestIInv, IInv, TypeOK
    <3>2. CASE Receive(l)
      BY <2>1, <3>2 DEF Receive, IngestIInv, IInv, TypeOK
    <3> QED BY <3>1, <3>2
  <2> QED BY <1>1, <2>1, <2>2, WayStep
<1> QED BY <1>2, <1>3

\* The loop over the listeners runs a select.
LEMMA DeliverKeeps ==
  ASSUME IngestIInv, deliver, UNCHANGED <<connection, ingressAudio, timeline>>
  PROVE  SourceOK' /\ (\A k \in listeners' : WayOK(k)') /\ DeliverMoves
<1>1. TypeOK /\ OfferState /\ todo \subseteq listeners
  BY DEF IngestIInv, IInv, NoSendOnClosedChannel
<1>2. /\ UNCHANGED session /\ UNCHANGED <<current, outgoing, listeners, held>>
      /\ todo' \subseteq todo
  BY DEF deliver, DeliverSend, DeliverFull, DeliverEvict, DeliverResend, session, registry, channels
<1>3. SourceOK'
  BY <1>2, ListenersKeepSource
<1>4. ASSUME NEW k \in listeners
      PROVE  \/ packets'[k] = packets[k]
             \/ packets[k] # <<>> /\ packets'[k] = Tail(packets[k])
             \/ k \in todo /\ k \notin todo' /\ packets'[k] = Append(packets[k], outgoing)
  <2>1. k \in Listener /\ packets \in [Listener -> Seq(Packet)]
    BY <1>1 DEF TypeOK
  <2>2. ASSUME NEW l \in Listener, DeliverSend(l) \/ DeliverFull(l)
        PROVE  \/ packets'[k] = packets[k]
               \/ k \in todo /\ k \notin todo' /\ packets'[k] = Append(packets[k], outgoing)
    BY <2>1, <2>2 DEF DeliverSend, DeliverFull, channels
  <2>3. CASE DeliverEvict
    BY <2>1, <2>3 DEF DeliverEvict
  <2>4. CASE DeliverResend
    <3>1. select # 1 /\ offering \in todo
      BY <1>1, <2>4 DEF DeliverResend, OfferState, TypeOK
    <3> QED BY <2>1, <2>4, <3>1 DEF DeliverResend
  <2> QED BY <2>2, <2>3, <2>4 DEF deliver
<1>5. ASSUME NEW k \in listeners PROVE WayOK(k)'
  <2>1. held'[k] = held[k] /\ (k \in todo' => k \in todo)
    BY <1>2
  <2> QED BY <1>2, <1>4, <2>1, WayStep
<1>6. DeliverMoves
  <2>1. ASSUME NEW k \in listeners
        PROVE  \/ Members(packets'[k]) \subseteq Members(packets[k])
               \/ k \in todo /\ Members(packets'[k]) \subseteq Members(packets[k]) \cup {outgoing}
    <3>1. packets[k] \in Seq(Packet) /\ outgoing \in Packet
      BY BacklogFacts
    <3>2. /\ Members(Append(packets[k], outgoing)) = Members(packets[k]) \cup {outgoing}
          /\ packets[k] # <<>> => Members(Tail(packets[k])) \subseteq Members(packets[k])
      BY <3>1, MembersFacts
    <3> QED BY <1>4, <3>2
  <2> QED BY <1>2, <2>1 DEF DeliverMoves
<1> QED BY <1>2, <1>3, <1>5, <1>6

\* The invariant of Ingest is inductive.
LEMMA IngestNextKeeps ==
  ASSUME IngestIInv, IngestNext
  PROVE  IngestIInv'
<1>1. IInv'
  BY IngestStepIsStreamStep, NextPreservesIInv DEF IngestIInv
<1>2. ASSUME NEW c \in Conn, SourceStep(c) \/ PeerDies(c)
      PROVE  SourceOK' /\ \A l \in listeners' : WayOK(l)'
  <2>1. SourceOK' /\ SourceMoves
    BY <1>2, SourceKeeps
  <2>2. listeners' = listeners
    BY <2>1 DEF SourceMoves
  <2> QED BY <2>1, <2>2, SourceMovesKeepWays
<1>3. ASSUME NEW l \in Listener, ListenerStep(l)
      PROVE  SourceOK' /\ \A k \in listeners' : WayOK(k)'
  BY <1>3, AttachKeeps, ListenerKeeps DEF ListenerStep
<1>4. CASE DeliverStep
  <2>1. SourceOK' /\ \A k \in listeners' : WayOK(k)'
    BY <1>4, DeliverKeeps DEF DeliverStep
  <2> QED BY <1>1, <2>1 DEF IngestIInv
<1>5. SourceOK' /\ \A l \in listeners' : WayOK(l)'
  BY <1>2, <1>3, <1>4, DeliverKeeps DEF IngestNext, DeliverStep
<1> QED BY <1>1, <1>5 DEF IngestIInv

\* A step that changes nothing keeps it.
LEMMA IngestStutterKeeps ==
  ASSUME IngestIInv, UNCHANGED <<vars, connection, ingressAudio, timeline>>
  PROVE  IngestIInv'
<1>1. IInv'
  BY NextPreservesIInv DEF IngestIInv
<1>2. /\ UNCHANGED session /\ UNCHANGED <<current, outgoing, todo, listeners, packets, held>>
  BY VarsFacts DEF vars
<1>3. SourceOK'
  BY <1>2, ListenersKeepSource
<1>4. \A l \in listeners : WayOK(l)'
  BY <1>2, WayStep
<1> QED BY <1>1, <1>2, <1>3, <1>4 DEF IngestIInv

-----------------------------------------------------------------------------
\* The invariant of Ingest holds in every behavior.
LEMMA IngestIInvHolds == IngestSpec => []IngestIInv
<1>1. IngestIInv /\ [IngestNext]_ingestVars => IngestIInv'
  BY IngestNextKeeps, IngestStutterKeeps DEF ingestVars
<1> QED BY <1>1, InitEstablishesIngestIInv, PTL DEF IngestSpec

\* The state of the connections and of the stream keeps its types.
THEOREM IngestTypeCorrect == IngestSpec => []IngestTypeOK
<1>1. IngestIInv => IngestTypeOK
  BY DEF IngestIInv, IInv, SourceOK, ConnectionTypes, IngestTypeOK
<1> QED BY <1>1, IngestIInvHolds, PTL

\* Whatever TCP sources do, the stream sees a caller as module Stream assumes
\* one: sessions do not overlap, and every frame is in the session's format,
\* as a record where records are due.  So all that was proved of Stream's
\* steps holds in the relay.
THEOREM IngestDrivesTheStream == IngestSpec => Init /\ [][Next]_vars
<1>1. IngestInit => Init
  BY DEF IngestInit
<1>2. IngestIInv /\ [IngestNext]_ingestVars => [Next]_vars
  BY IngestStepIsStreamStep DEF ingestVars
<1> QED BY <1>1, <1>2, IngestIInvHolds, PTL DEF IngestSpec

\* The stream is held by the one connection that is read, or by none: a
\* refused source takes nothing, one that ended keeps nothing.
THEOREM StreamHasOneReader == IngestSpec => []SourceHasOneReader
<1>1. IngestIInv => SourceHasOneReader
  BY DEF IngestIInv, SourceOK
<1> QED BY <1>1, IngestIInvHolds, PTL

\* No queue ever has a frame in another format than its packet's.
THEOREM FramesNeverMismatch == IngestSpec => []FramesMatchTheirFormat
<1>1. IngestIInv => FramesMatchTheirFormat
  <2> SUFFICES ASSUME IngestIInv, NEW l \in listeners, NEW i \in 1..Len(packets[l])
               PROVE  packets[l][i].frame \in {packets[l][i].format, NoFormat}
    BY DEF FramesMatchTheirFormat
  <2>1. packets[l][i] \in Backlog(l)
    BY DEF Backlog, Members
  <2> QED BY <2>1 DEF IngestIInv, WayOK, Fits
<1> QED BY <1>1, IngestIInvHolds, PTL

\* Within a session positions grow in every backlog, with any number of
\* packets evicted from it and for a listener that joined at any time.
THEOREM PositionsNeverGoBack == IngestSpec => []PositionsAdvance
<1>1. IngestIInv => PositionsAdvance
  BY DEF IngestIInv, WayOK, Rising, Steps, PositionsAdvance
<1> QED BY <1>1, IngestIInvHolds, PTL

\* Frames published and frames suppressed never add up to more time than the
\* sources declared.
THEOREM TimeNeverCountsTwice == IngestSpec => []TimeIsCountedOnce
<1>1. IngestIInv => TimeIsCountedOnce
  BY DEF IngestIInv, IInv, TypeOK, SourceOK, ConnectionTypes, TimeLeft, TimeIsCountedOnce
<1> QED BY <1>1, IngestIInvHolds, PTL

-----------------------------------------------------------------------------
\* At any moment the count of ingress bytes lacks at most one frame.
LEMMA LagIsAtMostOne ==
  ASSUME IngestIInv
  PROVE  ingressAudio \in Nat /\ published \in Nat /\ published - ingressAudio \in {0, 1}
<1>1. IngressLag /\ ingressAudio \in Nat /\ published \in Nat
  BY DEF IngestIInv, SourceOK, ConnectionTypes, IInv, TypeOK
<1>2. Cardinality({c \in Conn : phase[c] = "counting"}) \in {0, 1}
  <2>1. CASE \E c \in Conn : phase[c] = "counting"
    <3>1. PICK c \in Conn : phase[c] = "counting"
      BY <2>1
    <3>2. Holders = {c}
      BY <3>1, HolderFacts DEF Holders
    <3>3. CountIn(phase) = 1
      BY <3>1, <3>2, CountingFacts DEF Holders
    <3> QED BY <3>3 DEF CountIn
  <2>2. CASE ~\E c \in Conn : phase[c] = "counting"
    <3>1. {c \in Conn : phase[c] = "counting"} = {}
      BY <2>2
    <3> QED BY <3>1, FS_EmptySet
  <2> QED BY <2>1, <2>2
<1> QED BY <1>1, <1>2 DEF IngressLag

\* The count of published frames never goes back.
LEMMA PublishedGrows ==
  ASSUME IngestIInv, IngestNext
  PROVE  published' >= published
<1>1. Next \/ UNCHANGED vars
  BY IngestStepIsStreamStep
<1>2. published \in Nat
  BY DEF IngestIInv, IInv, TypeOK
<1>3. CASE UNCHANGED published
  BY <1>2, <1>3
<1>4. ASSUME NEW position, NEW frame, publish(position, frame) PROVE published' >= published
  BY <1>2, <1>4 DEF publish
<1>5. CASE Next
  <2>1. UNCHANGED published \/ \E position, frame : publish(position, frame)
    BY <1>5 DEF Next, acquire, ReleaseSource, Publish, PublishRecord, Attach, Detach, Receive,
               deliver, DeliverSend, DeliverFull, DeliverEvict, DeliverResend, session
  <2> QED BY <1>3, <1>4, <2>1
<1>6. CASE UNCHANGED vars
  BY <1>3, <1>6, VarsFacts DEF session
<1> QED BY <1>1, <1>5, <1>6

\* What a request has read is no more than what is published by now, and was
\* no less than what was published then, but for a frame.
RequestOK ==
    request.reading =>
        /\ request.ingress \in Nat /\ request.before \in Nat
        /\ request.ingress <= published
        /\ request.before <= request.ingress + 1

\* However many frames are published between its two reads, a response to
\* /stats reports no audio as received that it does not report as published,
\* and lacks at most one frame of what was published when it read the first.
THEOREM StatsNeverDisagree == StatsSpec => StatsAddUp
<1>1. StatsInit => IngestIInv /\ RequestOK
  BY InitEstablishesIngestIInv DEF StatsInit, RequestOK, NoRequest
<1>2. ASSUME IngestIInv, RequestOK, [StatsNext]_statsVars
      PROVE  IngestIInv' /\ RequestOK'
  <2>1. CASE IngestNext /\ UNCHANGED request
    <3>1. IngestIInv'
      BY <1>2, <2>1, IngestNextKeeps
    <3>2. published' >= published /\ published' \in Nat /\ published \in Nat
      BY <1>2, <2>1, <3>1, PublishedGrows, LagIsAtMostOne DEF IngestIInv, IInv, TypeOK
    <3>3. RequestOK'
      BY <1>2, <2>1, <3>2 DEF RequestOK
    <3> QED BY <3>1, <3>3
  <2>2. CASE UNCHANGED ingestVars
    <3>1. IngestIInv' /\ published' = published
      BY <1>2, <2>2, IngestStutterKeeps, VarsFacts DEF ingestVars, session
    <3>2. CASE LoadIngress
      BY <1>2, <3>1, <3>2, LagIsAtMostOne DEF LoadIngress, RequestOK
    <3>3. CASE Respond \/ UNCHANGED request
      BY <1>2, <3>1, <3>3 DEF Respond, RequestOK, NoRequest
    <3>4. LoadIngress \/ Respond \/ UNCHANGED request
      BY <1>2 DEF StatsNext, statsVars
    <3> QED BY <3>1, <3>2, <3>3, <3>4
  <2> QED BY <1>2, <2>1, <2>2 DEF StatsNext, statsVars, LoadIngress, Respond
<1>3. RequestOK => [Respond => /\ Response.ingress <= Response.published
                               /\ request.before <= Response.ingress + 1]_statsVars
  BY DEF RequestOK, Respond, Response
<1> QED BY <1>1, <1>2, <1>3, PTL DEF StatsSpec, StatsAddUp
=============================================================================
