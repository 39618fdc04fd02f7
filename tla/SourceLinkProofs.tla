-------------------------- MODULE SourceLinkProofs --------------------------
(***************************************************************************)
(* What the proofs about the two sources share: the records between        *)
(* capture and the relay, in whichever queue, are in the order of their    *)
(* positions; the newest of them stays until it is sent or skipped.        *)
(***************************************************************************)
EXTENDS SourceLink, TLAPS

Record == [position: Nat, quiet: BOOLEAN]

Relay ==
    [open: BOOLEAN, since: Nat, known: BOOLEAN, position: Nat, quiet: BOOLEAN, age: Nat]

\* A queue of records at growing positions from `low' on, below `high'.
Ascending(q, low, high) ==
    /\ q \in Seq(Record)
    /\ \A i \in 1 .. Len(q) : low <= q[i].position /\ q[i].position < high
    /\ \A i, j \in 1 .. Len(q) : i < j => q[i].position < q[j].position

\* A record arrived only on a connection, and was queued after it was made.
LinkOK ==
    /\ relay \in Relay
    /\ ~relay.open => relay = NoLink
    /\ relay.known => relay.since <= relay.position

\* The position that what is still queued must not be below, for the relay to
\* hear of growing positions and of none from before its connection: it is past
\* the record being written, else past the last that arrived, else where the
\* connection began, once the backlog is discarded.
Floor(writing, hand, discarded) ==
    IF writing THEN hand.position + 1
    ELSE IF relay.known THEN relay.position + 1
    ELSE IF relay.open /\ discarded THEN relay.since
    ELSE 0

\* The record that is being written may arrive.
HandOK(hand) ==
    /\ hand \in Record
    /\ relay.open => relay.since <= hand.position
    /\ relay.known => relay.position < hand.position

-----------------------------------------------------------------------------
\* Offering the next record keeps the order.
LEMMA AscendingAppend ==
  ASSUME NEW q, NEW low \in Nat, NEW high \in Nat, Ascending(q, low, high), low <= high,
         NEW r \in Record, r.position = high
  PROVE  Ascending(Append(q, r), low, high + 1)
<1> DEFINE a == Append(q, r)
<1>1. /\ q \in Seq(Record) /\ Len(q) \in Nat
      /\ \A i \in 1 .. Len(q) : q[i] \in Record
  BY DEF Ascending
<1>2. /\ a \in Seq(Record) /\ Len(a) = Len(q) + 1
      /\ \A i \in 1 .. Len(q) : a[i] = q[i]
      /\ a[Len(q) + 1] = r
  BY <1>1
<1> HIDE DEF a
<1>3. \A i \in 1 .. Len(q) : q[i].position \in Nat
  BY <1>1 DEF Record
<1>4. ASSUME NEW i \in 1 .. Len(a) PROVE low <= a[i].position /\ a[i].position < high + 1
  <2>1. CASE i = Len(q) + 1
    BY <1>2, <2>1
  <2>2. CASE i # Len(q) + 1
    <3>1. i \in 1 .. Len(q) /\ a[i] = q[i]
      BY <1>1, <1>2, <2>2
    <3>2. low <= q[i].position /\ q[i].position < high /\ q[i].position \in Nat
      BY <1>3, <3>1 DEF Ascending
    <3> QED BY <3>1, <3>2
  <2> QED BY <2>1, <2>2
<1>5. ASSUME NEW i \in 1 .. Len(a), NEW j \in 1 .. Len(a), i < j
      PROVE  a[i].position < a[j].position
  <2>1. i \in 1 .. Len(q) /\ a[i] = q[i]
    BY <1>1, <1>2, <1>5
  <2>2. CASE j = Len(q) + 1
    BY <1>2, <2>1, <2>2 DEF Ascending
  <2>3. CASE j # Len(q) + 1
    <3>1. j \in 1 .. Len(q) /\ a[j] = q[j]
      BY <1>1, <1>2, <2>3
    <3> QED BY <1>5, <2>1, <3>1 DEF Ascending
  <2> QED BY <2>2, <2>3
<1>6. Ascending(a, low, high + 1)
  BY <1>2, <1>4, <1>5 DEF Ascending
<1> QED BY <1>6 DEF a

\* What is left when the oldest is received is past it.
LEMMA AscendingTail ==
  ASSUME NEW q, NEW low \in Nat, NEW high \in Nat, Ascending(q, low, high), q # <<>>
  PROVE  /\ Head(q) \in Record
         /\ low <= Head(q).position /\ Head(q).position < high
         /\ Ascending(Tail(q), Head(q).position + 1, high)
         /\ Ascending(Tail(q), low, high)
<1> DEFINE t == Tail(q)
           h == Head(q)
<1>1. /\ q \in Seq(Record) /\ Len(q) \in Nat \ {0}
      /\ \A i \in 1 .. Len(q) : q[i] \in Record
  BY DEF Ascending
<1>2. /\ t \in Seq(Record) /\ Len(t) = Len(q) - 1
      /\ \A i \in 1 .. Len(q) - 1 : t[i] = q[i + 1]
      /\ h = q[1] /\ 1 \in 1 .. Len(q)
  BY <1>1
<1> HIDE DEF t, h
<1>3. \A i \in 1 .. Len(q) : q[i].position \in Nat
  BY <1>1 DEF Record
<1>4. h \in Record /\ low <= h.position /\ h.position < high /\ h.position \in Nat
  BY <1>1, <1>2, <1>3 DEF Ascending
<1>5. ASSUME NEW i \in 1 .. Len(t)
      PROVE  /\ i + 1 \in 1 .. Len(q) /\ t[i] = q[i + 1] /\ q[i + 1].position \in Nat
             /\ h.position + 1 <= t[i].position /\ low <= t[i].position
             /\ t[i].position < high
  <2>1. i + 1 \in 1 .. Len(q) /\ 1 < i + 1 /\ t[i] = q[i + 1]
    BY <1>1, <1>2
  <2>2. q[i + 1].position \in Nat /\ q[1].position < q[i + 1].position
        /\ low <= q[i + 1].position /\ q[i + 1].position < high
    BY <1>2, <1>3, <2>1 DEF Ascending
  <2> QED BY <1>2, <1>4, <2>1, <2>2
<1>6. ASSUME NEW i \in 1 .. Len(t), NEW j \in 1 .. Len(t), i < j
      PROVE  t[i].position < t[j].position
  <2>1. i + 1 \in 1 .. Len(q) /\ j + 1 \in 1 .. Len(q) /\ i + 1 < j + 1
    BY <1>5, <1>6
  <2>2. q[i + 1].position < q[j + 1].position
    BY <2>1 DEF Ascending
  <2> QED BY <1>5, <2>2
<1>7. Ascending(t, h.position + 1, high) /\ Ascending(t, low, high)
  BY <1>2, <1>5, <1>6 DEF Ascending
<1> QED BY <1>4, <1>7 DEF t, h

\* A lower floor holds as well.
LEMMA AscendingLower ==
  ASSUME NEW q, NEW low \in Nat, NEW high \in Nat, Ascending(q, low, high),
         NEW least \in Nat, least <= low
  PROVE  Ascending(q, least, high)
<1>1. \A i \in 1 .. Len(q) : q[i] \in Record
  BY DEF Ascending
<1>2. \A i \in 1 .. Len(q) : q[i].position \in Nat
  BY <1>1 DEF Record
<1> QED BY <1>2 DEF Ascending

\* The queue that Offer and DropOldest make, which drop the oldest if need be.
LEMMA AscendingOffer ==
  ASSUME NEW q, NEW low \in Nat, NEW high \in Nat, Ascending(q, low, high), low <= high,
         NEW r \in Record, r.position = high
  PROVE  Ascending(Append(IF q = <<>> THEN q ELSE Tail(q), r), low, high + 1)
  BY AscendingAppend, AscendingTail

-----------------------------------------------------------------------------
HeardRecord == [open: BOOLEAN, since: Nat, known: BOOLEAN, position: Nat]

\* What was heard is told apart by its fields.
LEMMA HeardEqual ==
  ASSUME NEW r \in HeardRecord, NEW t \in HeardRecord,
         r.open = t.open, r.since = t.since, r.known = t.known, r.position = t.position
  PROVE  r = t
  BY DEF HeardRecord

\* A connection that was made, as the proofs of the refinement need it.
LEMMA HeardOfConnection ==
  ASSUME NEW r \in HeardRecord, r.open = FALSE, r.known = FALSE, r.position = 0,
         NEW since \in Nat
  PROVE  [r EXCEPT !.open = TRUE, !.since = since] =
            [open |-> TRUE, since |-> since, known |-> FALSE, position |-> 0]
<1> DEFINE s == [r EXCEPT !.open = TRUE, !.since = since]
           t == [open |-> TRUE, since |-> since, known |-> FALSE, position |-> 0]
<1>1. s \in HeardRecord /\ t \in HeardRecord
  BY DEF HeardRecord
<1>2. s.open = t.open /\ s.since = t.since /\ s.known = t.known /\ s.position = t.position
  BY DEF HeardRecord
<1> HIDE DEF s, t
<1>3. s = t
  BY <1>1, <1>2, HeardEqual
<1> QED BY <1>3 DEF s, t

\* And a record that arrived.
LEMMA HeardOfRecord ==
  ASSUME NEW r \in HeardRecord, NEW position \in Nat
  PROVE  [r EXCEPT !.known = TRUE, !.position = position] =
            [open |-> r.open, since |-> r.since, known |-> TRUE, position |-> position]
<1> DEFINE s == [r EXCEPT !.known = TRUE, !.position = position]
           t == [open |-> r.open, since |-> r.since, known |-> TRUE, position |-> position]
<1>1. s \in HeardRecord /\ t \in HeardRecord
  BY DEF HeardRecord
<1>2. s.open = t.open /\ s.since = t.since /\ s.known = t.known /\ s.position = t.position
  BY DEF HeardRecord
<1> HIDE DEF s, t
<1>3. s = t
  BY <1>1, <1>2, HeardEqual
<1> QED BY <1>3 DEF s, t

-----------------------------------------------------------------------------
\* The link after it is made, lost, or grown older.
LEMMA LinkUpOK ==
  ASSUME NEW queued \in Nat, LinkUp(queued)
  PROVE  /\ LinkOK'
         /\ relay' \in Relay
         /\ relay'.open /\ ~relay'.known /\ relay'.since = queued /\ relay'.position = 0
  BY DEF LinkUp, LinkOK, NoLink, Relay

\* A link that is lost is no link.
LEMMA LinkDownOK ==
  ASSUME LinkDown
  PROVE  LinkOK' /\ relay' \in Relay /\ relay' = NoLink /\ ~relay'.open /\ ~relay'.known
  BY DEF LinkDown, LinkOK, NoLink, Relay

\* Time that passes on a link is not heard.
LEMMA LinkAgesOK ==
  ASSUME LinkOK, LinkAges
  PROVE  /\ LinkOK'
         /\ HeardByRelay' = HeardByRelay
         /\ relay'.open = relay.open /\ relay'.since = relay.since
         /\ relay'.known = relay.known /\ relay'.position = relay.position
<1>1. MaxAge \in Nat
  BY LinkAssumption DEF MaxAge
<1>2. relay \in Relay
  BY DEF LinkOK
<1>3. (IF relay.open THEN Older(relay.age, MaxAge) ELSE 0) \in Nat
  BY <1>1, <1>2 DEF Older, Relay
<1>4. relay' = [relay EXCEPT !.age = IF relay.open THEN Older(relay.age, MaxAge) ELSE 0]
  BY DEF LinkAges
<1>5. /\ relay' \in Relay
      /\ relay'.open = relay.open /\ relay'.since = relay.since
      /\ relay'.known = relay.known /\ relay'.position = relay.position
  BY <1>2, <1>3, <1>4 DEF Relay
<1>6. ASSUME ~relay.open PROVE relay' = NoLink
  <2>1. relay = NoLink /\ relay' = [relay EXCEPT !.age = 0]
    BY <1>4, <1>6 DEF LinkOK
  <2>2. [NoLink EXCEPT !.age = 0] = NoLink
    BY DEF NoLink
  <2> QED BY <2>1, <2>2
<1> QED BY <1>5, <1>6 DEF LinkOK, HeardByRelay

\* A record that arrives on an open link is the last that was heard.
LEMMA ArrivesOK ==
  ASSUME LinkOK, NEW hand, HandOK(hand), Arrives(hand)
  PROVE  /\ LinkOK'
         /\ relay.open => /\ relay'.open /\ relay'.known
                          /\ relay'.since = relay.since
                          /\ relay'.position = hand.position
         /\ ~relay.open => relay' = relay /\ ~relay.known
<1>1. relay \in Relay /\ hand \in Record
  BY DEF LinkOK, HandOK
<1>2. CASE relay.open
  <2>1. relay' = [relay EXCEPT !.known = TRUE, !.age = 0, !.position = hand.position,
                               !.quiet = hand.quiet]
    BY <1>2 DEF Arrives
  <2>2. /\ relay' \in Relay
        /\ relay'.open = relay.open /\ relay'.since = relay.since
        /\ relay'.known = TRUE /\ relay'.position = hand.position
    BY <1>1, <2>1 DEF Relay, Record
  <2> QED BY <1>2, <2>2 DEF LinkOK, HandOK
<1>3. CASE ~relay.open
  BY <1>3 DEF Arrives, LinkOK, NoLink
<1> QED BY <1>2, <1>3
-----------------------------------------------------------------------------
\* The record that was offered last, of those queued.
Newest(q) == q[Len(q)]

\* Receiving the oldest leaves the newest, unless it was that.
LEMMA NewestOfTail ==
  ASSUME NEW q \in Seq(Record), q # <<>>
  PROVE  /\ Tail(q) = <<>> => Head(q) = Newest(q)
         /\ Tail(q) # <<>> => Newest(Tail(q)) = Newest(q)
<1>1. Len(q) \in Nat \ {0} /\ Tail(q) \in Seq(Record) /\ Len(Tail(q)) = Len(q) - 1
  OBVIOUS
<1>2. ASSUME Tail(q) = <<>> PROVE Head(q) = Newest(q)
  <2>1. Len(q) = 1
    BY <1>1, <1>2
  <2> QED BY <2>1 DEF Newest
<1>3. ASSUME Tail(q) # <<>> PROVE Newest(Tail(q)) = Newest(q)
  <2>1. Len(q) - 1 \in 1 .. Len(Tail(q)) /\ (Len(q) - 1) + 1 = Len(q)
    BY <1>1, <1>3
  <2>2. Tail(q)[Len(q) - 1] = q[(Len(q) - 1) + 1]
    BY <1>1, <2>1
  <2> QED BY <1>1, <2>1, <2>2 DEF Newest
<1> QED BY <1>2, <1>3

\* What is offered is the newest, whether or not the oldest had to go.
LEMMA NewestOfOffer ==
  ASSUME NEW q \in Seq(Record), NEW r \in Record
  PROVE  /\ Append(q, r) # <<>> /\ Newest(Append(q, r)) = r
         /\ LET offered == Append(IF q = <<>> THEN q ELSE Tail(q), r)
            IN  offered # <<>> /\ Newest(offered) = r
<1>1. ASSUME NEW p \in Seq(Record) PROVE Append(p, r) # <<>> /\ Newest(Append(p, r)) = r
  BY <1>1 DEF Newest
<1>2. (IF q = <<>> THEN q ELSE Tail(q)) \in Seq(Record)
  OBVIOUS
<1> QED BY <1>1, <1>2

-----------------------------------------------------------------------------
\* An age grows by one, or not at all where it is capped.
LEMMA OlderOK ==
  ASSUME NEW age \in Nat, NEW most \in Nat
  PROVE  /\ Older(age, most) \in Nat
         /\ Older(age, most) <= age + 1
         /\ Older(age, most) < most => Older(age, most) = age + 1
  BY DEF Older

\* What the relay knows does not change with its age.
LEMMA AgesOK ==
  ASSUME LinkOK, LinkAges
  PROVE  relay'.quiet = relay.quiet /\ relay'.age <= relay.age + 1
<1>1. relay \in Relay /\ MaxAge \in Nat
  BY LinkAssumption DEF LinkOK, MaxAge
<1>2. relay.age \in Nat
  BY <1>1 DEF Relay
<1>3. relay'.quiet = relay.quiet
      /\ relay'.age = IF relay.open THEN Older(relay.age, MaxAge) ELSE 0
  BY <1>1 DEF LinkAges, Relay
<1>4. Older(relay.age, MaxAge) <= relay.age + 1
  BY <1>1, <1>2, OlderOK
<1> QED BY <1>2, <1>3, <1>4

\* A record that arrives on an open link tells its quiet, and is new.
LEMMA ArrivesAnew ==
  ASSUME LinkOK, NEW hand, Arrives(hand), relay.open
  PROVE  relay'.quiet = hand.quiet /\ relay'.age = 0
  BY DEF LinkOK, Arrives, Relay
=============================================================================
