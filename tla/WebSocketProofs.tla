-------------------------- MODULE WebSocketProofs ---------------------------
(***************************************************************************)
(* What WebSocket listeners get out of the stream that StreamProofs is     *)
(* about is what module Delivery promises.                                 *)
(***************************************************************************)
EXTENDS WebSocket, StreamProofs

-----------------------------------------------------------------------------
\* What a client was told, as a packet.
AsPacket(c) ==
    [format |-> c.format, frame |-> IF c.started THEN c.format ELSE NoFormat,
     position |-> c.position, epoch |-> c.epoch,
     state |-> CASE c.told = "session" -> "live"
                 [] c.told = "waiting" -> "waiting"
                 [] c.told = "nothing" -> "",
     sparse |-> c.sparse]

View(l) == AsPacket(client[l])

\* The packets that pumpWebSocket has yet to deal with.
Pending(l) == Members(packets[l]) \cup (IF stage[l] = "handling" THEN {held[l]} ELSE {})

Comes(p, q) == MayFollow(p, q) /\ Steps(p, q)

\* The client was told of the packet in hand.
Told(l) ==
    /\ held[l].state = "" => client[l].told = "nothing"
    /\ held[l].state = "waiting" => client[l].told = "waiting"
    /\ held[l].state \in {"live", "quiet"} =>
          /\ client[l].told = "session"
          /\ client[l].format = held[l].format
          /\ client[l].epoch = held[l].epoch
          /\ client[l].sparse = held[l].sparse
          /\ held[l].sparse => client[l].position = held[l].position

\* pumpWebSocket's variables and what its client was told.
PumpOK(l) ==
    /\ version2[l] = client[l].version2
    /\ epoch[l] = client[l].epoch
    /\ announced[l] = IF client[l].told = "session" THEN client[l].format ELSE NoFormat
    /\ client[l].told = "session" => client[l].epoch > 0 /\ client[l].format \in Format
    /\ client[l].told = "nothing" => client[l].epoch = 0
    /\ stage[l] = "select" => Told(l)
    /\ stage[l] # "select" => held[l].state # ""
    /\ stage[l] = "payload" =>
          /\ held[l].state \in {"live", "quiet"} /\ Told(l)
          /\ client[l].position = held[l].position /\ ~client[l].started

\* What is pending comes after what the client was told, and so does what is
\* yet to be published.
ViewOK(l) ==
    /\ Precedes(View(l), current)
    /\ AllBehind(View(l))
    /\ \A q \in Pending(l) : Comes(View(l), q)
    /\ l \in todo => Steps(View(l), outgoing)

ClientOK(l) ==
    /\ stage[l] = "off" <=> l \notin listeners
    /\ client[l].open <=> stage[l] \in {"select", "handling", "payload"}
    /\ ~client[l].open => client[l] = Promise!Stranger
    /\ client[l].open => PumpOK(l) /\ ViewOK(l)

\* The inductive invariant of WebSocket.
WebSocketIInv ==
    /\ IngestIInv
    /\ WebSocketTypeOK
    /\ \A l \in Listener : ClientOK(l)

-----------------------------------------------------------------------------
\* What a client was told, as a packet, has its types.
LEMMA AsPacketFacts ==
  ASSUME NEW c \in Promise!Client
  PROVE  /\ AsPacket(c) \in Packet
         /\ AsPacket(c).format = c.format
         /\ AsPacket(c).position = c.position
         /\ AsPacket(c).epoch = c.epoch
         /\ AsPacket(c).sparse = c.sparse
         /\ AsPacket(c).frame = IF c.started THEN c.format ELSE NoFormat
         /\ c.told \in {"nothing", "session", "waiting"}
         /\ c.told = "session" => AsPacket(c).state = "live"
         /\ c.told = "waiting" => AsPacket(c).state = "waiting"
         /\ c.told = "nothing" => AsPacket(c).state = ""
<1>1. /\ c.told \in {"nothing", "session", "waiting"}
      /\ c.format \in Format \cup {NoFormat}
      /\ c.epoch \in Nat /\ c.position \in Nat
      /\ c.sparse \in BOOLEAN /\ c.started \in BOOLEAN
  BY DEF Promise!Client
<1>2. /\ c.told = "session" => AsPacket(c).state = "live"
      /\ c.told = "waiting" => AsPacket(c).state = "waiting"
      /\ c.told = "nothing" => AsPacket(c).state = ""
  BY DEF AsPacket
<1>3. AsPacket(c).state \in {"", "live", "quiet", "waiting"}
  BY <1>1, <1>2
<1>4. AsPacket(c).frame \in Format \cup {NoFormat}
  BY <1>1 DEF AsPacket
<1>5. AsPacket(c) \in Packet
  BY <1>1, <1>3, <1>4 DEF AsPacket, Packet
<1> QED BY <1>1, <1>2, <1>5 DEF AsPacket

\* The view of a listener is such a packet.
LEMMA ViewFacts ==
  ASSUME WebSocketTypeOK, NEW l \in Listener
  PROVE  client[l] \in Promise!Client /\ View(l) = AsPacket(client[l]) /\ View(l) \in Packet
<1>1. client[l] \in Promise!Client
  BY DEF WebSocketTypeOK
<1> QED BY <1>1, AsPacketFacts DEF View

\* What comes before the state of the stream comes before what is delivered.
LEMMA PrecedesOutgoing ==
  ASSUME IngestIInv, todo # {}, NEW p \in Packet, Precedes(p, current)
  PROVE  Precedes(p, outgoing)
<1>1. outgoing \in Packet /\ WithoutFrame(outgoing) = current
  BY DEF IngestIInv, IInv, TypeOK, OutgoingIsCurrent
<1>2. SameSession(outgoing, current)
  BY <1>1, WithoutFrameFacts
<1> QED BY <1>2, PrecedesSame

\* A client that a step does not touch.
LEMMA ClientUntouched ==
  ASSUME NEW l \in Listener, ClientOK(l), UNCHANGED <<current, connection>>,
         UNCHANGED <<stage[l], version2[l], announced[l], epoch[l], client[l], held[l], packets[l]>>,
         l \in listeners' <=> l \in listeners,
         l \in todo' => l \in todo /\ outgoing' = outgoing
  PROVE  ClientOK(l)'
<1>1. View(l)' = View(l)
  BY DEF View
<1>3. ViewOK(l) => ViewOK(l)'
  <2>1. AllBehind(View(l)) => (AllBehind(View(l)))'
    BY <1>1 DEF AllBehind, Behind, Due, Holders, connection
  <2>2. (Pending(l))' = Pending(l)
    BY DEF Pending, Members
  <2> QED BY <1>1, <2>1, <2>2 DEF ViewOK
<1>4. PumpOK(l) => PumpOK(l)'
  BY DEF PumpOK, Told
<1> QED BY <1>3, <1>4 DEF ClientOK

\* A step of a source leaves what the clients were told in order.
LEMMA SourceMovesKeepClients ==
  ASSUME WebSocketIInv, SourceMoves, IngestIInv', UNCHANGED pump, NEW l \in Listener
  PROVE  ClientOK(l)'
<1>1. /\ IngestIInv /\ WebSocketTypeOK /\ ClientOK(l)
      /\ current \in Packet /\ current' \in Packet
  BY DEF WebSocketIInv, IngestIInv, IInv, TypeOK
<1>2. /\ UNCHANGED <<stage, version2, announced, epoch, client>>
      /\ UNCHANGED <<listeners, packets, held>>
  BY DEF pump, SourceMoves
<1>3. View(l)' = View(l) /\ View(l) \in Packet
  BY <1>1, <1>2, ViewFacts DEF View
<1>4. PumpOK(l) => PumpOK(l)'
  BY <1>2 DEF PumpOK, Told
<1>5. ASSUME ViewOK(l) PROVE ViewOK(l)'
  <2>0. PICK v \in Packet : v = View(l)
    BY <1>3
  <2>1. v \in Packet /\ Precedes(v, current) /\ AllBehind(v) /\ (l \in todo => Steps(v, outgoing))
    BY <2>0, <1>5 DEF ViewOK
  <2>2. Precedes(v, current')
    BY <1>1, <2>1, PrecedesTransitive DEF SourceMoves
  <2>3. (AllBehind(View(l)))'
    <3>1. AllBehind(v)'
      BY <2>1 DEF SourceMoves
    <3>2. View(l)' = v
      BY <1>3, <2>0
    <3> QED BY <3>1, <3>2 DEF AllBehind, Behind
  <2>4. l \in todo' => Steps(v, outgoing')
    BY <2>1 DEF SourceMoves
  <2>5. (Pending(l))' = Pending(l) /\ \A q \in Pending(l) : Comes(v, q)
    BY <1>2, <1>5, <2>0 DEF Pending, Members, ViewOK
  <2> QED BY <1>3, <2>0, <2>2, <2>3, <2>4, <2>5 DEF ViewOK
<1> QED BY <1>1, <1>2, <1>4, <1>5 DEF ClientOK

\* So does the loop over the listeners.
LEMMA DeliverMovesKeepClients ==
  ASSUME WebSocketIInv, DeliverMoves, UNCHANGED pump, UNCHANGED connection, NEW l \in Listener
  PROVE  ClientOK(l)'
<1>1. IngestIInv /\ WebSocketTypeOK /\ ClientOK(l)
  BY DEF WebSocketIInv
<1>2. /\ UNCHANGED <<stage, version2, announced, epoch, client>>
      /\ UNCHANGED <<listeners, held, current, outgoing>> /\ todo' \subseteq todo
  BY DEF pump, DeliverMoves
<1>3. View(l)' = View(l) /\ View(l) \in Packet
  BY <1>1, <1>2, ViewFacts DEF View
<1>4. PumpOK(l) => PumpOK(l)'
  BY <1>2 DEF PumpOK, Told
<1>5. AllBehind(View(l)) => (AllBehind(View(l)))'
  BY <1>2, <1>3 DEF AllBehind, Behind, Due, Holders, connection
<1>6. ASSUME ViewOK(l), l \in listeners PROVE ViewOK(l)'
  <2>1. (Pending(l))' \subseteq Pending(l) \/ (l \in todo /\ (Pending(l))' \subseteq Pending(l) \cup {outgoing})
    BY <1>2, <1>6 DEF Pending, DeliverMoves
  <2>2. l \in todo => Comes(View(l), outgoing)
    BY <1>1, <1>3, <1>6, PrecedesOutgoing DEF ViewOK, Comes, Precedes
  <2>3. \A q \in (Pending(l))' : Comes(View(l), q)
    BY <1>6, <2>1, <2>2 DEF ViewOK
  <2>4. (AllBehind(View(l)))'
    BY <1>5, <1>6 DEF ViewOK
  <2> QED BY <1>2, <1>3, <1>6, <2>3, <2>4 DEF ViewOK
<1>7. client[l].open => l \in listeners
  BY <1>1 DEF ClientOK
<1> QED BY <1>1, <1>2, <1>4, <1>6, <1>7 DEF ClientOK

-----------------------------------------------------------------------------
\* What a client knows once it was told of packet h: its session, at its
\* position or (a legacy session has no positions for clients) before it.
Stands(v, h) ==
    /\ v.epoch = h.epoch /\ v.format = h.format /\ v.sparse = h.sparse
    /\ v.state \in {"live", "quiet"} /\ h.state \in {"live", "quiet"}
    /\ v.position < h.position \/ (v.position = h.position /\ (Announcing(h) => Announcing(v)))

\* What comes after a packet comes after what stands for it.
LEMMA StandsFacts ==
  ASSUME NEW v \in Packet, NEW h \in Packet, NEW q \in Packet, Stands(v, h), Precedes(h, q)
  PROVE  Precedes(v, q) /\ (Steps(h, q) => Steps(v, q))
<1>1. v.position \in Nat /\ h.position \in Nat /\ q.position \in Nat
  BY DEF Packet
<1>2. Precedes(v, q)
  BY DEF Stands, Precedes, MayFollow
<1>3. ASSUME Steps(h, q), h.epoch = q.epoch, q.state # "waiting"
      PROVE  v.position < q.position \/ (Announcing(v) /\ v.position = q.position)
  <2>1. h.position < q.position \/ (Announcing(h) /\ h.position = q.position)
    BY <1>3 DEF Stands, Steps, Advances
  <2> QED BY <1>1, <2>1 DEF Stands
<1>4. ASSUME Steps(h, q) PROVE Steps(v, q)
  BY <1>3, <1>4 DEF Stands, Steps, Advances
<1> QED BY <1>2, <1>4

\* And what may be published is after it too.
LEMMA StandsBehind ==
  ASSUME NEW v \in Packet, NEW h \in Packet, Stands(v, h), AllBehind(h),
         ConnectionTypes
  PROVE  AllBehind(v)
<1> SUFFICES ASSUME NEW c \in Holders PROVE Behind(v, c)
  BY DEF AllBehind
<1>1. v.position \in Nat /\ h.position \in Nat /\ Due(c) \in Nat
  <2>1. c \in Conn /\ nextPosition[c] \in Nat
    BY DEF ConnectionTypes, Holders
  <2>2. Due(c) \in Nat
    BY <2>1 DEF Due
  <2> QED BY <2>2 DEF Packet
<1>2. CASE v.epoch = current.epoch
  <2>1. h.position < Due(c) \/ (Announcing(h) /\ h.position = Due(c))
    BY <1>2 DEF Stands, AllBehind, Behind
  <2>2. v.position < Due(c) \/ (Announcing(v) /\ v.position = Due(c))
    BY <1>1, <2>1 DEF Stands
  <2> QED BY <2>2 DEF Behind
<1>3. CASE v.epoch # current.epoch
  BY <1>3 DEF Behind
<1> QED BY <1>2, <1>3

\* Of an epoch that was declared over, or an earlier one, nothing else comes.
LEMMA WaitingFacts ==
  ASSUME NEW v \in Packet, NEW h \in Packet, NEW q \in Packet, Precedes(h, q),
         h.state = "waiting", v.epoch <= h.epoch
  PROVE  v.state = "waiting" => Precedes(v, q) /\ Steps(v, q)
<1> SUFFICES ASSUME v.state = "waiting" PROVE Precedes(v, q) /\ Steps(v, q)
  OBVIOUS
<1>1. v.epoch \in Nat /\ h.epoch \in Nat /\ q.epoch \in Nat /\ h.epoch <= q.epoch
  BY DEF Packet, Precedes, MayFollow
<1>2. v.epoch <= q.epoch /\ (v.epoch = q.epoch => h.epoch = q.epoch)
  BY <1>1
<1>3. q.state # "" /\ (v.epoch = q.epoch => q.state = "waiting")
  BY <1>2 DEF Precedes, MayFollow
<1>4. Precedes(v, q)
  BY <1>2, <1>3 DEF Precedes, MayFollow
<1>5. Steps(v, q)
  BY <1>3, StepsToAnother, StepsToWaiting
<1> QED BY <1>4, <1>5

\* A packet in the goroutine's hands, and what is behind it.
LEMMA HandFacts ==
  ASSUME WebSocketIInv, NEW l \in Listener, stage[l] \in {"handling", "payload"}
  PROVE  /\ IngestIInv /\ WebSocketTypeOK /\ ConnectionTypes
         /\ l \in listeners /\ client[l].open /\ PumpOK(l) /\ ViewOK(l)
         /\ held[l] \in Packet /\ Fits(held[l]) /\ AllBehind(held[l])
         /\ held[l].state # "" /\ Precedes(held[l], current)
         /\ \A q \in Members(packets[l]) :
               q \in Packet /\ Precedes(held[l], q) /\ Steps(held[l], q)
         /\ l \in todo => Precedes(held[l], outgoing) /\ Steps(held[l], outgoing)
         /\ stage[l] = "handling" => Comes(View(l), held[l])
         /\ current \in Packet /\ outgoing \in Packet
<1>1. /\ IngestIInv /\ WebSocketTypeOK /\ ConnectionTypes
      /\ l \in listeners /\ client[l].open /\ PumpOK(l) /\ ViewOK(l)
  BY DEF WebSocketIInv, ClientOK, IngestIInv, SourceOK
<1>2. /\ BacklogOK(l) /\ WayOK(l) /\ held[l] \in Packet /\ packets[l] \in Seq(Packet)
      /\ current \in Packet /\ outgoing \in Packet
      /\ \A p \in Backlog(l) : p \in Packet /\ Precedes(p, current)
  BY <1>1, BacklogFacts
<1>3. held[l] \in Backlog(l)
  BY DEF Backlog
<1>4. held[l].state # ""
  BY <1>1 DEF PumpOK
<1>5. \A q \in Members(packets[l]) : q \in Packet /\ Precedes(held[l], q) /\ Steps(held[l], q)
  BY <1>2 DEF BacklogOK, Ordered, WayOK, Rising, Backlog, Members
<1>6. l \in todo => Precedes(held[l], outgoing) /\ Steps(held[l], outgoing)
  BY <1>1, <1>2, <1>3, PrecedesOutgoing DEF WayOK
<1>7. stage[l] = "handling" => Comes(View(l), held[l])
  BY <1>1 DEF ViewOK, Pending
<1> QED BY <1>1, <1>2, <1>3, <1>4, <1>5, <1>6, <1>7 DEF WayOK

\* Once a client was told of the packet in hand, all else comes after that.
LEMMA NewView ==
  ASSUME WebSocketIInv, NEW l \in Listener, stage[l] \in {"handling", "payload"},
         UNCHANGED ingestVars, stage'[l] \in {"select", "payload"},
         NEW v \in Packet, View(l)' = v,
         Stands(v, held[l]) \/ (v.state = "waiting" /\ held[l].state = "waiting"
                                  /\ v.epoch <= held[l].epoch)
  PROVE  ViewOK(l)'
<1>1. /\ IngestIInv /\ ConnectionTypes
      /\ held[l] \in Packet /\ AllBehind(held[l]) /\ Precedes(held[l], current)
      /\ \A q \in Members(packets[l]) :
            q \in Packet /\ Precedes(held[l], q) /\ Steps(held[l], q)
      /\ l \in todo => Precedes(held[l], outgoing) /\ Steps(held[l], outgoing)
      /\ current \in Packet /\ outgoing \in Packet
  BY HandFacts
<1>2. \A q \in Packet : Precedes(held[l], q) =>
         Precedes(v, q) /\ (Steps(held[l], q) => Steps(v, q))
  BY <1>1, StandsFacts, WaitingFacts
<1>3. UNCHANGED <<current, outgoing, todo, packets, held, connection>>
  BY VarsFacts DEF ingestVars
<1>4. (Pending(l))' = Members(packets[l])
  BY <1>3 DEF Pending, Members
<1>5. AllBehind(v)
  <2>1. CASE Stands(v, held[l])
    BY <1>1, <2>1, StandsBehind
  <2>2. CASE v.state = "waiting" /\ held[l].state = "waiting" /\ v.epoch <= held[l].epoch
    <3>1. ASSUME NEW c \in Holders PROVE v.epoch # current.epoch
      <4>1. current.state # "waiting"
        BY <1>1, HolderFacts
      <4>2. v.epoch \in Nat /\ held[l].epoch \in Nat /\ current.epoch \in Nat
        BY <1>1 DEF Packet
      <4>3. held[l].epoch <= current.epoch /\ held[l].epoch # current.epoch
        BY <1>1, <2>2, <4>1 DEF Precedes, MayFollow
      <4> QED BY <2>2, <4>2, <4>3
    <3> QED BY <3>1 DEF AllBehind, Behind
  <2> QED BY <2>1, <2>2
<1>6. (AllBehind(View(l)))'
  BY <1>3, <1>5 DEF AllBehind, Behind, Due, Holders, connection
<1>7. \A q \in Members(packets[l]) : Comes(v, q)
  BY <1>1, <1>2 DEF Comes, Precedes
<1>8. Precedes(v, current) /\ (l \in todo => Steps(v, outgoing))
  BY <1>1, <1>2
<1> QED BY <1>3, <1>4, <1>6, <1>7, <1>8 DEF ViewOK

-----------------------------------------------------------------------------
\* What becomes of the client of l, if it becomes c; and of the others.
LEMMA BecomeFacts ==
  ASSUME WebSocketTypeOK, NEW l \in Listener, NEW c \in Promise!Client,
         client' = [client EXCEPT ![l] = c]
  PROVE  /\ client' \in [Listener -> Promise!Client] /\ client'[l] = c
         /\ \A k \in Listener : k # l => client'[k] = client[k]
  BY DEF WebSocketTypeOK

\* The pump's other variables of a listener, when the stage changes.
LEMMA StageFacts ==
  ASSUME WebSocketTypeOK, NEW l \in Listener, NEW s \in Stage, stage' = [stage EXCEPT ![l] = s]
  PROVE  /\ stage' \in [Listener -> Stage] /\ stage'[l] = s
         /\ \A k \in Listener : k # l => stage'[k] = stage[k]
  BY DEF WebSocketTypeOK

\* A stranger is a client.
LEMMA StrangerFacts ==
  /\ Promise!Stranger \in Promise!Client
  /\ \A v2 \in BOOLEAN :
        [Promise!Stranger EXCEPT !.open = TRUE, !.version2 = v2] \in Promise!Client
  BY DEF Promise!Stranger, Promise!Client

\* The pump gives up on a client: it is told nothing more.
LEMMA GivesUpKeeps ==
  ASSUME WebSocketIInv, NEW l \in Listener, stage[l] \in {"select", "handling", "payload"},
         UNCHANGED ingestVars, stage' = [stage EXCEPT ![l] = "returning"],
         client' = [client EXCEPT ![l] = Promise!Stranger],
         UNCHANGED <<version2, announced, epoch, gone>>
  PROVE  WebSocketTypeOK' /\ ClientOK(l)' /\ Promise!Next
<1>1. WebSocketTypeOK /\ ClientOK(l) /\ l \in listeners /\ client[l].open
  BY DEF WebSocketIInv, ClientOK
<1>2. client' \in [Listener -> Promise!Client] /\ client'[l] = Promise!Stranger
  BY <1>1, BecomeFacts, StrangerFacts
<1>3. stage' \in [Listener -> Stage] /\ stage'[l] = "returning"
  BY <1>1, StageFacts DEF Stage
<1>4. IngestTypeOK'
  BY <1>1 DEF WebSocketTypeOK, IngestTypeOK, TypeOK, ingestVars, vars, session, registry,
              channels, delivery, connection
<1>5. WebSocketTypeOK'
  BY <1>1, <1>2, <1>3, <1>4 DEF WebSocketTypeOK
<1>6. listeners' = listeners
  BY VarsFacts DEF ingestVars
<1>7. ~Promise!Stranger.open
  BY DEF Promise!Stranger
<1>8. ClientOK(l)'
  BY <1>1, <1>2, <1>3, <1>6, <1>7 DEF ClientOK
<1>9. Promise!Disconnect(l)
  BY <1>1 DEF Promise!Disconnect, Promise!Become
<1> QED BY <1>5, <1>8, <1>9 DEF Promise!Next

\* A client is told that a session is over.
LEMMA WaitingKeeps ==
  ASSUME WebSocketIInv, NEW l \in Listener, WriteWaiting(l)
  PROVE  WebSocketTypeOK' /\ ClientOK(l)' /\ Promise!Next
<1>1. /\ WebSocketTypeOK /\ ClientOK(l) /\ l \in listeners /\ client[l].open
      /\ PumpOK(l) /\ held[l] \in Packet /\ Comes(View(l), held[l]) /\ held[l].state = "waiting"
      /\ stage[l] = "handling"
  BY HandFacts DEF WebSocketIInv, WriteWaiting, Ended
<1> DEFINE c == [client[l] EXCEPT !.told = "waiting"]
<1>2. client[l] \in Promise!Client
  BY <1>1, ViewFacts
<1>3. /\ c \in Promise!Client /\ c.told = "waiting" /\ c.open
      /\ c.version2 = client[l].version2 /\ c.epoch = client[l].epoch
      /\ c.position = client[l].position
  BY <1>1, <1>2 DEF Promise!Client
<1>4. client' = [client EXCEPT ![l] = c]
  BY <1>1 DEF WriteWaiting
<1>5. Promise!Waiting(l)
  BY <1>1, <1>4 DEF Promise!Waiting, Promise!Become
<1> HIDE DEF c
<1>6. client' \in [Listener -> Promise!Client] /\ client'[l] = c
  BY <1>1, <1>3, <1>4, BecomeFacts
<1>7. /\ stage' \in [Listener -> Stage] /\ stage'[l] = "select"
      /\ announced' \in [Listener -> Format \cup {NoFormat}] /\ announced'[l] = NoFormat
      /\ UNCHANGED <<ingestVars, version2, epoch, gone>>
  BY <1>1 DEF WriteWaiting, Stage, WebSocketTypeOK
<1>8. IngestTypeOK'
  BY <1>1, <1>7 DEF WebSocketTypeOK, IngestTypeOK, TypeOK, ingestVars, vars, session, registry,
              channels, delivery, connection
<1>9. WebSocketTypeOK'
  BY <1>1, <1>6, <1>7, <1>8 DEF WebSocketTypeOK
<1>10. View(l)' \in Packet /\ View(l)'.state = "waiting" /\ View(l)'.epoch <= held[l].epoch
  <2>1. View(l)' = AsPacket(c)
    BY <1>6 DEF View
  <2>2. AsPacket(c) \in Packet /\ AsPacket(c).state = "waiting" /\ AsPacket(c).epoch = c.epoch
    BY <1>3, AsPacketFacts
  <2>3. View(l).epoch <= held[l].epoch /\ View(l).epoch = client[l].epoch
    BY <1>1, <1>2, AsPacketFacts DEF Comes, MayFollow, View
  <2> QED BY <1>3, <2>1, <2>2, <2>3
<1>11. ViewOK(l)'
  BY <1>1, <1>7, <1>10, NewView
<1>12. UNCHANGED <<listeners, held>>
  BY <1>7, VarsFacts DEF ingestVars
<1>13. PumpOK(l)'
  BY <1>1, <1>3, <1>6, <1>7, <1>12 DEF PumpOK, Told
<1>14. ClientOK(l)'
  BY <1>1, <1>3, <1>6, <1>7, <1>11, <1>12, <1>13 DEF ClientOK
<1> QED BY <1>5, <1>9, <1>14 DEF Promise!Next

\* A packet of the session that the client was told of last comes after what
\* it was told, and does not announce the session once more.
LEMMA SameSessionAgain ==
  ASSUME WebSocketIInv, NEW l \in Listener, stage[l] = "handling",
         held[l].state \in {"live", "quiet"}
  PROVE  /\ client[l].epoch <= held[l].epoch /\ held[l].epoch > 0
         /\ client[l].epoch \in Nat /\ held[l].epoch \in Nat
         /\ client[l].epoch = held[l].epoch =>
               /\ client[l].told = "session"
               /\ client[l].format = held[l].format /\ client[l].sparse = held[l].sparse
               /\ ~Announcing(held[l])
               /\ \/ client[l].position < held[l].position
                  \/ client[l].position = held[l].position /\ ~client[l].started
<1>1. /\ WebSocketTypeOK /\ PumpOK(l) /\ held[l] \in Packet /\ Fits(held[l])
      /\ Comes(View(l), held[l])
  BY HandFacts
<1>2. client[l] \in Promise!Client /\ View(l) = AsPacket(client[l])
  BY <1>1, ViewFacts
<1> DEFINE c == client[l]
           v == AsPacket(c)
           h == held[l]
<1>3. /\ v \in Packet /\ v.format = c.format /\ v.position = c.position /\ v.epoch = c.epoch
      /\ v.sparse = c.sparse /\ v.frame = IF c.started THEN c.format ELSE NoFormat
      /\ c.told \in {"nothing", "session", "waiting"}
      /\ c.told = "session" => v.state = "live"
      /\ c.told = "waiting" => v.state = "waiting"
      /\ c.told = "nothing" => v.state = ""
  BY <1>2, AsPacketFacts
<1>4. /\ MayFollow(v, h) /\ Steps(v, h) /\ h.epoch > 0 /\ h.state \in {"live", "quiet"}
      /\ h.epoch \in Nat /\ v.epoch \in Nat
      /\ c.told = "session" => c.format \in Format
      /\ c.told = "nothing" => c.epoch = 0
  BY <1>1, <1>2, <1>3 DEF Comes, Fits, PumpOK, Packet
<1> HIDE DEF c, v, h
<1>5. v.epoch <= h.epoch
  BY <1>4 DEF MayFollow
<1>6. ASSUME v.epoch = h.epoch
      PROVE  /\ c.told = "session" /\ c.format = h.format /\ c.sparse = h.sparse
             /\ ~Announcing(h)
             /\ c.position < h.position \/ (c.position = h.position /\ ~c.started)
  <2>1. c.told = "session"
    <3>1. c.told # "nothing"
      <4>1. v.epoch # 0
        BY <1>4, <1>6
      <4> QED BY <1>3, <1>4, <4>1, Zenon
    <3>2. c.told # "waiting"
      BY <1>3, <1>4, <1>6 DEF MayFollow
    <3> QED BY <1>3, <3>1, <3>2
  <2>2. v.state = "live" /\ c.format = h.format /\ c.sparse = h.sparse
    BY <1>3, <1>4, <1>6, <2>1 DEF MayFollow
  <2>3. ~Announcing(h) /\ (v.position < h.position \/ (Announcing(v) /\ v.position = h.position))
    BY <1>4, <1>6, <2>2 DEF Steps, Advances
  <2>4. Announcing(v) => ~c.started
    BY <1>3, <1>4, <2>1, FormatAssumption DEF Announcing
  <2> QED BY <1>3, <2>1, <2>2, <2>3, <2>4
<1> QED BY <1>3, <1>4, <1>5, <1>6 DEF c, h

\* What Ingest's variables are does not change when they do not.
LEMMA IngestTypesStay ==
  ASSUME WebSocketTypeOK, UNCHANGED ingestVars
  PROVE  IngestTypeOK' /\ UNCHANGED <<listeners, held>>
<1>1. IngestTypeOK'
  BY DEF WebSocketTypeOK, IngestTypeOK, TypeOK, ingestVars, vars, session, registry, channels,
         delivery, connection
<1>2. UNCHANGED <<listeners, held>>
  BY VarsFacts DEF ingestVars
<1> QED BY <1>1, <1>2

\* A client is told of a session: one it was never told of.
LEMMA AnnouncementKeeps ==
  ASSUME WebSocketIInv, NEW l \in Listener, WriteAnnouncement(l)
  PROVE  WebSocketTypeOK' /\ ClientOK(l)' /\ Promise!Next
<1>1. /\ WebSocketTypeOK /\ l \in listeners /\ client[l].open /\ PumpOK(l)
      /\ held[l] \in Packet /\ Fits(held[l]) /\ stage[l] = "handling"
      /\ held[l].state \in {"live", "quiet"}
      /\ held[l].sparse => version2[l]
      /\ held[l].format # announced[l] \/ held[l].epoch # epoch[l]
  <2>1. stage[l] = "handling" /\ held[l].state # "waiting" /\ ~Refused(l) /\ Unannounced(l)
    BY DEF WriteAnnouncement, Ended
  <2>2. /\ WebSocketTypeOK /\ l \in listeners /\ client[l].open /\ PumpOK(l)
        /\ held[l] \in Packet /\ Fits(held[l]) /\ held[l].state # ""
    BY <2>1, HandFacts
  <2>3. held[l].state \in {"", "live", "quiet", "waiting"} /\ version2[l] \in BOOLEAN
    BY <2>2 DEF Packet, WebSocketTypeOK
  <2> QED BY <2>1, <2>2, <2>3 DEF Refused, Unannounced
<1> DEFINE h == held[l]
           c == [client[l] EXCEPT !.told = "session", !.started = FALSE, !.format = h.format,
                     !.epoch = h.epoch, !.sparse = h.sparse, !.position = h.position]
<1>2. client[l] \in Promise!Client
  BY <1>1, ViewFacts
<1>3. h.format \in Format /\ h.epoch \in Nat /\ h.epoch > 0 /\ h.position \in Nat /\ h.sparse \in BOOLEAN
  BY <1>1 DEF Fits, Packet
<1>4. /\ c \in Promise!Client /\ c.told = "session" /\ c.open /\ ~c.started
      /\ c.version2 = client[l].version2 /\ c.epoch = h.epoch /\ c.format = h.format
      /\ c.sparse = h.sparse /\ c.position = h.position
  BY <1>1, <1>2, <1>3 DEF Promise!Client
<1>5. client' = [client EXCEPT ![l] = c]
  BY <1>1 DEF WriteAnnouncement
<1> HIDE DEF c
<1>6. client' \in [Listener -> Promise!Client] /\ client'[l] = c
  BY <1>1, <1>4, <1>5, BecomeFacts
<1>7. h.epoch > client[l].epoch
  <2>1. client[l].epoch <= h.epoch /\ client[l].epoch \in Nat
        /\ (client[l].epoch = h.epoch => client[l].told = "session" /\ client[l].format = h.format)
    BY <1>1, SameSessionAgain
  <2>2. client[l].epoch # h.epoch
    BY <1>1, <2>1 DEF PumpOK
  <2> QED BY <1>3, <2>1, <2>2
<1>8. Promise!Announce(l)
  <2>1. c = [client[l] EXCEPT !.told = "session", !.started = FALSE, !.format = c.format,
                 !.epoch = c.epoch, !.sparse = c.sparse, !.position = c.position]
    BY <1>4 DEF c
  <2>2. c.sparse => client[l].version2
    BY <1>1, <1>4 DEF PumpOK
  <2>3. client'[l].epoch > client[l].epoch /\ client'[l].format \in Format
    BY <1>3, <1>4, <1>6, <1>7
  <2> QED BY <1>1, <1>5, <1>6, <2>1, <2>2, <2>3 DEF Promise!Announce, Promise!Become
<1>9. /\ stage' \in [Listener -> Stage] /\ stage'[l] = "payload"
      /\ announced' \in [Listener -> Format \cup {NoFormat}] /\ announced'[l] = h.format
      /\ epoch' \in [Listener -> Nat] /\ epoch'[l] = h.epoch
      /\ UNCHANGED <<ingestVars, version2, gone>>
  BY <1>1, <1>3 DEF WriteAnnouncement, Stage, WebSocketTypeOK
<1>10. WebSocketTypeOK' /\ UNCHANGED <<listeners, held>>
  BY <1>1, <1>6, <1>9, IngestTypesStay DEF WebSocketTypeOK
<1>11. ViewOK(l)'
  <2>1. View(l)' = AsPacket(c)
    BY <1>6 DEF View
  <2>2. /\ AsPacket(c) \in Packet /\ AsPacket(c).state = "live" /\ AsPacket(c).frame = NoFormat
        /\ AsPacket(c).epoch = c.epoch /\ AsPacket(c).format = c.format
        /\ AsPacket(c).sparse = c.sparse /\ AsPacket(c).position = c.position
    BY <1>4, AsPacketFacts
  <2>3. Stands(AsPacket(c), h)
    BY <1>1, <1>4, <2>2 DEF Stands, Announcing
  <2> QED BY <1>1, <1>9, <2>1, <2>2, <2>3, NewView
<1>12. PumpOK(l)'
  BY <1>1, <1>3, <1>4, <1>6, <1>9, <1>10 DEF PumpOK, Told
<1>13. ClientOK(l)'
  BY <1>1, <1>4, <1>6, <1>9, <1>10, <1>11, <1>12 DEF ClientOK
<1> QED BY <1>8, <1>10, <1>13 DEF Promise!Next

\* The packet whose payload is due is of the session the client knows.
LEMMA PayloadFacts ==
  ASSUME WebSocketIInv, NEW l \in Listener, PayloadDue(l)
  PROVE  /\ WebSocketTypeOK /\ l \in listeners /\ client[l].open /\ PumpOK(l)
         /\ client[l] \in Promise!Client /\ held[l] \in Packet /\ Fits(held[l])
         /\ held[l].state \in {"live", "quiet"} /\ stage[l] \in {"handling", "payload"}
         /\ client[l].told = "session" /\ client[l].format \in Format
         /\ client[l].format = held[l].format /\ client[l].epoch = held[l].epoch
         /\ client[l].sparse = held[l].sparse
         /\ \/ client[l].position < held[l].position
            \/ client[l].position = held[l].position /\ ~client[l].started
         /\ stage[l] = "payload" => client[l].position = held[l].position
         /\ stage[l] = "handling" => ~Announcing(held[l])
<1>1. stage[l] \in {"handling", "payload"}
  BY DEF PayloadDue
<1>2. /\ WebSocketTypeOK /\ l \in listeners /\ client[l].open /\ PumpOK(l)
      /\ held[l] \in Packet /\ Fits(held[l]) /\ held[l].state # ""
  BY <1>1, HandFacts
<1>3. client[l] \in Promise!Client
  BY <1>2, ViewFacts
<1>4. CASE stage[l] = "payload"
  BY <1>2, <1>3, <1>4 DEF PumpOK, Told
<1>5. CASE stage[l] = "handling"
  <2>1. held[l].state \in {"live", "quiet"} /\ held[l].epoch = epoch[l]
    BY <1>2, <1>5 DEF PayloadDue, Ended, Unannounced, Packet
  <2>2. client[l].epoch = held[l].epoch
    BY <1>2, <2>1 DEF PumpOK
  <2> QED BY <1>2, <1>3, <1>5, <2>1, <2>2, SameSessionAgain DEF PumpOK
<1> QED BY <1>1, <1>4, <1>5

\* A packet without a payload has announced its session.
LEMMA SkipKeeps ==
  ASSUME WebSocketIInv, NEW l \in Listener, SkipPayload(l)
  PROVE  WebSocketTypeOK' /\ ClientOK(l)' /\ client' = client
<1>1. /\ PayloadDue(l) /\ Announcing(held[l]) /\ stage' = [stage EXCEPT ![l] = "select"]
      /\ UNCHANGED <<ingestVars, version2, announced, epoch, gone, client>>
  BY DEF SkipPayload, Empty, Announcing
<1>2. /\ WebSocketTypeOK /\ stage[l] = "payload" /\ PumpOK(l) /\ client[l].open /\ l \in listeners
  BY <1>1, PayloadFacts
<1>3. stage' \in [Listener -> Stage] /\ stage'[l] = "select"
  BY <1>1, <1>2, StageFacts DEF Stage
<1>4. WebSocketTypeOK' /\ UNCHANGED <<listeners, held>>
  BY <1>1, <1>2, <1>3, IngestTypesStay DEF WebSocketTypeOK
<1>5. ViewOK(l)'
  <2>1. View(l)' = View(l) /\ View(l) = AsPacket(client[l]) /\ client[l] \in Promise!Client
    BY <1>1, <1>2, ViewFacts DEF View
  <2> DEFINE v == AsPacket(client[l])
  <2>2. /\ v \in Packet /\ v.state = "live" /\ v.frame = NoFormat
        /\ v.epoch = client[l].epoch /\ v.format = client[l].format
        /\ v.sparse = client[l].sparse /\ v.position = client[l].position
    BY <1>2, <2>1, AsPacketFacts DEF PumpOK, Told
  <2> HIDE DEF v
  <2>3. Stands(v, held[l])
    BY <1>2, <2>2 DEF Stands, Announcing, PumpOK, Told
  <2>4. PICK w \in Packet : w = v
    BY <2>2
  <2> QED BY <1>2, <1>1, <1>3, <2>1, <2>3, <2>4, NewView DEF v
<1>6. PumpOK(l)'
  BY <1>1, <1>2, <1>3, <1>4 DEF PumpOK, Told
<1>7. ClientOK(l)'
  BY <1>1, <1>2, <1>3, <1>4, <1>5, <1>6 DEF ClientOK
<1> QED BY <1>1, <1>4, <1>7

\* A client gets a record, or a frame in the format it knows.
LEMMA PayloadKeeps ==
  ASSUME WebSocketIInv, NEW l \in Listener, WritePayload(l)
  PROVE  WebSocketTypeOK' /\ ClientOK(l)' /\ Promise!Next
<1> DEFINE h == held[l]
           c == [client[l] EXCEPT !.started = TRUE, !.frame = h.frame,
                     !.position = IF h.sparse THEN h.position ELSE @]
<1>1. /\ PayloadDue(l) /\ ~Empty(l) /\ ~Announcing(h) /\ stage' = [stage EXCEPT ![l] = "select"]
      /\ UNCHANGED <<ingestVars, version2, announced, epoch, gone>>
      /\ client' = [client EXCEPT ![l].started = TRUE, ![l].frame = held[l].frame,
                        ![l].position = IF held[l].sparse THEN held[l].position ELSE @]
  BY DEF WritePayload, Empty, Announcing
<1>2. /\ WebSocketTypeOK /\ l \in listeners /\ client[l].open /\ PumpOK(l)
      /\ client[l] \in Promise!Client /\ h \in Packet /\ Fits(h)
      /\ h.state \in {"live", "quiet"} /\ stage[l] \in {"handling", "payload"}
      /\ client[l].told = "session" /\ client[l].format \in Format
      /\ client[l].format = h.format /\ client[l].epoch = h.epoch
      /\ client[l].sparse = h.sparse
      /\ \/ client[l].position < h.position
         \/ client[l].position = h.position /\ ~client[l].started
  BY <1>1, PayloadFacts
<1>3. /\ h.frame \in {h.format, NoFormat} /\ h.position \in Nat
      /\ h.frame \in Format \cup {NoFormat} /\ client[l].position \in Nat
      /\ ~h.sparse => h.frame = h.format
  <2>1. ~h.sparse => h.frame # NoFormat
    BY <1>1, <1>2 DEF Fits, Announcing
  <2> QED BY <1>2, <2>1 DEF Fits, Packet, Promise!Client
<1>4. /\ c \in Promise!Client /\ c.told = "session" /\ c.open /\ c.started
      /\ c.version2 = client[l].version2 /\ c.epoch = h.epoch /\ c.format = h.format
      /\ c.sparse = h.sparse /\ c.frame = h.frame
      /\ c.position = IF h.sparse THEN h.position ELSE client[l].position
  BY <1>2, <1>3 DEF Promise!Client
<1>5. client' = [client EXCEPT ![l] = c]
  BY <1>1, <1>2 DEF WebSocketTypeOK
<1>6. client'[l] = c
  BY <1>2, <1>4, <1>5, BecomeFacts
<1>7. ASSUME h.sparse PROVE Promise!Next
  <2>1. c = [client[l] EXCEPT !.started = TRUE, !.frame = c.frame, !.position = c.position]
    BY <1>2, <1>4, <1>7
  <2>2. \/ c.position > client[l].position
        \/ c.position = client[l].position /\ ~client[l].started
    BY <1>2, <1>3, <1>4, <1>7
  <2>3. Promise!Record(l)
    BY <1>2, <1>3, <1>4, <1>5, <1>6, <1>7, <2>1, <2>2 DEF Promise!Record, Promise!Become
  <2> QED BY <2>3 DEF Promise!Next
<1>8. ASSUME ~h.sparse PROVE Promise!Next
  <2>1. c = [client[l] EXCEPT !.started = TRUE, !.frame = client[l].format]
    BY <1>2, <1>3, <1>8 DEF Promise!Client
  <2>2. Promise!LegacyFrame(l)
    BY <1>2, <1>5, <1>8, <2>1 DEF Promise!LegacyFrame, Promise!Become
  <2> QED BY <2>2 DEF Promise!Next
<1> HIDE DEF c
<1>9. client' \in [Listener -> Promise!Client]
  BY <1>2, <1>4, <1>5, BecomeFacts
<1>10. stage' \in [Listener -> Stage] /\ stage'[l] = "select"
  BY <1>1, <1>2, StageFacts DEF Stage
<1>11. WebSocketTypeOK' /\ UNCHANGED <<listeners, held>>
  BY <1>1, <1>2, <1>9, <1>10, IngestTypesStay DEF WebSocketTypeOK
<1>12. ViewOK(l)'
  <2>1. View(l)' = AsPacket(c)
    BY <1>6 DEF View
  <2>2. /\ AsPacket(c) \in Packet /\ AsPacket(c).state = "live"
        /\ AsPacket(c).epoch = c.epoch /\ AsPacket(c).format = c.format
        /\ AsPacket(c).sparse = c.sparse /\ AsPacket(c).position = c.position
    BY <1>4, AsPacketFacts
  <2>3. c.position < h.position \/ c.position = h.position
    BY <1>2, <1>3, <1>4
  <2>4. Stands(AsPacket(c), h)
    BY <1>1, <1>2, <1>4, <2>2, <2>3 DEF Stands
  <2> QED BY <1>1, <1>2, <1>10, <2>1, <2>2, <2>4, NewView
<1>13. PumpOK(l)'
  <2>1. UNCHANGED <<version2[l], announced[l], epoch[l], held[l]>>
    BY <1>1, <1>11
  <2>2. Told(l)'
    BY <1>2, <1>4, <1>6, <2>1 DEF Told
  <2>3. /\ version2[l] = c.version2 /\ epoch[l] = c.epoch
        /\ announced[l] = c.format /\ c.epoch > 0 /\ c.format \in Format
    BY <1>2, <1>4 DEF PumpOK
  <2> QED BY <1>4, <1>6, <1>10, <2>1, <2>2, <2>3 DEF PumpOK
<1>14. ClientOK(l)'
  BY <1>1, <1>2, <1>4, <1>6, <1>10, <1>11, <1>12, <1>13 DEF ClientOK
<1> QED BY <1>7, <1>8, <1>11, <1>14

\* What pumpWebSocket does with a packet in hand keeps the invariant, and is
\* a step of what module Delivery promises, or none.
LEMMA HandleKeeps ==
  ASSUME WebSocketIInv, NEW l \in Listener, HandleStep(l) \/ ContextDone(l) \/ GoAway(l)
  PROVE  /\ UNCHANGED ingestVars
         /\ WebSocketTypeOK' /\ ClientOK(l)' /\ [Promise!Next]_client
<1>1. CASE RefuseClient(l) \/ WriteFails(l) \/ ContextDone(l)
  BY <1>1, GivesUpKeeps DEF RefuseClient, WriteFails, ContextDone
<1>2. CASE WriteWaiting(l)
  BY <1>2, WaitingKeeps DEF WriteWaiting
<1>3. CASE WriteAnnouncement(l)
  BY <1>3, AnnouncementKeeps DEF WriteAnnouncement
<1>4. CASE SkipPayload(l)
  BY <1>4, SkipKeeps DEF SkipPayload
<1>5. CASE WritePayload(l)
  BY <1>5, PayloadKeeps DEF WritePayload
<1>6. CASE GoAway(l)
  <2>1. /\ UNCHANGED <<ingestVars, stage, version2, announced, epoch, client>>
        /\ gone' = gone \cup {l} /\ WebSocketTypeOK /\ ClientOK(l)
    BY <1>6 DEF GoAway, WebSocketIInv
  <2>2. WebSocketTypeOK'
    BY <2>1, IngestTypesStay DEF WebSocketTypeOK
  <2>3. UNCHANGED <<listeners, held, packets, current, connection, todo, outgoing>>
    BY <2>1, VarsFacts DEF ingestVars
  <2>4. ClientOK(l)'
    BY <2>1, <2>3, ClientUntouched
  <2> QED BY <2>1, <2>2, <2>4
<1> QED BY <1>1, <1>2, <1>3, <1>4, <1>5, <1>6 DEF HandleStep

-----------------------------------------------------------------------------
\* A client that is new was told nothing, so anything may come.
LEMMA AcceptKeeps ==
  ASSUME WebSocketIInv, IngestIInv', NEW l \in Listener, NEW v2 \in BOOLEAN, Accept(l, v2)
  PROVE  WebSocketTypeOK' /\ (\A k \in Listener : ClientOK(k)') /\ Promise!Next
<1> DEFINE c == [Promise!Stranger EXCEPT !.open = TRUE, !.version2 = v2]
<1>1. /\ WebSocketTypeOK /\ IngestIInv /\ (\A k \in Listener : ClientOK(k)) /\ TypeOK
  BY DEF WebSocketIInv, IngestIInv, IInv
<1>2. /\ stage[l] = "off" /\ Attach(l)
      /\ stage' = [stage EXCEPT ![l] = "select"]
      /\ version2' = [version2 EXCEPT ![l] = v2]
      /\ announced' = [announced EXCEPT ![l] = NoFormat]
      /\ epoch' = [epoch EXCEPT ![l] = 0]
      /\ client' = [client EXCEPT ![l] = c]
      /\ UNCHANGED <<gone, SourceSide>>
  BY DEF Accept
<1>3. /\ todo = {} /\ listeners' = listeners \cup {l}
      /\ held' = [held EXCEPT ![l] = EmptyPacket]
      /\ packets' = [packets EXCEPT ![l] = <<>>]
      /\ UNCHANGED session /\ UNCHANGED current
  BY <1>2 DEF Attach, Unlocked, session
<1>4. todo' = {} \/ (current.sparse /\ outgoing' = current /\ todo' = {l})
  BY <1>2, <1>3 DEF Attach, delivery
<1>5. /\ c \in Promise!Client /\ c.open /\ c.version2 = v2 /\ c.told = "nothing"
      /\ c.epoch = 0 /\ c.format = NoFormat
  BY StrangerFacts DEF Promise!Stranger
<1>6. Promise!Next
  <2>1. ~client[l].open
    BY <1>1, <1>2 DEF ClientOK
  <2>2. Promise!Connect(l)
    BY <1>2, <2>1 DEF Promise!Connect, Promise!Become
  <2> QED BY <2>2 DEF Promise!Next
<1> HIDE DEF c
<1>7. /\ client' \in [Listener -> Promise!Client] /\ client'[l] = c
      /\ \A k \in Listener : k # l => client'[k] = client[k]
  BY <1>1, <1>2, <1>5, BecomeFacts
<1>8. /\ stage' \in [Listener -> Stage] /\ stage'[l] = "select"
      /\ \A k \in Listener : k # l => stage'[k] = stage[k]
  BY <1>1, <1>2, StageFacts DEF Stage
<1>9. /\ version2' \in [Listener -> BOOLEAN] /\ version2'[l] = v2
      /\ \A k \in Listener : k # l => version2'[k] = version2[k]
  BY <1>1, <1>2 DEF WebSocketTypeOK
<1>10. /\ announced' \in [Listener -> Format \cup {NoFormat}] /\ announced'[l] = NoFormat
       /\ \A k \in Listener : k # l => announced'[k] = announced[k]
  BY <1>1, <1>2 DEF WebSocketTypeOK
<1>11. /\ epoch' \in [Listener -> Nat] /\ epoch'[l] = 0
       /\ \A k \in Listener : k # l => epoch'[k] = epoch[k]
  BY <1>1, <1>2 DEF WebSocketTypeOK
<1>12. IngestTypeOK'
  BY DEF IngestIInv, IInv, SourceOK, ConnectionTypes, IngestTypeOK
<1>13. WebSocketTypeOK'
  BY <1>1, <1>2, <1>7, <1>8, <1>9, <1>10, <1>11, <1>12 DEF WebSocketTypeOK
<1>14. ASSUME NEW k \in Listener, k # l PROVE ClientOK(k)'
  <2>1. held'[k] = held[k] /\ packets'[k] = packets[k]
    BY <1>1, <1>3, <1>14 DEF TypeOK
  <2>2. k \notin todo'
    BY <1>4, <1>14
  <2>3. UNCHANGED connection /\ (k \in listeners' <=> k \in listeners)
    BY <1>2, <1>3, <1>14 DEF SourceSide
  <2>4. UNCHANGED <<stage[k], version2[k], announced[k], epoch[k], client[k]>>
    BY <1>7, <1>8, <1>9, <1>10, <1>11, <1>14
  <2> QED BY <1>1, <1>3, <2>1, <2>2, <2>3, <2>4, ClientUntouched
<1>15. ClientOK(l)'
  <2>1. held'[l] = EmptyPacket /\ packets'[l] = <<>>
    BY <1>1, <1>3 DEF TypeOK
  <2>2. PumpOK(l)'
    BY <1>5, <1>7, <1>8, <1>9, <1>10, <1>11, <2>1, EmptyFacts DEF PumpOK, Told
  <2>3. View(l)' = AsPacket(c) /\ AsPacket(c).state = "" /\ AsPacket(c).epoch = 0
    BY <1>5, <1>7, AsPacketFacts DEF View
  <2>4. (Pending(l))' = {}
    BY <1>8, <2>1 DEF Pending, Members
  <2>5. Precedes(AsPacket(c), current')
    <3>1. 0 <= current'.epoch
      <4>1. current'.epoch \in Nat
        BY <1>1, <1>3 DEF TypeOK, Packet
      <4> QED BY <4>1
    <3> QED BY <2>3, <3>1 DEF Precedes, MayFollow
  <2>6. (AllBehind(View(l)))'
    BY <2>3 DEF AllBehind, Behind
  <2>7. Steps(AsPacket(c), outgoing')
    BY <2>3, StepsToAnother
  <2>8. ViewOK(l)'
    BY <2>3, <2>4, <2>5, <2>6, <2>7 DEF ViewOK
  <2> QED BY <1>3, <1>5, <1>7, <1>8, <2>2, <2>8 DEF ClientOK
<1> QED BY <1>6, <1>13, <1>14, <1>15

\* A packet is taken from the queue: it was pending before, and still is.
LEMMA TakeKeeps ==
  ASSUME WebSocketIInv, IngestIInv', NEW l \in Listener, TakePacket(l)
  PROVE  WebSocketTypeOK' /\ (\A k \in Listener : ClientOK(k)') /\ client' = client
<1>1. /\ WebSocketTypeOK /\ IngestIInv /\ (\A k \in Listener : ClientOK(k)) /\ TypeOK
  BY DEF WebSocketIInv, IngestIInv, IInv
<1>2. /\ stage[l] = "select" /\ l \in listeners /\ packets[l] # <<>>
      /\ held' = [held EXCEPT ![l] = Head(packets[l])]
      /\ packets' = [packets EXCEPT ![l] = Tail(@)]
      /\ stage' = [stage EXCEPT ![l] = "handling"]
      /\ UNCHANGED <<version2, announced, epoch, gone, client>> /\ UNCHANGED connection
      /\ UNCHANGED <<current, outgoing, todo, listeners>>
  BY DEF TakePacket, Receive, SourceSide, session, registry, delivery
<1>3. /\ stage' \in [Listener -> Stage] /\ stage'[l] = "handling"
      /\ \A k \in Listener : k # l => stage'[k] = stage[k]
  BY <1>1, <1>2, StageFacts DEF Stage
<1>4. IngestTypeOK'
  BY DEF IngestIInv, IInv, SourceOK, ConnectionTypes, IngestTypeOK
<1>5. WebSocketTypeOK'
  BY <1>1, <1>2, <1>3, <1>4 DEF WebSocketTypeOK
<1>6. ASSUME NEW k \in Listener, k # l PROVE ClientOK(k)'
  <2>1. held'[k] = held[k] /\ packets'[k] = packets[k]
    BY <1>1, <1>2, <1>6 DEF TypeOK
  <2> QED BY <1>1, <1>2, <1>3, <1>6, <2>1, ClientUntouched
<1>7. ClientOK(l)'
  <2>1. held'[l] = Head(packets[l]) /\ packets'[l] = Tail(packets[l])
    BY <1>1, <1>2 DEF TypeOK
  <2>2. /\ packets[l] \in Seq(Packet) /\ BacklogOK(l)
        /\ Head(packets[l]) \in Members(packets[l])
        /\ Members(Tail(packets[l])) \subseteq Members(packets[l])
    BY <1>1, <1>2, BacklogFacts, MembersFacts, EmptyFacts
  <2>3. client[l].open /\ PumpOK(l) /\ ViewOK(l)
    BY <1>1, <1>2 DEF ClientOK
  <2>4. held'[l].state # ""
    BY <2>1, <2>2 DEF BacklogOK, Stated, Members
  <2>5. PumpOK(l)'
    BY <1>2, <1>3, <2>3, <2>4 DEF PumpOK
  <2>6. (Pending(l))' \subseteq Pending(l)
    BY <1>3, <2>1, <2>2 DEF Pending
  <2>7. View(l)' = View(l)
    BY <1>2 DEF View
  <2>8. (AllBehind(View(l)))'
    BY <1>2, <2>3, <2>7 DEF ViewOK, AllBehind, Behind, Due, Holders, connection
  <2>9. ViewOK(l)'
    BY <1>2, <2>3, <2>6, <2>7, <2>8 DEF ViewOK
  <2> QED BY <1>2, <1>3, <2>3, <2>5, <2>9 DEF ClientOK
<1> QED BY <1>2, <1>5, <1>6, <1>7

\* The goroutine returns: its client was cut off before.
LEMMA ReturnKeeps ==
  ASSUME WebSocketIInv, IngestIInv', NEW l \in Listener, Return(l)
  PROVE  WebSocketTypeOK' /\ (\A k \in Listener : ClientOK(k)') /\ client' = client
<1>1. /\ WebSocketTypeOK /\ (\A k \in Listener : ClientOK(k)) /\ TypeOK
  BY DEF WebSocketIInv, IngestIInv, IInv
<1>2. /\ stage[l] = "returning" /\ l \in listeners /\ listeners' = listeners \ {l}
      /\ held' = [held EXCEPT ![l] = EmptyPacket]
      /\ packets' = [packets EXCEPT ![l] = <<>>]
      /\ stage' = [stage EXCEPT ![l] = "off"] /\ gone' = gone \ {l}
      /\ UNCHANGED <<version2, announced, epoch, client>> /\ UNCHANGED connection
      /\ UNCHANGED <<current, outgoing, todo>>
  BY DEF Return, Detach, SourceSide, session, delivery
<1>3. /\ stage' \in [Listener -> Stage] /\ stage'[l] = "off"
      /\ \A k \in Listener : k # l => stage'[k] = stage[k]
  BY <1>1, <1>2, StageFacts DEF Stage
<1>4. IngestTypeOK'
  BY DEF IngestIInv, IInv, SourceOK, ConnectionTypes, IngestTypeOK
<1>5. WebSocketTypeOK'
  BY <1>1, <1>2, <1>3, <1>4 DEF WebSocketTypeOK
<1>6. ASSUME NEW k \in Listener, k # l PROVE ClientOK(k)'
  <2>1. held'[k] = held[k] /\ packets'[k] = packets[k]
    BY <1>1, <1>2, <1>6 DEF TypeOK
  <2> QED BY <1>1, <1>2, <1>3, <1>6, <2>1, ClientUntouched
<1>7. ClientOK(l)'
  BY <1>1, <1>2, <1>3 DEF ClientOK
<1> QED BY <1>2, <1>5, <1>6, <1>7

-----------------------------------------------------------------------------
\* To the relay's other side, a step of WebSocket is one of Ingest.
LEMMA WebSocketStepIsIngestStep == WebSocketNext => [IngestNext]_ingestVars
<1> SUFFICES ASSUME WebSocketNext PROVE [IngestNext]_ingestVars
  OBVIOUS
<1>1. ASSUME NEW c \in Conn, SourceStep(c) PROVE IngestNext
  BY <1>1 DEF IngestNext
<1>2. CASE DeliverStep
  BY <1>2 DEF IngestNext
<1>3. ASSUME NEW l \in Listener, ClientStep(l) PROVE [IngestNext]_ingestVars
  <2>1. ASSUME NEW v2 \in BOOLEAN, Accept(l, v2) PROVE IngestNext
    BY <2>1 DEF Accept, IngestNext, ListenerStep, SourceSide
  <2>2. CASE TakePacket(l)
    BY <2>2 DEF TakePacket, IngestNext, ListenerStep, SourceSide
  <2>3. CASE Return(l)
    BY <2>3 DEF Return, IngestNext, ListenerStep, SourceSide
  <2>4. CASE HandleStep(l) \/ ContextDone(l) \/ GoAway(l)
    BY <2>4 DEF HandleStep, RefuseClient, WriteWaiting, WriteAnnouncement, SkipPayload,
                WritePayload, WriteFails, ContextDone, GoAway
  <2> QED BY <1>3, <2>1, <2>2, <2>3, <2>4 DEF ClientStep
<1> QED BY <1>1, <1>2, <1>3 DEF WebSocketNext

\* Initially there is no client.
LEMMA InitEstablishesWebSocketIInv == WebSocketInit => WebSocketIInv /\ Promise!Init
<1> SUFFICES ASSUME WebSocketInit PROVE WebSocketIInv /\ Promise!Init
  OBVIOUS
<1>1. IngestIInv
  BY InitEstablishesIngestIInv DEF WebSocketInit
<1>2. /\ listeners = {}
      /\ stage = [l \in Listener |-> "off"] /\ version2 = [l \in Listener |-> FALSE]
      /\ announced = [l \in Listener |-> NoFormat] /\ epoch = [l \in Listener |-> 0]
      /\ gone = {} /\ client = [l \in Listener |-> Promise!Stranger]
  BY DEF WebSocketInit, IngestInit, Init
<1>3. IngestTypeOK
  BY <1>1 DEF IngestIInv, IInv, SourceOK, ConnectionTypes, IngestTypeOK
<1>4. stage \in [Listener -> Stage] /\ version2 \in [Listener -> BOOLEAN]
  BY <1>2 DEF Stage
<1>5. announced \in [Listener -> Format \cup {NoFormat}] /\ epoch \in [Listener -> Nat]
  BY <1>2
<1>6. client \in [Listener -> Promise!Client]
  BY <1>2, StrangerFacts
<1>7. WebSocketTypeOK
  BY <1>2, <1>3, <1>4, <1>5, <1>6 DEF WebSocketTypeOK
<1>8. ASSUME NEW l \in Listener PROVE ClientOK(l)
  <2>1. stage[l] = "off" /\ client[l] = Promise!Stranger /\ ~Promise!Stranger.open
    BY <1>2 DEF Promise!Stranger
  <2> QED BY <1>2, <2>1 DEF ClientOK
<1> QED BY <1>1, <1>2, <1>7, <1>8 DEF WebSocketIInv, Promise!Init

\* The invariant of WebSocket is inductive, and each of its steps is one that
\* module Delivery promises, or one that clients do not see.
LEMMA WebSocketNextKeeps ==
  ASSUME WebSocketIInv, WebSocketNext
  PROVE  WebSocketIInv' /\ [Promise!Next]_client
<1>1. IngestIInv /\ WebSocketTypeOK /\ \A l \in Listener : ClientOK(l)
  BY DEF WebSocketIInv
<1>2. IngestIInv'
  <2>1. [IngestNext]_ingestVars
    BY WebSocketStepIsIngestStep
  <2> QED BY <1>1, <2>1, IngestNextKeeps, IngestStutterKeeps DEF ingestVars
<1>3. IngestTypeOK'
  BY <1>2 DEF IngestIInv, IInv, SourceOK, ConnectionTypes, IngestTypeOK
<1>4. UNCHANGED pump => WebSocketTypeOK' /\ client' = client
  BY <1>1, <1>3 DEF WebSocketTypeOK, pump
<1>5. ASSUME NEW c \in Conn, SourceStep(c), UNCHANGED pump
      PROVE  WebSocketTypeOK' /\ (\A l \in Listener : ClientOK(l)') /\ client' = client
  BY <1>1, <1>2, <1>4, <1>5, SourceKeeps, SourceMovesKeepClients
<1>6. ASSUME DeliverStep, UNCHANGED pump
      PROVE  WebSocketTypeOK' /\ (\A l \in Listener : ClientOK(l)') /\ client' = client
  BY <1>1, <1>4, <1>6, DeliverKeeps, DeliverMovesKeepClients DEF DeliverStep
<1>7. ASSUME NEW l \in Listener, ClientStep(l)
      PROVE  WebSocketTypeOK' /\ (\A k \in Listener : ClientOK(k)') /\ [Promise!Next]_client
  <2>1. ASSUME NEW v2 \in BOOLEAN, Accept(l, v2)
        PROVE  WebSocketTypeOK' /\ (\A k \in Listener : ClientOK(k)') /\ [Promise!Next]_client
    BY <1>2, <2>1, AcceptKeeps
  <2>2. CASE TakePacket(l) \/ Return(l)
    BY <1>2, <2>2, TakeKeeps, ReturnKeeps
  <2>3. CASE HandleStep(l) \/ ContextDone(l) \/ GoAway(l)
    <3>1. /\ UNCHANGED ingestVars
          /\ WebSocketTypeOK' /\ ClientOK(l)' /\ [Promise!Next]_client
      BY <2>3, HandleKeeps
    <3>2. ASSUME NEW k \in Listener, k # l PROVE ClientOK(k)'
      <4>1. UNCHANGED <<stage[k], version2[k], announced[k], epoch[k], client[k]>>
        BY <1>1, <2>3, <3>2
           DEF HandleStep, RefuseClient, WriteWaiting, WriteAnnouncement, SkipPayload,
               WritePayload, WriteFails, ContextDone, GoAway, WebSocketTypeOK
      <4>2. UNCHANGED <<listeners, held, packets, current, connection, todo, outgoing>>
        BY <3>1, VarsFacts DEF ingestVars
      <4> QED BY <1>1, <4>1, <4>2, ClientUntouched
    <3> QED BY <3>1, <3>2
  <2> QED BY <1>7, <2>1, <2>2, <2>3 DEF ClientStep
<1>8. WebSocketTypeOK' /\ (\A l \in Listener : ClientOK(l)') /\ [Promise!Next]_client
  BY <1>5, <1>6, <1>7 DEF WebSocketNext
<1> QED BY <1>2, <1>8 DEF WebSocketIInv

\* A step that changes nothing keeps it.
LEMMA WebSocketStutterKeeps ==
  ASSUME WebSocketIInv, UNCHANGED webSocketVars
  PROVE  WebSocketIInv' /\ client' = client
<1>1. IngestIInv /\ WebSocketTypeOK /\ \A l \in Listener : ClientOK(l)
  BY DEF WebSocketIInv
<1>2. IngestIInv'
  BY <1>1, IngestStutterKeeps DEF webSocketVars, ingestVars
<1>3. WebSocketTypeOK'
  BY <1>1, IngestTypesStay DEF WebSocketTypeOK, webSocketVars, pump
<1>4. UNCHANGED <<listeners, held, packets, current, connection, todo, outgoing>>
  BY VarsFacts DEF webSocketVars, ingestVars
<1>5. ASSUME NEW l \in Listener PROVE ClientOK(l)'
  BY <1>1, <1>4, ClientUntouched DEF webSocketVars, pump
<1> QED BY <1>2, <1>3, <1>5 DEF WebSocketIInv, webSocketVars, pump

\* The invariant of WebSocket holds in every behavior.
LEMMA WebSocketIInvHolds == WebSocketSpec => []WebSocketIInv
<1>1. WebSocketIInv /\ [WebSocketNext]_webSocketVars => WebSocketIInv'
  BY WebSocketNextKeeps, WebSocketStutterKeeps
<1> QED BY <1>1, InitEstablishesWebSocketIInv, PTL DEF WebSocketSpec

-----------------------------------------------------------------------------
\* The relay's state keeps its types.
THEOREM WebSocketTypeCorrect == WebSocketSpec => []WebSocketTypeOK
<1>1. WebSocketIInv => WebSocketTypeOK
  BY DEF WebSocketIInv
<1> QED BY <1>1, WebSocketIInvHolds, PTL

\* The relay keeps what module Delivery promises to every client, whatever
\* sources, queues, drops, joins and failing writes do: sessions in order and
\* once each, frames in the format announced, positions that grow.
THEOREM RelayKeepsItsPromise == WebSocketSpec => ProtocolKept
<1>1. WebSocketIInv /\ [WebSocketNext]_webSocketVars => [Promise!Next]_client
  BY WebSocketNextKeeps, WebSocketStutterKeeps
<1>2. WebSocketInit => Promise!Init
  BY InitEstablishesWebSocketIInv
<1> QED BY <1>1, <1>2, WebSocketIInvHolds, PTL DEF WebSocketSpec, ProtocolKept, Promise!Spec

\* A client that drained its queue knows the state of the stream, however
\* many packets its queue dropped.
THEOREM DrainedClientsKnow == WebSocketSpec => []DrainedClientKnows
<1>1. WebSocketIInv => DrainedClientKnows
  <2> SUFFICES ASSUME WebSocketIInv, NEW l \in listeners \ todo,
                      stage[l] = "select", packets[l] = <<>>
               PROVE  KnowsTheState(l)
    BY DEF DrainedClientKnows
  <2>1. /\ l \in Listener /\ BacklogOK(l) /\ held[l] \in Packet /\ current \in Packet
        /\ SourceState /\ current.state \in {"", "live", "quiet", "waiting"}
    BY BacklogFacts DEF WebSocketIInv, IngestIInv, IInv, Packet
  <2>2. Informed(held[l], current)
    BY <2>1 DEF BacklogOK, Last
  <2>3. Told(l) /\ client[l] \in Promise!Client
    BY <2>1, ViewFacts DEF WebSocketIInv, ClientOK, PumpOK
  <2>4. CASE WithoutFrame(held[l]) = current
    <3>1. /\ held[l].epoch = current.epoch /\ held[l].state = current.state
          /\ held[l].format = current.format /\ held[l].sparse = current.sparse
          /\ held[l].position = current.position
      BY <2>1, <2>4, WithoutFrameFacts DEF SameSession
    <3>2. CASE source = NoFormat
      BY <2>1, <2>3, <3>1, <3>2 DEF SourceState, Told, KnowsTheState
    <3>3. CASE source # NoFormat
      BY <2>1, <2>3, <3>1, <3>3 DEF SourceState, Told, KnowsTheState
    <3> QED BY <3>2, <3>3
  <2>5. CASE ~current.sparse /\ (held[l] = EmptyPacket \/ held[l].state = "waiting")
    <3>1. client[l].told # "session"
      BY <2>3, <2>5, EmptyFacts DEF Told
    <3> QED BY <2>5, <3>1 DEF KnowsTheState
  <2> QED BY <2>2, <2>4, <2>5 DEF Informed
<1> QED BY <1>1, WebSocketIInvHolds, PTL
=============================================================================
