------------------------------ MODULE Delivery ------------------------------
(***************************************************************************)
(* What the clients of the relay's WebSocket are promised, whatever        *)
(* happens on the other side of the relay.  Sessions are announced one     *)
(* after another, never one twice and never an older one; the binary       *)
(* messages after an announcement belong to it: their frames are in its    *)
(* format and, in a sparse session, their positions grow; "waiting" ends a *)
(* session, and nothing is sent until the next is announced.  A client     *)
(* that did not ask for version 2 is sent nothing of a sparse session.     *)
(*                                                                         *)
(* This is what the player and its worklet rely on; the module WebSocket   *)
(* shows that the relay keeps it.                                          *)
(***************************************************************************)
EXTENDS Naturals

CONSTANTS Listener, Format, NoFormat

VARIABLE client     \* what each client was told

(***************************************************************************)
(* told: what the last text message was;                                   *)
(* format, epoch, sparse: of the last announcement;                        *)
(* position: of the last announcement or sparse binary message;            *)
(* frame: the encoding of the frame of the last binary message;            *)
(* started: a binary message followed the announcement.                    *)
(***************************************************************************)
Client ==
    [open: BOOLEAN, version2: BOOLEAN, told: {"nothing", "session", "waiting"},
     format: Format \cup {NoFormat}, epoch: Nat, sparse: BOOLEAN, position: Nat,
     frame: Format \cup {NoFormat}, started: BOOLEAN]

Stranger ==
    [open |-> FALSE, version2 |-> FALSE, told |-> "nothing",
     format |-> NoFormat, epoch |-> 0, sparse |-> FALSE, position |-> 0,
     frame |-> NoFormat, started |-> FALSE]

Init == client = [l \in Listener |-> Stranger]

Become(l, c) == client' = [client EXCEPT ![l] = c]

Connect(l) ==
    /\ ~client[l].open
    /\ \E v2 \in BOOLEAN :
          Become(l, [Stranger EXCEPT !.open = TRUE, !.version2 = v2])

Disconnect(l) == client[l].open /\ Become(l, Stranger)

Announce(l) ==
    /\ client[l].open
    /\ client'[l].epoch > client[l].epoch
    /\ client'[l].format \in Format
    /\ client'[l].sparse => client[l].version2
    /\ Become(l, [client[l] EXCEPT !.told = "session", !.started = FALSE,
                      !.format = client'[l].format, !.epoch = client'[l].epoch,
                      !.sparse = client'[l].sparse, !.position = client'[l].position])

\* A binary message of a sparse session is a record; the first may be at the
\* position that was announced.
Record(l) ==
    /\ client[l].told = "session" /\ client[l].sparse
    /\ client'[l].frame \in {client[l].format, NoFormat}
    /\ \/ client'[l].position > client[l].position
       \/ client'[l].position = client[l].position /\ ~client[l].started
    /\ Become(l, [client[l] EXCEPT !.started = TRUE, !.frame = client'[l].frame,
                      !.position = client'[l].position])

\* A binary message of a legacy session is a frame.
LegacyFrame(l) ==
    /\ client[l].told = "session" /\ ~client[l].sparse
    /\ Become(l, [client[l] EXCEPT !.started = TRUE, !.frame = client[l].format])

Waiting(l) ==
    /\ client[l].open
    /\ Become(l, [client[l] EXCEPT !.told = "waiting"])

Next ==
    \E l \in Listener :
        \/ Connect(l) \/ Disconnect(l)
        \/ Announce(l) \/ Record(l) \/ LegacyFrame(l) \/ Waiting(l)

Spec == Init /\ [][Next]_client
=============================================================================
