----------------------------- MODULE SourceWire -----------------------------
(***************************************************************************)
(* What the relay hears from a source, whichever it is: on each connection *)
(* the positions of the records grow, and none was queued for transmission *)
(* before the connection was made.  A source may leave records out, that   *)
(* is what suppression and full queues do, but it does not reorder or      *)
(* repeat them, and after a reconnect it resumes live instead of replaying *)
(* a backlog.  (What had been captured and not yet queued, in the delay    *)
(* line or before encode, may still come: it is little, and on its way.)   *)
(*                                                                         *)
(* The modules Console and Esp32 show that both sources keep to it; the    *)
(* check on positions in module Ingest never cuts them off.                *)
(***************************************************************************)
EXTENDS Naturals

VARIABLES
    queued,     \* records the source queued so far, at positions from 0 on
    heard       \* what arrived on the present connection

(***************************************************************************)
(* open: there is a connection; since: what had been queued when it was    *)
(* made; known: a record arrived on it; position: that of the last one.    *)
(***************************************************************************)
Heard == [open: BOOLEAN, since: Nat, known: BOOLEAN, position: Nat]

Nothing == [open |-> FALSE, since |-> 0, known |-> FALSE, position |-> 0]

Init == queued = 0 /\ heard = Nothing

Enqueue == queued' = queued + 1 /\ UNCHANGED heard

Connect ==
    /\ ~heard.open
    /\ heard' = [Nothing EXCEPT !.open = TRUE, !.since = queued]
    /\ UNCHANGED queued

Arrive ==
    /\ heard.open
    /\ heard'.position \in heard.since .. queued - 1
    /\ heard.known => heard'.position > heard.position
    /\ heard' = [heard EXCEPT !.known = TRUE, !.position = heard'.position]
    /\ UNCHANGED queued

Disconnect == heard.open /\ heard' = Nothing /\ UNCHANGED queued

Next == Enqueue \/ Connect \/ Arrive \/ Disconnect

Spec == Init /\ [][Next]_<<queued, heard>>
=============================================================================
