----------------------------- MODULE SourceLink -----------------------------
(***************************************************************************)
(* The TCP connection of a source, seen from the relay's end: what arrived *)
(* and how long ago.  Modules Console and Esp32 share it.  The relay may   *)
(* close a connection at any moment, having another source, restarting or  *)
(* giving up waiting, and so may the network; the source learns of it from *)
(* a write that fails, sooner or later.                                    *)
(*                                                                         *)
(* Time passes in steps of one frame.  Timers are ages, capped where they  *)
(* no longer tell anything apart.                                          *)
(***************************************************************************)
EXTENDS Naturals, Sequences

CONSTANTS
    LineDepth,          \* frames in the gate's delay line, 0 without suppression
    QueueDepth,         \* records between capture and transmit
    Heartbeat,          \* frames between two quiet records that are sent
    WriteTimeout,       \* frames a dial or write may take
    ReconnectDelay,     \* frames before another dial
    MaxFrames           \* bound: records made

ASSUME LinkAssumption ==
    /\ LineDepth \in Nat
    /\ QueueDepth \in Nat \ {0}
    /\ Heartbeat \in Nat \ {0}
    /\ WriteTimeout \in Nat \ {0}
    /\ ReconnectDelay \in 0 .. WriteTimeout
    /\ MaxFrames \in Nat

(***************************************************************************)
(* The relay's end of the connection: whether it is open, how many records *)
(* had been queued when it was made, whether a record arrived on it,       *)
(* position and quiet of the last one, and its age.                        *)
(***************************************************************************)
VARIABLE relay

NoRecord == [position |-> 0, quiet |-> FALSE]

\* The longest silence the models tell apart.
MaxAge == Heartbeat + WriteTimeout + 2

Older(age, most) == IF age < most THEN age + 1 ELSE most

NoLink ==
    [open |-> FALSE, since |-> 0, known |-> FALSE, position |-> 0, quiet |-> FALSE, age |-> 0]

\* The header arrives when so many records have been queued.
LinkUp(queued) == relay' = [NoLink EXCEPT !.open = TRUE, !.since = queued]

LinkDown == relay' = NoLink

\* A write succeeds: the record arrives, unless the relay is gone and only
\* the buffers of the connection took it.
Arrives(record) ==
    relay' = IF relay.open
             THEN [relay EXCEPT !.known = TRUE, !.age = 0, !.position = record.position,
                                !.quiet = record.quiet]
             ELSE relay

LinkAges == relay' = [relay EXCEPT !.age = IF relay.open THEN Older(@, MaxAge) ELSE 0]

\* What module SourceWire speaks of.
HeardByRelay ==
    [open |-> relay.open, since |-> relay.since, known |-> relay.known,
     position |-> relay.position]
=============================================================================
