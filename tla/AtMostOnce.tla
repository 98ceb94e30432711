------------------------------ MODULE AtMostOnce ------------------------------
(***************************************************************************)
(* What the counter inside an authenticated spine frame promises           *)
(* (docs/SPINE-REPLAY.md sections 2 and 3): an origin puts each counter on *)
(* the air at most once over its whole life, and a receiver takes each     *)
(* counter that was put on the air at most once over its whole life.       *)
(* Reboots, relays, duplicates and re-ordering are invisible here: they    *)
(* are stuttering steps of this specification.                             *)
(***************************************************************************)
EXTENDS Naturals

CONSTANTS
  Receiver,   \* whoever judges frames of this one origin
  Counter     \* the counter values a frame may carry

VARIABLES
  issued,     \* issued[c]: how many frames carrying c the origin has sent
  deliveries  \* deliveries[r][c]: how often r has accepted counter c

vars == <<issued, deliveries>>

Init ==
  /\ issued = [c \in Counter |-> 0]
  /\ deliveries = [r \in Receiver |-> [c \in Counter |-> 0]]

Originate(c) ==
  /\ issued[c] = 0
  /\ issued' = [issued EXCEPT ![c] = 1]
  /\ UNCHANGED deliveries

Deliver(r, c) ==
  /\ issued[c] = 1
  /\ deliveries[r][c] = 0
  /\ deliveries' = [deliveries EXCEPT ![r][c] = 1]
  /\ UNCHANGED issued

Next ==
  \/ \E c \in Counter : Originate(c)
  \/ \E r \in Receiver, c \in Counter : Deliver(r, c)

Spec == Init /\ [][Next]_vars

===============================================================================
