---------------------------- MODULE AtomicRecord ----------------------------
(***************************************************************************)
(* What the store promises for one record: it is created in its first      *)
(* state, and from then on goes from each state to the next.               *)
(***************************************************************************)
EXTENDS Naturals

VARIABLE state   \* 0 before the record is created

Init == state = 0

Advance == state' = state + 1

Spec == Init /\ [][Advance]_state
=============================================================================
