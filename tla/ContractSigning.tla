--------------------------- MODULE ContractSigning ---------------------------
(***************************************************************************)
(* What a contract negotiation promises, without messages, loops, records  *)
(* and faults: for each negotiation at most one agreement is issued, it is *)
(* never another one afterwards, the consumer countersigns it, then holds  *)
(* it as concluded, and only then does the provider close its books.  A    *)
(* contract can be voided until it is concluded, and never after.          *)
(***************************************************************************)
CONSTANTS CPids, Agreements, NoAgr

VARIABLES
  stage,    \* stage[c]: how far the contract of negotiation c is
  signed    \* signed[c]: the agreement it is about, once there is one

vars == <<stage, signed>>

Init ==
  /\ stage = [c \in CPids |-> "none"]
  /\ signed = [c \in CPids |-> NoAgr]

Move(c, from, to) ==
  /\ stage[c] \in from
  /\ stage' = [stage EXCEPT ![c] = to]

Open(c) == Move(c, {"none"}, "open") /\ UNCHANGED signed

\* An agreement is issued for one negotiation only.
Issue(c, a) ==
  /\ Move(c, {"open"}, "issued")
  /\ \A d \in CPids : signed[d] # a
  /\ signed' = [signed EXCEPT ![c] = a]

Countersign(c) == Move(c, {"issued"}, "countersigned") /\ UNCHANGED signed

Conclude(c) == Move(c, {"countersigned"}, "concluded") /\ UNCHANGED signed

Close(c) == Move(c, {"concluded"}, "closed") /\ UNCHANGED signed

Void(c) ==
  /\ Move(c, {"open", "issued", "countersigned"}, "void")
  /\ signed' = [signed EXCEPT ![c] = NoAgr]

Next ==
  \E c \in CPids :
    \/ Open(c)
    \/ \E a \in Agreements : Issue(c, a)
    \/ Countersign(c)
    \/ Conclude(c)
    \/ Close(c)
    \/ Void(c)

Spec == Init /\ [][Next]_vars
=============================================================================
