--------------------------- MODULE MCNegotiationTck ---------------------------
(***************************************************************************)
(* NegotiationProtocol built with the feature `tck`: both sides follow the *)
(* script of the dataset.  A consumer record is named after the dataset it *)
(* negotiates about, and a behaviour has one negotiation, about any of     *)
(* them.                                                                   *)
(***************************************************************************)
EXTENDS NegotiationProtocol, TLC

CONSTANTS A, B

OnTwoSides == [x \in Pids |-> IF x \in CPids THEN A ELSE B]

AsksB == [c \in CPids |-> B]

ItsOwnName == [c \in CPids |-> c]

NegotiateAlone(c) == (\A d \in CPids : ~Exists(d)) /\ Negotiate(c)

TckNext ==
  \/ \E c \in CPids : NegotiateAlone(c)
  \/ \E k \in Connectors : Loop(k)
  \/ \E m \in net : Deliver(m)
  \/ Fault

TckSpec == Init /\ [][TckNext]_vars

\* Fairness of NegotiationProtocol; as there is one consumer record, one
\* condition stands for those of all of them.
TckFairness ==
  /\ \A k \in Connectors : WF_vars(Loop(k))
  /\ SF_vars(\E m \in net : m.from \in CPids /\ Deliver(m))
  /\ \A p \in PPids : SF_vars(\E m \in net : m.from = p /\ Deliver(m))

TckFairSpec == TckSpec /\ TckFairness

\* Without faults the scripts end in the same state on both sides, except the
\* one in which the consumer answers each offer with a counter-request, which
\* goes on until the provider refuses, and unless a termination crosses another
\* message and the two loops wait for each other for good.
ScriptsSettle ==
  <>[](\A c \in CPids : Exists(c) =>
         \/ Settled(c)
         \/ MutualWait
         \/ c = "ACNC0102"
         \/ faults > 0)
===============================================================================
