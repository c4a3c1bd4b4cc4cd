----------------------------- MODULE MCTransfer -----------------------------
(***************************************************************************)
(* Instances of TransferProtocol with two connectors, A and B.  CA and PA  *)
(* are the records A keeps in its roles of consumer and of provider, CB    *)
(* and PB those of B; each asks the other.                                 *)
(***************************************************************************)
EXTENDS TransferInvariant, TLC

CONSTANTS A, B, CA, CB, PA, PB

BothConsumers == CA \cup CB

BothProviders == PA \cup PB

OnTwoSides == [x \in Procs |-> IF x \in CA \cup PA THEN A ELSE B]

AsksTheOther == [c \in CProcs |-> IF c \in CA THEN B ELSE A]

\* The agreements are ordinary ones, which no TCK script is about.
Ordinary == [a \in Agreements |-> "none"]

\* The provider records one connector can draw differ in name only.
ProviderSymmetry == Permutations(PA) \cup Permutations(PB)
=============================================================================
