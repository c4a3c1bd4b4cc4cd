-------------------------- MODULE MCNegotiationStore --------------------------
(***************************************************************************)
(* An instance of NegotiationStore: consumer records at A, provider        *)
(* records at B, and an ordinary dataset.                                  *)
(***************************************************************************)
EXTENDS NegotiationStoreInvariant, TLC

CONSTANTS A, B, CA, PB

OnTwoSides == [x \in Pids |-> IF x \in CA THEN A ELSE B]

AsksB == [c \in CPids |-> B]

Ordinary == [c \in CPids |-> "dataset"]

ProviderSymmetry == Permutations(PB)
================================================================================
