---------------------------- MODULE MCDataSpace ----------------------------
(***************************************************************************)
(* DataSpace with a consumer, A, and a provider, B.                        *)
(***************************************************************************)
EXTENDS DataSpace

CONSTANTS A, B

NegotiationSides == [x \in CPids \cup PPids |-> IF x \in CPids THEN A ELSE B]

TransferSides == [x \in CProcs \cup PProcs |-> IF x \in CProcs THEN A ELSE B]

NegotiatesWithB == [c \in CPids |-> B]

TransfersFromB == [t \in CProcs |-> B]

Ordinary == [c \in CPids |-> "dataset"]
=============================================================================
