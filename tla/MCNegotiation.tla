---------------------------- MODULE MCNegotiation ----------------------------
(***************************************************************************)
(* An instance of NegotiationProtocol: A keeps the consumer records, B the *)
(* provider records, and the datasets are ordinary ones, which no TCK      *)
(* script is about.                                                        *)
(***************************************************************************)
EXTENDS NegotiationInvariant, TLC

CONSTANTS A, B, CA, PB

OnTwoSides == [x \in Pids |-> IF x \in CA THEN A ELSE B]

AsksB == [c \in CPids |-> B]

Ordinary == [c \in CPids |-> "dataset"]
=============================================================================
