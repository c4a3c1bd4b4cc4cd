---------------------------- MODULE MCTransferTck ----------------------------
(***************************************************************************)
(* TransferProtocol built with the feature `tck`.  A behaviour has one     *)
(* transfer, under any of the agreements.  The store has a finalized       *)
(* negotiation for every scripted agreement, and the forbidden one, from   *)
(* the beginning; the ordinary one is finalized once its transfer is asked *)
(* for (at any time after, so also before the request is posted).          *)
(***************************************************************************)
EXTENDS TransferProtocol

CONSTANTS A, B

OnTwoSides == [x \in Procs |-> IF x \in CProcs THEN A ELSE B]

AsksB == [c \in CProcs |-> B]

Ordinary == {"ordinary", "forbidden"}

ItsOwnName == [a \in Agreements |-> IF a \in Ordinary THEN "none" ELSE a]

TckInit ==
  /\ finalized = Agreements \ {"ordinary"}
  /\ proc = [x \in Procs |-> Absent]
  /\ phase = [x \in Procs |-> "idle"]
  /\ result = [x \in Procs |-> Absent]
  /\ net = {}
  /\ faults = 0

FinalizeOrdinary ==
  /\ "ordinary" \notin finalized
  /\ \E c \in CProcs : Exists(c) /\ proc[c].agr = "ordinary"
  /\ Finalize("ordinary")

TckNext ==
  \/ FinalizeOrdinary
  \/ \E c \in CProcs, a \in Agreements : AskTransfer(c, a)
  \/ Work

TckSpec == TckInit /\ [][TckNext]_vars

TckFairSpec == TckSpec /\ Fairness /\ WF_vars(FinalizeOrdinary)

\* Both sides know that the transfer is over, and how.
OverOnBothSides(c) ==
  /\ proc[c].st \in {"completed", "terminated"}
  /\ proc[c].sent
  /\ proc[c].peer \in Answers(c)
  /\ proc[proc[c].peer].st = proc[c].st
  /\ proc[proc[c].peer].sent

Scripted(c) == Script[proc[c].agr] # "none"

\* Without faults every script ends in the same final state on both sides,
\* except those in which the provider leaves the request alone, and the one in
\* which the consumer terminates a transfer not started yet: the provider may be
\* faster, and the data stays open, or about to start it, and then the loops may
\* wait for each other for good.
ScriptsEnd ==
  <>[](\A c \in CProcs : Exists(c) /\ Scripted(c) =>
         \/ OverOnBothSides(c)
         \/ Script[proc[c].agr] \in NeverStarted
         \/ Script[proc[c].agr] = "ATPC0205" /\ (HasStarted(c) \/ MutualWait)
         \/ faults > 0)
=============================================================================
