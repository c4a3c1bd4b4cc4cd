------------------------------ MODULE DataSpace ------------------------------
(***************************************************************************)
(* Negotiations and transfers together.  A connector runs the two loops    *)
(* side by side; they share nothing but the store: a transfer is asked for *)
(* under an agreement the consumer has finalized, and accepted under one   *)
(* the provider has finalized.  A restart ends both loops.                 *)
(***************************************************************************)
EXTENDS Naturals

CONSTANTS
  Connectors, MaxFaults, Absent,
  \* negotiations
  CPids, PPids, NoPid, NoAgr, MaxMinted, Targets, Target, Home, Provider,
  \* transfers
  CProcs, PProcs, NoProc, Forbidden, TransferHome, TransferProvider

VARIABLES
  neg, phase, result, net, minted,       \* negotiations
  proc, procPhase, procResult, procNet,  \* transfers
  faults

\* The protocol, with what is proved of it.
Negotiations == INSTANCE NegotiationSafety

\* What a transfer request finds in the provider's store.
Finalized == {neg[p].agr : p \in {q \in PPids : neg[q] # Absent /\ neg[q].st = "finalized"}}

Transfers == INSTANCE TransferProofs WITH
  Agreements <- Negotiations!Agreements, finalized <- Finalized,
  Script <- [a \in Negotiations!Agreements |-> "none"],
  Home <- TransferHome, Provider <- TransferProvider,
  phase <- procPhase, result <- procResult, net <- procNet

ASSUME DataSpaceAssumption ==
  /\ Negotiations!RecordAssumption /\ Negotiations!ProtocolAssumption
  /\ Transfers!RecordAssumption /\ Transfers!ProtocolAssumption

negotiationVars == <<neg, phase, result, net, minted>>

transferVars == <<proc, procPhase, procResult, procNet>>

vars == <<negotiationVars, transferVars, faults>>

Init == Negotiations!Init /\ Transfers!Init

NegotiationLoop(k) == Negotiations!Loop(k) /\ UNCHANGED transferVars

NegotiationDeliver(m) == Negotiations!Deliver(m) /\ UNCHANGED transferVars

TransferLoop(k) == UNCHANGED negotiationVars /\ Transfers!Loop(k)

TransferDeliver(m) == UNCHANGED negotiationVars /\ Transfers!Deliver(m)

\* The user's API task looks for a finalized negotiation of its own connector.
AskTransfer(t, c) ==
  /\ UNCHANGED negotiationVars
  /\ TransferHome[t] = Home[c]
  /\ TransferProvider[t] = Provider[c]
  /\ Negotiations!Exists(c)
  /\ neg[c].st = "finalized"
  /\ Transfers!AskTransfer(t, neg[c].agr)

NothingToNegotiate(k) ==
  ~Negotiations!Busy(k) /\ \A m \in net : Negotiations!Dest(m) # k

NothingToTransfer(k) ==
  ~Transfers!Busy(k) /\ \A m \in procNet : Transfers!Dest(m) # k

Crash(k) ==
  \/ Negotiations!Crash(k) /\ Transfers!Crash(k)
  \/ NothingToTransfer(k) /\ Negotiations!Crash(k) /\ UNCHANGED transferVars
  \/ NothingToNegotiate(k) /\ UNCHANGED negotiationVars /\ Transfers!Crash(k)

LoseMessage ==
  \/ /\ \E m \in net : Negotiations!LoseRequest(m) \/ Negotiations!LoseAnswer(m)
     /\ UNCHANGED transferVars
  \/ /\ UNCHANGED negotiationVars
     /\ \E m \in procNet : Transfers!LoseRequest(m) \/ Transfers!LoseAnswer(m)

Next ==
  \/ \E c \in CPids : Negotiations!Negotiate(c) /\ UNCHANGED transferVars
  \/ \E t \in CProcs, c \in CPids : AskTransfer(t, c)
  \/ \E k \in Connectors : NegotiationLoop(k) \/ TransferLoop(k) \/ Crash(k)
  \/ \E m \in net : NegotiationDeliver(m)
  \/ \E m \in procNet : TransferDeliver(m)
  \/ LoseMessage

Spec == Init /\ [][Next]_vars

\* The fairness of the two protocols.
Fairness ==
  /\ \A k \in Connectors : WF_vars(NegotiationLoop(k)) /\ WF_vars(TransferLoop(k))
  /\ \A x \in CPids \cup PPids :
       SF_vars(\E m \in net : m.from = x /\ NegotiationDeliver(m))
  /\ \A x \in CProcs \cup PProcs :
       SF_vars(\E m \in procNet : m.from = x /\ TransferDeliver(m))

FairSpec == Spec /\ Fairness

-----------------------------------------------------------------------------
(***************************************************************************)
(* Properties.                                                             *)
(***************************************************************************)

\* Data is handed out only under a contract: the provider has finalized the
\* agreement, and so has the connector that holds the token, with this very
\* provider.  The consumer asks as soon as it has finalized, which is before
\* the provider has, and the two negotiations and transfers of one agreement
\* are kept by different tasks of both connectors.
ServedUnderContract ==
  \A q \in PProcs : Transfers!Serves(q) =>
    \E p \in PPids :
      /\ Negotiations!Exists(p)
      /\ neg[p].st = "finalized"
      /\ neg[p].agr = proc[q].agr
      /\ Home[p] = TransferHome[q]
      /\ neg[neg[p].peer].st = "finalized"
      /\ neg[neg[p].peer].agr = proc[q].agr
      /\ Home[neg[p].peer] = TransferHome[proc[q].peer]

\* The provider has lost the answer to its finalization: it never closes its
\* books, and refuses every transfer of the agreement.
NeverFinalized(t) ==
  \E c \in CPids : /\ Negotiations!Exists(c)
                   /\ neg[c].agr = proc[t].agr
                   /\ Negotiations!LostFinalization(c)

\* A transfer the consumer's user asked for under a finalized agreement is
\* served in the end, although the provider, which finalizes last, may refuse
\* it at first.  After a fault the provider may refuse it for good, or repeat a
\* start that it does not serve.
ContractIsServed ==
  \A t \in CProcs :
    <>[](Transfers!Exists(t) =>
           \/ Transfers!HasStarted(t) /\ Transfers!Serves(proc[t].token)
           \/ faults > 0 /\ Transfers!HasStarted(t)
           \/ faults > 0 /\ Transfers!Refused(t) /\ NeverFinalized(t))
=============================================================================
