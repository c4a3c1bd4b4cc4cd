--------------------------- MODULE DataSpaceProofs ---------------------------
(***************************************************************************)
(* Data is handed out only under a contract, for any number of connectors, *)
(* negotiations, transfers and faults.  What NegotiationSafety and         *)
(* TransferProofs prove of the two protocols is used here for both.        *)
(***************************************************************************)
EXTENDS DataSpace, TLAPS

\* No TCK script for negotiations.
DefaultBuild == Negotiations!DefaultBuild

\* A provider's negotiation is kept where its consumer asked.
HomeInv == \A p \in PPids : Negotiations!Exists(p) => Home[p] = Provider[neg[p].peer]

\* A transfer is asked for under an agreement that its connector has finalized
\* with the connector it asks.
AskedUnder(t, c) ==
  /\ Negotiations!Exists(c)
  /\ neg[c].st = "finalized"
  /\ neg[c].agr = proc[t].agr
  /\ TransferHome[t] = Home[c]
  /\ TransferProvider[t] = Provider[c]

AskedInv == \A t \in CProcs : Transfers!Exists(t) => \E c \in CPids : AskedUnder(t, c)

\* A provider's transfer is under an agreement that both connectors finalized.
AnsweredUnder(q, p) ==
  /\ Negotiations!Exists(p)
  /\ neg[p].st = "finalized"
  /\ neg[p].agr = proc[q].agr
  /\ Home[p] = TransferHome[q]
  /\ neg[neg[p].peer].st = "finalized"
  /\ neg[neg[p].peer].agr = proc[q].agr
  /\ Home[neg[p].peer] = TransferHome[proc[q].peer]

AnsweredInv ==
  \A q \in PProcs : Transfers!Exists(q) => \E p \in PPids : AnsweredUnder(q, p)

DInv == Negotiations!IInv /\ Transfers!RoundsInv /\ HomeInv /\ AskedInv /\ AnsweredInv

-----------------------------------------------------------------------------
(***************************************************************************)
(* Lemmas about the records.                                               *)
(***************************************************************************)
\* Who is who.
LEMMA SideFacts ==
  ASSUME Negotiations!IInv
  PROVE  /\ CPids \subseteq Negotiations!Pids /\ PPids \subseteq Negotiations!Pids
         /\ \A p \in PPids : Negotiations!Exists(p) =>
              neg[p].peer \in CPids /\ Negotiations!Exists(neg[p].peer)
BY DataSpaceAssumption, Negotiations!PeerFacts DEF Negotiations!Pids

\* A finalized provider record has a finalized consumer record with the same
\* agreement, which names the provider record.
LEMMA ContractFacts ==
  ASSUME Negotiations!IInv, NEW p \in PPids, Negotiations!Exists(p), neg[p].st = "finalized"
  PROVE  LET c == neg[p].peer
         IN  /\ c \in CPids /\ Negotiations!Exists(c) /\ neg[c].st = "finalized"
             /\ neg[c].agr = neg[p].agr
             /\ neg[p].agr \in Negotiations!Agreements /\ neg[p].agr.by = p
<1>1. neg[p].peer \in CPids /\ Negotiations!Exists(neg[p].peer)
  BY SideFacts
<1>2. /\ neg[p].agr \in Negotiations!Agreements /\ neg[p].agr.by = p
      /\ neg[neg[p].peer].st = "finalized" /\ neg[neg[p].peer].peer = p
  BY DEF Negotiations!IInv, Negotiations!ProviderInv, Negotiations!Signed
<1> QED
  BY <1>1, <1>2 DEF Negotiations!IInv, Negotiations!AgreementInv, Negotiations!Signed

\* An agreement a consumer has finalized is finalized by no other provider
\* record than the one that issued it to this consumer.
LEMMA OneContract ==
  ASSUME Negotiations!IInv,
         NEW c \in CPids, Negotiations!Exists(c), neg[c].st = "finalized",
         NEW p \in PPids, Negotiations!Exists(p), neg[p].st = "finalized",
         neg[p].agr = neg[c].agr
  PROVE  neg[p].peer = c
<1>1. neg[p].agr.by = p
  BY ContractFacts
<1>2. neg[c].peer # NoPid
  BY DEF Negotiations!IInv, Negotiations!ConsumerInv
<1>3. neg[c].peer \in PPids /\ Negotiations!Exists(neg[c].peer)
  BY <1>2, DataSpaceAssumption, Negotiations!PeerFacts
<1>4. /\ neg[neg[c].peer].st \in Negotiations!Signed
      /\ neg[neg[c].peer].agr = neg[c].agr
  BY DEF Negotiations!IInv, Negotiations!AgreementInv, Negotiations!Signed
<1>5. neg[neg[c].peer].agr.by = neg[c].peer
  BY <1>3, <1>4 DEF Negotiations!IInv, Negotiations!ProviderInv
<1>6. neg[c].peer = p
  BY <1>1, <1>4, <1>5
<1> QED
  BY <1>2, <1>6 DEF Negotiations!IInv, Negotiations!ConsumerInv

\* The consumer's agreement is one of the agreements.
LEMMA ConsumerAgreement ==
  ASSUME Negotiations!IInv, NEW c \in CPids, Negotiations!Exists(c), neg[c].st = "finalized"
  PROVE  neg[c].agr \in Negotiations!Agreements
<1>1. neg[c].peer \in PPids /\ Negotiations!Exists(neg[c].peer)
  BY DataSpaceAssumption, Negotiations!PeerFacts DEF Negotiations!IInv, Negotiations!ConsumerInv
<1> QED
  BY <1>1 DEF Negotiations!IInv, Negotiations!AgreementInv, Negotiations!ProviderInv,
              Negotiations!Signed

\* So is the provider's.
FinalizedType == Finalized \subseteq Negotiations!Agreements

LEMMA FinalizedFacts == Negotiations!IInv => FinalizedType
BY ContractFacts DEF FinalizedType, Finalized, Negotiations!Exists

-----------------------------------------------------------------------------
(***************************************************************************)
(* The invariants of the two protocols, in steps of the other.             *)
(***************************************************************************)
\* A step of the transfers leaves the negotiations' invariant alone.
LEMMA NegotiationsRest ==
  ASSUME Negotiations!IInv, UNCHANGED negotiationVars, faults' \in 0..MaxFaults
  PROVE  Negotiations!IInv'
<1>1. Negotiations!TypeOK'
  BY DEF negotiationVars, Negotiations!IInv, Negotiations!TypeOK, Negotiations!Exists
<1>2. \A m \in net : m.live => phase[m.from] = "posting"
  BY DEF Negotiations!IInv, Negotiations!WaitInv
<1>3. \A x \in Negotiations!Pids : result[x] # Absent => phase[x] = "done"
  BY DEF Negotiations!IInv, Negotiations!OutcomeInv
<1> QED
  BY <1>1, <1>2, <1>3, DataSpaceAssumption, Negotiations!QuietStep DEF negotiationVars

\* A step of the negotiations may finalize one, and leaves the transfers'
\* invariant alone.
LEMMA TransfersRest ==
  ASSUME Transfers!RoundsInv, Negotiations!IInv', UNCHANGED transferVars, faults' \in 0..MaxFaults
  PROVE  Transfers!RoundsInv'
<1>1. Finalized' \subseteq Negotiations!Agreements
  <2>1. Negotiations!IInv' => FinalizedType'
    BY FinalizedFacts, PTL
  <2> QED
    BY <2>1 DEF FinalizedType
<1>2. \A n \in procNet : n.live => procPhase[n.from] = "posting"
  BY DEF Transfers!RoundsInv, Transfers!WaitInv
<1>3. /\ \A x \in Transfers!Procs : procPhase[x] # "idle" => Transfers!Exists(x)
      /\ procPhase \in [Transfers!Procs -> Transfers!Phases]
      /\ procResult \in [Transfers!Procs -> Transfers!Records \cup {Absent}]
      /\ procNet \subseteq Transfers!Messages
  BY DEF Transfers!RoundsInv, Transfers!TypeOK
<1> QED
  <2>1. Transfers!Quiet
    BY <1>1, <1>2, <1>3 DEF transferVars, Transfers!Quiet
  <2> QED
    BY <2>1, DataSpaceAssumption, Transfers!QuietRounds

-----------------------------------------------------------------------------
(***************************************************************************)
(* What relates the two.                                                   *)
(***************************************************************************)
Relations == HomeInv /\ AskedInv /\ AnsweredInv

\* What a finalized negotiation says stays true.
LEMMA NegotiationsMove ==
  ASSUME DefaultBuild, DInv, [Negotiations!Next]_Negotiations!vars, UNCHANGED proc
  PROVE  Relations'
<1>1. /\ \A x \in Negotiations!Pids : Negotiations!Keeps(x)
      /\ \A p \in PPids : ~Negotiations!Exists(p) /\ Negotiations!Exists(p)' =>
           Home[p] = Provider[neg'[p].peer]
  BY DataSpaceAssumption, Negotiations!StepKeeps DEF DefaultBuild, DInv
<1>2. /\ CPids \subseteq Negotiations!Pids /\ PPids \subseteq Negotiations!Pids
      /\ \A p \in PPids : Negotiations!Exists(p) =>
           neg[p].peer \in CPids /\ Negotiations!Exists(neg[p].peer)
  BY SideFacts DEF DInv
<1>3. HomeInv'
  BY <1>1, <1>2 DEF DInv, HomeInv, Negotiations!Keeps
<1>4. \A t \in CProcs, c \in CPids : AskedUnder(t, c) => AskedUnder(t, c)'
  BY <1>1, <1>2 DEF AskedUnder, Negotiations!Keeps
<1>5. \A q \in PProcs, p \in PPids : AnsweredUnder(q, p) => AnsweredUnder(q, p)'
  BY <1>1, <1>2 DEF AnsweredUnder, Negotiations!Keeps
<1>6. \A x : Transfers!Exists(x)' => Transfers!Exists(x)
  BY DEF Transfers!Exists
<1> QED
  BY <1>3, <1>4, <1>5, <1>6 DEF DInv, Relations, AskedInv, AnsweredInv

\* A transfer is accepted by the connector its consumer negotiated with.
LEMMA TransfersMove ==
  ASSUME DInv, UNCHANGED neg, Transfers!Work
  PROVE  Relations'
<1>1. /\ \A x \in Transfers!Procs : Transfers!Keeps(x)
      /\ \A t \in CProcs : Transfers!Exists(t)' => Transfers!Exists(t)
      /\ \A q \in PProcs : ~Transfers!Exists(q) /\ Transfers!Exists(q)' => Transfers!Answered(q)
  BY DataSpaceAssumption, Transfers!StepKeeps DEF DInv, Transfers!AllKeep
<1>2. CProcs \subseteq Transfers!Procs /\ PProcs \subseteq Transfers!Procs
  BY DEF Transfers!Procs
<1>3. HomeInv'
  BY DEF DInv, HomeInv, Negotiations!Exists
<1>4. \A t \in CProcs, c \in CPids :
        Transfers!Exists(t) /\ AskedUnder(t, c) => AskedUnder(t, c)'
  BY <1>1, <1>2 DEF AskedUnder, Transfers!Keeps, Negotiations!Exists
<1>5. \A q \in PProcs, p \in PPids :
        Transfers!Exists(q) /\ AnsweredUnder(q, p) => AnsweredUnder(q, p)'
  BY <1>1, <1>2 DEF AnsweredUnder, Transfers!Keeps, Negotiations!Exists
<1>6. ASSUME NEW q \in PProcs, ~Transfers!Exists(q), Transfers!Exists(q)'
      PROVE  \E p \in PPids : AnsweredUnder(q, p)'
  <2>1. Transfers!Answered(q)
    BY <1>1, <1>6
  <2>2. PICK t \in CProcs : t = proc'[q].peer
    BY <2>1 DEF Transfers!Answered
  <2>3. /\ Transfers!Exists(t) /\ proc'[q].agr = proc[t].agr /\ proc'[q].agr \in Finalized
        /\ TransferHome[q] = TransferProvider[t]
    BY <2>1, <2>2 DEF Transfers!Answered
  <2>4. PICK c \in CPids : AskedUnder(t, c)
    BY <2>3 DEF DInv, AskedInv
  <2>5. PICK p \in PPids : /\ Negotiations!Exists(p) /\ neg[p].st = "finalized"
                            /\ neg[p].agr = proc'[q].agr
    BY <2>3 DEF Finalized, Negotiations!Exists
  <2>6. neg[p].peer = c
    BY <2>3, <2>4, <2>5, OneContract DEF DInv, AskedUnder
  <2>7. Home[p] = Provider[c]
    BY <2>5, <2>6 DEF DInv, HomeInv
  <2> QED
    BY <2>2, <2>3, <2>4, <2>5, <2>6, <2>7 DEF AnsweredUnder, AskedUnder, Negotiations!Exists
<1> QED
  BY <1>1, <1>3, <1>4, <1>5, <1>6 DEF DInv, Relations, AskedInv, AnsweredInv

\* A transfer is asked for under a finalized agreement.
LEMMA AskMoves ==
  ASSUME DInv, NEW t \in CProcs, NEW c \in CPids, AskTransfer(t, c)
  PROVE  Relations'
<1>1. /\ UNCHANGED neg /\ ~Transfers!Exists(t)
      /\ proc' = [proc EXCEPT ![t] = Transfers!NewConsumer(neg[c].agr)]
  BY DEF AskTransfer, Transfers!AskTransfer, negotiationVars
<1>2. /\ proc'[t].agr = neg[c].agr
      /\ \A x \in Transfers!Procs : x # t => proc'[x] = proc[x]
      /\ t \in Transfers!Procs /\ CProcs \subseteq Transfers!Procs
      /\ PProcs \subseteq Transfers!Procs /\ t \notin PProcs
  BY <1>1, DataSpaceAssumption
     DEF DInv, Transfers!RoundsInv, Transfers!TypeOK, Transfers!NewConsumer, Transfers!Procs,
         Transfers!RecordAssumption
<1>3. HomeInv'
  BY <1>1 DEF DInv, HomeInv, Negotiations!Exists
<1>4. AskedUnder(t, c)'
  BY <1>1, <1>2 DEF AskTransfer, AskedUnder, Negotiations!Exists
<1>5. \A u \in CProcs : u # t /\ Transfers!Exists(u)' => \E d \in CPids : AskedUnder(u, d)'
  BY <1>1, <1>2 DEF DInv, AskedInv, AskedUnder, Negotiations!Exists, Transfers!Exists
<1>6. AnsweredInv'
  BY <1>1, <1>2 DEF DInv, AnsweredInv, AnsweredUnder, Negotiations!Exists, Transfers!Exists
<1> QED
  BY <1>3, <1>4, <1>5, <1>6 DEF Relations, AskedInv

-----------------------------------------------------------------------------
LEMMA InitInv == DefaultBuild /\ Init => DInv
<1> SUFFICES ASSUME DefaultBuild, Init PROVE DInv
  OBVIOUS
<1>1. Negotiations!IInv
  BY DataSpaceAssumption, Negotiations!InitInv DEF Init, DefaultBuild
<1>2. Transfers!RoundsInv
  BY DataSpaceAssumption, Transfers!InitRounds DEF Init
<1>3. \A p \in PPids : ~Negotiations!Exists(p)
  BY DEF Init, Negotiations!Init, Negotiations!Exists, Negotiations!Pids
<1>4. \A x \in CProcs \cup PProcs : ~Transfers!Exists(x)
  BY DEF Init, Transfers!Init, Transfers!Exists, Transfers!Procs
<1> QED
  BY <1>1, <1>2, <1>3, <1>4 DEF DInv, HomeInv, AskedInv, AnsweredInv

\* A step is one of the negotiations, of the transfers, or a restart of both.
LEMMA NextCases ==
  ASSUME Next
  PROVE  \/ Negotiations!Next /\ UNCHANGED transferVars
         \/ UNCHANGED negotiationVars /\ Transfers!Work
         \/ \E k \in Connectors : Negotiations!Crash(k) /\ Transfers!Crash(k)
         \/ \E t \in CProcs, c \in CPids : AskTransfer(t, c)
<1>1. CASE \E c \in CPids : Negotiations!Negotiate(c) /\ UNCHANGED transferVars
  BY <1>1 DEF Negotiations!Next
<1>2. ASSUME NEW k \in Connectors, NegotiationLoop(k) \/ TransferLoop(k)
      PROVE  \/ Negotiations!Next /\ UNCHANGED transferVars
             \/ UNCHANGED negotiationVars /\ Transfers!Work
  BY <1>2 DEF NegotiationLoop, TransferLoop, Negotiations!Next, Transfers!Work
<1>3. ASSUME NEW k \in Connectors, Crash(k)
      PROVE  \/ Negotiations!Next /\ UNCHANGED transferVars
             \/ UNCHANGED negotiationVars /\ Transfers!Work
             \/ Negotiations!Crash(k) /\ Transfers!Crash(k)
  BY <1>3 DEF Crash, Negotiations!Next, Negotiations!Fault, Transfers!Work, Transfers!Fault
<1>4. CASE (\E m \in net : NegotiationDeliver(m)) \/ (\E m \in procNet : TransferDeliver(m))
  BY <1>4 DEF NegotiationDeliver, TransferDeliver, Negotiations!Next, Transfers!Work
<1>5. CASE LoseMessage
  BY <1>5 DEF LoseMessage, Negotiations!Next, Negotiations!Fault, Transfers!Work, Transfers!Fault
<1> QED
  BY <1>1, <1>2, <1>3, <1>4, <1>5 DEF Next

LEMMA NextInv == DefaultBuild /\ DInv /\ [Next]_vars => DInv'
<1> SUFFICES ASSUME DefaultBuild, DInv, [Next]_vars PROVE DInv'
  OBVIOUS
<1>1. ASSUME [Negotiations!Next]_Negotiations!vars PROVE Negotiations!IInv'
  BY <1>1, DataSpaceAssumption, Negotiations!NextInv DEF DInv, DefaultBuild
<1>2. ASSUME [Transfers!Next]_Transfers!vars PROVE Transfers!RoundsInv'
  BY <1>2, DataSpaceAssumption, Transfers!NextRounds DEF DInv
<1>3. ASSUME Negotiations!IInv' PROVE faults' \in 0..MaxFaults
  BY <1>3 DEF Negotiations!IInv, Negotiations!TypeOK
<1>4. ASSUME Transfers!RoundsInv' PROVE faults' \in 0..MaxFaults
  BY <1>4 DEF Transfers!RoundsInv, Transfers!TypeOK
<1>5. CASE Negotiations!Next /\ UNCHANGED transferVars
  <2>1. Negotiations!IInv'
    BY <1>1, <1>5
  <2>2. Transfers!RoundsInv'
    BY <1>3, <1>5, <2>1, TransfersRest DEF DInv
  <2> QED
    BY <1>5, <2>1, <2>2, NegotiationsMove DEF DInv, Relations, transferVars
<1>6. CASE UNCHANGED negotiationVars /\ Transfers!Work
  <2>1. Transfers!RoundsInv'
    BY <1>2, <1>6 DEF Transfers!Next
  <2>2. Negotiations!IInv'
    BY <1>4, <1>6, <2>1, NegotiationsRest DEF DInv
  <2> QED
    BY <1>6, <2>1, <2>2, TransfersMove DEF DInv, Relations, negotiationVars
<1>7. ASSUME NEW k \in Connectors, Negotiations!Crash(k), Transfers!Crash(k) PROVE DInv'
  <2>1. Negotiations!Next /\ Transfers!Work /\ Transfers!Next
    BY <1>7 DEF Negotiations!Next, Negotiations!Fault, Transfers!Next, Transfers!Work,
                Transfers!Fault
  <2> QED
    BY <1>1, <1>2, <1>7, <2>1, TransfersMove DEF DInv, Relations, Negotiations!Crash
<1>8. ASSUME NEW t \in CProcs, NEW c \in CPids, AskTransfer(t, c) PROVE DInv'
  <2>1. Transfers!Next
    <3>1. neg[c].agr \in Negotiations!Agreements /\ Transfers!AskTransfer(t, neg[c].agr)
      BY <1>8, ConsumerAgreement DEF AskTransfer, DInv
    <3> QED
      BY <3>1 DEF Transfers!Next
  <2>2. Transfers!RoundsInv'
    BY <1>2, <2>1
  <2>3. Negotiations!IInv'
    BY <1>4, <1>8, <2>2, NegotiationsRest DEF DInv, AskTransfer
  <2> QED
    BY <1>8, <2>2, <2>3, AskMoves DEF DInv, Relations
<1>9. CASE UNCHANGED vars
  <2>1. UNCHANGED <<neg, phase, result, net, minted, proc, procPhase, procResult, procNet, faults>>
    BY <1>9 DEF vars, negotiationVars, transferVars
  <2>2. Negotiations!IInv'
    BY <1>1, <2>1 DEF Negotiations!vars
  <2>3. Transfers!RoundsInv'
    BY <1>3, <2>1, <2>2, TransfersRest DEF DInv, transferVars
  <2> QED
    BY <2>1, <2>2, <2>3, NegotiationsMove DEF DInv, Relations, Negotiations!vars
<1> QED
  BY <1>5, <1>6, <1>7, <1>8, <1>9, NextCases

\* No data is handed out but under an agreement that its provider and the
\* connector that holds the token have both finalized, with each other, however
\* the loops, users and faults interleave.
THEOREM Contracted == ASSUME DefaultBuild PROVE Spec => []ServedUnderContract
<1>1. DInv => ServedUnderContract
  BY DEF DInv, AnsweredInv, AnsweredUnder, ServedUnderContract, Transfers!Serves
<1>2. DefaultBuild
  OBVIOUS
<1> QED
  BY <1>1, <1>2, InitInv, NextInv, PTL DEF Spec
==============================================================================
