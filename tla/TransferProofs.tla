--------------------------- MODULE TransferProofs ---------------------------
(***************************************************************************)
(* The safety of TransferProtocol for any number of connectors, transfers  *)
(* and faults: what holds whatever the TCK scripts (RoundsInv and, while   *)
(* there is no fault, TurnInv are inductive), and what holds in the        *)
(* default build (IInv is inductive).                                      *)
(***************************************************************************)
EXTENDS TransferInvariant, TLAPS

(***************************************************************************)
(* Lemmas about the records.                                               *)
(***************************************************************************)

\* Every message announces a state.
LEMMA ReachedFacts ==
  /\ \A kind \in Kinds : Reached(kind) \in States
  /\ Reached("request") = "requested" /\ Reached("start") = "started"
  /\ Reached("suspension") = "suspended" /\ Reached("completion") = "completed"
  /\ Reached("termination") = "terminated"
BY DEF Kinds, Reached, States

\* Only a resumption counts.
LEMMA CountedType == \A r \in Records, s \in States : Counted(r, s) \in Nat
BY DEF Records, Counted

\* What a decision makes of a record.
LEMMA DecidedFacts ==
  ASSUME NEW r \in Records, NEW s \in States
  PROVE  LET d == Decided(r, s)
         IN  /\ d \in Records /\ d.st = s /\ ~d.sent
             /\ d.peer = r.peer /\ d.agr = r.agr
BY CountedType DEF Decided, Records

\* What an answer makes of its sender's record.
LEMMA AcknowledgedFacts ==
  ASSUME NEW r \in Records, NEW kind \in Kinds, NEW y \in Procs
  PROVE  LET a == Acknowledged(r, kind, y)
         IN  /\ a \in Records /\ a.st = r.st /\ a.sent
             /\ a.peer = IF kind = "request" THEN y ELSE r.peer
             /\ a.agr = r.agr /\ a.token = r.token
BY DEF Acknowledged, Records

\* What a message makes of its receiver's record.
LEMMA AcceptedFacts ==
  ASSUME NEW r \in Records, NEW kind \in Kinds, NEW y \in Procs
  PROVE  LET a == Accepted(r, kind, y)
         IN  /\ a \in Records /\ a.st = Reached(kind) /\ a.sent
             /\ a.peer = r.peer /\ a.agr = r.agr
             /\ kind = "start" /\ y \in PProcs => a.token = y
<1> DEFINE n == IF kind = "start" /\ r.st = "requested" THEN 1 ELSE Counted(r, Reached(kind))
           t == IF kind = "start" /\ y \in PProcs THEN y ELSE r.token
<1>1. n \in Nat
  BY CountedType, ReachedFacts
<1>2. t \in PProcs \cup {NoProc} /\ (kind = "start" /\ y \in PProcs => t = y)
  BY DEF Records
<1>3. Accepted(r, kind, y) = [r EXCEPT !.st = Reached(kind), !.sent = TRUE, !.count = n, !.token = t]
  BY DEF Accepted
<1> HIDE DEF n, t
<1> QED
  BY <1>1, <1>2, <1>3, ReachedFacts DEF Records

\* New records.
LEMMA NewFacts ==
  ASSUME NEW a \in Agreements, NEW c \in CProcs
  PROVE  /\ NewConsumer(a) \in Records /\ NewConsumer(a).peer = NoProc
         /\ NewConsumer(a).st = "requested" /\ ~NewConsumer(a).sent
         /\ NewConsumer(a).token = NoProc
         /\ NewProvider(c, a) \in Records /\ NewProvider(c, a).peer = c
         /\ NewProvider(c, a).st = "requested" /\ NewProvider(c, a).sent
         /\ NewProvider(c, a).agr = a
BY DEF NewConsumer, NewProvider, Records, States, Procs

\* What a tick can decide.
LEMMA DecidesFacts ==
  ASSUME NEW x \in Procs, NEW s, Decides(x, s)
  PROVE  /\ s \in States /\ s # "requested"
         /\ proc[x].st \notin {"completed", "terminated"}
         /\ proc[x].st = "requested" => s \in {"started", "terminated"}
         /\ x \in CProcs => /\ proc[x].sent /\ ByConsumer(x)
                            /\ proc[x].st = "requested" => s = "terminated"
         /\ x \notin CProcs => (proc[x].st = "requested" /\ s = "started") \/ ~ByConsumer(x)
<1>1. CASE x \in CProcs
  BY <1>1 DEF Decides, ConsumerScript, ByConsumer, ConsumerScripts, States
<1>2. CASE x \notin CProcs
  BY <1>2 DEF Decides, ProviderDecides, ProviderScript, ByConsumer, ConsumerScripts, States
<1> QED
  BY <1>1, <1>2

(***************************************************************************)
(* The rounds of a loop, whatever the scripts.                             *)
(***************************************************************************)

\* A saved record is well formed, and says who and whose it is.
LEMMA RecordFacts ==
  ASSUME TypeOK, NEW x \in Procs, Exists(x)
  PROVE  /\ proc[x] \in Records
         /\ x \in CProcs => x \notin PProcs /\ proc[x].peer \in PProcs \cup {NoProc}
         /\ x \notin CProcs => x \in PProcs /\ proc[x].peer \in CProcs
BY RecordAssumption DEF TypeOK, Exists, Peers, Procs

\* The two sides.
LEMMA SideFacts ==
  /\ CProcs \subseteq Procs /\ PProcs \subseteq Procs /\ NoProc \notin Procs
  /\ \A x \in Procs : x \in CProcs <=> x \notin PProcs
BY RecordAssumption DEF Procs

\* A message's fields, and what is known of its two ends.
LEMMA MessageFacts ==
  ASSUME TypeOK, PartnerInv, NEW m \in net
  PROVE  /\ m \in Messages /\ m.kind \in Kinds /\ m.live \in BOOLEAN
         /\ m.from \in Procs /\ Exists(m.from) /\ proc[m.from] \in Records
         /\ m.kind = "request" => m.from \in CProcs /\ m.to = NoProc
         /\ m.kind # "request" => m.to \in Procs /\ m.to = proc[m.from].peer
         /\ m.kind # "request" /\ m.from \in PProcs => m.to \in CProcs
<1>1. /\ m \in Messages /\ m.from \in Procs /\ Exists(m.from)
      /\ m.kind \in Kinds /\ m.live \in BOOLEAN
      /\ m.to \in Peers(m.from) /\ (m.kind = "request" <=> m.to = NoProc)
  BY DEF TypeOK, Messages
<1>2. m.kind # "request" => m.to = proc[m.from].peer
  BY DEF PartnerInv
<1> QED
  BY <1>1, <1>2, RecordFacts, SideFacts DEF Peers

\* A record the loop is not working on has no outcome, and nobody waits for it.
LEMMA IdleFacts ==
  ASSUME RoundsInv, NEW x \in Procs, phase[x] = "idle"
  PROVE  result[x] = Absent /\ \A m \in net : m.from = x => ~m.live
BY DEF RoundsInv, RoundInv, WaitInv

\* A step that changes no record: outcomes are kept or dropped, messages are
\* kept, dropped or no longer waited for; without a fault outcomes are kept, and
\* what is sent is waited for.
Quiet ==
  /\ UNCHANGED proc
  /\ finalized' \subseteq Agreements
  /\ faults' \in 0..MaxFaults
  /\ phase' \in [Procs -> Phases]
  /\ \A x \in Procs : phase'[x] # "idle" => Exists(x)
  /\ result' \in [Procs -> Records \cup {Absent}]
  /\ \A x \in Procs : result'[x] # Absent => result'[x] = result[x] /\ phase'[x] = phase[x]
  /\ net' \subseteq Messages
  /\ \A n \in net' :
       /\ \E m \in net : n.kind = m.kind /\ n.from = m.from /\ n.to = m.to
       /\ n.live => n \in net /\ phase'[n.from] = "posting"
  /\ faults' = faults => net' \subseteq net /\ \A x \in Procs : result'[x] = result[x]

LEMMA QuietRounds ==
  ASSUME RoundsInv, Quiet
  PROVE  RoundsInv'
<1>1. TypeOK' /\ AskInv'
  BY DEF Quiet, RoundsInv, TypeOK, AskInv, Exists
<1>2. PartnerInv'
  BY DEF Quiet, RoundsInv, PartnerInv, IsPartner, Exists
<1>3. RoundInv'
  BY DEF Quiet, RoundsInv, RoundInv, OutcomeOf, Decides, IsPartner, Exists
<1>4. WaitInv'
  BY DEF Quiet, RoundsInv, WaitInv
<1> QED
  BY <1>1, <1>2, <1>3, <1>4 DEF RoundsInv

\* A negotiation that is finalized.
LEMMA FinalizeQuiet ==
  ASSUME RoundsInv, NEW a \in Agreements, Finalize(a)
  PROVE  Quiet
<1>1. \A n \in net : n.live => phase[n.from] = "posting"
  BY DEF RoundsInv, WaitInv
<1> QED
  BY <1>1 DEF Finalize, RoundsInv, TypeOK, Quiet

\* A round begins.
LEMMA StartTickQuiet ==
  ASSUME RoundsInv, NEW k \in Connectors, StartTick(k)
  PROVE  Quiet
<1>1. \A x \in Procs : phase'[x] # phase[x] => Exists(x) /\ phase[x] = "idle"
  BY DEF StartTick, Busy, HasWork, RoundsInv, TypeOK
<1>2. phase' \in [Procs -> Phases] /\ \A x \in Procs : phase'[x] # "idle" => Exists(x)
  BY DEF StartTick, HasWork, RoundsInv, TypeOK, Phases
<1>3. \A x \in Procs : result[x] # Absent => phase'[x] = phase[x]
  BY <1>1, IdleFacts
<1>4. \A n \in net : n.live => phase'[n.from] = "posting"
  <2>1. \A n \in net : n.live => phase[n.from] = "posting" /\ n.from \in Procs
    BY MessageFacts DEF RoundsInv, WaitInv
  <2> QED
    BY <1>1, <2>1
<1> QED
  BY <1>2, <1>3, <1>4 DEF StartTick, RoundsInv, TypeOK, Quiet

\* A post that finds no route.
LEMMA PostNowhereQuiet ==
  ASSUME RoundsInv, NEW x \in Procs, NEW kind \in Kinds, PostNowhere(x, kind)
  PROVE  Quiet
<1>1. phase' = [phase EXCEPT ![x] = "done"] /\ phase[x] = "due"
  BY DEF PostNowhere
<1>2. result[x] = Absent
  BY <1>1 DEF RoundsInv, RoundInv
<1>3. \A n \in net : n.live => phase'[n.from] = "posting"
  BY <1>1 DEF RoundsInv, WaitInv, TypeOK
<1> QED
  BY <1>1, <1>2, <1>3 DEF PostNowhere, RoundsInv, TypeOK, Phases, Quiet

\* Where an answer leaves the waits and the outcomes.
LEMMA AnswerFacts ==
  ASSUME RoundsInv, NEW m \in net, NEW r, Answer(m, r)
  PROVE  /\ net' = net \ {m}
         /\ m.live => /\ phase[m.from] = "posting" /\ Posts(proc[m.from], m.kind)
                      /\ result[m.from] = Absent
                      /\ phase'[m.from] = "done" /\ result'[m.from] = r
         /\ \A x \in Procs : (m.live => x # m.from) =>
              phase'[x] = phase[x] /\ result'[x] = result[x]
         /\ phase' \in [Procs -> Phases]
         /\ r \in Records \cup {Absent} => result' \in [Procs -> Records \cup {Absent}]
         /\ \A n \in net' : n.live => /\ phase'[n.from] = "posting" /\ phase[n.from] = "posting"
                                      /\ m.live => n.from # m.from
<1>1. m.from \in Procs /\ m.live \in BOOLEAN /\ \A n \in net : n.from \in Procs
  BY MessageFacts DEF RoundsInv
<1>2. \A n \in net \ {m} : n.live => phase[n.from] = "posting" /\ (m.live => n.from # m.from)
  BY DEF RoundsInv, WaitInv
<1>3. m.live => phase[m.from] = "posting" /\ Posts(proc[m.from], m.kind) /\ result[m.from] = Absent
  BY <1>1 DEF RoundsInv, WaitInv, RoundInv
<1> QED
  BY <1>1, <1>2, <1>3 DEF Answer, RoundsInv, TypeOK, Phases

\* An error answer, or none: the sender's tick comes to nothing.
LEMMA NoOutcomeQuiet ==
  ASSUME RoundsInv, NEW m \in net, Answer(m, Absent), UNCHANGED <<finalized, proc>>,
         faults' \in 0..MaxFaults
  PROVE  Quiet
<1>1. m.from \in Procs /\ Exists(m.from)
  BY MessageFacts DEF RoundsInv
<1> QED
  BY <1>1, AnswerFacts DEF RoundsInv, TypeOK, Quiet

\* A lost answer: the sender's tick comes to nothing, the message stays.
LEMMA LoseAnswerQuiet ==
  ASSUME RoundsInv, NEW m \in net, LoseAnswer(m)
  PROVE  Quiet
<1> DEFINE g == [m EXCEPT !.live = FALSE]
<1>1. m.from \in Procs /\ Exists(m.from) /\ phase[m.from] = "posting" /\ m.live
  BY MessageFacts DEF LoseAnswer, RoundsInv, WaitInv
<1>2. g \in Messages /\ g.kind = m.kind /\ g.from = m.from /\ g.to = m.to /\ ~g.live
  BY MessageFacts DEF RoundsInv, Messages
<1>3. net' = (net \ {m}) \cup {g} /\ phase' = [phase EXCEPT ![m.from] = "done"]
  BY DEF LoseAnswer
<1> HIDE DEF g
<1>4. result[m.from] = Absent
  BY <1>1 DEF RoundsInv, RoundInv
<1>5. \A n \in net' : n.live => n \in net /\ phase'[n.from] = "posting"
  <2>1. \A n \in net' : n.live => n \in net /\ phase[n.from] = "posting" /\ n.from # m.from
    BY <1>1, <1>2, <1>3 DEF RoundsInv, WaitInv
  <2> QED
    BY <1>1, <1>3, <2>1 DEF RoundsInv, TypeOK
<1>6. faults' \in 0..MaxFaults
  BY ProtocolAssumption DEF LoseAnswer, RoundsInv, TypeOK
<1> QED
  BY <1>1, <1>2, <1>3, <1>4, <1>5, <1>6 DEF Quiet, LoseAnswer, RoundsInv, TypeOK, Phases

\* A restart.
LEMMA CrashQuiet ==
  ASSUME RoundsInv, NEW k \in Connectors, Crash(k)
  PROVE  Quiet
<1> DEFINE ghost(m) == [m EXCEPT !.live = @ /\ Home[m.from] # k]
<1>1. \A m \in net : /\ ghost(m) \in Messages /\ ghost(m).kind = m.kind
                     /\ ghost(m).from = m.from /\ ghost(m).to = m.to
                     /\ ghost(m).live => ghost(m) = m /\ m.live /\ Home[m.from] # k
  BY MessageFacts DEF RoundsInv, Messages
<1>2. net' = {ghost(m) : m \in {n \in net : Dest(n) # k}}
  BY DEF Crash
<1> HIDE DEF ghost
<1>3. /\ \A x \in Procs : phase'[x] # phase[x] => Home[x] = k \/ phase[x] = "posting"
      /\ phase' \in [Procs -> Phases] /\ \A x \in Procs : phase'[x] # "idle" => Exists(x)
  BY MessageFacts DEF Crash, RoundsInv, WaitInv, TypeOK, Phases
<1>4. /\ result' \in [Procs -> Records \cup {Absent}]
      /\ \A x \in Procs : result'[x] # Absent =>
           result'[x] = result[x] /\ phase'[x] = phase[x]
  BY <1>3 DEF Crash, RoundsInv, TypeOK, RoundInv
<1>5. \A n \in net' : n.live => n \in net /\ phase'[n.from] = "posting"
  <2> SUFFICES ASSUME NEW n \in net', n.live PROVE n \in net /\ phase'[n.from] = "posting"
    OBVIOUS
  <2>1. n \in net /\ Home[n.from] # k /\ Dest(n) # k /\ n.from \in Procs
    BY <1>1, <1>2, MessageFacts DEF RoundsInv
  <2>2. phase[n.from] = "posting" /\ \A m \in net : m.live /\ m.from = n.from => m = n
    BY <2>1 DEF RoundsInv, WaitInv
  <2> QED
    BY <2>1, <2>2 DEF Crash
<1>6. faults' \in 0..MaxFaults /\ faults' # faults /\ UNCHANGED <<finalized, proc>>
  BY ProtocolAssumption DEF Crash, RoundsInv, TypeOK
<1>7. net' \subseteq Messages /\ \A n \in net' : \E m \in net : n.kind = m.kind /\ n.from = m.from /\ n.to = m.to
  BY <1>1, <1>2
<1> QED
  BY <1>3, <1>4, <1>5, <1>6, <1>7 DEF Quiet, RoundsInv, TypeOK

(***************************************************************************)
(* Steps that change a record, an outcome or the messages waited for.      *)
(***************************************************************************)

\* What no step takes back: a record, its agreement, a provider's consumer.
Keeps(x) ==
  Exists(x) => /\ Exists(x)' /\ proc'[x].agr = proc[x].agr
               /\ x \in PProcs => proc'[x].peer = proc[x].peer

AllKeep == \A x \in Procs : Keeps(x)

\* So partners stay partners, and an unchanged record's outcome its outcome.
LEMMA PartnersKeep ==
  ASSUME AllKeep
  PROVE  /\ \A p, c : IsPartner(p, c) => IsPartner(p, c)'
         /\ \A x \in Procs : \A r : proc'[x] = proc[x] /\ OutcomeOf(x, r) => OutcomeOf(x, r)'
<1>1. ASSUME NEW p, NEW c, IsPartner(p, c) PROVE IsPartner(p, c)'
  BY <1>1, SideFacts DEF AllKeep, Keeps, IsPartner
<1> QED
  BY <1>1 DEF OutcomeOf, Decides

\* A user asks: no other record says anything of one that does not exist.
LEMMA AskTransferRounds ==
  ASSUME RoundsInv, NEW c \in CProcs, NEW a \in Agreements, AskTransfer(c, a)
  PROVE  RoundsInv' /\ AllKeep
<1> USE SideFacts
<1>1. /\ ~Exists(c) /\ proc' = [proc EXCEPT ![c] = NewConsumer(a)]
      /\ UNCHANGED <<finalized, phase, result, net, faults>>
  BY DEF AskTransfer
<1>2. PICK r \in Records : r = NewConsumer(a)
  BY NewFacts, SideFacts
<1>3. r.peer = NoProc /\ r.st = "requested" /\ ~r.sent /\ r # Absent
  BY <1>2, RecordAssumption DEF NewConsumer
<1>4. /\ proc'[c] = r /\ \A x \in Procs \ {c} : proc'[x] = proc[x]
      /\ proc' \in [Procs -> Records \cup {Absent}]
  BY <1>1, <1>2 DEF RoundsInv, TypeOK
<1>5. phase[c] = "idle" /\ result[c] = Absent /\ \A m \in net : m.from # c /\ m.from \in Procs
  BY <1>1, IdleFacts, MessageFacts DEF RoundsInv, TypeOK
<1>6. AllKeep
  BY <1>1, <1>4 DEF AllKeep, Keeps, Exists
<1>7. TypeOK'
  <2>1. \A x \in Procs : /\ Exists(x)' => proc'[x].peer \in Peers(x)
                         /\ Exists(x) => Exists(x)'
    BY <1>1, <1>3, <1>4 DEF RoundsInv, TypeOK, Exists, Peers
  <2> QED
    BY <1>1, <1>4, <1>5, <2>1 DEF RoundsInv, TypeOK, Peers
<1>8. AskInv'
  BY <1>1, <1>3, <1>4 DEF RoundsInv, AskInv, Exists
<1>9. PartnerInv'
  <2>1. \A p \in PProcs : Exists(p)' => p # c /\ Exists(p) /\ proc[p].peer \in Procs \ {c}
    <3>1. \A p \in PProcs : Exists(p) => proc[p].peer \in Procs /\ Exists(proc[p].peer)
      BY RecordFacts DEF RoundsInv, PartnerInv
    <3> QED
      BY <1>1, <1>4, <3>1 DEF Exists
  <2>2. \A p \in PProcs : Exists(p)' =>
          /\ Exists(proc[p].peer)' /\ proc'[p].agr = proc'[proc'[p].peer].agr
          /\ Home[p] = Provider[proc'[p].peer]
    BY <1>4, <2>1 DEF RoundsInv, PartnerInv, Exists
  <2>3. ASSUME NEW d \in CProcs, Exists(d)', proc'[d].peer # NoProc
        PROVE  (IsPartner(proc[d].peer, d))'
    <3>1. Exists(d) /\ proc'[d] = proc[d]
      BY <1>3, <1>4, <2>3 DEF Exists
    <3>2. PICK q \in Procs : q = proc[d].peer /\ IsPartner(q, d)
      BY <2>3, <3>1 DEF RoundsInv, PartnerInv, IsPartner
    <3> QED
      BY <1>6, <3>1, <3>2, PartnersKeep
  <2>4. \A m \in net : m.kind # "request" => m.to = proc'[m.from].peer
    BY <1>4, <1>5 DEF RoundsInv, PartnerInv
  <2>5. \A p \in PProcs : Exists(p)' => proc'[p].peer = proc[p].peer
    BY <1>4, <2>1
  <2> QED
    BY <1>1, <2>2, <2>3, <2>4, <2>5 DEF PartnerInv
<1>10. RoundInv'
  BY <1>1, <1>4, <1>5, <1>6, PartnersKeep DEF RoundsInv, RoundInv
<1>11. WaitInv'
  BY <1>1, <1>4, <1>5 DEF RoundsInv, WaitInv
<1> QED
  BY <1>6, <1>7, <1>8, <1>9, <1>10, <1>11 DEF RoundsInv

\* A decision becomes the outcome of a record that has neither an outcome nor a
\* message waited for.
LEMMA DecideRounds ==
  ASSUME RoundsInv, NEW x \in Procs, NEW s \in States, Decide(x, s)
  PROVE  /\ RoundsInv' /\ Exists(x) /\ result[x] = Absent
         /\ result'[x] \in Records /\ result'[x].st = s /\ ~result'[x].sent
         /\ \A y \in Procs : y # x => result'[y] = result[y]
         /\ UNCHANGED <<proc, net, faults>>
<1>1. Exists(x) /\ phase[x] = "due" /\ proc[x] \in Records /\ Decides(x, s)
  BY RecordFacts DEF Decide, RoundsInv, TypeOK
<1>2. PICK r \in Records : r = Decided(proc[x], s)
  BY <1>1, DecidedFacts
<1>3. r.st = s /\ ~r.sent /\ r.peer = proc[x].peer /\ r.agr = proc[x].agr
  BY <1>1, <1>2, DecidedFacts
<1>4. /\ UNCHANGED <<finalized, proc, net, faults>>
      /\ phase' = [phase EXCEPT ![x] = "done"] /\ result' = [result EXCEPT ![x] = r]
  BY <1>2 DEF Decide
<1>5. /\ result'[x] = r /\ phase'[x] = "done" /\ result[x] = Absent
      /\ \A y \in Procs : y # x => result'[y] = result[y] /\ phase'[y] = phase[y]
      /\ \A n \in net : n.live => n.from # x /\ n.from \in Procs
  BY <1>1, <1>4, MessageFacts DEF RoundsInv, TypeOK, RoundInv, WaitInv
<1>6. TypeOK'
  BY <1>1, <1>3, <1>4 DEF RoundsInv, TypeOK, Exists, Phases
<1>7. AskInv'
  BY <1>1, <1>3, <1>4, <1>5, DecidesFacts DEF RoundsInv, AskInv, Exists
<1>8. PartnerInv'
  BY <1>4 DEF RoundsInv, PartnerInv, IsPartner, Exists
<1>9. RoundInv'
  <2>1. OutcomeOf(x, r)
    BY <1>1, <1>3 DEF OutcomeOf
  <2>2. AllKeep
    BY <1>4 DEF AllKeep, Keeps, Exists
  <2> QED
    BY <1>4, <1>5, <2>1, <2>2, PartnersKeep DEF RoundsInv, RoundInv
<1>10. WaitInv'
  BY <1>4, <1>5 DEF RoundsInv, WaitInv
<1> QED
  BY <1>1, <1>3, <1>4, <1>5, <1>6, <1>7, <1>8, <1>9, <1>10 DEF RoundsInv

\* A posted message is the only one its sender waits for.
LEMMA PostRounds ==
  ASSUME RoundsInv, NEW x \in Procs, NEW kind \in Kinds, Post(x, kind)
  PROVE  /\ RoundsInv' /\ UNCHANGED <<proc, result, faults>>
         /\ \A n \in net' : n \in net \/ n.live
<1> DEFINE g == [kind |-> kind, from |-> x, to |-> proc[x].peer, live |-> TRUE]
<1>1. /\ Exists(x) /\ phase[x] = "due" /\ Posts(proc[x], kind) /\ proc[x] \in Records
      /\ proc[x].peer \in Peers(x)
  BY RecordFacts DEF Post, RoundsInv, TypeOK, Exists
<1>2. /\ UNCHANGED <<finalized, proc, result, faults>>
      /\ phase' = [phase EXCEPT ![x] = "posting"] /\ net' = net \cup {g}
  BY DEF Post
<1>3. g.kind = kind /\ g.from = x /\ g.to = proc[x].peer /\ g.live
  OBVIOUS
<1>4. kind = "request" <=> proc[x].peer = NoProc
  BY <1>1, ReachedFacts DEF Post, Posts, RoundsInv, AskInv
<1>5. g \in Messages /\ g.to \in Peers(x)
  BY <1>1, SideFacts DEF Messages, Peers
<1> HIDE DEF g
<1>6. TypeOK'
  BY <1>1, <1>2, <1>3, <1>4, <1>5 DEF RoundsInv, TypeOK, Exists, Phases
<1>7. AskInv' /\ PartnerInv'
  BY <1>2, <1>3 DEF RoundsInv, AskInv, PartnerInv, IsPartner, Exists
<1>8. RoundInv'
  BY <1>1, <1>2 DEF RoundsInv, RoundInv, TypeOK, OutcomeOf, Decides, IsPartner, Exists
<1>9. WaitInv'
  <2>1. \A m \in net : m.live => m.from # x /\ m.from \in Procs
    BY <1>1, MessageFacts DEF RoundsInv, WaitInv
  <2> QED
    BY <1>1, <1>2, <1>3, <2>1 DEF RoundsInv, WaitInv, TypeOK
<1> QED
  BY <1>2, <1>3, <1>6, <1>7, <1>8, <1>9 DEF RoundsInv

\* An outcome is saved.
LEMMA SaveRounds ==
  ASSUME RoundsInv, NEW x \in Procs, Save(x)
  PROVE  /\ RoundsInv' /\ AllKeep /\ Exists(x) /\ UNCHANGED <<net, faults>>
         /\ proc'[x] = IF result[x] = Absent THEN proc[x] ELSE result[x]
         /\ result'[x] = Absent
         /\ \A y \in Procs : y # x => proc'[y] = proc[y] /\ result'[y] = result[y]
<1> USE SideFacts
<1>1. /\ UNCHANGED <<finalized, net, faults>> /\ phase[x] = "done" /\ Exists(x)
      /\ phase' = [phase EXCEPT ![x] = "idle"] /\ result' = [result EXCEPT ![x] = Absent]
      /\ proc' = [proc EXCEPT ![x] = IF result[x] = Absent THEN @ ELSE result[x]]
  BY DEF Save, RoundsInv, TypeOK
<1>2. PICK r \in Records : r = IF result[x] = Absent THEN proc[x] ELSE result[x]
  BY <1>1, RecordFacts DEF RoundsInv, TypeOK
<1>3. /\ proc'[x] = r /\ r # Absent /\ result'[x] = Absent
      /\ \A y \in Procs : y # x =>
           proc'[y] = proc[y] /\ result'[y] = result[y] /\ phase'[y] = phase[y]
      /\ phase' \in [Procs -> Phases] /\ result' \in [Procs -> Records \cup {Absent}]
      /\ proc' \in [Procs -> Records \cup {Absent}]
  BY <1>1, <1>2, RecordAssumption DEF RoundsInv, TypeOK, Phases
<1>4. /\ r.agr = proc[x].agr /\ r.peer \in Peers(x)
      /\ \/ r.peer = proc[x].peer
         \/ /\ x \in CProcs /\ proc[x].st = "requested" /\ ~proc[x].sent
            /\ IsPartner(r.peer, x)
      /\ r.st = "requested" => r.sent \/ r = proc[x]
  BY <1>1, <1>2, SideFacts DEF RoundsInv, RoundInv, OutcomeOf, TypeOK, AskInv, IsPartner, Peers
<1>5. AllKeep
  BY <1>1, <1>3, <1>4 DEF AllKeep, Keeps, Exists
<1>6. TypeOK'
  <2>1. \A y \in Procs : /\ Exists(y)' <=> Exists(y)
                         /\ Exists(y)' => proc'[y].peer \in Peers(y)
                         /\ phase'[y] # "idle" => Exists(y)'
    BY <1>1, <1>3, <1>4 DEF RoundsInv, TypeOK, Exists
  <2>2. \A m \in net : m.from \in Procs
    BY MessageFacts DEF RoundsInv
  <2> QED
    BY <1>1, <1>3, <2>1, <2>2 DEF RoundsInv, TypeOK, Peers
<1>7. AskInv'
  BY <1>1, <1>3, <1>4 DEF RoundsInv, AskInv, Exists
<1>8. PartnerInv'
  <2>1. ASSUME NEW p \in PProcs, Exists(p)'
        PROVE  /\ (Exists(proc[p].peer))' /\ proc'[p].agr = proc'[proc'[p].peer].agr
               /\ Home[p] = Provider[proc'[p].peer]
    <3>1. Exists(p) /\ proc'[p].peer = proc[p].peer /\ proc'[p].agr = proc[p].agr
      BY <1>1, <1>3, <1>5, <2>1 DEF AllKeep, Keeps, Exists
    <3>2. /\ proc[p].peer \in Procs /\ Exists(proc[p].peer)
          /\ proc[p].agr = proc[proc[p].peer].agr /\ Home[p] = Provider[proc[p].peer]
      BY <3>1, RecordFacts DEF RoundsInv, PartnerInv
    <3> QED
      BY <1>5, <3>1, <3>2 DEF AllKeep, Keeps
  <2>2. ASSUME NEW c \in CProcs, Exists(c)', proc'[c].peer # NoProc
        PROVE  (IsPartner(proc[c].peer, c))'
    <3>1. PICK q \in Procs : q = proc'[c].peer /\ IsPartner(q, c)
      BY <1>1, <1>3, <1>4, <2>2 DEF RoundsInv, PartnerInv, IsPartner, Exists
    <3> QED
      BY <1>5, <3>1, PartnersKeep
  <2>3. ASSUME NEW m \in net', m.kind # "request" PROVE m.to = proc'[m.from].peer
    <3>1. m.from \in Procs /\ m.to = proc[m.from].peer /\ m.to # NoProc /\ Exists(m.from)
      BY <1>1, <2>3, MessageFacts DEF RoundsInv
    <3> QED
      BY <1>3, <1>4, <3>1 DEF RoundsInv, AskInv
  <2> QED
    BY <2>1, <2>2, <2>3 DEF PartnerInv
<1>9. RoundInv'
  BY <1>3, <1>5, PartnersKeep DEF RoundsInv, RoundInv
<1>10. WaitInv'
  <2>1. \A m \in net : m.live => m.from # x /\ m.from \in Procs
    BY <1>1, MessageFacts DEF RoundsInv, WaitInv
  <2> QED
    BY <1>1, <1>3, <2>1 DEF RoundsInv, WaitInv
<1> QED
  BY <1>1, <1>2, <1>3, <1>5, <1>6, <1>7, <1>8, <1>9, <1>10 DEF RoundsInv

\* A request is answered: the new record says nothing of any other, and the
\* consumer, if it waits, is told its id.
LEMMA TransferRequestRounds ==
  ASSUME RoundsInv, NEW m \in net, NEW p \in PProcs, TransferRequest(m, p)
  PROVE  LET c == m.from
         IN  /\ RoundsInv' /\ AllKeep /\ UNCHANGED faults /\ net' = net \ {m}
             /\ c \in CProcs /\ Exists(c) /\ ~Exists(p) /\ proc[c].agr \in finalized
             /\ proc' = [proc EXCEPT ![p] = NewProvider(c, proc[c].agr)]
             /\ result[p] = Absent
             /\ \A x \in Procs : x # p => proc'[x] = proc[x]
             /\ \A x \in Procs : x # c => result'[x] = result[x]
             /\ m.live => /\ proc[c].st = "requested" /\ ~proc[c].sent /\ result[c] = Absent
                          /\ result'[c] # Absent /\ result'[c].st = "requested"
                          /\ result'[c].token = proc[c].token
             /\ ~m.live => result'[c] = result[c]
<1> USE SideFacts
<1>c. PICK c \in CProcs : c = m.from
  BY MessageFacts DEF TransferRequest, RoundsInv
<1>0. Exists(c) /\ proc[c] \in Records
  BY <1>c, MessageFacts DEF RoundsInv
<1>1. /\ m.kind = "request" /\ c \in Procs /\ p \in Procs /\ c # p
      /\ Exists(c) /\ ~Exists(p) /\ proc[c] \in Records /\ proc[c].agr \in Agreements
      /\ Home[p] = Provider[c] /\ UNCHANGED <<finalized, faults>> /\ proc[c].agr \in finalized
  <2>1. proc[c].agr \in Agreements
    BY <1>0 DEF Records
  <2>2. c \in Procs /\ p \in Procs /\ c # p
    BY <1>c
  <2>3. /\ m.kind = "request" /\ ~Exists(p) /\ Home[p] = Dest(m)
        /\ proc[c].agr \in finalized /\ UNCHANGED <<finalized, faults>>
    BY <1>c DEF TransferRequest
  <2>4. Home[p] = Provider[c]
    BY <1>c, <2>3 DEF Dest
  <2> QED
    BY <1>0, <2>1, <2>2, <2>3, <2>4
<1>n. PICK n \in Records : n = NewProvider(c, proc[c].agr)
  BY <1>1, NewFacts
<1>2. n.st = "requested" /\ n.sent /\ n.peer = c /\ n.agr = proc[c].agr /\ n # Absent
  BY <1>1, <1>n, NewFacts, RecordAssumption
<1>r. PICK r \in Records : r = Acknowledged(proc[c], "request", p)
  BY <1>1, AcknowledgedFacts DEF Kinds
<1>3. /\ r.st = proc[c].st /\ r.sent /\ r.peer = p /\ r.agr = proc[c].agr
      /\ r.token = proc[c].token /\ r # Absent
  <2>1. "request" \in Kinds /\ r # Absent
    BY RecordAssumption DEF Kinds
  <2> QED
    BY <1>1, <1>r, <2>1, AcknowledgedFacts
<1>4. /\ proc' = [proc EXCEPT ![p] = n] /\ Answer(m, r)
      /\ proc'[p] = n /\ \A x \in Procs : x # p => proc'[x] = proc[x]
      /\ proc' \in [Procs -> Records \cup {Absent}]
  BY <1>c, <1>1, <1>n, <1>r DEF TransferRequest, RoundsInv, TypeOK
<1>5. /\ phase[p] = "idle" /\ result[p] = Absent
      /\ \A k \in net : k.from \in Procs /\ k.from # p
  BY <1>1, IdleFacts, MessageFacts DEF RoundsInv, TypeOK
<1>6. /\ net' = net \ {m} /\ phase' \in [Procs -> Phases]
      /\ result' \in [Procs -> Records \cup {Absent}]
      /\ \A x \in Procs : (m.live => x # c) => phase'[x] = phase[x] /\ result'[x] = result[x]
      /\ m.live => /\ result[c] = Absent /\ result'[c] = r /\ phase'[c] = "done"
                   /\ Posts(proc[c], "request")
      /\ \A k \in net' : k.live => phase'[k.from] = "posting" /\ (m.live => k.from # c)
  BY <1>c, <1>1, <1>4, AnswerFacts
<1>7. m.live => proc[c].st = "requested" /\ ~proc[c].sent
  BY <1>6, ReachedFacts DEF Posts
<1>8. AllKeep
  BY <1>1, <1>4 DEF AllKeep, Keeps, Exists
<1>9. TypeOK'
  <2>1. \A x \in Procs : /\ Exists(x) => Exists(x)'
                         /\ Exists(x)' => proc'[x].peer \in Peers(x)
    BY <1>2, <1>4 DEF RoundsInv, TypeOK, Exists, Peers
  <2>2. \A x \in Procs : result'[x] # Absent => result'[x].peer \in Peers(x)
    BY <1>3, <1>6 DEF RoundsInv, TypeOK, Peers
  <2>3. \A x \in Procs : phase'[x] # "idle" => Exists(x)'
    BY <1>1, <1>6, <2>1 DEF RoundsInv, TypeOK
  <2> QED
    BY <1>1, <1>4, <1>5, <1>6, <2>1, <2>2, <2>3 DEF RoundsInv, TypeOK, Peers
<1>10. AskInv'
  BY <1>2, <1>3, <1>4, <1>6 DEF RoundsInv, AskInv, Exists
<1>11. PartnerInv'
  <2>1. ASSUME NEW q \in PProcs, Exists(q)'
        PROVE  /\ (Exists(proc[q].peer))' /\ proc'[q].agr = proc'[proc'[q].peer].agr
               /\ Home[q] = Provider[proc'[q].peer]
    <3>1. CASE q = p
      BY <1>1, <1>2, <1>4, <3>1 DEF Exists
    <3>2. CASE q # p
      <4>1. /\ Exists(q) /\ proc'[q] = proc[q] /\ proc[q].peer \in Procs /\ proc[q].peer # p
            /\ Exists(proc[q].peer)
        BY <1>4, <2>1, <3>2, RecordFacts DEF RoundsInv, PartnerInv, Exists
      <4> QED
        BY <1>4, <4>1 DEF RoundsInv, PartnerInv, Exists
    <3> QED
      BY <3>1, <3>2
  <2>2. ASSUME NEW d \in CProcs, Exists(d)', proc'[d].peer # NoProc
        PROVE  (IsPartner(proc[d].peer, d))'
    <3>1. Exists(d) /\ proc'[d] = proc[d]
      BY <1>4, <2>2 DEF Exists
    <3>2. PICK q \in Procs : q = proc[d].peer /\ IsPartner(q, d)
      BY <2>2, <3>1 DEF RoundsInv, PartnerInv, IsPartner
    <3> QED
      BY <1>8, <3>1, <3>2, PartnersKeep
  <2>3. \A k \in net' : k.kind # "request" => k.to = proc'[k.from].peer
    BY <1>4, <1>5, <1>6 DEF RoundsInv, PartnerInv
  <2> QED
    BY <2>1, <2>2, <2>3 DEF PartnerInv
<1>12. RoundInv'
  <2>1. m.live => (OutcomeOf(c, r))'
    BY <1>1, <1>2, <1>3, <1>4, <1>6, <1>7 DEF OutcomeOf, IsPartner, Exists
  <2>2. ASSUME NEW x \in Procs, result'[x] # Absent, m.live => x # c
        PROVE  phase'[x] = "done" /\ OutcomeOf(x, result[x])'
    <3>1. PICK o : o = result[x] /\ o = result'[x]
      BY <1>6, <2>2
    <3>2. phase'[x] = "done" /\ OutcomeOf(x, o) /\ proc'[x] = proc[x]
      BY <1>4, <1>5, <1>6, <2>2, <3>1 DEF RoundsInv, RoundInv
    <3> QED
      BY <1>8, <3>1, <3>2, PartnersKeep
  <2>3. m.live => phase'[c] = "done" /\ (OutcomeOf(c, result[c]))'
    BY <1>6, <2>1
  <2> QED
    BY <2>2, <2>3 DEF RoundInv
<1>13. WaitInv'
  BY <1>4, <1>5, <1>6 DEF RoundsInv, WaitInv
<1> QED
  BY <1>c, <1>1, <1>n, <1>3, <1>4, <1>5, <1>6, <1>7, <1>8, <1>9, <1>10, <1>11, <1>12, <1>13
  DEF RoundsInv

\* An event changes a record whose connector is not in a round: no outcome and
\* no wait is about it.
LEMMA AcceptEventRounds ==
  ASSUME RoundsInv, NEW m \in net, AcceptEvent(m)
  PROVE  /\ RoundsInv' /\ AllKeep /\ UNCHANGED faults /\ net' = net \ {m}
         /\ m.from \in Procs /\ m.to \in Procs /\ m.to = proc[m.from].peer
         /\ m.kind \in Kinds /\ m.kind # "request"
         /\ Exists(m.from) /\ Exists(m.to) /\ result[m.to] = Absent
         /\ Accepts(proc[m.to], m.kind)
         /\ proc'[m.to] \in Records /\ proc'[m.to].st = Reached(m.kind) /\ proc'[m.to].sent
         /\ m.kind = "start" /\ m.from \in PProcs => proc'[m.to].token = m.from
         /\ \A x \in Procs : x # m.to => proc'[x] = proc[x]
         /\ \A x \in Procs : x # m.from => result'[x] = result[x]
         /\ m.live => /\ proc[m.from].st = Reached(m.kind) /\ ~proc[m.from].sent
                      /\ m.from # m.to /\ result[m.from] = Absent
                      /\ result'[m.from] # Absent /\ result'[m.from].sent
                      /\ result'[m.from].st = Reached(m.kind)
         /\ ~m.live => result'[m.from] = result[m.from]
<1> USE SideFacts
<1>1. PICK f \in Procs, t \in Procs : f = m.from /\ t = m.to
  BY MessageFacts DEF AcceptEvent, RoundsInv
<1>2. /\ m.kind # "request" /\ m.kind \in Kinds /\ Exists(f) /\ Exists(t)
      /\ proc[f] \in Records /\ proc[t] \in Records /\ t = proc[f].peer
      /\ Accepts(proc[t], m.kind) /\ UNCHANGED <<finalized, faults>>
      /\ proc[f].peer \in Peers(f) /\ proc[t].peer \in Peers(t)
  BY <1>1, MessageFacts, RecordFacts DEF AcceptEvent, RoundsInv, TypeOK
<1>a. PICK a \in Records : a = Accepted(proc[t], m.kind, f)
  BY <1>2, AcceptedFacts
<1>3. /\ a.st = Reached(m.kind) /\ a.sent /\ a.peer = proc[t].peer /\ a.agr = proc[t].agr
      /\ a # Absent /\ (m.kind = "start" /\ f \in PProcs => a.token = f)
  BY <1>2, <1>a, AcceptedFacts, RecordAssumption
<1>r. PICK r \in Records : r = Acknowledged(proc[f], m.kind, t)
  BY <1>2, AcknowledgedFacts
<1>4. r.st = proc[f].st /\ r.sent /\ r.peer = proc[f].peer /\ r.agr = proc[f].agr /\ r # Absent
  BY <1>2, <1>r, AcknowledgedFacts, RecordAssumption
<1>5. /\ proc' = [proc EXCEPT ![t] = a] /\ Answer(m, r)
      /\ proc'[t] = a /\ \A x \in Procs : x # t => proc'[x] = proc[x]
      /\ proc' \in [Procs -> Records \cup {Absent}]
  BY <1>1, <1>2, <1>a, <1>r DEF AcceptEvent, RoundsInv, TypeOK
<1>6. /\ phase[t] = "idle" /\ result[t] = Absent
      /\ \A k \in net : k.from \in Procs /\ (k.live => k.from # t)
  <2>1. phase[t] = "idle"
    BY <1>1 DEF AcceptEvent, Dest, Busy
  <2> QED
    BY <2>1, IdleFacts, MessageFacts DEF RoundsInv
<1>7. /\ net' = net \ {m} /\ phase' \in [Procs -> Phases]
      /\ result' \in [Procs -> Records \cup {Absent}]
      /\ \A x \in Procs : (m.live => x # f) => phase'[x] = phase[x] /\ result'[x] = result[x]
      /\ m.live => /\ result[f] = Absent /\ result'[f] = r /\ phase'[f] = "done"
                   /\ Posts(proc[f], m.kind) /\ f # t
      /\ \A k \in net' : k.live => phase'[k.from] = "posting" /\ (m.live => k.from # f)
  BY <1>1, <1>5, <1>6, AnswerFacts
<1>8. AllKeep
  BY <1>3, <1>5 DEF AllKeep, Keeps, Exists
<1>9. TypeOK'
  <2>1. \A x \in Procs : /\ Exists(x) <=> Exists(x)'
                         /\ Exists(x)' => proc'[x].peer \in Peers(x)
    BY <1>2, <1>3, <1>5 DEF RoundsInv, TypeOK, Exists
  <2>2. \A x \in Procs : result'[x] # Absent => result'[x].peer \in Peers(x)
    BY <1>2, <1>4, <1>7 DEF RoundsInv, TypeOK
  <2>3. \A x \in Procs : phase'[x] # "idle" => Exists(x)'
    BY <1>2, <1>7, <2>1 DEF RoundsInv, TypeOK
  <2> QED
    BY <1>2, <1>5, <1>6, <1>7, <2>1, <2>2, <2>3 DEF RoundsInv, TypeOK, Peers
<1>10. AskInv'
  BY <1>3, <1>4, <1>5, <1>7 DEF RoundsInv, AskInv, Exists
<1>11. PartnerInv'
  <2>0. \A x \in Procs : /\ Exists(x) <=> Exists(x)'
                         /\ Exists(x) => proc'[x].peer = proc[x].peer /\ proc'[x].agr = proc[x].agr
    BY <1>2, <1>3, <1>5 DEF Exists
  <2>1. ASSUME NEW q \in PProcs, Exists(q)'
        PROVE  /\ (Exists(proc[q].peer))' /\ proc'[q].agr = proc'[proc'[q].peer].agr
               /\ Home[q] = Provider[proc'[q].peer]
    <3>1. Exists(q) /\ proc[q].peer \in Procs /\ Exists(proc[q].peer)
      BY <2>0, <2>1, RecordFacts DEF RoundsInv, PartnerInv
    <3> QED
      BY <2>0, <3>1 DEF RoundsInv, PartnerInv
  <2>2. ASSUME NEW d \in CProcs, Exists(d)', proc'[d].peer # NoProc
        PROVE  (IsPartner(proc[d].peer, d))'
    <3>1. Exists(d) /\ proc'[d].peer = proc[d].peer
      BY <2>0, <2>2
    <3>2. PICK q \in Procs : q = proc[d].peer /\ IsPartner(q, d)
      BY <2>2, <3>1 DEF RoundsInv, PartnerInv, IsPartner
    <3> QED
      BY <1>8, <3>1, <3>2, PartnersKeep
  <2>3. \A k \in net' : k.kind # "request" => k.to = proc'[k.from].peer
    <3>1. \A k \in net : k.from \in Procs /\ Exists(k.from)
      BY MessageFacts DEF RoundsInv
    <3> QED
      BY <1>7, <2>0, <3>1 DEF RoundsInv, PartnerInv
  <2> QED
    BY <2>1, <2>2, <2>3 DEF PartnerInv
<1>12. RoundInv'
  <2>1. m.live => (OutcomeOf(f, r))'
    BY <1>4, <1>5, <1>7 DEF OutcomeOf, Posts
  <2>2. ASSUME NEW x \in Procs, result'[x] # Absent, m.live => x # f
        PROVE  phase'[x] = "done" /\ OutcomeOf(x, result[x])'
    <3>1. PICK o : o = result[x] /\ o = result'[x]
      BY <1>7, <2>2
    <3>2. phase'[x] = "done" /\ OutcomeOf(x, o) /\ proc'[x] = proc[x]
      BY <1>5, <1>6, <1>7, <2>2, <3>1 DEF RoundsInv, RoundInv
    <3> QED
      BY <1>8, <3>1, <3>2, PartnersKeep
  <2>3. m.live => phase'[f] = "done" /\ (OutcomeOf(f, result[f]))'
    BY <1>7, <2>1
  <2> QED
    BY <2>2, <2>3 DEF RoundInv
<1>13. WaitInv'
  BY <1>5, <1>6, <1>7 DEF RoundsInv, WaitInv
<1> QED
  BY <1>1, <1>2, <1>3, <1>4, <1>5, <1>6, <1>7, <1>8, <1>9, <1>10, <1>11, <1>12, <1>13
  DEF RoundsInv, Posts

(***************************************************************************)
(* Every step is quiet, or one of the six above.                           *)
(***************************************************************************)
Stir ==
  \/ \E c \in CProcs, a \in Agreements : AskTransfer(c, a)
  \/ \E x \in Procs : \/ \E s \in States : Decide(x, s)
                      \/ \E kind \in Kinds : Post(x, kind)
                      \/ Save(x)
  \/ \E m \in net : AcceptEvent(m) \/ \E p \in PProcs : TransferRequest(m, p)

LEMMA StepCases ==
  ASSUME RoundsInv, [Next]_vars
  PROVE  Quiet \/ Stir
<1>1. ASSUME NEW k \in Connectors, Loop(k) PROVE Quiet \/ Stir
  BY <1>1, StartTickQuiet, PostNowhereQuiet DEF Loop, Stir
<1>2. ASSUME NEW m \in net, Deliver(m) PROVE Quiet \/ Stir
  <2>1. faults \in 0..MaxFaults
    BY DEF RoundsInv, TypeOK
  <2>2. CASE RefuseRequest(m) \/ RejectEvent(m)
    BY <2>1, <2>2, NoOutcomeQuiet DEF RefuseRequest, RejectEvent
  <2> QED
    BY <1>2, <2>2 DEF Deliver, Stir
<1>3. CASE Fault
  <2>1. ASSUME NEW m \in net, LoseRequest(m) PROVE Quiet
    <3>1. faults' \in 0..MaxFaults
      BY <2>1, ProtocolAssumption DEF LoseRequest, RoundsInv, TypeOK
    <3> QED
      BY <2>1, <3>1, NoOutcomeQuiet DEF LoseRequest
  <2> QED
    BY <1>3, <2>1, LoseAnswerQuiet, CrashQuiet DEF Fault
<1>4. CASE UNCHANGED vars
  <2>1. \A n \in net : n.live => phase[n.from] = "posting"
    BY DEF RoundsInv, WaitInv
  <2> QED
    BY <1>4, <2>1 DEF vars, RoundsInv, TypeOK, Quiet
<1>5. ASSUME NEW a \in Agreements, Finalize(a) PROVE Quiet
  BY <1>5, FinalizeQuiet
<1> QED
  BY <1>1, <1>2, <1>3, <1>4, <1>5 DEF Next, Work, Stir

LEMMA InitRounds == Init => RoundsInv
<1> SUFFICES ASSUME Init PROVE RoundsInv
  OBVIOUS
<1>1. \A x \in Procs : ~Exists(x) /\ result[x] = Absent /\ phase[x] = "idle"
  BY DEF Init, Exists
<1>2. TypeOK
  BY <1>1, ProtocolAssumption DEF Init, TypeOK, Phases
<1>3. AskInv /\ PartnerInv /\ RoundInv /\ WaitInv
  BY <1>1, SideFacts DEF Init, AskInv, PartnerInv, RoundInv, WaitInv
<1> QED
  BY <1>2, <1>3 DEF RoundsInv

LEMMA NextRounds == RoundsInv /\ [Next]_vars => RoundsInv'
<1> SUFFICES ASSUME RoundsInv, [Next]_vars PROVE RoundsInv'
  OBVIOUS
<1>1. CASE Quiet
  BY <1>1, QuietRounds
<1>2. CASE Stir
  BY <1>2, AskTransferRounds, DecideRounds, PostRounds, SaveRounds, AcceptEventRounds,
     TransferRequestRounds DEF Stir
<1> QED
  BY <1>1, <1>2, StepCases

\* Whatever the scripts, the number of connectors, transfers and faults, every
\* record, outcome and message is well formed and names a counterpart of the
\* other side.
THEOREM TransferTyping == Spec => []TypeOK
<1>1. RoundsInv => TypeOK
  BY DEF RoundsInv
<1> QED
  BY <1>1, InitRounds, NextRounds, PTL DEF Spec

\* Whatever the scripts, and whatever is lost or restarted, a completed or
\* terminated transfer stays so: no outcome is computed from it, and its loop
\* takes no event between a tick and its save.
THEOREM FinalStays == Spec => FinalForever
<1> DEFINE Final(x) ==
      Exists(x) /\ proc[x].st \in {"completed", "terminated"} =>
        proc'[x] # Absent /\ proc'[x].st = proc[x].st
<1>1. ASSUME RoundsInv, [Next]_vars, NEW x \in Procs, Exists(x),
             proc[x].st \in {"completed", "terminated"}
      PROVE  proc'[x] # Absent /\ proc'[x].st = proc[x].st
  <2>1. CASE UNCHANGED proc
    BY <1>1, <2>1 DEF Exists
  <2>2. ASSUME NEW c \in CProcs, NEW a \in Agreements, AskTransfer(c, a)
        PROVE  proc'[x] = proc[x]
    BY <1>1, <2>2, SideFacts DEF AskTransfer, RoundsInv, TypeOK
  <2>3. ASSUME NEW y \in Procs, Save(y)
        PROVE  proc'[x] # Absent /\ proc'[x].st = proc[x].st
    <3>1. CASE y # x \/ result[x] = Absent
      BY <1>1, <2>3, <3>1, SaveRounds DEF Exists
    <3>2. CASE y = x /\ result[x] # Absent
      <4>1. proc'[x] = result[x] /\ OutcomeOf(x, result[x])
        BY <1>1, <2>3, <3>2, SaveRounds DEF RoundsInv, RoundInv
      <4>2. result[x].sent /\ result[x].st = proc[x].st
        BY <1>1, <4>1, DecidesFacts DEF OutcomeOf
      <4> QED
        BY <3>2, <4>1, <4>2
    <3> QED
      BY <3>1, <3>2
  <2>4. ASSUME NEW m \in net, NEW p \in PProcs, TransferRequest(m, p)
        PROVE  proc'[x] = proc[x]
    BY <1>1, <2>4, TransferRequestRounds
  <2>5. ASSUME NEW m \in net, AcceptEvent(m)
        PROVE  proc'[x] # Absent /\ proc'[x].st = proc[x].st
    <3>1. CASE x # m.to
      BY <1>1, <2>5, <3>1, AcceptEventRounds DEF Exists
    <3>2. CASE x = m.to
      <4>1. proc'[x] \in Records /\ proc'[x].st = Reached(m.kind) /\ Accepts(proc[x], m.kind)
        BY <1>1, <2>5, <3>2, AcceptEventRounds
      <4>2. m.kind = "termination" /\ proc[x].st = "terminated"
        BY <1>1, <4>1 DEF Accepts
      <4> QED
        BY <4>1, <4>2, ReachedFacts, RecordAssumption
    <3> QED
      BY <3>1, <3>2
  <2>6. Quiet \/ Stir
    BY <1>1, StepCases
  <2> QED
    BY <1>1, <2>1, <2>2, <2>3, <2>4, <2>5, <2>6
    DEF Stir, Quiet, Decide, Post, Exists
<1>2. RoundsInv /\ [Next]_vars => [\A x \in Procs : Final(x)]_vars
  BY <1>1
<1> QED
  BY <1>2, InitRounds, NextRounds, PTL DEF Spec, FinalForever

(***************************************************************************)
(* Whose turn it is, whatever the scripts.                                 *)
(***************************************************************************)

\* What is to be told, a script of the right side has decided.
LEMMA ScriptStep == RoundsInv /\ ScriptInv /\ [Next]_vars => ScriptInv'
<1> SUFFICES ASSUME RoundsInv, ScriptInv, [Next]_vars, NEW x \in Procs,
                    Exists(x)', ~proc'[x].sent
             PROVE  (/\ x \in CProcs => proc[x].st = "requested" \/ ByConsumer(x)
                     /\ x \in PProcs => proc[x].st = "started" \/ ~ByConsumer(x))'
  BY DEF ScriptInv
<1> USE SideFacts
<1>1. CASE proc'[x] = proc[x]
  BY <1>1 DEF ScriptInv, ByConsumer, Exists
<1>2. ASSUME NEW c \in CProcs, NEW a \in Agreements, AskTransfer(c, a)
      PROVE  (x = c /\ proc'[x].st = "requested") \/ proc'[x] = proc[x]
  BY <1>2, NewFacts DEF AskTransfer, RoundsInv, TypeOK
<1>3. ASSUME NEW y \in Procs, Save(y), y = x, result[x] # Absent
      PROVE  (/\ x \in CProcs => proc[x].st = "requested" \/ ByConsumer(x)
              /\ x \in PProcs => proc[x].st = "started" \/ ~ByConsumer(x))'
  <2>1. /\ OutcomeOf(x, result[x]) /\ proc'[x] = result[x]
        /\ Exists(x) /\ proc'[x].agr = proc[x].agr
    BY <1>3, SaveRounds DEF RoundsInv, RoundInv, AllKeep, Keeps
  <2>2. Decides(x, proc'[x].st) /\ (ByConsumer(x)' <=> ByConsumer(x))
    BY <2>1 DEF OutcomeOf, ByConsumer
  <2> QED
    BY <2>2, DecidesFacts
<1>4. ASSUME NEW y \in Procs, Save(y), y # x \/ result[x] = Absent
      PROVE  proc'[x] = proc[x]
  BY <1>4, SaveRounds
<1>5. ASSUME NEW m \in net, NEW p \in PProcs, TransferRequest(m, p)
      PROVE  proc'[x] = proc[x]
  <2>1. /\ m.from \in CProcs /\ proc[m.from] \in Records
        /\ proc' = [proc EXCEPT ![p] = NewProvider(m.from, proc[m.from].agr)]
        /\ \A z \in Procs : z # p => proc'[z] = proc[z]
    BY <1>5, TransferRequestRounds, RecordFacts
    DEF RoundsInv
  <2>2. proc'[p] = NewProvider(m.from, proc[m.from].agr) /\ proc[m.from].agr \in Agreements
    BY <2>1 DEF RoundsInv, TypeOK, Records
  <2> QED
    BY <2>1, <2>2, NewFacts
<1>6. ASSUME NEW m \in net, AcceptEvent(m)
      PROVE  proc'[x] = proc[x]
  BY <1>6, AcceptEventRounds
<1> QED
  BY <1>1, <1>2, <1>3, <1>4, <1>5, <1>6, StepCases DEF Stir, Quiet, Decide, Post

\* The two records of a transfer.
LEMMA PairFacts ==
  ASSUME RoundsInv, NEW p \in PProcs, NEW c \in CProcs, IsPartner(p, c)
  PROVE  /\ p \in Procs /\ c \in Procs /\ p # c /\ p \notin CProcs /\ c \notin PProcs
         /\ Exists(p) /\ Exists(c) /\ proc[p] \in Records /\ proc[c] \in Records
         /\ proc[p].peer = c /\ proc[p].agr = proc[c].agr /\ Home[p] = Provider[c]
         /\ ByConsumer(p) <=> ByConsumer(c)
BY SideFacts, RecordFacts DEF RoundsInv, PartnerInv, IsPartner, ByConsumer

LEMMA TurnSame ==
  ASSUME NEW p, NEW c, proc'[p] = proc[p], proc'[c] = proc[c],
         result'[p] = result[p], result'[c] = result[c], Turn(p, c)
  PROVE  Turn(p, c)'
BY DEF Turn, Serves, Exists, ByConsumer

\* Where no transfer is new, each is looked at by itself.
LEMMA TurnsKept ==
  ASSUME RoundsInv, Turns, AllKeep, \A m \in net' : m.live,
         \A p \in PProcs : Exists(p)' => Exists(p),
         \A p \in PProcs, c \in CProcs : IsPartner(p, c) /\ Turn(p, c) => Turn(p, c)'
  PROVE  Turns'
<1>1. \A p \in PProcs, c \in CProcs : IsPartner(p, c)' => IsPartner(p, c)
  BY SideFacts DEF AllKeep, Keeps, IsPartner
<1> QED
  BY <1>1 DEF Turns

LEMMA TurnQuiet ==
  ASSUME RoundsInv, Turns, Quiet, faults' = faults
  PROVE  Turns'
<1>1. /\ \A x \in Procs : proc'[x] = proc[x] /\ result'[x] = result[x]
      /\ net' \subseteq net /\ UNCHANGED proc
  BY DEF Quiet, RoundsInv, TypeOK
<1>2. AllKeep /\ \A p \in PProcs : Exists(p)' => Exists(p)
  BY <1>1 DEF AllKeep, Keeps, Exists
<1>3. \A p \in PProcs, c \in CProcs : IsPartner(p, c) /\ Turn(p, c) => Turn(p, c)'
  BY <1>1, SideFacts, TurnSame
<1> QED
  BY <1>1, <1>2, <1>3, TurnsKept DEF Turns

\* No transfer is about a request that is not saved yet.
LEMMA TurnAskTransfer ==
  ASSUME RoundsInv, Turns, NEW d \in CProcs, NEW a \in Agreements, AskTransfer(d, a)
  PROVE  Turns'
<1>1. /\ ~Exists(d) /\ UNCHANGED <<net, result>>
      /\ \A x \in Procs : x # d => proc'[x] = proc[x]
  BY DEF AskTransfer, RoundsInv, TypeOK
<1>2. AllKeep /\ \A p \in PProcs : Exists(p)' => Exists(p)
  BY <1>1, AskTransferRounds, SideFacts DEF Exists
<1>3. \A p \in PProcs, c \in CProcs : IsPartner(p, c) /\ Turn(p, c) => Turn(p, c)'
  BY <1>1, PairFacts, TurnSame
<1> QED
  BY <1>1, <1>2, <1>3, TurnsKept DEF Turns

\* A decision is an outcome that has not been told.
LEMMA TurnDecide ==
  ASSUME RoundsInv, Turns, NEW x \in Procs, NEW s \in States, Decide(x, s)
  PROVE  Turns'
<1>1. /\ result'[x] \in Records /\ ~result'[x].sent /\ UNCHANGED <<proc, net>>
      /\ \A y \in Procs : y # x => result'[y] = result[y]
  BY DecideRounds
<1>2. AllKeep /\ \A p \in PProcs : Exists(p)' => Exists(p)
  BY <1>1 DEF AllKeep, Keeps, Exists
<1>3. ASSUME NEW p \in PProcs, NEW c \in CProcs, IsPartner(p, c), Turn(p, c)
      PROVE  Turn(p, c)'
  <2>1. /\ p \in Procs /\ c \in Procs /\ p # c /\ UNCHANGED proc
        /\ result'[x] # Absent /\ ~result'[x].sent
    BY <1>1, <1>3, PairFacts, RecordAssumption
  <2> QED
    BY <1>1, <1>3, <2>1 DEF Turn, Serves, Exists, ByConsumer
<1> QED
  BY <1>1, <1>2, <1>3, TurnsKept DEF Turns

LEMMA TurnPost ==
  ASSUME RoundsInv, Turns, NEW x \in Procs, NEW kind \in Kinds, Post(x, kind)
  PROVE  Turns'
<1>1. UNCHANGED <<proc, result>> /\ \A n \in net' : n.live
  BY PostRounds DEF Turns
<1>2. AllKeep /\ \A p \in PProcs : Exists(p)' => Exists(p)
  BY <1>1 DEF AllKeep, Keeps, Exists
<1>3. \A p \in PProcs, c \in CProcs : IsPartner(p, c) /\ Turn(p, c) => Turn(p, c)'
  BY <1>1, TurnSame
<1> QED
  BY <1>1, <1>2, <1>3, TurnsKept

\* Nobody has answered the request yet, or its consumer would know.
LEMMA TurnTransferRequest ==
  ASSUME RoundsInv, Turns, NEW m \in net, NEW p \in PProcs, TransferRequest(m, p)
  PROVE  Turns'
<1> USE SideFacts
<1>1. PICK c \in CProcs : c = m.from
  BY TransferRequestRounds
<1>2. /\ AllKeep /\ net' = net \ {m} /\ ~Exists(p) /\ m.live
      /\ proc' = [proc EXCEPT ![p] = NewProvider(c, proc[c].agr)]
      /\ result[p] = Absent
      /\ \A x \in Procs : x # p => proc'[x] = proc[x]
      /\ \A x \in Procs : x # c => result'[x] = result[x]
      /\ proc[c].st = "requested" /\ ~proc[c].sent /\ result[c] = Absent
      /\ result'[c] # Absent /\ result'[c].st = "requested"
      /\ Exists(c) /\ proc[c] \in Records
  BY <1>1, TransferRequestRounds, RecordFacts DEF Turns, RoundsInv
<1>3. \A q \in PProcs : ~IsPartner(q, c)
  BY <1>2 DEF Turns, Turn
<1>4. proc'[p].st = "requested" /\ proc'[p].peer = c
  <2>1. proc'[p] = NewProvider(c, proc[c].agr) /\ proc[c].agr \in Agreements
    BY <1>2 DEF RoundsInv, TypeOK, Records
  <2> QED
    BY <2>1, NewFacts
<1>5. ASSUME NEW q \in PProcs, NEW d \in CProcs, IsPartner(q, d)'
      PROVE  (q = p /\ d = c) \/ (q # p /\ d # c /\ IsPartner(q, d))
  <2>1. q # p => IsPartner(q, d)
    BY <1>2, <1>5 DEF IsPartner, Exists
  <2>2. q # p => d # c
    BY <1>3, <2>1
  <2>3. q = p => d = c
    BY <1>4, <1>5 DEF IsPartner
  <2> QED
    BY <2>1, <2>2, <2>3
<1>6. Turn(p, c)'
  BY <1>2, <1>4 DEF Turn, Serves
<1>7. ASSUME NEW q \in PProcs, NEW d \in CProcs, IsPartner(q, d)' PROVE Turn(q, d)'
  <2>1. CASE q = p /\ d = c
    BY <1>6, <2>1
  <2>2. CASE q # p /\ d # c /\ IsPartner(q, d)
    BY <1>2, <2>2, PairFacts, TurnSame DEF Turns
  <2> QED
    BY <1>5, <1>7, <2>1, <2>2
<1>8. \A q, r \in PProcs, d \in CProcs : IsPartner(q, d)' /\ IsPartner(r, d)' => q = r
  BY <1>5 DEF Turns
<1> QED
  BY <1>2, <1>7, <1>8 DEF Turns

\* An event is the sender's state, which the receiver now has and the sender
\* knows of.
LEMMA TurnAcceptEvent ==
  ASSUME RoundsInv, Turns, NEW m \in net, AcceptEvent(m)
  PROVE  Turns'
<1> USE SideFacts
<1>1. PICK f \in Procs, t \in Procs : f = m.from /\ t = m.to
  BY AcceptEventRounds
<1>2. /\ AllKeep /\ net' = net \ {m} /\ m.live /\ m.kind \in Kinds /\ m.kind # "request"
      /\ t = proc[f].peer /\ Exists(f) /\ Exists(t) /\ f # t
      /\ result[t] = Absent /\ result[f] = Absent
      /\ proc'[t].st = Reached(m.kind) /\ proc'[t].sent
      /\ proc[f].st = Reached(m.kind) /\ ~proc[f].sent
      /\ result'[f] # Absent /\ result'[f].sent /\ result'[f].st = Reached(m.kind)
      /\ \A x \in Procs : x # t => proc'[x] = proc[x]
      /\ \A x \in Procs : x # f => result'[x] = result[x]
  BY <1>1, AcceptEventRounds DEF Turns
<1>3. Reached(m.kind) \in {"started", "suspended", "completed", "terminated"}
  BY <1>2, ReachedFacts DEF Kinds
<1>4. \A p \in PProcs : Exists(p)' => Exists(p)
  BY <1>2 DEF Exists
<1>5. f \in PProcs => t \in CProcs /\ IsPartner(f, t)
  BY <1>2, RecordFacts DEF RoundsInv, IsPartner
<1>6. f \in CProcs => t \in PProcs /\ IsPartner(t, f)
  BY <1>2 DEF RoundsInv, PartnerInv, IsPartner
<1>7. ASSUME NEW p \in PProcs, NEW c \in CProcs, IsPartner(p, c), Turn(p, c)
      PROVE  Turn(p, c)'
  <2>0. p \in Procs /\ c \in Procs /\ p # c
    BY <1>7, PairFacts
  <2>1. CASE f = p /\ t = c
    BY <1>2, <1>3, <2>0, <2>1 DEF Turn, Serves, Exists
  <2>2. CASE f = c /\ t = p
    BY <1>2, <1>3, <2>0, <2>2 DEF Turn, Serves, Exists, Ended
  <2>3. CASE {f, t} # {p, c}
    <3>1. f \notin {p, c} /\ t \notin {p, c}
      <4>1. CASE f \in PProcs
        BY <1>5, <1>7, <2>3, <4>1 DEF Turns, IsPartner
      <4>2. CASE f \in CProcs
        BY <1>6, <1>7, <2>3, <4>2 DEF Turns, IsPartner
      <4> QED
        BY <4>1, <4>2
    <3> QED
      BY <1>2, <1>7, <2>0, <3>1, TurnSame
  <2> QED
    BY <2>1, <2>2, <2>3
<1> QED
  BY <1>2, <1>4, <1>7, TurnsKept DEF Turns

\* The provider's outcome is saved.
LEMMA TurnSaveProvider ==
  ASSUME RoundsInv, ScriptInv, Turns, NEW p \in PProcs, NEW c \in CProcs, IsPartner(p, c),
         Save(p), result[p] # Absent
  PROVE  Turn(p, c)'
<1>1. /\ p \in Procs /\ c \in Procs /\ p # c /\ p \notin CProcs /\ Exists(c) /\ Exists(p)
      /\ ByConsumer(p) <=> ByConsumer(c)
  BY PairFacts
<1>2. /\ proc'[p] = result[p] /\ result'[p] = Absent /\ OutcomeOf(p, result[p])
      /\ proc'[c] = proc[c] /\ result'[c] = result[c] /\ proc'[p].agr = proc[p].agr
      /\ Exists(p)'
  BY <1>1, SaveRounds DEF RoundsInv, RoundInv, AllKeep, Keeps
<1>3. result[p].st # "requested"
  BY <1>1, <1>2, DecidesFacts DEF OutcomeOf, RoundsInv, AskInv
<1>4. Turn(p, c) /\ (ByConsumer(p)' <=> ByConsumer(p))
  BY <1>2 DEF Turns, ByConsumer
<1>5. ByConsumer(p)' /\ proc'[p].st = "started" /\ ~proc'[p].sent
        => proc[c].st \in {"requested", "terminated"}
  <2> SUFFICES ASSUME ByConsumer(p), result[p].st = "started", ~result[p].sent
               PROVE  proc[c].st \in {"requested", "terminated"}
    BY <1>2, <1>4
  <2>1. Decides(p, "started")
    BY <1>2 DEF OutcomeOf
  <2>2. proc[p].st = "requested"
    BY <1>1, <2>1, DecidesFacts
  <2> QED
    BY <1>4, <2>2 DEF Turn
<1>6. Serves(p)' => proc[c].st = "started" \/ (proc[c].st \in Ended /\ ~proc[c].sent)
  BY <1>2, <1>4 DEF Turn, Serves
<1>7. result[c] # Absent /\ result[c].st \in Ended /\ result[c].sent => result[p].st \in Ended
  <2> SUFFICES ASSUME result[c] # Absent, result[c].st \in Ended, result[c].sent
               PROVE  result[p].st \in Ended
    OBVIOUS
  <2>1. proc[p].st \in Ended
    BY <1>4 DEF Turn
  <2>2. CASE result[p].sent
    BY <1>2, <2>1, <2>2 DEF OutcomeOf
  <2>3. CASE ~result[p].sent
    <3>1. OutcomeOf(c, result[c])
      BY <1>1 DEF RoundsInv, RoundInv
    <3>2. proc[c].st \in Ended /\ ~proc[c].sent
      BY <3>1 DEF OutcomeOf
    <3>3. ByConsumer(c)
      BY <1>1, <3>2 DEF ScriptInv, Ended
    <3>4. Decides(p, result[p].st)
      BY <1>2, <2>3 DEF OutcomeOf
    <3> QED
      BY <1>1, <2>1, <3>3, <3>4, DecidesFacts DEF Ended
  <2> QED
    BY <2>2, <2>3
<1> QED
  BY <1>2, <1>3, <1>4, <1>5, <1>6, <1>7 DEF Turn

\* The consumer's outcome is saved.
LEMMA TurnSaveConsumer ==
  ASSUME RoundsInv, ScriptInv, Turns, NEW p \in PProcs, NEW c \in CProcs, IsPartner(p, c),
         Save(c), result[c] # Absent
  PROVE  Turn(p, c)'
<1>1. p \in Procs /\ c \in Procs /\ p # c /\ Exists(c) /\ Exists(p)
  BY PairFacts
<1>2. /\ proc'[c] = result[c] /\ result'[c] = Absent /\ OutcomeOf(c, result[c])
      /\ proc'[p] = proc[p] /\ result'[p] = result[p] /\ result[c] \in Records
  BY <1>1, SaveRounds DEF RoundsInv, RoundInv, TypeOK
<1>3. Turn(p, c) /\ (ByConsumer(p)' <=> ByConsumer(p)) /\ (Serves(p)' <=> Serves(p))
  BY <1>2 DEF Turns, ByConsumer, Serves, Exists
<1>4. result[c].st = "requested" => result[c].sent
  BY <1>1 DEF RoundsInv, AskInv
<1>5. proc[c].st \in {"requested", "terminated"} => result[c].st \in {"requested", "terminated"}
  BY <1>1, <1>2, DecidesFacts DEF OutcomeOf
<1>6. Serves(p) \/ (result[p] # Absent /\ result[p].st = "started" /\ result[p].sent)
        => result[c].st = "started" \/ (result[c].st \in Ended /\ ~result[c].sent)
  <2> SUFFICES ASSUME Serves(p) \/ (result[p] # Absent /\ result[p].st = "started" /\ result[p].sent)
               PROVE  result[c].st = "started" \/ (result[c].st \in Ended /\ ~result[c].sent)
    OBVIOUS
  <2>1. proc[p].st = "started"
    BY <1>1 DEF Serves, RoundsInv, RoundInv, OutcomeOf
  <2>2. proc[c].st = "started" \/ (proc[c].st \in Ended /\ ~proc[c].sent)
    BY <1>3 DEF Turn
  <2>3. CASE result[c].sent
    <3>1. result[c].st \notin Ended
      BY <1>3, <2>1, <2>3 DEF Turn, Ended
    <3> QED
      BY <1>2, <2>2, <2>3, <3>1 DEF OutcomeOf
  <2>4. CASE ~result[c].sent
    <3>1. result[c].st # "requested"
      BY <1>4, <2>4
    <3> QED
      BY <1>2, <2>4, <3>1 DEF Records, States, Ended
  <2> QED
    BY <2>3, <2>4
<1> QED
  BY <1>2, <1>3, <1>4, <1>5, <1>6 DEF Turn

LEMMA TurnSave ==
  ASSUME RoundsInv, ScriptInv, Turns, NEW x \in Procs, Save(x)
  PROVE  Turns'
<1>1. AllKeep /\ \A p \in PProcs : Exists(p)' => Exists(p)
  BY SaveRounds, SideFacts DEF Exists
<1>2. ASSUME NEW p \in PProcs, NEW c \in CProcs, IsPartner(p, c), Turn(p, c)
      PROVE  Turn(p, c)'
  <2>0. p \in Procs /\ c \in Procs
    BY <1>2, PairFacts
  <2>1. CASE x = p /\ result[x] # Absent
    BY <1>2, <2>1, TurnSaveProvider
  <2>2. CASE x = c /\ result[x] # Absent
    BY <1>2, <2>2, TurnSaveConsumer
  <2>3. CASE x \notin {p, c} \/ result[x] = Absent
    <3>1. /\ proc'[p] = proc[p] /\ proc'[c] = proc[c]
          /\ result'[p] = result[p] /\ result'[c] = result[c]
      BY <2>0, <2>3, SaveRounds
    <3> QED
      BY <1>2, <3>1, TurnSame
  <2> QED
    BY <2>1, <2>2, <2>3
<1>3. UNCHANGED net
  BY SaveRounds
<1> QED
  BY <1>1, <1>2, <1>3, TurnsKept DEF Turns

LEMMA TurnStep == RoundsInv /\ ScriptInv /\ TurnInv /\ [Next]_vars => TurnInv'
<1> SUFFICES ASSUME RoundsInv, ScriptInv, TurnInv, [Next]_vars, faults' = 0 PROVE Turns'
  BY DEF TurnInv
<1>0. faults' \in {faults, faults + 1} /\ faults \in Nat
  BY DEF RoundsInv, TypeOK, vars, Next, Work, Loop, Deliver, Fault, Finalize, AskTransfer, StartTick,
         Decide, Post, PostNowhere, Save, TransferRequest, RefuseRequest, AcceptEvent,
         RejectEvent, LoseRequest, LoseAnswer, Crash
<1>1. faults' = faults /\ Turns
  BY <1>0 DEF TurnInv
<1>2. CASE Quiet
  BY <1>1, <1>2, TurnQuiet
<1>3. CASE Stir
  BY <1>1, <1>3, TurnAskTransfer, TurnDecide, TurnPost, TurnSave, TurnAcceptEvent,
     TurnTransferRequest DEF Stir
<1> QED
  BY <1>2, <1>3, StepCases

LEMMA TurnsInvariance == Spec => [](RoundsInv /\ ScriptInv /\ TurnInv)
<1>1. Init => RoundsInv /\ ScriptInv /\ TurnInv
  <2>1. Init => \A x \in Procs : ~Exists(x)
    BY DEF Init, Exists
  <2>2. Init => ScriptInv
    BY <2>1 DEF ScriptInv
  <2>3. Init => TurnInv
    BY <2>1, SideFacts DEF Init, TurnInv, Turns, IsPartner
  <2> QED
    BY <2>2, <2>3, InitRounds
<1>2. RoundsInv /\ ScriptInv /\ TurnInv /\ [Next]_vars => (RoundsInv /\ ScriptInv /\ TurnInv)'
  BY NextRounds, ScriptStep, TurnStep
<1> QED
  BY <1>1, <1>2, PTL DEF Spec

\* Whatever the scripts, and for any number of connectors and transfers: once a
\* consumer has ended a transfer and told so, or was told, the reverse proxy
\* hands out its data no more, unless a fault split what the two sides know.
THEOREM EndedClosed == Spec => []EndedIsClosed
<1>1. RoundsInv /\ ScriptInv /\ TurnInv => EndedIsClosed
  <2> SUFFICES ASSUME RoundsInv, TurnInv, NEW c \in CProcs, Exists(c), proc[c].st \in Ended,
                      proc[c].sent, ~(faults > 0), NEW p \in Answers(c)
               PROVE  ~Serves(p)
    BY DEF EndedIsClosed, Ended
  <2>1. p \in PProcs /\ IsPartner(p, c)
    BY DEF Answers, IsPartner
  <2>2. Turn(p, c)
    <3>1. faults = 0
      BY DEF RoundsInv, TypeOK
    <3> QED
      BY <2>1, <3>1 DEF TurnInv, Turns
  <2> QED
    BY <2>2 DEF Turn, Ended
<1> QED
  BY <1>1, TurnsInvariance, PTL

\* The two sides of a transfer do not both wait for an answer to what they
\* tell, unless one of them ends the transfer for good.
LEMMA SidesTakeTurns ==
  ASSUME RoundsInv, ScriptInv, Turns, NEW m \in net, NEW n \in net, m.live, n.live,
         m.kind \notin {"request", "termination"}, n.kind \notin {"request", "termination"},
         m.from \in CProcs, n.from \in PProcs
  PROVE  m.from # n.to
<1> SUFFICES ASSUME m.from = n.to PROVE FALSE
  OBVIOUS
<1> USE SideFacts
<1>1. PICK c \in CProcs, p \in PProcs : c = m.from /\ p = n.from
  OBVIOUS
<1>2. /\ Exists(c) /\ Exists(p) /\ IsPartner(p, c) /\ Posts(proc[c], m.kind) /\ Posts(proc[p], n.kind)
      /\ phase[p] = "posting" /\ m.kind \in Kinds
  BY <1>1, MessageFacts DEF RoundsInv, WaitInv, IsPartner
<1>3. proc[c].st \notin {"requested", "terminated"} /\ ~proc[c].sent /\ ~proc[p].sent
  BY <1>2, ReachedFacts DEF Posts, Kinds
<1>4. ByConsumer(p)
  BY <1>2, <1>3, PairFacts DEF ScriptInv
<1>5. proc[p].st = "started"
  BY <1>2, <1>3, <1>4 DEF ScriptInv
<1>6. result[p] # Absent
  BY <1>2, <1>3, <1>4, <1>5 DEF Turns, Turn
<1> QED
  BY <1>2, <1>6 DEF RoundsInv, RoundInv

\* Whatever the scripts: if no connector asks itself, then within one transfer
\* the loops of two connectors wait for each other only after a fault or over a
\* termination.
THEOREM MutualWaits ==
  ASSUME \A c \in CProcs : Provider[c] # Home[c]
  PROVE  Spec => []MutualWaitHasCause
<1>1. RoundsInv /\ ScriptInv /\ TurnInv => MutualWaitHasCause
  <2> SUFFICES ASSUME RoundsInv, ScriptInv, TurnInv, NEW m \in net, NEW n \in net,
                      Deadlocked(m, n), ~(faults > 0), ConsumerOf(m) = ConsumerOf(n),
                      "termination" \notin {m.kind, n.kind}
               PROVE  FALSE
    BY DEF MutualWaitHasCause
  <2> USE SideFacts
  <2>1. Turns
    <3>1. faults = 0
      BY DEF RoundsInv, TypeOK
    <3> QED
      BY <3>1 DEF TurnInv
  <2>2. /\ m.live /\ n.live /\ m.kind # "request" /\ n.kind # "request"
        /\ Home[m.from] = Home[n.to] /\ Home[n.from] = Home[m.to]
    BY DEF Deadlocked, Dest
  <2>3. ASSUME NEW k \in net, k.kind # "request"
        PROVE  /\ k.from \in Procs /\ k.to \in Procs /\ Home[k.from] # Home[k.to]
               /\ k.from \in CProcs => k.to \in PProcs /\ IsPartner(k.to, k.from)
               /\ k.from \notin CProcs => /\ k.from \in PProcs /\ k.to \in CProcs
                                          /\ IsPartner(k.from, k.to)
    <3>1. /\ k.from \in Procs /\ k.to \in Procs /\ k.to = proc[k.from].peer /\ Exists(k.from)
          /\ k.from \in PProcs => k.to \in CProcs
      BY <2>3, MessageFacts DEF RoundsInv
    <3>2. k.from \in CProcs => k.to \in PProcs /\ IsPartner(k.to, k.from)
      BY <3>1 DEF RoundsInv, PartnerInv, IsPartner
    <3>3. k.from \notin CProcs => k.from \in PProcs /\ k.to \in CProcs /\ IsPartner(k.from, k.to)
      BY <3>1 DEF IsPartner
    <3> QED
      BY <3>1, <3>2, <3>3, PairFacts
  <2>4. CASE m.from \in CProcs /\ n.from \notin CProcs
    BY <2>1, <2>2, <2>3, <2>4, SidesTakeTurns DEF ConsumerOf
  <2>5. CASE m.from \notin CProcs /\ n.from \in CProcs
    BY <2>1, <2>2, <2>3, <2>5, SidesTakeTurns DEF ConsumerOf
  <2>6. CASE m.from \in CProcs <=> n.from \in CProcs
    <3>1. m.from = n.from
      BY <2>1, <2>2, <2>3, <2>6 DEF ConsumerOf, Turns
    <3>2. m = n
      BY <2>2, <3>1 DEF RoundsInv, WaitInv
    <3> QED
      BY <2>2, <2>3, <3>2
  <2> QED
    BY <2>4, <2>5, <2>6
<1> QED
  BY <1>1, TurnsInvariance, PTL

(***************************************************************************)
(* The default build: transfers are requested and started.                 *)
(***************************************************************************)

\* Without a script only a provider decides, to start what is requested.
LEMMA DefaultDecides ==
  ASSUME DefaultBuild, RoundsInv, NEW x \in Procs, NEW s \in States, Exists(x), Decides(x, s)
  PROVE  x \in PProcs /\ proc[x].st = "requested" /\ s = "started"
<1>1. proc[x] \in Records /\ proc[x].agr \in Agreements
  BY RecordFacts DEF Records, RoundsInv
<1>2. Script[proc[x].agr] \notin TckScripts
  BY <1>1 DEF DefaultBuild
<1>3. ~ConsumerScript(proc[x], s) /\ ~ProviderScript(proc[x], s)
  BY <1>2 DEF TckScripts, ConsumerScripts, ConsumerScript, ProviderScript
<1> QED
  BY <1>3, SideFacts DEF Decides, ProviderDecides

\* A start that was taken stays so while the consumer's token does.
LEMMA TakenKeeps ==
  ASSUME RoundsInv, AllKeep,
         \A c \in CProcs : Exists(c) /\ proc[c].token # NoProc => proc'[c].token = proc[c].token
  PROVE  \A p \in PProcs : Exists(p) /\ Taken(p) => Taken(p)'
<1> SUFFICES ASSUME NEW p \in PProcs, Exists(p), Taken(p) PROVE Taken(p)'
  OBVIOUS
<1>1. PICK c \in CProcs : c = proc[p].peer
  BY RecordFacts, SideFacts DEF RoundsInv
<1>2. /\ Exists(c) /\ proc[c].token = p /\ p # NoProc
      /\ proc'[p].peer = c /\ Exists(c)'
  BY <1>1, SideFacts DEF Taken, AllKeep, Keeps
<1> QED
  BY <1>2 DEF Taken, Exists

LEMMA QuietStart ==
  ASSUME IInv, Quiet
  PROVE  StartInv'
<1>1. RecordInv' /\ ServedInv' /\ MessageInv'
  BY DEF Quiet, IInv, StartInv, RecordInv, ServedInv, MessageInv, Taken, Exists
<1>2. OutcomeInv'
  BY DEF Quiet, IInv, StartInv, OutcomeInv, Taken, Exists
<1> QED
  BY <1>1, <1>2 DEF StartInv

LEMMA AskTransferStart ==
  ASSUME IInv, NEW c \in CProcs, NEW a \in Agreements, AskTransfer(c, a)
  PROVE  StartInv'
<1> USE SideFacts
<1>1. /\ ~Exists(c) /\ UNCHANGED <<phase, result, net>> /\ AllKeep
      /\ proc'[c] = NewConsumer(a) /\ \A x \in Procs : x # c => proc'[x] = proc[x]
  BY AskTransferRounds DEF AskTransfer, IInv, RoundsInv, TypeOK
<1>2. proc'[c].st = "requested" /\ proc'[c].token = NoProc
  BY <1>1, NewFacts
<1>3. \A p \in PProcs : Exists(p)' => Exists(p) /\ proc'[p] = proc[p]
  BY <1>1 DEF Exists
<1>4. \A p \in PProcs : Exists(p) /\ Taken(p) => Taken(p)'
  BY <1>1, TakenKeeps DEF IInv
<1>5. RecordInv' /\ ServedInv'
  BY <1>1, <1>2, <1>3, <1>4 DEF IInv, StartInv, RecordInv, ServedInv, Exists
<1>6. \A x \in Procs : result[x] # Absent => Exists(x)
  BY DEF IInv, RoundsInv, TypeOK, RoundInv
<1>7. OutcomeInv'
  BY <1>1, <1>4, <1>6 DEF IInv, StartInv, OutcomeInv
<1>8. MessageInv'
  <2>1. \A m \in net : m.from \in Procs /\ m.from # c
    BY <1>1, MessageFacts DEF IInv, RoundsInv
  <2> QED
    BY <1>1, <2>1 DEF IInv, StartInv, MessageInv
<1> QED
  BY <1>5, <1>7, <1>8 DEF StartInv

LEMMA DecideStart ==
  ASSUME DefaultBuild, IInv, NEW x \in Procs, NEW s \in States, Decide(x, s)
  PROVE  StartInv'
<1>1. /\ Exists(x) /\ UNCHANGED <<proc, net>> /\ result'[x].st = s /\ ~result'[x].sent
      /\ \A y \in Procs : y # x => result'[y] = result[y]
  BY DecideRounds DEF IInv
<1>2. x \in PProcs /\ s = "started"
  BY <1>1, DefaultDecides DEF Decide, IInv
<1>3. RecordInv' /\ ServedInv' /\ MessageInv'
  BY <1>1 DEF IInv, StartInv, RecordInv, ServedInv, MessageInv, Taken, Exists
<1>4. OutcomeInv'
  BY <1>1, <1>2, SideFacts DEF IInv, StartInv, OutcomeInv, Taken, Exists
<1> QED
  BY <1>3, <1>4 DEF StartInv

\* A consumer posts its request, a provider its start.
LEMMA PostStart ==
  ASSUME IInv, NEW x \in Procs, NEW kind \in Kinds, Post(x, kind)
  PROVE  StartInv'
<1>1. /\ UNCHANGED <<proc, result>> /\ Exists(x) /\ ~proc[x].sent /\ proc[x].st = Reached(kind)
  BY PostRounds DEF Post, Posts, IInv, RoundsInv, TypeOK
<1>2. kind = "request" \/ (kind = "start" /\ x \in PProcs /\ proc[x].st = "started")
  <2>1. CASE x \in CProcs
    BY <1>1, <2>1, ReachedFacts DEF IInv, StartInv, RecordInv, Kinds
  <2>2. CASE x \in PProcs
    BY <1>1, <2>2, ReachedFacts, SideFacts
    DEF IInv, RoundsInv, AskInv, StartInv, RecordInv, Kinds
  <2> QED
    BY <2>1, <2>2 DEF Procs
<1>3. RecordInv' /\ ServedInv' /\ OutcomeInv'
  BY <1>1 DEF IInv, StartInv, RecordInv, ServedInv, OutcomeInv, Taken, Exists
<1>4. MessageInv'
  BY <1>1, <1>2 DEF Post, IInv, StartInv, MessageInv
<1> QED
  BY <1>3, <1>4 DEF StartInv

\* An outcome is saved: it says no less than the record it replaces.
LEMMA SaveStart ==
  ASSUME IInv, NEW x \in Procs, Save(x)
  PROVE  StartInv'
<1> USE SideFacts
<1>1. /\ AllKeep /\ Exists(x) /\ UNCHANGED net /\ result'[x] = Absent
      /\ proc'[x] = IF result[x] = Absent THEN proc[x] ELSE result[x]
      /\ \A y \in Procs : y # x => proc'[y] = proc[y] /\ result'[y] = result[y]
  BY SaveRounds DEF IInv
<1>2. x \in CProcs /\ result[x] # Absent =>
        /\ proc[x].st = "requested" /\ proc[x].token = NoProc
        /\ proc'[x].st = "requested" /\ proc'[x].token = NoProc
  <2> SUFFICES ASSUME x \in CProcs, result[x] # Absent
               PROVE  /\ proc[x].st = "requested" /\ proc[x].token = NoProc
                      /\ proc'[x].st = "requested" /\ proc'[x].token = NoProc
    OBVIOUS
  <2>1. result[x].st = "requested" /\ result[x].token = NoProc /\ proc'[x] = result[x]
    BY <1>1 DEF IInv, StartInv, OutcomeInv
  <2>2. proc[x].st = "requested"
    BY <2>1, DecidesFacts DEF IInv, RoundsInv, RoundInv, OutcomeOf
  <2>3. proc[x].token = NoProc
    BY <1>1, <2>2 DEF IInv, StartInv, RecordInv
  <2> QED
    BY <2>1, <2>2, <2>3
<1>3. x \in PProcs /\ result[x] # Absent =>
        proc'[x].st = "started" /\ (proc'[x].sent => Taken(x))
  BY <1>1 DEF IInv, StartInv, OutcomeInv
<1>4. \A p \in PProcs : Exists(p) /\ Taken(p) => Taken(p)'
  BY <1>1, <1>2, TakenKeeps DEF IInv
<1>5. \A y \in Procs : Exists(y)' => Exists(y)
  BY <1>1 DEF Exists
<1>6. RecordInv' /\ ServedInv'
  <2>1. RecordInv'
    BY <1>1, <1>2, <1>3, <1>5 DEF IInv, StartInv, RecordInv
  <2>2. ServedInv'
    BY <1>1, <1>3, <1>4, <1>5 DEF IInv, StartInv, ServedInv
  <2> QED
    BY <2>1, <2>2
<1>7. OutcomeInv'
  <2>1. \A y \in Procs : result[y] # Absent => Exists(y)
    BY DEF IInv, RoundsInv, TypeOK, RoundInv
  <2> QED
    BY <1>1, <1>4, <2>1 DEF IInv, StartInv, OutcomeInv
<1>8. MessageInv'
  <2>1. \A m \in net : m.from \in Procs
    BY MessageFacts DEF IInv, RoundsInv
  <2> QED
    BY <1>1, <1>3, <2>1 DEF IInv, StartInv, MessageInv
<1> QED
  BY <1>6, <1>7, <1>8 DEF StartInv

LEMMA TransferRequestStart ==
  ASSUME IInv, NEW m \in net, NEW p \in PProcs, TransferRequest(m, p)
  PROVE  StartInv'
<1> USE SideFacts
<1>1. PICK c \in CProcs : c = m.from
  BY TransferRequestRounds DEF IInv
<1>2. /\ AllKeep /\ net' = net \ {m} /\ ~Exists(p) /\ Exists(c) /\ proc[c] \in Records
      /\ proc' = [proc EXCEPT ![p] = NewProvider(c, proc[c].agr)]
      /\ result[p] = Absent
      /\ \A x \in Procs : x # p => proc'[x] = proc[x]
      /\ \A x \in Procs : x # c => result'[x] = result[x]
      /\ result'[c] # Absent => \/ result'[c] = result[c]
                                \/ /\ result'[c].st = "requested" /\ proc[c].st = "requested"
                                   /\ result'[c].token = proc[c].token
  BY <1>1, TransferRequestRounds, RecordFacts DEF IInv, RoundsInv
<1>3. proc'[p].st = "requested"
  <2>1. proc'[p] = NewProvider(c, proc[c].agr) /\ proc[c].agr \in Agreements
    BY <1>2 DEF IInv, RoundsInv, TypeOK, Records
  <2> QED
    BY <2>1, NewFacts
<1>4. \A q \in PProcs : Exists(q) /\ Taken(q) => Taken(q)'
  BY <1>2, TakenKeeps DEF IInv
<1>5. \A x \in Procs : x # p => (Exists(x)' <=> Exists(x))
  BY <1>2 DEF Exists
<1>6. RecordInv' /\ ServedInv'
  BY <1>2, <1>3, <1>4, <1>5 DEF IInv, StartInv, RecordInv, ServedInv
<1>7. OutcomeInv'
  <2>1. \A x \in Procs : result[x] # Absent => Exists(x)
    BY DEF IInv, RoundsInv, TypeOK, RoundInv
  <2>2. proc[c].st = "requested" => proc[c].token = NoProc
    BY <1>2 DEF IInv, StartInv, RecordInv
  <2> QED
    BY <1>2, <1>4, <2>1, <2>2 DEF IInv, StartInv, OutcomeInv
<1>8. MessageInv'
  <2>1. \A k \in net : k.from \in Procs /\ k.from # p
    BY <1>2, MessageFacts DEF IInv, RoundsInv
  <2> QED
    BY <1>2, <2>1 DEF IInv, StartInv, MessageInv
<1> QED
  BY <1>6, <1>7, <1>8 DEF StartInv

\* A start is taken by a consumer that had none: its loop is idle, and no other
\* provider record is served for it.
LEMMA AcceptEventStart ==
  ASSUME IInv, NEW m \in net, AcceptEvent(m)
  PROVE  StartInv'
<1> USE SideFacts
<1>1. PICK p \in PProcs, c \in CProcs : p = m.from /\ c = m.to /\ m.kind = "start"
  <2>1. m.kind = "start" /\ m.from \in PProcs
    BY AcceptEventRounds DEF IInv, StartInv, MessageInv
  <2>2. m.to \in CProcs
    BY <2>1, AcceptEventRounds, MessageFacts DEF IInv, RoundsInv
  <2> QED
    BY <2>1, <2>2
<1>2. /\ AllKeep /\ net' = net \ {m} /\ Exists(p) /\ Exists(c) /\ c = proc[p].peer
      /\ Accepts(proc[c], "start") /\ result[c] = Absent /\ proc'[c] \in Records
      /\ proc'[c].st = "started" /\ proc'[c].sent /\ proc'[c].token = p
      /\ \A x \in Procs : x # c => proc'[x] = proc[x]
      /\ \A x \in Procs : x # p => result'[x] = result[x]
      /\ m.live => result'[p].st = "started"
      /\ ~m.live => result'[p] = result[p]
  BY <1>1, AcceptEventRounds, ReachedFacts DEF IInv
<1>3. proc[c].st = "requested" /\ proc[c].token = NoProc
  BY <1>2 DEF Accepts, IInv, StartInv, RecordInv
<1>4. \A q \in PProcs : Exists(q) /\ Taken(q) => Taken(q)'
  BY <1>2, <1>3, TakenKeeps DEF IInv
<1>5. Taken(p)'
  BY <1>2 DEF Taken, AllKeep, Keeps
<1>6. \A x \in Procs : x # c => (Exists(x)' <=> Exists(x))
  BY <1>2 DEF Exists
<1>7. RecordInv' /\ ServedInv'
  BY <1>2, <1>4, <1>6 DEF IInv, StartInv, RecordInv, ServedInv
<1>8. OutcomeInv'
  <2>1. \A x \in Procs : result[x] # Absent => Exists(x)
    BY DEF IInv, RoundsInv, TypeOK, RoundInv
  <2>2. m.live \in BOOLEAN
    BY MessageFacts DEF IInv, RoundsInv
  <2> QED
    BY <1>2, <1>4, <1>5, <2>1, <2>2 DEF IInv, StartInv, OutcomeInv
<1>9. MessageInv'
  <2>1. \A k \in net : k.from \in Procs /\ (k.kind = "start" => k.from \in PProcs)
    BY MessageFacts DEF IInv, RoundsInv, StartInv, MessageInv
  <2> QED
    BY <1>2, <2>1 DEF IInv, StartInv, MessageInv
<1> QED
  BY <1>7, <1>8, <1>9 DEF StartInv

LEMMA InitInv == Init => IInv
<1> SUFFICES ASSUME Init PROVE StartInv
  BY InitRounds DEF IInv
<1>1. \A x \in Procs : ~Exists(x) /\ result[x] = Absent
  BY DEF Init, Exists
<1> QED
  BY <1>1, SideFacts DEF Init, StartInv, RecordInv, ServedInv, OutcomeInv, MessageInv

\* Every step keeps the invariant.
LEMMA NextInv == DefaultBuild /\ IInv /\ [Next]_vars => IInv'
<1> SUFFICES ASSUME DefaultBuild, IInv, [Next]_vars PROVE StartInv'
  BY NextRounds DEF IInv
<1>1. CASE Quiet
  BY <1>1, QuietStart
<1>2. CASE Stir
  BY <1>2, AskTransferStart, DecideStart, PostStart, SaveStart, TransferRequestStart,
     AcceptEventStart DEF Stir
<1> QED
  BY <1>1, <1>2, StepCases DEF IInv

\* In the default build every reachable state satisfies IInv, for any number of
\* connectors and transfers, and any number of lost requests, lost answers and
\* crashes.
THEOREM TransferInvariance == ASSUME DefaultBuild PROVE Spec => []IInv
<1>1. DefaultBuild
  OBVIOUS
<1> QED
  BY <1>1, InitInv, NextInv, PTL DEF Spec

\* However often a transfer is requested and whatever is lost, the reverse proxy
\* serves no token but the one that the transfer's consumer holds.
THEOREM Served == ASSUME DefaultBuild PROVE Spec => []ServedToHolder
<1>1. IInv => ServedToHolder
  BY DEF IInv, StartInv, ServedInv, Taken, ServedToHolder, Serves
<1> QED
  BY <1>1, TransferInvariance, PTL

\* If no connector asks itself, nothing but two starts of transfers in opposite
\* directions makes two loops wait for each other.
THEOREM WaitOfStarts ==
  ASSUME DefaultBuild, \A c \in CProcs : Provider[c] # Home[c]
  PROVE  Spec => []MutualWaitOfStarts
<1>1. IInv => MutualWaitOfStarts
  <2> SUFFICES ASSUME IInv, NEW m \in net, NEW n \in net, Deadlocked(m, n)
               PROVE  /\ m.kind = "start" /\ n.kind = "start"
                      /\ Home[ConsumerOf(m)] # Home[ConsumerOf(n)]
    BY DEF MutualWaitOfStarts
  <2>1. ASSUME NEW k \in net, k.kind # "request"
        PROVE  /\ k.kind = "start" /\ ConsumerOf(k) = k.to /\ k.to \in CProcs
               /\ Home[k.from] = Provider[k.to]
    <3>1. k.kind = "start" /\ k.from \in PProcs /\ k.from \notin CProcs
      BY <2>1, SideFacts DEF IInv, StartInv, MessageInv
    <3>2. k.to \in CProcs /\ Exists(k.from) /\ proc[k.from].peer = k.to
      BY <2>1, <3>1, MessageFacts DEF IInv, RoundsInv
    <3> QED
      BY <3>1, <3>2 DEF IInv, RoundsInv, PartnerInv, ConsumerOf
  <2>2. /\ m.kind # "request" /\ n.kind # "request"
        /\ Home[m.from] = Home[n.to] /\ Home[n.from] = Home[m.to]
    BY DEF Deadlocked, Dest
  <2> QED
    BY <2>1, <2>2
<1> QED
  BY <1>1, TransferInvariance, PTL

(***************************************************************************)
(* What a contract relies on.                                              *)
(***************************************************************************)

\* A provider record that is new answers a request of its consumer, under an
\* agreement that is finalized.
Answered(p) ==
  /\ proc'[p].peer \in CProcs /\ Exists(proc'[p].peer)
  /\ proc'[p].agr = proc[proc'[p].peer].agr
  /\ proc'[p].agr \in finalized
  /\ Home[p] = Provider[proc'[p].peer]

LEMMA StepKeeps ==
  RoundsInv /\ Work =>
    /\ AllKeep
    /\ \A c \in CProcs : Exists(c)' => Exists(c)
    /\ \A p \in PProcs : ~Exists(p) /\ Exists(p)' => Answered(p)
<1> SUFFICES ASSUME RoundsInv, Work
             PROVE  /\ AllKeep
                    /\ \A c \in CProcs : Exists(c)' => Exists(c)
                    /\ \A p \in PProcs : ~Exists(p) /\ Exists(p)' => Answered(p)
  OBVIOUS
<1> DEFINE Goal == /\ AllKeep
                   /\ \A c \in CProcs : Exists(c)' => Exists(c)
                   /\ \A p \in PProcs : ~Exists(p) /\ Exists(p)' => Answered(p)
<1> USE SideFacts
<1>1. ASSUME UNCHANGED proc PROVE Goal
  BY <1>1 DEF AllKeep, Keeps, Exists
<1>2. ASSUME NEW x \in Procs, Save(x) PROVE Goal
  BY <1>2, SaveRounds DEF Exists
<1>3. ASSUME NEW m \in net, NEW p \in PProcs, TransferRequest(m, p) PROVE Goal
  <2>1. PICK c \in CProcs : c = m.from
    BY <1>3, TransferRequestRounds
  <2>2. /\ AllKeep /\ Exists(c) /\ proc[c] \in Records /\ proc[c].agr \in finalized
        /\ proc' = [proc EXCEPT ![p] = NewProvider(c, proc[c].agr)]
        /\ \A y \in Procs : y # p => proc'[y] = proc[y]
    BY <1>3, <2>1, TransferRequestRounds, RecordFacts DEF RoundsInv
  <2>3. proc'[p].peer = c /\ proc'[p].agr = proc[c].agr
    <3>1. proc'[p] = NewProvider(c, proc[c].agr) /\ proc[c].agr \in Agreements
      BY <2>2 DEF RoundsInv, TypeOK, Records
    <3> QED
      BY <3>1, NewFacts
  <2>4. Home[p] = Provider[c]
    BY <1>3, <2>1 DEF TransferRequest, Dest
  <2>5. Answered(p)
    BY <2>2, <2>3, <2>4 DEF Answered
  <2> QED
    BY <2>2, <2>5 DEF Exists
<1>4. ASSUME NEW m \in net, AcceptEvent(m) PROVE Goal
  BY <1>4, AcceptEventRounds DEF Exists
<1>5. \/ \E x \in Procs : Save(x)
      \/ \E m \in net : AcceptEvent(m) \/ \E p \in PProcs : TransferRequest(m, p)
      \/ UNCHANGED proc
  BY DEF Work, Loop, Deliver, Fault, StartTick, Decide, Post, PostNowhere,
         RefuseRequest, RejectEvent, LoseRequest, LoseAnswer, Crash
<1> QED
  BY <1>1, <1>2, <1>3, <1>4, <1>5
=============================================================================
