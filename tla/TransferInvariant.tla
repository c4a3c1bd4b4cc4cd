------------------------- MODULE TransferInvariant -------------------------
(***************************************************************************)
(* The inductive invariants behind the safety of TransferProtocol:         *)
(* RoundsInv and, while there is no fault, TurnInv, whatever the scripts;  *)
(* and IInv for agreements no TCK script is about (the default build):     *)
(* such transfers are requested and started, and nothing ends them.        *)
(***************************************************************************)
EXTENDS TransferProtocol

(***************************************************************************)
(* Whatever the scripts.                                                   *)
(***************************************************************************)

\* A request that waits for its answer does not know whom it asks, and once
\* answered it is not asked again.
AskInv ==
  \A x \in Procs :
    /\ Exists(x) /\ proc[x].st = "requested" /\ ~proc[x].sent =>
         x \in CProcs /\ proc[x].peer = NoProc
    /\ result[x] # Absent /\ result[x].st = "requested" => result[x].sent

\* A provider record is about its consumer's agreement, where its consumer
\* asked; the record that a consumer was told of is one of its own.
IsPartner(p, c) == p \in PProcs /\ Exists(p) /\ proc[p].peer = c

PartnerInv ==
  /\ \A p \in PProcs : Exists(p) =>
       /\ Exists(proc[p].peer)
       /\ proc[p].agr = proc[proc[p].peer].agr
       /\ Home[p] = Provider[proc[p].peer]
  /\ \A c \in CProcs : Exists(c) /\ proc[c].peer # NoProc => IsPartner(proc[c].peer, c)
  /\ \A m \in net : m.kind # "request" => m.to = proc[m.from].peer

\* An outcome comes from the record as it still is: a decision, or the record
\* acknowledged.
OutcomeOf(x, r) ==
  /\ r.agr = proc[x].agr
  /\ \/ r.peer = proc[x].peer
     \/ x \in CProcs /\ proc[x].st = "requested" /\ ~proc[x].sent /\ IsPartner(r.peer, x)
  /\ IF r.sent THEN r.st = proc[x].st /\ ~proc[x].sent
     ELSE Decides(x, r.st)

RoundInv == \A x \in Procs : result[x] # Absent => phase[x] = "done" /\ OutcomeOf(x, result[x])

\* A message its sender waits for is the only one, and is what the sender's
\* record, unchanged since, has to post.
WaitInv ==
  /\ \A m \in net : m.live => phase[m.from] = "posting" /\ Posts(proc[m.from], m.kind)
  /\ \A m, n \in net : m.live /\ n.live /\ m.from = n.from => m = n

RoundsInv == TypeOK /\ AskInv /\ PartnerInv /\ RoundInv /\ WaitInv

\* What a consumer has to tell, but its request, a script of its side has
\* decided; under such a script a provider has but its start to tell.
ConsumerScripts == {"ATPC0201", "ATPC0202", "ATPC0203", "ATPC0204", "ATPC0205"}

ByConsumer(x) == Script[proc[x].agr] \in ConsumerScripts

ScriptInv ==
  \A x \in Procs : Exists(x) /\ ~proc[x].sent =>
    /\ x \in CProcs => proc[x].st = "requested" \/ ByConsumer(x)
    /\ x \in PProcs => proc[x].st = "started" \/ ~ByConsumer(x)

Ended == {"suspended", "completed", "terminated"}

\* A start its consumer must have taken is one the provider serves, or has the
\* answer to; a consumer that ends what is served has not told yet; and what it
\* has told is over.
Turn(p, c) ==
  /\ proc[c].st = "requested" /\ ~proc[c].sent => result[c] # Absent
  /\ proc[p].st = "requested" => proc[c].st \in {"requested", "terminated"}
  /\ ByConsumer(p) /\ proc[p].st = "started" /\ ~proc[p].sent
       /\ proc[c].st \notin {"requested", "terminated"}
     => result[p] # Absent
  /\ Serves(p) \/ (result[p] # Absent /\ result[p].st = "started" /\ result[p].sent)
     => proc[c].st = "started" \/ (proc[c].st \in Ended /\ ~proc[c].sent)
  /\ result[c] # Absent /\ result[c].st \in Ended /\ result[c].sent
     => proc[p].st \in Ended

\* Without faults a request is answered once, and every sender still waits.
Turns ==
  /\ \A m \in net : m.live
  /\ \A p, q \in PProcs, c \in CProcs : IsPartner(p, c) /\ IsPartner(q, c) => p = q
  /\ \A p \in PProcs, c \in CProcs : IsPartner(p, c) => Turn(p, c)

TurnInv == faults = 0 => Turns

(***************************************************************************)
(* The default build.                                                      *)
(***************************************************************************)

TckScripts ==
  {"ATP0101", "ATP0102", "ATP0103", "ATP0104", "ATP0105"} \cup ConsumerScripts \cup NeverStarted

DefaultBuild == \A a \in Agreements : Script[a] \notin TckScripts

\* A consumer has a token once it has started, and nothing to tell then.
RecordInv ==
  /\ \A c \in CProcs : Exists(c) =>
       \/ proc[c].st = "requested" /\ proc[c].token = NoProc
       \/ proc[c].st = "started" /\ proc[c].sent /\ proc[c].token \in PProcs
  /\ \A p \in PProcs : Exists(p) => proc[p].st \in {"requested", "started"}

\* The consumer of provider record p has taken its start.
Taken(p) == Exists(proc[p].peer) /\ proc[proc[p].peer].token = p

ServedInv ==
  \A p \in PProcs : Exists(p) /\ proc[p].st = "started" /\ proc[p].sent => Taken(p)

\* A consumer is told its request was answered, a provider starts; a start that
\* was acknowledged has been taken.
OutcomeInv ==
  \A x \in Procs : result[x] # Absent =>
    /\ x \in CProcs => result[x].st = "requested" /\ result[x].token = NoProc
    /\ x \in PProcs => result[x].st = "started" /\ (result[x].sent => Taken(x))

\* Only requests and starts are sent, a start by a started provider record.
MessageInv ==
  \A m \in net :
    m.kind # "request" =>
      m.kind = "start" /\ m.from \in PProcs /\ proc[m.from].st = "started"

StartInv == RecordInv /\ ServedInv /\ OutcomeInv /\ MessageInv

IInv == RoundsInv /\ StartInv
=============================================================================
