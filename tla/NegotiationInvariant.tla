------------------------ MODULE NegotiationInvariant ------------------------
(***************************************************************************)
(* The inductive invariants behind the safety of NegotiationProtocol:      *)
(* ScriptsInv, whatever the scripts, and IInv for datasets no TCK script   *)
(* is about (the default build).                                           *)
(***************************************************************************)
EXTENDS NegotiationProtocol

Signed == {"agreed", "verified", "finalized"}

(***************************************************************************)
(* Whatever the scripts.                                                   *)
(***************************************************************************)

\* A message its sender waits for is the only one, and is what the sender's
\* record, unchanged since, has to post.
WaitInv ==
  /\ \A m \in net : m.live => phase[m.from] = "posting" /\ Posts(m.from, m.kind)
  /\ \A m, n \in net : m.live /\ n.live /\ m.from = n.from => m = n

\* A provider record is where its consumer asked; the record that a consumer
\* was told of is one of its own.
IsPartner(p, c) == p \in PPids /\ Exists(p) /\ neg[p].peer = c

PartnerInv ==
  /\ \A p \in PPids : Exists(p) =>
       Exists(neg[p].peer) /\ Home[p] = Provider[neg[p].peer]
  /\ \A c \in CPids : Exists(c) /\ neg[c].peer # NoPid => IsPartner(neg[c].peer, c)
  /\ \A m \in net : m.kind # "request" => m.to = neg[m.from].peer

\* Until it was told of one, a consumer can only have signed an agreement or
\* have been terminated.
KnowsInv ==
  \A c \in CPids : Exists(c) /\ neg[c].peer = NoPid =>
    \/ neg[c].st = "requested" /\ ~neg[c].sent
    \/ neg[c].st \in {"terminated"} \cup Signed

\* An outcome comes from the record as it still is: a decision, or the record
\* acknowledged.
OutcomeOf(x, r) ==
  /\ \/ r.peer = neg[x].peer
     \/ /\ x \in CPids /\ neg[x].st = "requested" /\ neg[x].peer = NoPid
        /\ IsPartner(r.peer, x)
  /\ r.st = "requested" => r.peer # NoPid
  /\ IF r.sent
     THEN r.agr = neg[x].agr /\ \E kind \in Kinds : Posts(x, kind) /\ r.st = Reached(kind)
     ELSE Decides(x, r.st)

RoundInv ==
  \A x \in Pids : result[x] # Absent => phase[x] = "done" /\ OutcomeOf(x, result[x])

RoundsInv == TypeOK /\ WaitInv /\ PartnerInv /\ KnowsInv /\ RoundInv

\* Which side a message is from, and what of it still holds when it arrives,
\* however late.
Says(m) ==
  /\ m.kind \in {"request", "counter", "accepted", "verification"} => m.from \in CPids
  /\ m.kind \in {"offer", "agreement", "finalized"} => m.from \in PPids
  /\ m.kind = "accepted" => neg[m.from].st \in {"accepted", "terminated"} \cup Signed
  /\ m.kind = "termination" => neg[m.from].st = "terminated"
  /\ m.kind = "agreement" =>
       \/ neg[m.from].st \in Signed /\ m.agr = neg[m.from].agr
       \/ /\ neg[m.from].st = "terminated"
          /\ neg[m.to].st = "terminated" \/ Target[m.to] = "ACN0207"

SaidInv == \A m \in net : Says(m)

\* A provider that does not agree at once has its consumer's acceptance.
BoundInv ==
  \A p \in PPids : Exists(p) /\ neg[p].st \in {"accepted"} \cup Signed =>
    \/ Target[neg[p].peer] \in AgreesAtOnce
    \/ /\ neg[neg[p].peer].peer = p
       /\ neg[neg[p].peer].st \in {"accepted", "terminated"} \cup Signed

\* A consumer that holds an agreement holds that of its provider record.
SharedInv ==
  \A c \in CPids : Exists(c) /\ neg[c].st \in Signed =>
    \/ /\ neg[c].peer # NoPid /\ neg[neg[c].peer].st \in Signed
       /\ neg[neg[c].peer].agr = neg[c].agr
    \/ Target[c] = "ACN0207" /\ PeerIs(c, "terminated")
    \/ Target[c] \in AgreesAtOnce /\ faults > 0

\* A record that still has to tell what the counterpart's record shows it was
\* told has the answer already.  A consumer that has not asked, or not asked
\* again, is answered, or will be by a provider that has offered.
Turn(p, c) ==
  /\ neg[c].st = "requested" /\ ~neg[c].sent =>
       \/ result[c] # Absent
       \/ /\ neg[c].peer # NoPid
          /\ \/ neg[p].st = "offered" /\ (neg[p].sent \/ result[p] # Absent)
             \/ neg[p].st = "terminated"
  /\ neg[p].st = "requested" => neg[c].st \in {"requested", "terminated"}
  /\ neg[c].st = "offered" => neg[p].st \in {"offered", "terminated"}
  /\ neg[p].st = "offered" /\ ~neg[p].sent /\ neg[c].st \in {"offered", "accepted"}
     => result[p] # Absent
  /\ neg[c].st = "accepted" /\ ~neg[c].sent /\ neg[p].st \in {"accepted"} \cup Signed
     => result[c] # Absent
  /\ neg[p].st = "agreed" /\ ~neg[p].sent /\ neg[c].st \in Signed
     => result[p] # Absent
  /\ neg[c].st = "agreed" /\ neg[p].st \in {"verified", "finalized"}
     => result[c] # Absent

\* Without faults a request is answered once, and every sender still waits.
Turns ==
  /\ \A m \in net : m.live
  /\ \A p, q \in PPids, c \in CPids : IsPartner(p, c) /\ IsPartner(q, c) => p = q
  /\ \A p \in PPids, c \in CPids : IsPartner(p, c) => Turn(p, c)

TurnInv == faults = 0 => Turns

ScriptsInv == RoundsInv /\ SaidInv /\ BoundInv /\ SharedInv /\ TurnInv

(***************************************************************************)
(* The default build.                                                      *)
(***************************************************************************)

TckScripts ==
  AgreesAtOnce \cup {"ACN0201", "ACN0205", "ACN0206",
                     "ACNC0102", "ACNC0103", "ACNC0202", "ACNC0203", "ACNC0204"}

DefaultBuild == \A c \in CPids : Target[c] \notin TckScripts

\* An outcome comes from the record as it still is; an acknowledged request,
\* verification or finalization has taken effect at the counterpart.
ConsumerOutcome(c, n, r) ==
  \/ /\ n.st = "requested" /\ ~n.sent /\ r.st = "requested" /\ r.sent
     /\ r.peer \in PPids /\ Exists(r.peer) /\ neg[r.peer].peer = c
  \/ n.st = "offered" /\ r.st = "accepted" /\ r.peer = n.peer
  \/ n.st = "accepted" /\ r.st = "accepted" /\ r.sent /\ r.peer = n.peer
  \/ /\ n.st = "agreed" /\ r.st = "verified" /\ r.peer = n.peer
     /\ r.agr = n.agr /\ neg[n.peer].st \in {"verified", "finalized"}

ProviderOutcome(p, n, r) ==
  /\ r.peer = n.peer
  /\ \/ n.st = "requested" /\ r.st \in {"offered", "terminated"}
     \/ n.st = "accepted" /\ r.st = "agreed" /\ r.agr \in Agreements /\ r.agr.by = p
     \/ /\ n.st \in {"offered", "agreed", "terminated"}
        /\ r.st = n.st /\ r.sent /\ r.agr = n.agr
     \/ /\ n.st = "verified" /\ r.st = "finalized"
        /\ r.agr = n.agr /\ neg[n.peer].st = "finalized"

OutcomeInv ==
  \A x \in Pids : result[x] # Absent =>
    /\ phase[x] = "done"
    /\ x \in CPids => ConsumerOutcome(x, neg[x], result[x])
    /\ x \in PPids => ProviderOutcome(x, neg[x], result[x])

\* A consumer knows its provider record from the answer to its request on, asks
\* once, and never terminates by itself.
ConsumerInv ==
  \A c \in CPids : Exists(c) =>
    /\ neg[c].st \in {"requested", "terminated"} \/ neg[c].peer # NoPid
    /\ neg[c].st = "requested" => (neg[c].sent <=> neg[c].peer # NoPid)
    /\ neg[c].st = "terminated" => neg[c].sent
    /\ neg[c].peer # NoPid => Exists(neg[c].peer) /\ neg[neg[c].peer].peer = c

\* What a message says still holds when it arrives, however late.
MessageInv ==
  \A m \in net :
    /\ m.kind \in {"request", "accepted", "verification"} <=> m.from \in CPids
    /\ m.kind # "counter"
    /\ m.kind # "request" => m.to = neg[m.from].peer
    /\ m.kind = "accepted" =>
         neg[m.from].st \in {"accepted", "terminated"} \cup Signed
    /\ m.kind = "verification" =>
         neg[m.from].st \in {"terminated"} \cup Signed /\ neg[m.to].st \in Signed
    /\ m.kind = "agreement" => neg[m.from].st \in Signed /\ m.agr = neg[m.from].agr
    /\ m.kind = "finalized" => neg[m.from].st \in {"verified", "finalized"}

\* A provider record past the offer is the one its consumer accepted.
ProviderInv ==
  \A p \in PPids : Exists(p) =>
    LET c == neg[p].peer
    IN  /\ Exists(c)
        /\ neg[p].st \in {"accepted"} \cup Signed =>
             /\ neg[c].peer = p
             /\ neg[c].st \in {"accepted", "terminated"} \cup Signed
        /\ neg[p].st \in Signed => neg[p].agr \in Agreements /\ neg[p].agr.by = p
        /\ neg[p].st = "finalized" => neg[c].st = "finalized"

\* A consumer that holds an agreement holds that of its provider record, which
\* is never behind.
AgreementInv ==
  \A c \in CPids : Exists(c) /\ neg[c].st \in Signed =>
    LET p == neg[c].peer
    IN  /\ neg[p].st \in Signed
        /\ neg[p].agr = neg[c].agr
        /\ neg[c].st \in {"verified", "finalized"} =>
             neg[p].st \in {"verified", "finalized"}

IInv ==
  /\ TypeOK
  /\ WaitInv
  /\ OutcomeInv
  /\ ConsumerInv
  /\ MessageInv
  /\ ProviderInv
  /\ AgreementInv
=============================================================================
