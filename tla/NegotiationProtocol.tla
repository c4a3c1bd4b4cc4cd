------------------------ MODULE NegotiationProtocol ------------------------
(***************************************************************************)
(* Connectors that negotiate contracts.  Each connector runs one loop:     *)
(* it either takes an event from its channel, or, once a second, ticks all *)
(* its pending records concurrently and waits for all of them before it    *)
(* saves the outcomes and looks at its channel again.  A tick that posts a *)
(* message waits for the HTTP answer with no timeout, and every message    *)
(* but the initial request is answered by the counterpart's loop.          *)
(*                                                                         *)
(* The store is atomic here (FileStore has what a save really does).  What *)
(* a crash loses: the loop's progress, and the events in the channel.      *)
(***************************************************************************)
EXTENDS Negotiation, FiniteSets

CONSTANTS
  Connectors,   \* the running connectors
  Home,         \* Home[x]: the connector that keeps record x
  Provider,     \* Provider[c]: the connector consumer record c asks
  Target,       \* Target[c]: the dataset c negotiates about
  MaxFaults     \* bound: lost requests, lost answers and crashes

ASSUME ProtocolAssumption ==
  /\ Home \in [Pids -> Connectors]
  /\ Provider \in [CPids -> Connectors]
  /\ Target \in [CPids -> Targets]
  /\ MaxFaults \in Nat

VARIABLES
  neg,      \* neg[x]: the saved record, or Absent
  phase,    \* phase[x]: where the loop is with record x in this round
  result,   \* result[x]: the record to save when the round ends, or Absent
  net,      \* messages sent and not yet handled
  minted,   \* number of agreement uuids drawn so far
  faults    \* number of faults so far

vars == <<neg, phase, result, net, minted, faults>>

Phases == {"idle", "due", "posting", "done"}

\* `to` is NoPid in an initial request; `live`: the sender still waits.
Messages == [kind : Kinds, from : Pids, to : Pids \cup {NoPid},
             agr : Agreements \cup {NoAgr}, live : BOOLEAN]

Exists(x) == neg[x] # Absent

Busy(k) == \E x \in Pids : Home[x] = k /\ phase[x] # "idle"

TargetOf(x) == IF x \in CPids THEN Target[x] ELSE Target[neg[x].peer]

Decides(x, s) ==
  IF x \in CPids THEN ConsumerDecides(TargetOf(x), neg[x], s)
                 ELSE ProviderDecides(TargetOf(x), neg[x], s)

Posts(x, kind) ==
  IF x \in CPids THEN ConsumerPosts(TargetOf(x), neg[x], kind)
                 ELSE ProviderPosts(TargetOf(x), neg[x], kind)

\* A pending record whose tick does something (the others tick to None).
HasWork(x) ==
  /\ Exists(x)
  /\ (\E s \in States : Decides(x, s)) \/ (\E kind \in Kinds : Posts(x, kind))

Init ==
  /\ neg = [x \in Pids |-> Absent]
  /\ phase = [x \in Pids |-> "idle"]
  /\ result = [x \in Pids |-> Absent]
  /\ net = {}
  /\ minted = 0
  /\ faults = 0

(***************************************************************************)
(* The user's API task saves a new record; the loop finds it by polling.   *)
(***************************************************************************)
Negotiate(c) ==
  /\ ~Exists(c)
  /\ neg' = [neg EXCEPT ![c] = NewConsumer]
  /\ UNCHANGED <<phase, result, net, minted, faults>>

(***************************************************************************)
(* The loop's tick.                                                        *)
(***************************************************************************)
StartTick(k) ==
  /\ ~Busy(k)
  /\ \E x \in Pids : Home[x] = k /\ HasWork(x)
  /\ phase' = [x \in Pids |-> IF Home[x] = k /\ HasWork(x) THEN "due" ELSE phase[x]]
  /\ UNCHANGED <<neg, result, net, minted, faults>>

Fresh(x) == [by |-> x, no |-> minted + 1]

Decide(x, s) ==
  /\ phase[x] = "due"
  /\ Decides(x, s)
  /\ phase' = [phase EXCEPT ![x] = "done"]
  /\ IF s = "agreed"
     THEN /\ minted < MaxMinted
          /\ minted' = minted + 1
          /\ result' = [result EXCEPT ![x] = Decided(neg[x], s, Fresh(x))]
     ELSE /\ result' = [result EXCEPT ![x] = Decided(neg[x], s, NoAgr)]
          /\ UNCHANGED minted
  /\ UNCHANGED <<neg, net, faults>>

Post(x, kind) ==
  /\ phase[x] = "due"
  /\ Posts(x, kind)
  /\ kind # "request" => neg[x].peer # NoPid
  /\ phase' = [phase EXCEPT ![x] = "posting"]
  /\ net' = net \cup {[kind |-> kind, from |-> x, to |-> neg[x].peer,
                       agr  |-> IF kind = "agreement" THEN neg[x].agr ELSE NoAgr,
                       live |-> TRUE]}
  /\ UNCHANGED <<neg, result, minted, faults>>

\* A message to an empty provider_pid matches no route: 404.
PostNowhere(x, kind) ==
  /\ phase[x] = "due"
  /\ Posts(x, kind)
  /\ kind # "request"
  /\ neg[x].peer = NoPid
  /\ phase' = [phase EXCEPT ![x] = "done"]
  /\ UNCHANGED <<neg, result, net, minted, faults>>

\* Saving begins when every tick of the round has ended; a failed one (no
\* result) leaves its record as it was.
Save(x) ==
  /\ phase[x] = "done"
  /\ \A y \in Pids : Home[y] = Home[x] => phase[y] \in {"idle", "done"}
  /\ neg' = [neg EXCEPT ![x] = IF result[x] = Absent THEN @ ELSE result[x]]
  /\ phase' = [phase EXCEPT ![x] = "idle"]
  /\ result' = [result EXCEPT ![x] = Absent]
  /\ UNCHANGED <<net, minted, faults>>

(***************************************************************************)
(* Messages.  An answer ends the sender's wait, if it still waits.         *)
(***************************************************************************)
Dest(m) == IF m.kind = "request" THEN Provider[m.from] ELSE Home[m.to]

Answer(m, outcome) ==
  /\ net' = net \ {m}
  /\ IF m.live
     THEN /\ phase' = [phase EXCEPT ![m.from] = "done"]
          /\ result' = [result EXCEPT ![m.from] = outcome]
     ELSE UNCHANGED <<phase, result>>

\* The HTTP task saves the new record itself: the loop is not involved, and
\* nothing looks whether this consumer already has a negotiation.
ContractRequest(m, p) ==
  /\ m.kind = "request"
  /\ ~Exists(p)
  /\ Home[p] = Dest(m)
  /\ neg' = [neg EXCEPT ![p] = NewProvider(m.from)]
  /\ Answer(m, Acknowledged(neg[m.from], m.kind, p))
  /\ UNCHANGED <<minted, faults>>

Accepts(m) ==
  IF m.to \in CPids
  THEN ConsumerAccepts(neg[m.to], m.kind,
                       m.agr # NoAgr => Home[m.agr.by] = Home[m.from])
  ELSE ProviderAccepts(neg[m.to], m.kind, Home[neg[m.to].peer] = Home[m.from])

\* Mutant: events are handled while the loop's tick goes on.
AcceptEventAnytime(m) ==
  /\ m.kind # "request"
  /\ Exists(m.to)
  /\ Accepts(m)
  /\ neg' = [neg EXCEPT ![m.to] = Accepted(@, m.kind, m.agr)]
  /\ Answer(m, Acknowledged(neg[m.from], m.kind, m.to))
  /\ UNCHANGED <<minted, faults>>

\* The loop takes an event from the channel: a 2xx answer if the record
\* accepts it and is saved, an error answer and no change otherwise.
AcceptEvent(m) ==
  /\ m.kind # "request"
  /\ ~Busy(Dest(m))
  /\ Exists(m.to)
  /\ Accepts(m)
  /\ neg' = [neg EXCEPT ![m.to] = Accepted(@, m.kind, m.agr)]
  /\ Answer(m, Acknowledged(neg[m.from], m.kind, m.to))
  /\ UNCHANGED <<minted, faults>>

\* Mutant: the sender does not look at the status of the answer.
RejectEventUnseen(m) ==
  /\ m.kind # "request"
  /\ ~Busy(Dest(m))
  /\ Exists(m.to) => ~Accepts(m)
  /\ Answer(m, Acknowledged(neg[m.from], m.kind, m.to))
  /\ UNCHANGED <<neg, minted, faults>>

RejectEvent(m) ==
  /\ m.kind # "request"
  /\ ~Busy(Dest(m))
  /\ Exists(m.to) => ~Accepts(m)
  /\ Answer(m, Absent)
  /\ UNCHANGED <<neg, minted, faults>>

(***************************************************************************)
(* Faults.                                                                 *)
(***************************************************************************)
\* The request is not delivered; the sender's tick ends with an error.
LoseRequest(m) ==
  /\ faults < MaxFaults
  /\ faults' = faults + 1
  /\ Answer(m, Absent)
  /\ UNCHANGED <<neg, minted>>

\* The sender's tick ends with an error although the message was delivered:
\* it is handled later, and its answer goes nowhere.
LoseAnswer(m) ==
  /\ faults < MaxFaults
  /\ faults' = faults + 1
  /\ m.live
  /\ net' = (net \ {m}) \cup {[m EXCEPT !.live = FALSE]}
  /\ phase' = [phase EXCEPT ![m.from] = "done"]
  /\ UNCHANGED <<neg, result, minted>>

\* Connector k loses its round and its channel; what waited for k gets an error.
Restart(k) ==
  /\ phase' = [x \in Pids |->
                 IF Home[x] = k THEN "idle"
                 ELSE IF \E m \in net : m.live /\ m.from = x /\ Dest(m) = k THEN "done"
                 ELSE phase[x]]
  /\ result' = [x \in Pids |-> IF Home[x] = k THEN Absent ELSE result[x]]
  /\ net' = {[m EXCEPT !.live = @ /\ Home[m.from] # k] : m \in {n \in net : Dest(n) # k}}

\* Connector k stops, between two saves, and starts again with its store.
Crash(k) ==
  /\ faults < MaxFaults
  /\ faults' = faults + 1
  /\ Busy(k) \/ \E m \in net : Dest(m) = k
  /\ Restart(k)
  /\ UNCHANGED <<neg, minted>>

-----------------------------------------------------------------------------
Loop(k) ==
  \/ StartTick(k)
  \/ \E x \in Pids : /\ Home[x] = k
                     /\ \/ \E s \in States : Decide(x, s)
                        \/ \E kind \in Kinds : Post(x, kind) \/ PostNowhere(x, kind)
                        \/ Save(x)

Deliver(m) ==
  \/ \E p \in PPids : ContractRequest(m, p)
  \/ AcceptEvent(m)
  \/ RejectEvent(m)

Fault ==
  \/ \E m \in net : LoseRequest(m) \/ LoseAnswer(m)
  \/ \E k \in Connectors : Crash(k)

Next ==
  \/ \E c \in CPids : Negotiate(c)
  \/ \E k \in Connectors : Loop(k)
  \/ \E m \in net : Deliver(m)
  \/ Fault

Spec == Init /\ [][Next]_vars

(***************************************************************************)
(* Fairness: a runtime task that can run runs; select! picks at random     *)
(* among its ready branches, so an event that is ready again and again is  *)
(* taken; nothing is assumed of users and of faults.                       *)
(***************************************************************************)
Fairness ==
  /\ \A k \in Connectors : WF_vars(Loop(k))
  /\ \A x \in Pids : SF_vars(\E m \in net : m.from = x /\ Deliver(m))

FairSpec == Spec /\ Fairness

-----------------------------------------------------------------------------
(***************************************************************************)
(* Properties.                                                             *)
(***************************************************************************)

\* Every record, outcome and message is well formed: a consumer's counterpart
\* is a provider record (or still unknown), a provider's is the consumer that
\* asked, only an initial request goes out without a counterpart, and the loop
\* works on, and messages come from, records that exist.
TypeOK ==
  /\ neg \in [Pids -> Records \cup {Absent}]
  /\ phase \in [Pids -> Phases]
  /\ result \in [Pids -> Records \cup {Absent}]
  /\ net \subseteq Messages
  /\ minted \in 0..MaxMinted
  /\ faults \in 0..MaxFaults
  /\ \A x \in Pids : /\ Exists(x) => neg[x].peer \in Peers(x)
                     /\ result[x] # Absent => result[x].peer \in Peers(x)
                     /\ phase[x] # "idle" => Exists(x)
  /\ \A m \in net : /\ Exists(m.from)
                    /\ m.to \in Peers(m.from)
                    /\ m.kind = "request" <=> m.to = NoPid

\* The records the provider side keeps for consumer record c.
Answers(c) == {p \in PPids : Exists(p) /\ neg[p].peer = c}

\* A consumer that holds an agreement knows the provider record that issued it,
\* and that record still holds the very same agreement: whatever is lost,
\* repeated or interrupted, the two sides never hold different agreements.
\* (consumer.rs handle_event takes an agreement without comparing it with
\* anything it knows, so this rests on the provider alone.)
AgreementShared ==
  \A c \in CPids : Exists(c) /\ HoldsAgreement(neg[c]) =>
    LET p == neg[c].peer
    IN  /\ p \in Answers(c)
        /\ HoldsAgreement(neg[p])
        /\ neg[p].agr = neg[c].agr
        /\ neg[p].agr.by = p

\* The provider record that consumer c knows is in state st.
PeerIs(c, st) == neg[c].peer # NoPid /\ neg[neg[c].peer].st = st

\* With scripts that agree to a request at once, or terminate after agreeing, a
\* consumer that holds an agreement still has the one its provider issued,
\* unless the provider's script withdrew it, or the consumer took the agreement
\* before it learnt who its provider is, which takes a lost answer: that
\* consumer posts its verification to an empty provider id ever after.
AgreementSharedOrWithdrawn ==
  \A c \in CPids : Exists(c) /\ HoldsAgreement(neg[c]) =>
    \/ neg[c].peer \in Answers(c) /\ neg[neg[c].peer].agr = neg[c].agr
    \/ Target[c] = "ACN0207" /\ PeerIs(c, "terminated")
    \/ Target[c] \in AgreesAtOnce /\ faults > 0

\* A consumer that knows its provider record stays with it: a counter-request
\* goes on with the same negotiation and never opens another.
PeerFixed ==
  [][\A c \in CPids :
       Exists(c) /\ neg[c].peer # NoPid => neg'[c].peer = neg[c].peer]_vars

\* Once the provider's record is finalized, a transfer of its agreement can be
\* requested: the consumer has then finalized the same agreement with it.
FinalizedTogether ==
  \A p \in PPids : Exists(p) /\ neg[p].st = "finalized" =>
    LET c == neg[p].peer
    IN  /\ neg[c].st = "finalized"
        /\ neg[c].peer = p
        /\ neg[c].agr = neg[p].agr

\* A consumer's request that was answered twice (its answer was lost, so it was
\* sent again) leaves two provider records, but only one ever issues an
\* agreement.
OneAgreementEach ==
  \A p, q \in PPids :
    /\ Exists(p) /\ HoldsAgreement(neg[p])
    /\ Exists(q) /\ HoldsAgreement(neg[q])
    /\ neg[p].peer = neg[q].peer
    => p = q

Rank(st) ==
  CASE st = "requested" -> 1 [] st = "offered" -> 2 [] st = "accepted" -> 3
    [] st = "agreed" -> 4 [] st = "verified" -> 5 [] st = "finalized" -> 6
    [] st = "terminated" -> 7

Forward(r, s) ==
  Rank(r.st) < Rank(s.st) \/ (Rank(r.st) = Rank(s.st) /\ (r.sent => s.sent))

\* A saved record never vanishes and never goes back, in state or in having
\* told the counterpart.  The outcome of a tick is computed from a copy of the
\* record and saved much later: an event handled in between would be undone.
NoRegress ==
  [][\A x \in Pids : Exists(x) => neg'[x] # Absent /\ Forward(neg[x], neg'[x])]_vars

\* Two connectors whose loops wait for each other's answer: m is answered by
\* the loop that waits for n, and n by the loop that waits for m.
Deadlocked(m, n) ==
  /\ m.live /\ m.kind # "request" /\ n.live /\ n.kind # "request"
  /\ Home[m.from] = Dest(n) /\ Home[n.from] = Dest(m)

ConsumerOf(m) == IF m.from \in CPids THEN m.from ELSE m.to

\* The HTTP client has no timeout, so two loops that wait for each other's
\* answers wait until a restart.  Within one negotiation the protocol's turns
\* prevent it; it takes a message sent again after a fault, a termination,
\* which needs no turn, or a second negotiation between the two connectors.
MutualWaitHasCause ==
  \A m, n \in net : Deadlocked(m, n) =>
    \/ faults > 0
    \/ ConsumerOf(m) # ConsumerOf(n)
    \/ "termination" \in {m.kind, n.kind}

MutualWait == \E m, n \in net : Deadlocked(m, n)

\* How a negotiation can end, and the shapes it is left in for good when an
\* answer was lost: the provider does not take a second verification, the
\* consumer does not take a second finalization, and a consumer is terminated
\* by a provider record it does not know of.
Settled(c) == neg[c].st \in {"finalized", "terminated"} /\ PeerIs(c, neg[c].st)

LostVerification(c) == neg[c].st = "agreed" /\ PeerIs(c, "verified")

LostFinalization(c) == neg[c].st = "finalized" /\ PeerIs(c, "verified")

TerminatedByOrphan(c) ==
  /\ neg[c].st = "terminated"
  /\ \E p \in Answers(c) : p # neg[c].peer /\ neg[p].st = "terminated"

\* Every negotiation started settles in the same state on both sides; if there
\* was a fault it may instead be left in one of the three shapes above or with
\* the loops waiting for each other.
EveryNegotiationSettles ==
  \A c \in CPids :
    <>[](Exists(c) =>
           \/ Settled(c)
           \/ faults > 0 /\ (\/ LostVerification(c)
                             \/ LostFinalization(c)
                             \/ TerminatedByOrphan(c)
                             \/ MutualWait))

\* The protocol seen as the signing of one contract per consumer record.
Holder(c) == CHOOSE p \in Answers(c) : HoldsAgreement(neg[p])

Issued(c) == \E p \in Answers(c) : HoldsAgreement(neg[p])

SigningStage(c) ==
  IF ~Exists(c) THEN "none"
  ELSE IF neg[c].st = "terminated" THEN "void"
  ELSE IF ~Issued(c) THEN "open"
  ELSE IF neg[Holder(c)].st = "finalized" THEN "closed"
  ELSE IF neg[c].st = "finalized" THEN "concluded"
  ELSE IF neg[Holder(c)].st = "verified" THEN "countersigned"
  ELSE "issued"

SignedAgreement(c) ==
  IF SigningStage(c) \in {"none", "void", "open"} THEN NoAgr
  ELSE IF HoldsAgreement(neg[c]) THEN neg[c].agr
  ELSE neg[Holder(c)].agr

Signing == INSTANCE ContractSigning WITH
  stage <- [c \in CPids |-> SigningStage(c)],
  signed <- [c \in CPids |-> SignedAgreement(c)]

\* The connectors implement the signing of contracts.
ImplementsSigning == Signing!Spec
=============================================================================
