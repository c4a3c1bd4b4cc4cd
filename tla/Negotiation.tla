---------------------------- MODULE Negotiation ----------------------------
(***************************************************************************)
(* The record of one contract negotiation, as a connector keeps it, and    *)
(* the three ways it moves: a decision taken by the connector's tick, a    *)
(* message the tick posts to the counterpart, and a message received.      *)
(*                                                                         *)
(* A record has the state's name, whether the counterpart has been told of *)
(* the state (`sent`, TRUE for the states that have nothing to tell), the  *)
(* counterpart's process id, and the agreement, if the state carries one.  *)
(* The record's type is the same on both sides; what differs between the   *)
(* consumer and the provider is what each does with it.                    *)
(***************************************************************************)
EXTENDS Naturals

CONSTANTS
  CPids,     \* process ids of consumer records (urn:uuid values)
  PPids,     \* process ids of provider records
  NoPid,     \* the empty provider_pid of a request not answered yet
  NoAgr,     \* the state carries no agreement
  Absent,    \* the store has no record under this id
  MaxMinted, \* bound: agreement uuids drawn
  Targets    \* dataset ids negotiated about; the TCK ids stand for scripts

Pids == CPids \cup PPids

States == {"requested", "offered", "accepted", "agreed",
           "verified", "finalized", "terminated"}

Kinds == {"request", "counter", "offer", "accepted",
          "agreement", "verification", "finalized", "termination"}

\* An agreement is its fresh uuid: the record that issued it and a number.
Agreements == [by : PPids, no : 1..MaxMinted]

Records == [st : States, sent : BOOLEAN, peer : Pids \cup {NoPid},
            agr : Agreements \cup {NoAgr}]

\* Who the counterpart of record x can be.
Peers(x) == IF x \in CPids THEN PPids \cup {NoPid} ELSE CPids

ASSUME RecordAssumption ==
  /\ MaxMinted \in Nat
  /\ CPids \cap PPids = {}
  /\ NoPid \notin Pids
  /\ NoAgr \notin Agreements
  /\ Absent \notin Records

HoldsAgreement(r) == r.st \in {"agreed", "verified", "finalized"}

(***************************************************************************)
(* The two ways a record is born: the consumer's user asks for a           *)
(* negotiation, the provider answers an initial contract request.          *)
(***************************************************************************)
NewConsumer == [st |-> "requested", sent |-> FALSE, peer |-> NoPid, agr |-> NoAgr]

NewProvider(c) == [st |-> "requested", sent |-> TRUE, peer |-> c, agr |-> NoAgr]

(***************************************************************************)
(* Decisions: the tick puts the record in state s without a message.  The  *)
(* result is always pending.  With the feature `tck`, datasets named ACN.. *)
(* (scripts of the provider side) and ACNC.. (of the consumer side) decide *)
(* first; what a script leaves alone ticks as usual.  (A provider also     *)
(* terminates a counter-request about ACN0102; no consumer sends one.)     *)
(***************************************************************************)
AgreesAtOnce == {"ACN0104", "ACN0203", "ACN0207", "ACN0301"}

ProviderScript(t, r, s) ==
  \/ r.st = "requested" /\ t \in AgreesAtOnce /\ s = "agreed"
  \/ r.st = "requested" /\ t = "ACN0201" /\ s = "terminated"
  \/ r.st = "offered" /\ r.sent /\ t = "ACN0205" /\ s = "terminated"
  \/ r.st = "accepted" /\ t = "ACN0206" /\ s = "terminated"
  \/ r.st = "verified" /\ t = "ACN0207" /\ s = "terminated"

ConsumerScript(t, r, s) ==
  \/ r.st = "requested" /\ r.sent /\ t = "ACNC0202" /\ s = "terminated"
  \/ r.st = "offered" /\ t = "ACNC0102" /\ s = "requested"
  \/ r.st = "offered" /\ t \in {"ACNC0103", "ACNC0204"} /\ s = "terminated"
  \/ r.st = "agreed" /\ t = "ACNC0203" /\ s = "terminated"

ProviderScripted(t, r) == \E s \in States : ProviderScript(t, r, s)

ConsumerScripted(t, r) == \E s \in States : ConsumerScript(t, r, s)

\* Mutant: a provider that need not negotiate the policy agrees at once.
ProviderDecidesWithoutOffer(t, r, s) ==
  \/ r.st \in {"requested", "accepted"} /\ s = "agreed"
  \/ r.st = "requested" /\ s = "terminated"

\* A request is offered, with the negotiated policy, or refused (no dataset, or
\* no policy both sides can live with); an accepted offer becomes an agreement.
ProviderDecides(t, r, s) ==
  \/ ProviderScript(t, r, s)
  \/ /\ ~ProviderScripted(t, r)
     /\ \/ r.st = "requested" /\ s \in {"offered", "terminated"}
        \/ r.st = "accepted" /\ s = "agreed"

\* Every offer is accepted.
ConsumerDecides(t, r, s) ==
  \/ ConsumerScript(t, r, s)
  \/ ~ConsumerScripted(t, r) /\ r.st = "offered" /\ s = "accepted"

Decided(r, s, fresh) ==
  [r EXCEPT !.st = s, !.sent = FALSE,
            !.agr = IF s = "agreed" THEN fresh ELSE NoAgr]

(***************************************************************************)
(* Posts: the tick sends a message and keeps the record until it is        *)
(* answered with a 2xx status.                                             *)
(***************************************************************************)

\* Mutant: an offer is repeated until it is accepted.
ProviderPostsUntilAccepted(t, r, kind) ==
  \/ r.st = "offered" /\ kind = "offer"
  \/ r.st = "agreed" /\ ~r.sent /\ kind = "agreement"
  \/ r.st = "verified" /\ t # "ACN0207" /\ kind = "finalized"
  \/ r.st = "terminated" /\ ~r.sent /\ kind = "termination"

ProviderPosts(t, r, kind) ==
  /\ ~ProviderScripted(t, r)
  /\ \/ r.st = "offered" /\ ~r.sent /\ kind = "offer"
     \/ r.st = "agreed" /\ ~r.sent /\ kind = "agreement"
     \/ r.st = "verified" /\ kind = "finalized"
     \/ r.st = "terminated" /\ ~r.sent /\ kind = "termination"

\* Mutant: a request is repeated until something comes of it.
ConsumerPostsUntilOffered(t, r, kind) ==
  \/ r.st = "requested" /\ kind = "request"
  \/ r.st = "accepted" /\ ~r.sent /\ kind = "accepted"
  \/ r.st = "agreed" /\ t # "ACNC0203" /\ kind = "verification"
  \/ r.st = "terminated" /\ ~r.sent /\ kind = "termination"

ConsumerPosts(t, r, kind) ==
  /\ ~ConsumerScripted(t, r)
  /\ \/ r.st = "requested" /\ ~r.sent /\ r.peer = NoPid /\ kind = "request"
     \/ r.st = "requested" /\ ~r.sent /\ r.peer # NoPid /\ kind = "counter"
     \/ r.st = "accepted" /\ ~r.sent /\ kind = "accepted"
     \/ r.st = "agreed" /\ kind = "verification"
     \/ r.st = "terminated" /\ ~r.sent /\ kind = "termination"

\* The state a message announces: its sender is in it once the message is
\* acknowledged, its receiver once the message is accepted.
Reached(kind) ==
  CASE kind \in {"request", "counter"} -> "requested"
    [] kind = "offer"                  -> "offered"
    [] kind = "accepted"               -> "accepted"
    [] kind = "agreement"              -> "agreed"
    [] kind = "verification"           -> "verified"
    [] kind = "finalized"              -> "finalized"
    [] kind = "termination"            -> "terminated"

\* The sender's record after a 2xx answer; the answer to a request names the
\* provider's record.
Acknowledged(r, kind, answerer) ==
  [r EXCEPT !.st = Reached(kind), !.sent = TRUE,
            !.peer = IF kind \in {"request", "counter"} THEN answerer ELSE @]

(***************************************************************************)
(* Messages received.  `known` says that the caller's token names the      *)
(* party this negotiation is with: the assignee of the provider's record,  *)
(* the assigner written in the agreement a consumer receives.              *)
(***************************************************************************)
\* Mutant: an acceptance is welcome until the agreement is verified.
ProviderAcceptsAgain(r, kind, known) ==
  \/ kind \in {"counter", "accepted"} /\ r.st \in {"offered", "agreed"} /\ known
  \/ kind = "verification" /\ r.st = "agreed" /\ known
  \/ kind = "termination" /\ r.st \notin {"finalized", "terminated"}

\* Mutant: an offer must have been acknowledged before it can be accepted.
ProviderAcceptsOnceSent(r, kind, known) ==
  \/ kind \in {"counter", "accepted"} /\ r.st = "offered" /\ r.sent /\ known
  \/ kind = "verification" /\ r.st = "agreed" /\ r.sent /\ known
  \/ kind = "termination" /\ r.st \notin {"finalized", "terminated"}

ProviderAccepts(r, kind, known) ==
  \/ kind \in {"counter", "accepted"} /\ r.st = "offered" /\ known
  \/ kind = "verification" /\ r.st = "agreed" /\ known
  \/ kind = "termination" /\ r.st \notin {"finalized", "terminated"}

\* Mutant: an agreement is only welcome after an acceptance.
ConsumerAcceptsInTurn(r, kind, known) ==
  \/ kind = "offer" /\ r.st = "requested" /\ r.sent
  \/ kind = "agreement" /\ r.st = "accepted" /\ known
  \/ kind = "finalized" /\ r.st = "verified"
  \/ kind = "termination" /\ r.st \notin {"finalized", "terminated"}

ConsumerAccepts(r, kind, known) ==
  \/ kind = "offer" /\ r.st = "requested" /\ r.sent
  \/ kind = "agreement" /\ r.st \in {"accepted", "requested"} /\ known
  \/ kind = "finalized" /\ r.st = "verified"
  \/ kind = "termination" /\ r.st \notin {"finalized", "terminated"}

Accepted(r, kind, agr) ==
  [r EXCEPT !.st = Reached(kind), !.sent = TRUE,
            !.agr = IF kind = "agreement" THEN agr
                    ELSE IF kind = "termination" THEN NoAgr ELSE @]
=============================================================================
