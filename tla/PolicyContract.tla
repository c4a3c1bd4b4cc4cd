--------------------------- MODULE PolicyContract ---------------------------
(***************************************************************************)
(* A policy from the dataset to the data: the provider's loop negotiates   *)
(* the consumer's offer with the policies of the dataset, the agreement    *)
(* keeps the outcome, and each request for a transfer is checked against   *)
(* it, with the claims and at the time of the request.  The steps of the   *)
(* contract in between do not change the policy and are left to            *)
(* Negotiation; the data is served as long as the transfer lasts, without  *)
(* another look at the policy.                                             *)
(***************************************************************************)
EXTENDS PolicyEngine

CONSTANTS
  Requirements,  \* pairs of a dataset's policies and an offer for it
  Claims,        \* what requesters may claim
  LastDate,      \* bound: time
  None

ASSUME ContractAssumption ==
  /\ LastDate \in Nat
  /\ \A r \in Requirements : r.dataset \in Seq(PolicyRecords) /\ r.offered \in PolicyRecords
  /\ \A claims \in Claims, c \in Constraints :
       IsAtom(c) => c.property \in DOMAIN claims \cup {"temporal"}

VARIABLES
  dataset,   \* the dataset's policies, in order
  offered,   \* the policy of the consumer's offer
  agreed,    \* the agreement's policy; None before
  refused,   \* the negotiation was terminated for its policy
  now,
  granted    \* the request that started the transfer; None before

vars == <<dataset, offered, agreed, refused, now, granted>>

Init ==
  /\ \E r \in Requirements : dataset = r.dataset /\ offered = r.offered
  /\ agreed = None
  /\ refused = FALSE
  /\ now = 0
  /\ granted = None

Accepting == {i \in DOMAIN dataset : NegotiatePolicy(dataset[i], offered).outcome = "success"}

FirstAccepting == CHOOSE i \in Accepting : \A j \in Accepting : i <= j

\* The provider's tick of a requested negotiation.
Negotiate ==
  /\ agreed = None
  /\ ~refused
  /\ IF Accepting = {}
     THEN refused' = TRUE /\ UNCHANGED agreed
     ELSE /\ agreed' = NegotiatePolicy(dataset[FirstAccepting], offered).policy
          /\ UNCHANGED refused
  /\ UNCHANGED <<dataset, offered, now, granted>>

\* A request for a transfer that is let through.
TransferRequest(claims) ==
  /\ agreed # None
  /\ granted = None
  /\ CheckTransferPolicy(agreed, claims, now)
  /\ granted' = [claims |-> claims, at |-> now]
  /\ UNCHANGED <<dataset, offered, agreed, refused, now>>

Tick ==
  /\ agreed # None
  /\ granted = None
  /\ now < LastDate
  /\ now' = now + 1
  /\ UNCHANGED <<dataset, offered, agreed, refused, granted>>

Next ==
  \/ Negotiate
  \/ \E claims \in Claims : TransferRequest(claims)
  \/ Tick

Spec == Init /\ [][Next]_vars

-----------------------------------------------------------------------------
(***************************************************************************)
(* Properties.                                                             *)
(***************************************************************************)
Policies == Elements(dataset)

ConstraintsOf(rules) ==
  UNION {Elements(r.constraint) : r \in {q \in Elements(rules) : q.constraint # NoConstraint}}

\* What some offer can weaken: alternatives, of which the offer may have one
\* that is not required; a strict bound, which is taken for the inclusive one;
\* and one place, which is taken for a place with parts.
Exact[c \in Constraints] ==
  IF IsAtom(c) THEN c.op \notin {"lt", "gt"} /\ ~(c.op = "eq" /\ c.property = "spatial")
  ELSE c.kind \in Conjunctions /\ \A cc \in Elements(c.list) : Exact[cc]

\* Nobody gets the data by an agreement whom no policy of the dataset would let
\* have it at that time, whatever was offered and whatever is claimed, if the
\* dataset's permissions are exact.
NeverWidened ==
  granted # None /\ (\A p \in Policies : \A c \in ConstraintsOf(p.permission) : Exact[c]) =>
    \E p \in Policies : CheckTransferPolicy(p, granted.claims, granted.at)

\* The same of permissions that consist of atoms, of whatever operator.
AtomsNeverWidened ==
  granted # None /\ (\A p \in Policies : \A c \in ConstraintsOf(p.permission) : IsAtom(c)) =>
    \E p \in Policies : CheckTransferPolicy(p, granted.claims, granted.at)

\* The operators that the provider knows how to compare, property by property.
Comparable[c \in Constraints] ==
  IF IsAtom(c)
  THEN \/ c.op \in {"eq", "neq", "isA"}
       \/ c.property = "spatial" /\ c.op \in {"isPartOf", "hasPart"}
       \/ c.property = "temporal" /\ c.op \in Upper \cup Lower /\ c.value # NoDate
  ELSE c.list # <<>> /\ \A cc \in Elements(c.list) : Comparable[cc]

\* A consumer that offers one of the dataset's own policies, as it found it in
\* the catalog, is not refused, if the provider can compare the constraints of
\* its permissions and it does not prohibit the very action that it permits.
OwnPolicyAccepted ==
  \A p \in Policies :
    refused /\ offered = p =>
      \/ \E c \in ConstraintsOf(p.permission) : ~Comparable[c]
      \/ \E r \in Elements(p.permission), f \in Elements(p.prohibition) : r.action = f.action

\* Constraints that differ in the order and the repetitions of their lists only.
SameMeaning[ab \in Pairs] ==
  LET a == ab[1]
      b == ab[2]
  IN \/ IsAtom(a) /\ IsAtom(b) /\ a = b
     \/ /\ ~IsAtom(a) /\ ~IsAtom(b)
        /\ a.kind = b.kind
        /\ \A aa \in Elements(a.list) : \E bb \in Elements(b.list) : SameMeaning[<<aa, bb>>]
        /\ \A bb \in Elements(b.list) : \E aa \in Elements(a.list) : SameMeaning[<<aa, bb>>]

SameMeanings(a, b) ==
  /\ \A ac \in Elements(a) : \E bc \in Elements(b) : SameMeaning[<<ac, bc>>]
  /\ \A bc \in Elements(b) : \E ac \in Elements(a) : SameMeaning[<<ac, bc>>]

RepeatsOne(list) ==
  \E i, j \in DOMAIN list : i # j /\ SameMeaning[<<list[i], list[j]>>]

RepeatsInside[c \in Constraints] ==
  ~IsAtom(c) /\ (RepeatsOne(c.list) \/ \E cc \in Elements(c.list) : RepeatsInside[cc])

Repeats(list) == RepeatsOne(list) \/ \E c \in Elements(list) : RepeatsInside[c]

\* An agreement's obligations are what the consumer has confirmed, no more and
\* no less: the consumer's list may differ from the dataset's in its order only,
\* unless the dataset's repeats itself.
ObligationsConfirmed ==
  agreed # None =>
    \A o \in Elements(agreed.obligation) : \E c \in Elements(offered.obligation) :
      /\ c.action = o.action
      /\ \/ o.constraint = NoConstraint /\ c.constraint = NoConstraint
         \/ /\ o.constraint # NoConstraint /\ c.constraint # NoConstraint
            /\ Repeats(o.constraint) \/ SameMeanings(o.constraint, c.constraint)

\* The claims that say more than these.
Completions(claims) ==
  {c \in Claims : \A p \in DOMAIN claims : claims[p] # Missing => c[p] = claims[p]}

\* Nobody gets the data by keeping a claim back: a requester that is let through
\* would be let through with whatever the missing claims may say.
MissingClaimsDoNotHelp ==
  granted # None =>
    \A c \in Completions(granted.claims) : CheckTransferPolicy(agreed, c, granted.at)
=============================================================================
