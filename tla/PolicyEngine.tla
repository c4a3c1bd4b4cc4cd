---------------------------- MODULE PolicyEngine ----------------------------
(***************************************************************************)
(* The two decisions about policies: whether a consumer's offer meets a    *)
(* policy of the dataset, which gives the agreement's policy, and whether  *)
(* an agreement's policy lets a requester have its data now.               *)
(*                                                                         *)
(* A policy has sequences of rules (permissions, prohibitions and          *)
(* obligations).  A rule has an action and either NoConstraint or a        *)
(* sequence of constraints.  A constraint is an atom (an operator applied  *)
(* to a property and a value) or a logical operator with a list.           *)
(*                                                                         *)
(* Values are strings, but for the property "temporal", whose values are   *)
(* dates: numbers, or NoDate for what cannot be parsed as one.             *)
(***************************************************************************)
EXTENDS Integers, Sequences

CONSTANTS
  MemberStates,  \* the countries that are part of Union
  Union,
  NoConstraint,  \* a rule that comes without a list of constraints
  Missing,       \* what a requester's claims have for a property they lack
  Constraints,   \* what policies are made of, and what that is made of
  Depth          \* of a constraint: how deep its lists are nested

NoDate == -1

Atom(property, op, value) ==
  [kind |-> "atomic", property |-> property, op |-> op, value |-> value]

Logical(kind, list) == [kind |-> kind, list |-> list]

IsAtom(c) == c.kind = "atomic"

Elements(list) == {list[i] : i \in DOMAIN list}

Conjunctions == {"and", "andSequence"}
Alternatives == {"or", "xone"}

\* Constraints are finite trees.
ASSUME EngineAssumption ==
  /\ Depth \in [Constraints -> Nat]
  /\ \A c \in Constraints :
       \/ IsAtom(c) /\ (c.property = "temporal" => c.value \in Int)
       \/ /\ c.kind \in Conjunctions \cup Alternatives
          /\ c.list \in Seq(Constraints)
          /\ \A cc \in Elements(c.list) : Depth[cc] < Depth[c]

Pairs == Constraints \X Constraints

Rules == [action : STRING, constraint : {NoConstraint} \cup Seq(Constraints)]

PolicyRecords == [permission : Seq(Rules), prohibition : Seq(Rules), obligation : Seq(Rules)]

(***************************************************************************)
(* How values compare.                                                     *)
(***************************************************************************)
IsSubclassOf(a, b) == a = b

\* Mutant: nothing is part of itself.
IsProperPartOf(property, a, b) ==
  property = "spatial" /\ a \in MemberStates /\ b = Union

IsPartOf(property, a, b) ==
  /\ property = "spatial"
  /\ a = b \/ (a \in MemberStates /\ b = Union)

BothDates(property, a, b) == property = "temporal" /\ a # NoDate /\ b # NoDate

Lteq(property, a, b) == BothDates(property, a, b) /\ a <= b

Lt(property, a, b) == BothDates(property, a, b) /\ a < b

(***************************************************************************)
(* The negotiation of a policy.                                            *)
(***************************************************************************)
Upper == {"lt", "lteq"}
Lower == {"gt", "gteq"}

SubsumedBy(a, b) ==
  /\ a.property = b.property
  /\ \/ a.op = b.op /\ a.op \in {"eq", "neq"} /\ a.value = b.value
     \/ a.op = "isA" /\ b.op = "isA" /\ IsSubclassOf(a.value, b.value)
     \/ /\ <<a.op, b.op>> \in {<<"isPartOf", "isPartOf">>, <<"isPartOf", "eq">>,
                               <<"eq", "isPartOf">>}
        /\ IsPartOf(a.property, a.value, b.value)
     \/ /\ <<a.op, b.op>> \in {<<"hasPart", "hasPart">>, <<"hasPart", "eq">>,
                               <<"eq", "hasPart">>}
        /\ IsPartOf(a.property, b.value, a.value)
     \/ a.op \in Upper /\ b.op \in Upper /\ Lteq(a.property, a.value, b.value)
     \/ a.op \in Lower /\ b.op \in Lower /\ Lteq(a.property, b.value, a.value)

\* Whether what the offer constrains by a is good enough for the required b.
Compatible[ab \in Pairs] ==
  LET a == ab[1]
      b == ab[2]
  IN \/ IsAtom(a) /\ IsAtom(b) /\ SubsumedBy(a, b)
     \/ /\ IsAtom(a) /\ b.kind \in Alternatives
        /\ \E bb \in Elements(b.list) : Compatible[<<a, bb>>]
     \/ /\ a.kind \in Conjunctions /\ IsAtom(b)
        /\ \E aa \in Elements(a.list) : Compatible[<<aa, b>>]
     \/ /\ a.kind \in Alternatives /\ IsAtom(b)
        /\ \A aa \in Elements(a.list) : Compatible[<<aa, b>>]
     \/ /\ a.kind \in Conjunctions /\ b.kind = a.kind
        /\ \A bb \in Elements(b.list) : \E aa \in Elements(a.list) : Compatible[<<aa, bb>>]
     \/ /\ a.kind \in Alternatives /\ b.kind = a.kind
        /\ \E aa \in Elements(a.list), bb \in Elements(b.list) : Compatible[<<aa, bb>>]

\* Mutant: one required constraint that is met is enough.
AnyCompatible(a, b) ==
  \/ b = NoConstraint
  \/ a = NoConstraint /\ b = <<>>
  \/ /\ a # NoConstraint
     /\ \E bc \in Elements(b), ac \in Elements(a) : Compatible[<<ac, bc>>]

ConstraintsAreCompatible(a, b) ==
  \/ b = NoConstraint
  \/ a = NoConstraint /\ b = <<>>
  \/ /\ a # NoConstraint
     /\ b # NoConstraint
     /\ \A bc \in Elements(b) : \E ac \in Elements(a) : Compatible[<<ac, bc>>]

\* Mutant: two lists of one length are taken for identical.
SameLength(a, b) ==
  \/ a = NoConstraint /\ b = NoConstraint
  \/ a # NoConstraint /\ b # NoConstraint /\ Len(a) = Len(b)

Identical[ab \in Pairs] ==
  LET a == ab[1]
      b == ab[2]
  IN \/ IsAtom(a) /\ IsAtom(b) /\ a = b
     \/ /\ ~IsAtom(a) /\ ~IsAtom(b)
        /\ a.kind = b.kind
        /\ Len(a.list) = Len(b.list)
        /\ \A bb \in Elements(b.list) : \E aa \in Elements(a.list) : Identical[<<aa, bb>>]

ConstraintsAreIdentical(a, b) ==
  \/ a = NoConstraint /\ b = NoConstraint
  \/ /\ a # NoConstraint
     /\ b # NoConstraint
     /\ Len(a) = Len(b)
     /\ \A bb \in Elements(b) : \E aa \in Elements(a) : Identical[<<aa, bb>>]

Covers(mine, theirs) ==
  /\ mine.action = theirs.action
  /\ ConstraintsAreCompatible(mine.constraint, theirs.constraint)

Forbidden == [outcome |-> "forbidden"]

Matches(permission, offered) ==
  {i \in DOMAIN offered.permission : Covers(offered.permission[i], permission)}

FirstMatch(permission, offered) ==
  offered.permission[CHOOSE i \in Matches(permission, offered) :
                       \A j \in Matches(permission, offered) : i <= j]

\* An obligation of the dataset that the consumer has confirmed.
Confirmed(obligation, offered) ==
  \E o \in Elements(offered.obligation) :
    /\ o.action = obligation.action
    /\ ConstraintsAreIdentical(o.constraint, obligation.constraint)

\* The agreement has the consumer's permissions, one for each that the dataset
\* requires, and the dataset's prohibitions and obligations.
NegotiatePolicy(required, offered) ==
  IF /\ \A p \in Elements(required.permission) : Matches(p, offered) # {}
     /\ \A p \in Elements(offered.permission), f \in Elements(required.prohibition) : ~Covers(p, f)
     /\ \A o \in Elements(required.obligation) : Confirmed(o, offered)
  THEN [outcome |-> "success",
        policy |-> [required EXCEPT !.permission =
                     [i \in DOMAIN @ |-> FirstMatch(@[i], offered)]]]
  ELSE Forbidden

(***************************************************************************)
(* The check of a request for a transfer: "yes", "no", or "error", which   *)
(* ends the evaluation, if a claim is missing or an action is not "use".   *)
(***************************************************************************)
YesOrNo(b) == IF b THEN "yes" ELSE "no"

\* What the first result other than the neutral one says, in the list's order.
FirstOther(results, neutral) ==
  LET others == {i \in DOMAIN results : results[i] # neutral}
  IN IF others = {} THEN neutral
     ELSE results[CHOOSE i \in others : \A j \in others : i <= j]

AtomSatisfied(c, claims, now) ==
  LET have == IF c.property = "temporal" THEN now ELSE claims[c.property]
  IN IF have = Missing THEN "error"
     ELSE YesOrNo(CASE c.op = "eq" -> have = c.value
                    [] c.op = "neq" -> have # c.value
                    [] c.op = "gt" -> Lt(c.property, c.value, have)
                    [] c.op = "gteq" -> Lteq(c.property, c.value, have)
                    [] c.op = "lt" -> Lt(c.property, have, c.value)
                    [] c.op = "lteq" -> Lteq(c.property, have, c.value)
                    [] c.op = "hasPart" -> IsPartOf(c.property, c.value, have)
                    [] c.op = "isPartOf" -> IsPartOf(c.property, have, c.value)
                    [] c.op = "isA" -> IsSubclassOf(have, c.value)
                    [] OTHER -> FALSE)

Satisfied(claims, now) ==
  LET satisfied[c \in Constraints] ==
        IF IsAtom(c) THEN AtomSatisfied(c, claims, now)
        ELSE FirstOther([i \in DOMAIN c.list |-> satisfied[c.list[i]]],
                        IF c.kind \in Conjunctions THEN "yes" ELSE "no")
  IN satisfied

RuleSatisfied(rule, claims, now) ==
  IF rule.action # "use" THEN "error"
  ELSE IF rule.constraint = NoConstraint THEN "yes"
  ELSE FirstOther([i \in DOMAIN rule.constraint |-> Satisfied(claims, now)[rule.constraint[i]]],
                  "yes")

\* Mutant: a prohibition that cannot be decided is taken for one not violated.
CheckDecidedOnly(policy, claims, now) ==
  /\ \A p \in Elements(policy.permission) : RuleSatisfied(p, claims, now) = "yes"
  /\ \A f \in Elements(policy.prohibition) : RuleSatisfied(f, claims, now) # "yes"

\* Every permission holds; no prohibition does, or cannot be decided.
CheckTransferPolicy(policy, claims, now) ==
  /\ \A p \in Elements(policy.permission) : RuleSatisfied(p, claims, now) = "yes"
  /\ \A f \in Elements(policy.prohibition) : RuleSatisfied(f, claims, now) = "no"
=============================================================================
