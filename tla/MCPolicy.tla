------------------------------ MODULE MCPolicy ------------------------------
(***************************************************************************)
(* Policies for PolicyContract: every pair of single constraints, a set of *)
(* longer lists, prohibitions and obligations, and datasets of two.        *)
(***************************************************************************)
EXTENDS PolicyContract

Countries == {"DE", "US"}

MCClaims == [spatial : Countries \cup {Missing}, role : {"x", "y", Missing}]

Dates == {1, 2, NoDate}

Spatial == {Atom("spatial", op, v) : op \in {"eq", "neq", "isPartOf", "hasPart"},
                                     v \in Countries \cup {Union}}
Temporal == {Atom("temporal", op, d) : op \in Upper \cup Lower, d \in Dates}
Role == {Atom("role", op, v) : op \in {"eq", "isA", "isAnyOf"}, v \in {"x", "y"}}

Atoms == Spatial \cup Temporal \cup Role

InUnion == Atom("spatial", "isPartOf", Union)
InGermany == Atom("spatial", "eq", "DE")
NotThere == Atom("spatial", "neq", "DE")
Until1 == Atom("temporal", "lteq", 1)
Until2 == Atom("temporal", "lteq", 2)
RoleX == Atom("role", "eq", "x")
RoleY == Atom("role", "eq", "y")

Pieces == {InUnion, InGermany, NotThere, Until1, RoleX, Atom("temporal", "gt", 1)}

Groups == {Logical(k, <<a, b>>) : k \in Conjunctions \cup Alternatives, a, b \in Pieces}
            \cup {Logical("and", <<>>), Logical("or", <<>>)}

Nested == {Logical(k, <<g, a>>) : k \in {"and", "or"}, a \in {Until2, RoleX},
             g \in {Logical("and", <<InGermany, RoleX>>), Logical("or", <<RoleX, InUnion>>)}}

Singles == Atoms \cup Groups \cup Nested

TwoNots == {Logical("and", <<NotThere, RoleY>>), Logical("or", <<RoleY, NotThere>>)}

MCConstraints == Singles \cup TwoNots

MCDepth ==
  [c \in MCConstraints |-> IF IsAtom(c) THEN 0 ELSE IF c \in Nested THEN 2 ELSE 1]

Use(constraint) == [action |-> "use", constraint |-> constraint]

Policy(permission, prohibition, obligation) ==
  [permission |-> permission, prohibition |-> prohibition, obligation |-> obligation]

Permit(constraint) == Policy(<<Use(constraint)>>, <<>>, <<>>)

Pair(required, mine) == [dataset |-> <<required>>, offered |-> mine]

OfSingles == {Pair(Permit(<<b>>), Permit(<<a>>)) : a, b \in Singles}

OfAtoms == {Pair(Permit(<<b>>), Permit(<<a>>)) : a, b \in Atoms}

Few == {NoConstraint, <<>>} \cup {<<a>> : a \in Pieces} \cup
         {<<a, b>> : a, b \in {InUnion, RoleX, Until2}}

OfLists == {Pair(Permit(b), Permit(a)) : a, b \in Few}

\* A permission, of two actions, against what is prohibited.
Prohibited == {NoConstraint, <<NotThere>>, <<NotThere, RoleY>>} \cup {<<c>> : c \in TwoNots}

OfProhibitions ==
  {Pair(Policy(p, <<[action |-> act, constraint |-> c]>>, <<>>), Policy(o, <<>>, <<>>)) :
     p \in {<<>>, <<Use(<<InUnion>>)>>}, act \in {"use", "copy"}, c \in Prohibited,
     o \in {<<Use(c)>> : c \in Prohibited \cup {<<InUnion>>}}
             \cup {<<Use(<<InUnion>>), [action |-> "copy", constraint |-> NoConstraint]>>}}

OfOwn == {Pair(p, p) : p \in {Policy(<<Use(c)>>, <<>>, <<Use(c)>>) : c \in Few}
                       \cup {Policy(<<Use(c)>>, f, <<>>) : c \in Few,
                               f \in {<<[action |-> "copy", constraint |-> <<RoleX>>]>>}}}

\* What a consumer may have to confirm.
Duties == {NoConstraint, <<>>, <<RoleX>>} \cup {<<a, b>> : a, b \in {RoleX, Until1}}
            \cup {<<Logical(k, <<a, b>>)>> : k \in {"and", "or"}, a, b \in {RoleX, Until1}}

OfObligations ==
  {Pair(Policy(<<>>, <<>>, <<Use(b)>>), Policy(<<>>, <<>>, <<Use(a)>>)) : a, b \in Duties}

\* Two policies of a dataset, of which the offer may meet either.
OfTwo == {[dataset |-> <<Permit(a), Permit(b)>>, offered |-> Permit(c)] :
            a, b, c \in {<<InUnion>>, <<InGermany>>, <<RoleX>>, <<InUnion, RoleX>>}}

MCRequirements ==
  OfSingles \cup OfLists \cup OfProhibitions \cup OfOwn \cup OfObligations \cup OfTwo
=============================================================================
