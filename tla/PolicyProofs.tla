---------------------------- MODULE PolicyProofs ----------------------------
(***************************************************************************)
(* Theorems about PolicyContract, for every set of constraints, policies   *)
(* and claims.                                                             *)
(*                                                                         *)
(* The comparison and the evaluation of constraints are functions defined  *)
(* by recursion on their nesting.  LEMMA Recursion, from well-founded      *)
(* induction on the natural numbers, gives each of them its defining       *)
(* equation; DepthInduction proves what the equations imply of every       *)
(* constraint.                                                             *)
(***************************************************************************)
EXTENDS PolicyContract, FiniteSetTheorems, TLAPS

-----------------------------------------------------------------------------
(***************************************************************************)
(* Recursion and induction.                                                *)
(***************************************************************************)
\* A set of numbers has a least one.
LEMMA LeastNumber ==
  ASSUME NEW N, N \subseteq Nat, N # {}
  PROVE  \E n \in N : \A m \in N : n <= m
<1>1. IsWellFoundedOn(OpToRel(<, Nat), Nat)
  BY NatLessThanWellFounded
<1>2. PICK n \in N : \A m \in N : ~(<<m, n>> \in OpToRel(<, Nat))
  BY <1>1, WFMin
<1>3. \A m \in N : ~(m < n)
  BY <1>2 DEF OpToRel
<1> QED
  BY <1>3

\* Induction, over a set of numbers.
LEMMA SetInduction ==
  ASSUME NEW N, 0 \in N, \A n \in Nat : n \in N => n + 1 \in N
  PROVE  Nat \subseteq N
<1> SUFFICES ASSUME Nat \ N # {} PROVE FALSE
  OBVIOUS
<1>1. PICK n \in Nat \ N : \A m \in Nat \ N : n <= m
  BY LeastNumber
<1>2. n - 1 \in Nat /\ n - 1 \in N
  BY <1>1
<1> QED
  BY <1>1, <1>2

Upto(F, g, S, depth, n) == \A x \in S : depth[x] < n => F[g][x] = g[x]

\* What F makes of a function depends, at each point, on less deep ones only.
Descends(F, S, T, depth) ==
  /\ depth \in [S -> Nat]
  /\ F \in [[S -> T] -> [S -> T]]
  /\ \A g, h \in [S -> T], x \in S :
       (\A y \in S : depth[y] < depth[x] => g[y] = h[y]) => F[g][x] = F[h][x]

Fixed(F, S, T) == \E f \in [S -> T] : f = F[f]

LEMMA Recursion ==
  ASSUME NEW S, NEW T, NEW depth, NEW F, Descends(F, S, T, depth), T # {}
  PROVE  Fixed(F, S, T)
<1> USE DEF Descends, Fixed
<1> DEFINE N == {n \in Nat : \E g \in [S -> T] : Upto(F, g, S, depth, n)}
<1>1. Nat \subseteq N
  <2>1. 0 \in N
    <3>1. PICK t : t \in T
      OBVIOUS
    <3>2. [x \in S |-> t] \in [S -> T]
      BY <3>1
    <3>3. \A g \in [S -> T] : Upto(F, g, S, depth, 0)
      BY DEF Upto
    <3> QED
      BY <3>2, <3>3
  <2>2. ASSUME NEW n \in Nat, n \in N PROVE n + 1 \in N
    <3>1. PICK g \in [S -> T] : Upto(F, g, S, depth, n)
      BY <2>2
    <3>2. F[g] \in [S -> T]
      OBVIOUS
    <3>3. ASSUME NEW x \in S, depth[x] < n + 1 PROVE F[F[g]][x] = F[g][x]
      <4>1. \A y \in S : depth[y] < depth[x] => F[g][y] = g[y]
        BY <3>1, <3>3 DEF Upto
      <4> QED
        BY <3>2, <4>1
    <3>4. Upto(F, F[g], S, depth, n + 1)
      BY <3>3 DEF Upto
    <3> QED
      BY <3>2, <3>4
  <2> HIDE DEF N
  <2> QED
    BY <2>1, <2>2, SetInduction
<1>2. ASSUME NEW n \in Nat, NEW g \in [S -> T], NEW h \in [S -> T],
             Upto(F, g, S, depth, n), Upto(F, h, S, depth, n)
      PROVE  \A x \in S : depth[x] < n => g[x] = h[x]
  <2> DEFINE D == {d \in Nat : \E x \in S : depth[x] = d /\ d < n /\ g[x] # h[x]}
  <2>1. SUFFICES ASSUME D # {} PROVE FALSE
    OBVIOUS
  <2>2. PICK d \in D : \A m \in D : d <= m
    BY <2>1, LeastNumber
  <2>3. PICK x \in S : depth[x] = d /\ d < n /\ g[x] # h[x]
    BY <2>2
  <2>4. \A y \in S : depth[y] < depth[x] => g[y] = h[y]
    BY <2>2, <2>3
  <2>5. F[g][x] = F[h][x]
    BY <2>4
  <2> QED
    BY <1>2, <2>3, <2>5 DEF Upto
<1> DEFINE G(n) == CHOOSE g \in [S -> T] : Upto(F, g, S, depth, n)
<1>3. \A n \in Nat : G(n) \in [S -> T] /\ Upto(F, G(n), S, depth, n)
  BY <1>1
<1> DEFINE f == [x \in S |-> G(depth[x] + 1)[x]]
<1> HIDE DEF G, N
<1>4. f \in [S -> T]
  BY <1>3
<1>5. ASSUME NEW x \in S PROVE F[f][x] = f[x]
  <2>1. PICK g \in [S -> T] : g = G(depth[x] + 1) /\ Upto(F, g, S, depth, depth[x] + 1)
    BY <1>3
  <2>2. ASSUME NEW y \in S, depth[y] < depth[x] PROVE f[y] = g[y]
    <3>1. PICK h \in [S -> T] : h = G(depth[y] + 1) /\ Upto(F, h, S, depth, depth[y] + 1)
      BY <1>3
    <3>2. Upto(F, g, S, depth, depth[y] + 1)
      BY <2>1, <2>2 DEF Upto
    <3>3. h[y] = g[y]
      BY <1>2, <3>1, <3>2
    <3> QED
      BY <3>1, <3>3
  <2>3. F[f][x] = F[g][x]
    BY <1>4, <2>2
  <2>4. F[g][x] = g[x] /\ f[x] = g[x]
    BY <2>1 DEF Upto
  <2> QED
    BY <2>3, <2>4
<1>6. f = F[f]
  BY <1>4, <1>5
<1> QED
  BY <1>4, <1>6

\* What holds of the deeper because it holds of all that are less deep.
Inductive(P, S, depth) ==
  /\ depth \in [S -> Nat]
  /\ \A x \in S : (\A y \in S : depth[y] < depth[x] => y \in P) => x \in P

LEMMA DepthInduction ==
  ASSUME NEW P, NEW S, NEW depth, Inductive(P, S, depth)
  PROVE  S \subseteq P
<1> USE DEF Inductive
<1> DEFINE N == {depth[x] : x \in S \ P}
<1>1. SUFFICES ASSUME N # {} PROVE FALSE
  OBVIOUS
<1>2. PICK n \in N : \A m \in N : n <= m
  <2>1. N \subseteq Nat
    OBVIOUS
  <2> HIDE DEF N
  <2> QED
    BY <1>1, <2>1, LeastNumber
<1>3. PICK x \in S \ P : depth[x] = n
  BY <1>2
<1>4. \A y \in S : depth[y] < depth[x] => y \in P
  BY <1>2, <1>3
<1> QED
  BY <1>3, <1>4

-----------------------------------------------------------------------------
(***************************************************************************)
(* Constraints, and the functions of them.                                 *)
(***************************************************************************)
Kinds == Conjunctions \cup Alternatives

\* A constraint other than an atom has a list, of constraints less deep.
LEMMA Lists ==
  ASSUME NEW c \in Constraints, ~IsAtom(c)
  PROVE  /\ c.kind \in Kinds
         /\ c.list \in Seq(Constraints)
         /\ DOMAIN c.list = 1 .. Len(c.list)
         /\ \A i \in DOMAIN c.list : c.list[i] \in Constraints /\ Depth[c.list[i]] < Depth[c]
         /\ Elements(c.list) \subseteq Constraints
         /\ \A cc \in Elements(c.list) : Depth[cc] < Depth[c]
<1>1. c.list \in Seq(Constraints) /\ \A cc \in Elements(c.list) : Depth[cc] < Depth[c]
  BY EngineAssumption
<1>2. \A i \in DOMAIN c.list : c.list[i] \in Elements(c.list)
  BY DEF Elements
<1>3. Elements(c.list) \subseteq Constraints
  BY <1>1 DEF Elements
<1>4. c.kind \in Kinds
  BY EngineAssumption DEF Kinds
<1>5. DOMAIN c.list = 1 .. Len(c.list)
  BY <1>1
<1> QED
  BY <1>1, <1>2, <1>3, <1>4, <1>5

LEMMA Depths == Depth \in [Constraints -> Nat]
BY EngineAssumption

PairDepth == [ab \in Pairs |-> Depth[ab[1]] + Depth[ab[2]]]

LEMMA PairDepths ==
  /\ PairDepth \in [Pairs -> Nat]
  /\ \A a, b \in Constraints : <<a, b>> \in Pairs /\ PairDepth[<<a, b>>] = Depth[a] + Depth[b]
BY Depths DEF PairDepth, Pairs

\* The bodies of the recursive functions, of a function g in their own place.
ExactBody(g, c) ==
  IF IsAtom(c) THEN c.op \notin {"lt", "gt"} /\ ~(c.op = "eq" /\ c.property = "spatial")
  ELSE c.kind \in Conjunctions /\ \A cc \in Elements(c.list) : g[cc]

\* Exact is the function that its definition describes.
LEMMA ExactEquation ==
  /\ Exact \in [Constraints -> BOOLEAN]
  /\ \A c \in Constraints : Exact[c] = ExactBody(Exact, c)
<1> DEFINE F == [g \in [Constraints -> BOOLEAN] |-> [c \in Constraints |-> ExactBody(g, c)]]
<1>1. \A g, c : ExactBody(g, c) \in BOOLEAN
  BY DEF ExactBody
<1>2. F \in [[Constraints -> BOOLEAN] -> [Constraints -> BOOLEAN]]
  BY <1>1
<1>3. ASSUME NEW g \in [Constraints -> BOOLEAN], NEW h \in [Constraints -> BOOLEAN],
             NEW c \in Constraints, \A d \in Constraints : Depth[d] < Depth[c] => g[d] = h[d]
      PROVE  F[g][c] = F[h][c]
  <2>1. ExactBody(g, c) = ExactBody(h, c)
    BY <1>3, Lists DEF ExactBody
  <2> QED
    BY <2>1
<1>4. Fixed(F, Constraints, BOOLEAN)
  <2> HIDE DEF F
  <2>1. Descends(F, Constraints, BOOLEAN, Depth)
    BY <1>2, <1>3, Depths DEF Descends
  <2> QED
    BY <2>1, Recursion
<1>5. PICK f \in [Constraints -> BOOLEAN] : f = F[f]
  BY <1>4 DEF Fixed
<1>6. f = [c \in Constraints |-> ExactBody(f, c)]
  BY <1>5
<1>7. Exact = CHOOSE g : g = [c \in Constraints |-> ExactBody(g, c)]
  BY DEF Exact, ExactBody
<1>8. Exact = [c \in Constraints |-> ExactBody(Exact, c)]
  BY <1>6, <1>7
<1> QED
  BY <1>1, <1>8

ComparableBody(g, c) ==
  IF IsAtom(c)
  THEN \/ c.op \in {"eq", "neq", "isA"}
       \/ c.property = "spatial" /\ c.op \in {"isPartOf", "hasPart"}
       \/ c.property = "temporal" /\ c.op \in Upper \cup Lower /\ c.value # NoDate
  ELSE c.list # <<>> /\ \A cc \in Elements(c.list) : g[cc]

\* Comparable is the function that its definition describes.
LEMMA ComparableEquation ==
  /\ Comparable \in [Constraints -> BOOLEAN]
  /\ \A c \in Constraints : Comparable[c] = ComparableBody(Comparable, c)
<1> DEFINE F == [g \in [Constraints -> BOOLEAN] |-> [c \in Constraints |-> ComparableBody(g, c)]]
<1>1. \A g, c : ComparableBody(g, c) \in BOOLEAN
  BY DEF ComparableBody
<1>2. F \in [[Constraints -> BOOLEAN] -> [Constraints -> BOOLEAN]]
  BY <1>1
<1>3. ASSUME NEW g \in [Constraints -> BOOLEAN], NEW h \in [Constraints -> BOOLEAN],
             NEW c \in Constraints, \A d \in Constraints : Depth[d] < Depth[c] => g[d] = h[d]
      PROVE  F[g][c] = F[h][c]
  <2>1. ComparableBody(g, c) = ComparableBody(h, c)
    BY <1>3, Lists DEF ComparableBody
  <2> QED
    BY <2>1
<1>4. Fixed(F, Constraints, BOOLEAN)
  <2> HIDE DEF F
  <2>1. Descends(F, Constraints, BOOLEAN, Depth)
    BY <1>2, <1>3, Depths DEF Descends
  <2> QED
    BY <2>1, Recursion
<1>5. PICK f \in [Constraints -> BOOLEAN] : f = F[f]
  BY <1>4 DEF Fixed
<1>6. f = [c \in Constraints |-> ComparableBody(f, c)]
  BY <1>5
<1>7. Comparable = CHOOSE g : g = [c \in Constraints |-> ComparableBody(g, c)]
  BY DEF Comparable, ComparableBody
<1>8. Comparable = [c \in Constraints |-> ComparableBody(Comparable, c)]
  BY <1>6, <1>7
<1> QED
  BY <1>1, <1>8

RepeatsBody(g, c) ==
  ~IsAtom(c) /\ (RepeatsOne(c.list) \/ \E cc \in Elements(c.list) : g[cc])

\* RepeatsInside is the function that its definition describes.
LEMMA RepeatsEquation ==
  /\ RepeatsInside \in [Constraints -> BOOLEAN]
  /\ \A c \in Constraints : RepeatsInside[c] = RepeatsBody(RepeatsInside, c)
<1> DEFINE F == [g \in [Constraints -> BOOLEAN] |-> [c \in Constraints |-> RepeatsBody(g, c)]]
<1>1. \A g, c : RepeatsBody(g, c) \in BOOLEAN
  BY DEF RepeatsBody
<1>2. F \in [[Constraints -> BOOLEAN] -> [Constraints -> BOOLEAN]]
  BY <1>1
<1>3. ASSUME NEW g \in [Constraints -> BOOLEAN], NEW h \in [Constraints -> BOOLEAN],
             NEW c \in Constraints, \A d \in Constraints : Depth[d] < Depth[c] => g[d] = h[d]
      PROVE  F[g][c] = F[h][c]
  <2>1. RepeatsBody(g, c) = RepeatsBody(h, c)
    BY <1>3, Lists DEF RepeatsBody
  <2> QED
    BY <2>1
<1>4. Fixed(F, Constraints, BOOLEAN)
  <2> HIDE DEF F
  <2>1. Descends(F, Constraints, BOOLEAN, Depth)
    BY <1>2, <1>3, Depths DEF Descends
  <2> QED
    BY <2>1, Recursion
<1>5. PICK f \in [Constraints -> BOOLEAN] : f = F[f]
  BY <1>4 DEF Fixed
<1>6. f = [c \in Constraints |-> RepeatsBody(f, c)]
  BY <1>5
<1>7. RepeatsInside = CHOOSE g : g = [c \in Constraints |-> RepeatsBody(g, c)]
  BY DEF RepeatsInside, RepeatsBody
<1>8. RepeatsInside = [c \in Constraints |-> RepeatsBody(RepeatsInside, c)]
  BY <1>6, <1>7
<1> QED
  BY <1>1, <1>8

CompatibleBody(g, a, b) ==
  \/ IsAtom(a) /\ IsAtom(b) /\ SubsumedBy(a, b)
  \/ /\ IsAtom(a) /\ b.kind \in Alternatives
     /\ \E bb \in Elements(b.list) : g[<<a, bb>>]
  \/ /\ a.kind \in Conjunctions /\ IsAtom(b)
     /\ \E aa \in Elements(a.list) : g[<<aa, b>>]
  \/ /\ a.kind \in Alternatives /\ IsAtom(b)
     /\ \A aa \in Elements(a.list) : g[<<aa, b>>]
  \/ /\ a.kind \in Conjunctions /\ b.kind = a.kind
     /\ \A bb \in Elements(b.list) : \E aa \in Elements(a.list) : g[<<aa, bb>>]
  \/ /\ a.kind \in Alternatives /\ b.kind = a.kind
     /\ \E aa \in Elements(a.list), bb \in Elements(b.list) : g[<<aa, bb>>]

\* Compatible is the function that its definition describes.
LEMMA CompatibleEquation ==
  /\ Compatible \in [Pairs -> BOOLEAN]
  /\ \A a, b \in Constraints : Compatible[<<a, b>>] = CompatibleBody(Compatible, a, b)
<1> DEFINE F == [g \in [Pairs -> BOOLEAN] |-> [ab \in Pairs |-> CompatibleBody(g, ab[1], ab[2])]]
<1>1. \A g, a, b : CompatibleBody(g, a, b) \in BOOLEAN
  BY DEF CompatibleBody
<1>2. F \in [[Pairs -> BOOLEAN] -> [Pairs -> BOOLEAN]]
  BY <1>1
<1>3. ASSUME NEW g \in [Pairs -> BOOLEAN], NEW h \in [Pairs -> BOOLEAN], NEW ab \in Pairs,
             \A cd \in Pairs : PairDepth[cd] < PairDepth[ab] => g[cd] = h[cd]
      PROVE  F[g][ab] = F[h][ab]
  <2>1. PICK a \in Constraints, b \in Constraints : ab = <<a, b>>
    BY DEF Pairs
  <2>2. \A c, d \in Constraints : Depth[c] + Depth[d] < Depth[a] + Depth[b] => g[<<c, d>>] = h[<<c, d>>]
    BY <1>3, <2>1, PairDepths
  <2>3. ASSUME ~IsAtom(a), NEW aa \in Elements(a.list)
        PROVE  aa \in Constraints /\ g[<<aa, b>>] = h[<<aa, b>>]
    BY <2>2, <2>3, Lists, Depths
  <2>4. ASSUME ~IsAtom(b), NEW bb \in Elements(b.list)
        PROVE  bb \in Constraints /\ g[<<a, bb>>] = h[<<a, bb>>]
    BY <2>2, <2>4, Lists, Depths
  <2>5. ASSUME ~IsAtom(a), ~IsAtom(b), NEW aa \in Elements(a.list), NEW bb \in Elements(b.list)
        PROVE  g[<<aa, bb>>] = h[<<aa, bb>>]
    <3>1. aa \in Constraints /\ bb \in Constraints
      BY <2>3, <2>4, <2>5
    <3>2. Depth[aa] < Depth[a] /\ Depth[bb] < Depth[b]
      BY <2>5, Lists
    <3>3. Depth[aa] + Depth[bb] < Depth[a] + Depth[b]
      BY <3>1, <3>2, Depths
    <3> QED
      BY <2>2, <3>1, <3>3
  <2>6. (a.kind \in Kinds => ~IsAtom(a)) /\ (b.kind \in Kinds => ~IsAtom(b))
    BY DEF IsAtom, Kinds, Conjunctions, Alternatives
  <2>7. CompatibleBody(g, a, b) = CompatibleBody(h, a, b)
    BY <2>3, <2>4, <2>5, <2>6 DEF CompatibleBody, Kinds
  <2> QED
    BY <2>1, <2>7
<1>4. Fixed(F, Pairs, BOOLEAN)
  <2> HIDE DEF F
  <2>1. Descends(F, Pairs, BOOLEAN, PairDepth)
    BY <1>2, <1>3, PairDepths DEF Descends
  <2> QED
    BY <2>1, Recursion
<1>5. PICK f \in [Pairs -> BOOLEAN] : f = F[f]
  BY <1>4 DEF Fixed
<1>6. f = [ab \in Pairs |-> CompatibleBody(f, ab[1], ab[2])]
  BY <1>5
<1>7. Compatible = CHOOSE g : g = [ab \in Pairs |-> CompatibleBody(g, ab[1], ab[2])]
  BY DEF Compatible, CompatibleBody
<1>8. Compatible = [ab \in Pairs |-> CompatibleBody(Compatible, ab[1], ab[2])]
  BY <1>6, <1>7
<1> QED
  BY <1>1, <1>8, PairDepths

IdenticalBody(g, a, b) ==
  \/ IsAtom(a) /\ IsAtom(b) /\ a = b
  \/ /\ ~IsAtom(a) /\ ~IsAtom(b)
     /\ a.kind = b.kind
     /\ Len(a.list) = Len(b.list)
     /\ \A bb \in Elements(b.list) : \E aa \in Elements(a.list) : g[<<aa, bb>>]

\* Identical is the function that its definition describes.
LEMMA IdenticalEquation ==
  /\ Identical \in [Pairs -> BOOLEAN]
  /\ \A a, b \in Constraints : Identical[<<a, b>>] = IdenticalBody(Identical, a, b)
<1> DEFINE F == [g \in [Pairs -> BOOLEAN] |-> [ab \in Pairs |-> IdenticalBody(g, ab[1], ab[2])]]
<1>1. \A g, a, b : IdenticalBody(g, a, b) \in BOOLEAN
  BY DEF IdenticalBody
<1>2. F \in [[Pairs -> BOOLEAN] -> [Pairs -> BOOLEAN]]
  BY <1>1
<1>3. ASSUME NEW g \in [Pairs -> BOOLEAN], NEW h \in [Pairs -> BOOLEAN], NEW ab \in Pairs,
             \A cd \in Pairs : PairDepth[cd] < PairDepth[ab] => g[cd] = h[cd]
      PROVE  F[g][ab] = F[h][ab]
  <2>1. PICK a \in Constraints, b \in Constraints : ab = <<a, b>>
    BY DEF Pairs
  <2>2. \A c, d \in Constraints : Depth[c] + Depth[d] < Depth[a] + Depth[b] => g[<<c, d>>] = h[<<c, d>>]
    BY <1>3, <2>1, PairDepths
  <2>3. ASSUME ~IsAtom(a), NEW aa \in Elements(a.list)
        PROVE  aa \in Constraints /\ g[<<aa, b>>] = h[<<aa, b>>]
    BY <2>2, <2>3, Lists, Depths
  <2>4. ASSUME ~IsAtom(b), NEW bb \in Elements(b.list)
        PROVE  bb \in Constraints /\ g[<<a, bb>>] = h[<<a, bb>>]
    BY <2>2, <2>4, Lists, Depths
  <2>5. ASSUME ~IsAtom(a), ~IsAtom(b), NEW aa \in Elements(a.list), NEW bb \in Elements(b.list)
        PROVE  g[<<aa, bb>>] = h[<<aa, bb>>]
    <3>1. aa \in Constraints /\ bb \in Constraints
      BY <2>3, <2>4, <2>5
    <3>2. Depth[aa] < Depth[a] /\ Depth[bb] < Depth[b]
      BY <2>5, Lists
    <3>3. Depth[aa] + Depth[bb] < Depth[a] + Depth[b]
      BY <3>1, <3>2, Depths
    <3> QED
      BY <2>2, <3>1, <3>3
  <2>6. (a.kind \in Kinds => ~IsAtom(a)) /\ (b.kind \in Kinds => ~IsAtom(b))
    BY DEF IsAtom, Kinds, Conjunctions, Alternatives
  <2>7. IdenticalBody(g, a, b) = IdenticalBody(h, a, b)
    BY <2>3, <2>4, <2>5, <2>6 DEF IdenticalBody, Kinds
  <2> QED
    BY <2>1, <2>7
<1>4. Fixed(F, Pairs, BOOLEAN)
  <2> HIDE DEF F
  <2>1. Descends(F, Pairs, BOOLEAN, PairDepth)
    BY <1>2, <1>3, PairDepths DEF Descends
  <2> QED
    BY <2>1, Recursion
<1>5. PICK f \in [Pairs -> BOOLEAN] : f = F[f]
  BY <1>4 DEF Fixed
<1>6. f = [ab \in Pairs |-> IdenticalBody(f, ab[1], ab[2])]
  BY <1>5
<1>7. Identical = CHOOSE g : g = [ab \in Pairs |-> IdenticalBody(g, ab[1], ab[2])]
  BY DEF Identical, IdenticalBody
<1>8. Identical = [ab \in Pairs |-> IdenticalBody(Identical, ab[1], ab[2])]
  BY <1>6, <1>7
<1> QED
  BY <1>1, <1>8, PairDepths

SameMeaningBody(g, a, b) ==
  \/ IsAtom(a) /\ IsAtom(b) /\ a = b
  \/ /\ ~IsAtom(a) /\ ~IsAtom(b)
     /\ a.kind = b.kind
     /\ \A aa \in Elements(a.list) : \E bb \in Elements(b.list) : g[<<aa, bb>>]
     /\ \A bb \in Elements(b.list) : \E aa \in Elements(a.list) : g[<<aa, bb>>]

\* SameMeaning is the function that its definition describes.
LEMMA SameMeaningEquation ==
  /\ SameMeaning \in [Pairs -> BOOLEAN]
  /\ \A a, b \in Constraints : SameMeaning[<<a, b>>] = SameMeaningBody(SameMeaning, a, b)
<1> DEFINE F == [g \in [Pairs -> BOOLEAN] |-> [ab \in Pairs |-> SameMeaningBody(g, ab[1], ab[2])]]
<1>1. \A g, a, b : SameMeaningBody(g, a, b) \in BOOLEAN
  BY DEF SameMeaningBody
<1>2. F \in [[Pairs -> BOOLEAN] -> [Pairs -> BOOLEAN]]
  BY <1>1
<1>3. ASSUME NEW g \in [Pairs -> BOOLEAN], NEW h \in [Pairs -> BOOLEAN], NEW ab \in Pairs,
             \A cd \in Pairs : PairDepth[cd] < PairDepth[ab] => g[cd] = h[cd]
      PROVE  F[g][ab] = F[h][ab]
  <2>1. PICK a \in Constraints, b \in Constraints : ab = <<a, b>>
    BY DEF Pairs
  <2>2. \A c, d \in Constraints : Depth[c] + Depth[d] < Depth[a] + Depth[b] => g[<<c, d>>] = h[<<c, d>>]
    BY <1>3, <2>1, PairDepths
  <2>3. ASSUME ~IsAtom(a), NEW aa \in Elements(a.list)
        PROVE  aa \in Constraints /\ g[<<aa, b>>] = h[<<aa, b>>]
    BY <2>2, <2>3, Lists, Depths
  <2>4. ASSUME ~IsAtom(b), NEW bb \in Elements(b.list)
        PROVE  bb \in Constraints /\ g[<<a, bb>>] = h[<<a, bb>>]
    BY <2>2, <2>4, Lists, Depths
  <2>5. ASSUME ~IsAtom(a), ~IsAtom(b), NEW aa \in Elements(a.list), NEW bb \in Elements(b.list)
        PROVE  g[<<aa, bb>>] = h[<<aa, bb>>]
    <3>1. aa \in Constraints /\ bb \in Constraints
      BY <2>3, <2>4, <2>5
    <3>2. Depth[aa] < Depth[a] /\ Depth[bb] < Depth[b]
      BY <2>5, Lists
    <3>3. Depth[aa] + Depth[bb] < Depth[a] + Depth[b]
      BY <3>1, <3>2, Depths
    <3> QED
      BY <2>2, <3>1, <3>3
  <2>6. (a.kind \in Kinds => ~IsAtom(a)) /\ (b.kind \in Kinds => ~IsAtom(b))
    BY DEF IsAtom, Kinds, Conjunctions, Alternatives
  <2>7. SameMeaningBody(g, a, b) = SameMeaningBody(h, a, b)
    BY <2>3, <2>4, <2>5, <2>6 DEF SameMeaningBody, Kinds
  <2> QED
    BY <2>1, <2>7
<1>4. Fixed(F, Pairs, BOOLEAN)
  <2> HIDE DEF F
  <2>1. Descends(F, Pairs, BOOLEAN, PairDepth)
    BY <1>2, <1>3, PairDepths DEF Descends
  <2> QED
    BY <2>1, Recursion
<1>5. PICK f \in [Pairs -> BOOLEAN] : f = F[f]
  BY <1>4 DEF Fixed
<1>6. f = [ab \in Pairs |-> SameMeaningBody(f, ab[1], ab[2])]
  BY <1>5
<1>7. SameMeaning = CHOOSE g : g = [ab \in Pairs |-> SameMeaningBody(g, ab[1], ab[2])]
  BY DEF SameMeaning, SameMeaningBody
<1>8. SameMeaning = [ab \in Pairs |-> SameMeaningBody(SameMeaning, ab[1], ab[2])]
  BY <1>6, <1>7
<1> QED
  BY <1>1, <1>8, PairDepths

\* The verdict of a list is that of its first element that has another than the
\* neutral one, or the neutral one.
LEMMA FirstOtherOf ==
  ASSUME NEW results, NEW neutral, DOMAIN results \subseteq Nat
  PROVE  \/ /\ \A i \in DOMAIN results : results[i] = neutral
            /\ FirstOther(results, neutral) = neutral
         \/ \E i \in DOMAIN results :
              /\ results[i] # neutral
              /\ FirstOther(results, neutral) = results[i]
              /\ \A j \in DOMAIN results : j < i => results[j] = neutral
<1> DEFINE others == {i \in DOMAIN results : results[i] # neutral}
<1>1. CASE others = {}
  BY <1>1 DEF FirstOther
<1>2. CASE others # {}
  <2>1. \E i \in others : \A j \in others : i <= j
    BY <1>2, LeastNumber
  <2> DEFINE first == CHOOSE i \in others : \A j \in others : i <= j
  <2>2. first \in others /\ \A j \in others : first <= j
    BY <2>1
  <2>3. FirstOther(results, neutral) = results[first]
    BY <1>2 DEF FirstOther
  <2> HIDE DEF first
  <2>4. \A j \in DOMAIN results : j < first => results[j] = neutral
    BY <2>2
  <2> QED
    BY <2>2, <2>3, <2>4
<1> QED
  BY <1>1, <1>2

Verdicts == {"yes", "no", "error"}

Neutral(c) == IF c.kind \in Conjunctions THEN "yes" ELSE "no"

SatisfiedBody(g, c, claims, date) ==
  IF IsAtom(c) THEN AtomSatisfied(c, claims, date)
  ELSE FirstOther([i \in DOMAIN c.list |-> g[c.list[i]]], Neutral(c))

LEMMA SatisfiedTyped ==
  ASSUME NEW claims, NEW date, NEW c \in Constraints, NEW g,
         ~IsAtom(c) => \A i \in DOMAIN c.list : g[c.list[i]] \in Verdicts
  PROVE  SatisfiedBody(g, c, claims, date) \in Verdicts
<1>1. CASE IsAtom(c)
  BY <1>1 DEF SatisfiedBody, AtomSatisfied, YesOrNo, Verdicts
<1>2. CASE ~IsAtom(c)
  <2> DEFINE results == [i \in DOMAIN c.list |-> g[c.list[i]]]
  <2>1. \A i \in DOMAIN results : results[i] \in Verdicts
    BY <1>2, Lists
  <2>2. DOMAIN results \subseteq Nat
    BY <1>2, Lists
  <2>3. Neutral(c) \in Verdicts
    BY DEF Neutral, Verdicts
  <2>4. SatisfiedBody(g, c, claims, date) = FirstOther(results, Neutral(c))
    BY <1>2 DEF SatisfiedBody
  <2> HIDE DEF results
  <2> QED
    BY <2>1, <2>2, <2>3, <2>4, FirstOtherOf
<1> QED
  BY <1>1, <1>2

\* Satisfied is the function that its definition describes.
LEMMA SatisfiedEquation ==
  ASSUME NEW claims, NEW date
  PROVE  /\ Satisfied(claims, date) \in [Constraints -> Verdicts]
         /\ \A c \in Constraints :
              Satisfied(claims, date)[c] = SatisfiedBody(Satisfied(claims, date), c, claims, date)
<1> DEFINE F == [g \in [Constraints -> Verdicts] |->
                   [c \in Constraints |-> SatisfiedBody(g, c, claims, date)]]
<1>1. F \in [[Constraints -> Verdicts] -> [Constraints -> Verdicts]]
  BY SatisfiedTyped, Lists
<1>2. ASSUME NEW g \in [Constraints -> Verdicts], NEW h \in [Constraints -> Verdicts],
             NEW c \in Constraints, \A d \in Constraints : Depth[d] < Depth[c] => g[d] = h[d]
      PROVE  F[g][c] = F[h][c]
  <2>1. ASSUME ~IsAtom(c)
        PROVE  [i \in DOMAIN c.list |-> g[c.list[i]]] = [i \in DOMAIN c.list |-> h[c.list[i]]]
    BY <1>2, <2>1, Lists
  <2>2. SatisfiedBody(g, c, claims, date) = SatisfiedBody(h, c, claims, date)
    BY <2>1 DEF SatisfiedBody
  <2> QED
    BY <2>2
<1>3. Fixed(F, Constraints, Verdicts)
  <2> HIDE DEF F
  <2>1. Verdicts # {}
    BY DEF Verdicts
  <2>2. Descends(F, Constraints, Verdicts, Depth)
    BY <1>1, <1>2, Depths DEF Descends
  <2> QED
    BY <2>1, <2>2, Recursion
<1>4. PICK f \in [Constraints -> Verdicts] : f = F[f]
  BY <1>3 DEF Fixed
<1>5. f = [c \in Constraints |-> SatisfiedBody(f, c, claims, date)]
  BY <1>4
<1>6. Satisfied(claims, date) =
        CHOOSE g : g = [c \in Constraints |-> SatisfiedBody(g, c, claims, date)]
  BY DEF Satisfied, SatisfiedBody, Neutral
<1>7. Satisfied(claims, date) =
        [c \in Constraints |-> SatisfiedBody(Satisfied(claims, date), c, claims, date)]
  BY <1>5, <1>6
<1> DEFINE S == Satisfied(claims, date)
           P == {c \in Constraints : S[c] \in Verdicts}
<1> HIDE DEF S
<1>8. ASSUME NEW c \in Constraints, \A d \in Constraints : Depth[d] < Depth[c] => d \in P
      PROVE  c \in P
  <2>1. ~IsAtom(c) => \A i \in DOMAIN c.list : S[c.list[i]] \in Verdicts
    BY <1>8, Lists
  <2>2. SatisfiedBody(S, c, claims, date) \in Verdicts
    BY <2>1, SatisfiedTyped
  <2>3. S[c] = SatisfiedBody(S, c, claims, date)
    BY <1>7 DEF S
  <2> QED
    BY <2>2, <2>3
<1>9. Constraints \subseteq P
  <2> HIDE DEF P
  <2>1. Inductive(P, Constraints, Depth)
    BY <1>8, Depths DEF Inductive
  <2> QED
    BY <2>1, DepthInduction
<1>10. Satisfied(claims, date) \in [Constraints -> Verdicts]
  <2>1. \A c \in Constraints : Satisfied(claims, date)[c] \in Verdicts
    BY <1>9 DEF S
  <2> QED
    BY <1>7, <2>1
<1> QED
  BY <1>7, <1>10

-----------------------------------------------------------------------------
(***************************************************************************)
(* What is compatible is at least as strict.                               *)
(***************************************************************************)
Have(c, claims, date) == IF c.property = "temporal" THEN date ELSE claims[c.property]

Holds(c, have) ==
  \/ c.op = "eq" /\ have = c.value
  \/ c.op = "neq" /\ have # c.value
  \/ c.op = "gt" /\ Lt(c.property, c.value, have)
  \/ c.op = "gteq" /\ Lteq(c.property, c.value, have)
  \/ c.op = "lt" /\ Lt(c.property, have, c.value)
  \/ c.op = "lteq" /\ Lteq(c.property, have, c.value)
  \/ c.op = "hasPart" /\ IsPartOf(c.property, c.value, have)
  \/ c.op = "isPartOf" /\ IsPartOf(c.property, have, c.value)
  \/ c.op = "isA" /\ IsSubclassOf(have, c.value)

\* An atom is decided if there is a claim to decide it by, as the operator says.
LEMMA AtomVerdict ==
  ASSUME NEW c, NEW claims, NEW date
  PROVE  AtomSatisfied(c, claims, date) =
           IF Have(c, claims, date) = Missing THEN "error"
           ELSE YesOrNo(Holds(c, Have(c, claims, date)))
<1> DEFINE have == Have(c, claims, date)
           holds == CASE c.op = "eq" -> have = c.value
                      [] c.op = "neq" -> have # c.value
                      [] c.op = "gt" -> Lt(c.property, c.value, have)
                      [] c.op = "gteq" -> Lteq(c.property, c.value, have)
                      [] c.op = "lt" -> Lt(c.property, have, c.value)
                      [] c.op = "lteq" -> Lteq(c.property, have, c.value)
                      [] c.op = "hasPart" -> IsPartOf(c.property, c.value, have)
                      [] c.op = "isPartOf" -> IsPartOf(c.property, have, c.value)
                      [] c.op = "isA" -> IsSubclassOf(have, c.value)
                      [] OTHER -> FALSE
<1>1. AtomSatisfied(c, claims, date) = IF have = Missing THEN "error" ELSE YesOrNo(holds)
  BY DEF AtomSatisfied, Have
<1> HIDE DEF have
<1>2. holds = Holds(c, have)
  BY DEF Holds, Lt, Lteq, IsPartOf, IsSubclassOf
<1> HIDE DEF holds
<1> QED
  BY <1>1, <1>2 DEF have

LEMMA PartsOfParts ==
  ASSUME NEW p, NEW x, NEW y, NEW z, IsPartOf(p, x, y), IsPartOf(p, y, z)
  PROVE  IsPartOf(p, x, z)
BY DEF IsPartOf

\* An atom that subsumes an exact one holds of nothing that the other does not.
LEMMA AtomNotWeakened ==
  ASSUME NEW a \in Constraints, NEW b \in Constraints, IsAtom(a), IsAtom(b),
         SubsumedBy(a, b), Exact[b], NEW claims, NEW date \in Int,
         AtomSatisfied(a, claims, date) = "yes"
  PROVE  AtomSatisfied(b, claims, date) = "yes"
<1> DEFINE have == Have(a, claims, date)
<1>1. a.property = b.property /\ have = Have(b, claims, date)
  BY DEF SubsumedBy, Have
<1>2. have # Missing /\ Holds(a, have)
  BY AtomVerdict DEF YesOrNo
<1>3. b.op \notin {"lt", "gt"} /\ ~(b.op = "eq" /\ b.property = "spatial")
  BY ExactEquation DEF ExactBody
<1>4. a.property = "temporal" => a.value \in Int /\ b.value \in Int /\ have \in Int
  BY <1>1, EngineAssumption DEF Have, IsAtom, Conjunctions, Alternatives
<1> HIDE DEF have
<1>5. Holds(b, have)
  <2>1. CASE a.op = b.op /\ a.op \in {"eq", "neq"} /\ a.value = b.value
    BY <1>2, <2>1 DEF Holds
  <2>2. CASE a.op = "isA" /\ b.op = "isA" /\ IsSubclassOf(a.value, b.value)
    BY <1>2, <2>2 DEF Holds, IsSubclassOf
  <2>3. CASE /\ <<a.op, b.op>> \in {<<"isPartOf", "isPartOf">>, <<"isPartOf", "eq">>,
                                    <<"eq", "isPartOf">>}
             /\ IsPartOf(a.property, a.value, b.value)
    <3>1. b.op = "isPartOf" /\ a.op \in {"isPartOf", "eq"}
      BY <1>1, <1>3, <2>3 DEF IsPartOf
    <3>2. have = a.value \/ IsPartOf(a.property, have, a.value)
      BY <1>2, <3>1 DEF Holds
    <3>3. IsPartOf(b.property, have, b.value)
      BY <1>1, <2>3, <3>2, PartsOfParts
    <3> QED
      BY <3>1, <3>3 DEF Holds
  <2>4. CASE /\ <<a.op, b.op>> \in {<<"hasPart", "hasPart">>, <<"hasPart", "eq">>,
                                    <<"eq", "hasPart">>}
             /\ IsPartOf(a.property, b.value, a.value)
    <3>1. b.op = "hasPart" /\ a.op \in {"hasPart", "eq"}
      BY <1>1, <1>3, <2>4 DEF IsPartOf
    <3>2. have = a.value \/ IsPartOf(a.property, a.value, have)
      BY <1>2, <3>1 DEF Holds
    <3>3. IsPartOf(b.property, b.value, have)
      BY <1>1, <2>4, <3>2, PartsOfParts
    <3> QED
      BY <3>1, <3>3 DEF Holds
  <2>5. CASE a.op \in Upper /\ b.op \in Upper /\ Lteq(a.property, a.value, b.value)
    <3>1. b.op = "lteq" /\ a.op \in {"lt", "lteq"}
      BY <1>3, <2>5 DEF Upper
    <3>2. Lt(a.property, have, a.value) \/ Lteq(a.property, have, a.value)
      BY <1>2, <3>1 DEF Holds
    <3>3. Lteq(b.property, have, b.value)
      BY <1>1, <1>4, <2>5, <3>2 DEF Lt, Lteq, BothDates
    <3> QED
      BY <3>1, <3>3 DEF Holds
  <2>6. CASE a.op \in Lower /\ b.op \in Lower /\ Lteq(a.property, b.value, a.value)
    <3>1. b.op = "gteq" /\ a.op \in {"gt", "gteq"}
      BY <1>3, <2>6 DEF Lower
    <3>2. Lt(a.property, a.value, have) \/ Lteq(a.property, a.value, have)
      BY <1>2, <3>1 DEF Holds
    <3>3. Lteq(b.property, b.value, have)
      BY <1>1, <1>4, <2>6, <3>2 DEF Lt, Lteq, BothDates
    <3> QED
      BY <3>1, <3>3 DEF Holds
  <2> QED
    BY <2>1, <2>2, <2>3, <2>4, <2>5, <2>6 DEF SubsumedBy
<1> QED
  BY <1>1, <1>2, <1>5, AtomVerdict DEF YesOrNo

LEMMA AllYes ==
  ASSUME NEW results, DOMAIN results \subseteq Nat
  PROVE  FirstOther(results, "yes") = "yes" <=> \A i \in DOMAIN results : results[i] = "yes"
BY FirstOtherOf

LEMMA SomeYes ==
  ASSUME NEW results, DOMAIN results \subseteq Nat, FirstOther(results, "no") = "yes"
  PROVE  \E i \in DOMAIN results : results[i] = "yes"
BY FirstOtherOf

LEMMA ConjunctionYes ==
  ASSUME NEW claims, NEW date, NEW c \in Constraints, c.kind \in Conjunctions
  PROVE  Satisfied(claims, date)[c] = "yes" <=>
           \A cc \in Elements(c.list) : Satisfied(claims, date)[cc] = "yes"
<1> DEFINE S == Satisfied(claims, date)
           results == [i \in DOMAIN c.list |-> S[c.list[i]]]
<1>1. ~IsAtom(c)
  BY DEF IsAtom, Conjunctions
<1> HIDE DEF S
<1>2. S[c] = FirstOther(results, "yes")
  BY <1>1, SatisfiedEquation DEF SatisfiedBody, Neutral, S
<1>3. DOMAIN results \subseteq Nat
  BY <1>1, Lists
<1>4. (\A i \in DOMAIN results : results[i] = "yes") <=> \A cc \in Elements(c.list) : S[cc] = "yes"
  BY DEF Elements
<1>5. FirstOther(results, "yes") = "yes" <=> \A i \in DOMAIN results : results[i] = "yes"
  <2> HIDE DEF results
  <2> QED
    BY <1>3, AllYes
<1> QED
  BY <1>2, <1>4, <1>5 DEF S

LEMMA AlternativeYes ==
  ASSUME NEW claims, NEW date, NEW c \in Constraints, c.kind \in Alternatives,
         Satisfied(claims, date)[c] = "yes"
  PROVE  \E cc \in Elements(c.list) : Satisfied(claims, date)[cc] = "yes"
<1> DEFINE S == Satisfied(claims, date)
           results == [i \in DOMAIN c.list |-> S[c.list[i]]]
<1>1. ~IsAtom(c) /\ c.kind \notin Conjunctions
  BY DEF IsAtom, Conjunctions, Alternatives
<1>2. S[c] = "yes"
  OBVIOUS
<1> HIDE DEF S
<1>3. FirstOther(results, "no") = "yes"
  BY <1>1, <1>2, SatisfiedEquation DEF SatisfiedBody, Neutral, S
<1>4. \E i \in DOMAIN results : results[i] = "yes"
  <2>1. DOMAIN results \subseteq Nat
    BY <1>1, Lists
  <2> HIDE DEF results
  <2> QED
    BY <1>3, <2>1, SomeYes
<1> QED
  BY <1>4 DEF Elements, S

LEMMA KindsOf ==
  ASSUME NEW c
  PROVE  /\ c.kind \in Conjunctions => ~IsAtom(c) /\ c.kind \notin Alternatives
         /\ c.kind \in Alternatives => ~IsAtom(c) /\ c.kind \notin Conjunctions
BY DEF IsAtom, Conjunctions, Alternatives

\* A constraint compatible with an exact one is satisfied by nobody who does not
\* satisfy the other.
LEMMA NotWeakened ==
  ASSUME NEW claims, NEW date \in Int
  PROVE  \A a, b \in Constraints :
           /\ Compatible[<<a, b>>]
           /\ Exact[b]
           /\ Satisfied(claims, date)[a] = "yes"
           => Satisfied(claims, date)[b] = "yes"
<1> DEFINE S == Satisfied(claims, date)
           Kept(a, b) == Compatible[<<a, b>>] /\ Exact[b] /\ S[a] = "yes" => S[b] = "yes"
           P == {ab \in Pairs : Kept(ab[1], ab[2])}
<1>1. ASSUME NEW a \in Constraints, NEW b \in Constraints,
             \A c, d \in Constraints : Depth[c] + Depth[d] < Depth[a] + Depth[b] => Kept(c, d),
             Compatible[<<a, b>>], Exact[b], S[a] = "yes"
      PROVE  S[b] = "yes"
  <2> DEFINE as == Elements(a.list)
             bs == Elements(b.list)
  <2>1. ASSUME ~IsAtom(a), NEW aa \in as
        PROVE  aa \in Constraints /\ Kept(aa, b)
    <3>1. aa \in Constraints /\ Depth[aa] + Depth[b] < Depth[a] + Depth[b]
      BY <2>1, Lists, Depths
    <3> HIDE DEF Kept
    <3> QED
      BY <1>1, <3>1
  <2>2. ASSUME ~IsAtom(a), ~IsAtom(b), NEW aa \in as, NEW bb \in bs
        PROVE  aa \in Constraints /\ bb \in Constraints /\ Kept(aa, bb)
    <3>1. aa \in Constraints /\ bb \in Constraints
      BY <2>2, Lists
    <3>2. Depth[aa] < Depth[a] /\ Depth[bb] < Depth[b]
      BY <2>2, Lists
    <3>3. Depth[aa] + Depth[bb] < Depth[a] + Depth[b]
      BY <3>1, <3>2, Depths
    <3> HIDE DEF Kept
    <3> QED
      BY <1>1, <3>1, <3>3
  <2>3. IsAtom(b) \/ (b.kind \in Conjunctions /\ \A bb \in bs : Exact[bb])
    BY <1>1, ExactEquation DEF ExactBody
  <2>4. CASE IsAtom(a) /\ IsAtom(b) /\ SubsumedBy(a, b)
    <3>1. AtomSatisfied(a, claims, date) = "yes"
      BY <1>1, <2>4, SatisfiedEquation DEF SatisfiedBody
    <3>2. AtomSatisfied(b, claims, date) = "yes"
      BY <1>1, <2>4, <3>1, AtomNotWeakened
    <3> QED
      BY <2>4, <3>2, SatisfiedEquation DEF SatisfiedBody
  <2>5. CASE /\ a.kind \in Conjunctions /\ IsAtom(b)
             /\ \E aa \in as : Compatible[<<aa, b>>]
    <3>1. PICK aa \in as : Compatible[<<aa, b>>]
      BY <2>5
    <3>2. S[aa] = "yes"
      BY <1>1, <2>5, ConjunctionYes
    <3> QED
      BY <1>1, <2>1, <2>5, <3>1, <3>2, KindsOf
  <2>6. CASE /\ a.kind \in Alternatives /\ IsAtom(b)
             /\ \A aa \in as : Compatible[<<aa, b>>]
    <3>1. PICK aa \in as : S[aa] = "yes"
      BY <1>1, <2>6, AlternativeYes
    <3> QED
      BY <1>1, <2>1, <2>6, <3>1, KindsOf
  <2>7. CASE /\ a.kind \in Conjunctions /\ b.kind = a.kind
             /\ \A bb \in bs : \E aa \in as : Compatible[<<aa, bb>>]
    <3>1. ASSUME NEW bb \in bs PROVE S[bb] = "yes"
      <4>1. PICK aa \in as : Compatible[<<aa, bb>>]
        BY <2>7
      <4>2. S[aa] = "yes"
        BY <1>1, <2>7, ConjunctionYes
      <4>3. Exact[bb]
        BY <2>3, <2>7, KindsOf
      <4> QED
        BY <2>2, <2>7, <4>1, <4>2, <4>3, KindsOf
    <3> QED
      BY <2>7, <3>1, ConjunctionYes
  <2>8. \/ IsAtom(a) /\ IsAtom(b) /\ SubsumedBy(a, b)
        \/ /\ a.kind \in Conjunctions /\ IsAtom(b)
           /\ \E aa \in as : Compatible[<<aa, b>>]
        \/ /\ a.kind \in Alternatives /\ IsAtom(b)
           /\ \A aa \in as : Compatible[<<aa, b>>]
        \/ /\ a.kind \in Conjunctions /\ b.kind = a.kind
           /\ \A bb \in bs : \E aa \in as : Compatible[<<aa, bb>>]
    BY <1>1, <2>3, CompatibleEquation, KindsOf DEF CompatibleBody
  <2> QED
    BY <2>4, <2>5, <2>6, <2>7, <2>8
<1>2. ASSUME NEW ab \in Pairs, \A cd \in Pairs : PairDepth[cd] < PairDepth[ab] => cd \in P
      PROVE  ab \in P
  <2>1. PICK a \in Constraints, b \in Constraints : ab = <<a, b>>
    BY DEF Pairs
  <2> HIDE DEF Kept
  <2>2. ASSUME NEW c \in Constraints, NEW d \in Constraints,
               Depth[c] + Depth[d] < Depth[a] + Depth[b]
        PROVE  Kept(c, d)
    <3>1. <<c, d>> \in P
      BY <1>2, <2>1, <2>2, PairDepths
    <3> QED
      BY <3>1
  <2>3. Kept(a, b)
    BY <1>1, <2>2 DEF Kept
  <2> QED
    BY <2>1, <2>3
<1>3. Pairs \subseteq P
  <2> HIDE DEF P
  <2>1. Inductive(P, Pairs, PairDepth)
    BY <1>2, PairDepths DEF Inductive
  <2> QED
    BY <2>1, DepthInduction
<1>4. ASSUME NEW a \in Constraints, NEW b \in Constraints PROVE Kept(a, b)
  <2> HIDE DEF Kept
  <2>1. <<a, b>> \in P
    BY <1>3, PairDepths
  <2> QED
    BY <2>1
<1> QED
  BY <1>4

-----------------------------------------------------------------------------
(***************************************************************************)
(* Rules and policies.                                                     *)
(***************************************************************************)
LEMMA RuleLists ==
  ASSUME NEW r \in Rules, r.constraint # NoConstraint
  PROVE  /\ r.constraint \in Seq(Constraints)
         /\ DOMAIN r.constraint \subseteq Nat
         /\ Elements(r.constraint) \subseteq Constraints
<1>1. r.constraint \in Seq(Constraints)
  BY DEF Rules
<1> QED
  BY <1>1 DEF Elements

LEMMA RuleYes ==
  ASSUME NEW r \in Rules, NEW claims, NEW date
  PROVE  RuleSatisfied(r, claims, date) = "yes" <=>
           /\ r.action = "use"
           /\ \/ r.constraint = NoConstraint
              \/ \A c \in Elements(r.constraint) : Satisfied(claims, date)[c] = "yes"
<1> DEFINE S == Satisfied(claims, date)
           results == [i \in DOMAIN r.constraint |-> S[r.constraint[i]]]
<1>1. CASE r.action # "use" \/ r.constraint = NoConstraint
  BY <1>1 DEF RuleSatisfied
<1>2. CASE r.action = "use" /\ r.constraint # NoConstraint
  <2>1. RuleSatisfied(r, claims, date) = FirstOther(results, "yes")
    BY <1>2 DEF RuleSatisfied
  <2> HIDE DEF S
  <2>2. (\A i \in DOMAIN results : results[i] = "yes") <=>
          \A c \in Elements(r.constraint) : S[c] = "yes"
    BY DEF Elements
  <2>3. FirstOther(results, "yes") = "yes" <=> \A i \in DOMAIN results : results[i] = "yes"
    <3>1. DOMAIN results \subseteq Nat
      BY <1>2, RuleLists
    <3> HIDE DEF results
    <3> QED
      BY <3>1, AllYes
  <2> QED
    BY <1>2, <2>1, <2>2, <2>3 DEF S
<1> QED
  BY <1>1, <1>2

\* A rule that covers one with exact constraints holds of nobody of whom that
\* one does not.
LEMMA RuleNotWeakened ==
  ASSUME NEW mine \in Rules, NEW theirs \in Rules, Covers(mine, theirs),
         theirs.constraint # NoConstraint => \A c \in Elements(theirs.constraint) : Exact[c],
         NEW claims, NEW date \in Int, RuleSatisfied(mine, claims, date) = "yes"
  PROVE  RuleSatisfied(theirs, claims, date) = "yes"
<1>1. theirs.action = "use"
  BY RuleYes DEF Covers
<1>2. ASSUME theirs.constraint # NoConstraint, NEW bc \in Elements(theirs.constraint)
      PROVE  Satisfied(claims, date)[bc] = "yes"
  <2>1. CASE mine.constraint = NoConstraint /\ theirs.constraint = <<>>
    BY <1>2, <2>1 DEF Elements
  <2>2. CASE /\ mine.constraint # NoConstraint
             /\ \E ac \in Elements(mine.constraint) : Compatible[<<ac, bc>>]
    <3>1. PICK ac \in Elements(mine.constraint) : Compatible[<<ac, bc>>]
      BY <2>2
    <3>2. ac \in Constraints /\ bc \in Constraints
      BY <1>2, <2>2, RuleLists
    <3>3. Satisfied(claims, date)[ac] = "yes"
      BY <2>2, RuleYes
    <3> QED
      BY <1>2, <3>1, <3>2, <3>3, NotWeakened
  <2> QED
    BY <1>2, <2>1, <2>2 DEF Covers, ConstraintsAreCompatible
<1> QED
  BY <1>1, <1>2, RuleYes

LEMMA FirstMatches ==
  ASSUME NEW p, NEW mine \in PolicyRecords, Matches(p, mine) # {}
  PROVE  /\ FirstMatch(p, mine) \in Elements(mine.permission)
         /\ Covers(FirstMatch(p, mine), p)
<1> DEFINE M == Matches(p, mine)
           first == CHOOSE i \in M : \A j \in M : i <= j
<1>1. M \subseteq Nat
  BY DEF Matches, PolicyRecords
<1>2. \E i \in M : \A j \in M : i <= j
  <2> HIDE DEF M
  <2> QED
    BY <1>1, LeastNumber DEF M
<1>3. first \in M
  BY <1>2
<1>4. FirstMatch(p, mine) = mine.permission[first]
  BY DEF FirstMatch
<1> HIDE DEF first
<1> QED
  BY <1>3, <1>4 DEF Matches, Elements

\* What an agreement's policy has of the dataset's and of the consumer's.
Agreement(policy, required, mine) ==
  /\ policy.permission \in [DOMAIN required.permission -> Elements(mine.permission)]
  /\ \A i \in DOMAIN required.permission : Covers(policy.permission[i], required.permission[i])
  /\ policy.prohibition = required.prohibition
  /\ policy.obligation = required.obligation
  /\ \A o \in Elements(required.obligation) : Confirmed(o, mine)

LEMMA NegotiatedPolicy ==
  ASSUME NEW required \in PolicyRecords, NEW mine \in PolicyRecords,
         NegotiatePolicy(required, mine).outcome = "success"
  PROVE  Agreement(NegotiatePolicy(required, mine).policy, required, mine)
<1> DEFINE permission == [i \in DOMAIN required.permission |->
                            FirstMatch(required.permission[i], mine)]
           policy == [required EXCEPT !.permission = permission]
<1>1. /\ \A p \in Elements(required.permission) : Matches(p, mine) # {}
      /\ \A o \in Elements(required.obligation) : Confirmed(o, mine)
      /\ NegotiatePolicy(required, mine).policy = policy
  BY DEF NegotiatePolicy, Forbidden
<1>2. /\ policy.permission = permission
      /\ policy.prohibition = required.prohibition
      /\ policy.obligation = required.obligation
  BY DEF PolicyRecords
<1>3. ASSUME NEW i \in DOMAIN required.permission
      PROVE  /\ permission[i] \in Elements(mine.permission)
             /\ Covers(permission[i], required.permission[i])
  <2>1. Matches(required.permission[i], mine) # {}
    BY <1>1 DEF Elements
  <2> QED
    BY <2>1, FirstMatches
<1> HIDE DEF policy
<1> QED
  BY <1>1, <1>2, <1>3 DEF Agreement

\* An agreement lets nobody have the data whom the dataset's policy, if its
\* permissions are exact, would not.
LEMMA AgreementNotWeaker ==
  ASSUME NEW required \in PolicyRecords, NEW mine \in PolicyRecords, NEW policy,
         Agreement(policy, required, mine),
         \A c \in ConstraintsOf(required.permission) : Exact[c],
         NEW claims, NEW date \in Int, CheckTransferPolicy(policy, claims, date)
  PROVE  CheckTransferPolicy(required, claims, date)
<1>1. ASSUME NEW i \in DOMAIN required.permission
      PROVE  RuleSatisfied(required.permission[i], claims, date) = "yes"
  <2> DEFINE theirs == required.permission[i]
             ours == policy.permission[i]
  <2>1. theirs \in Rules /\ theirs \in Elements(required.permission)
    BY DEF PolicyRecords, Elements
  <2>2. ours \in Elements(mine.permission) /\ Covers(ours, theirs)
    BY DEF Agreement
  <2>3. ours \in Rules
    BY <2>2 DEF PolicyRecords, Elements
  <2>4. ours \in Elements(policy.permission)
    BY DEF Agreement, Elements
  <2>5. RuleSatisfied(ours, claims, date) = "yes"
    BY <2>4 DEF CheckTransferPolicy
  <2>6. theirs.constraint # NoConstraint => \A c \in Elements(theirs.constraint) : Exact[c]
    BY <2>1 DEF ConstraintsOf
  <2> HIDE DEF theirs, ours
  <2> QED
    BY <2>1, <2>2, <2>3, <2>5, <2>6, RuleNotWeakened DEF theirs
<1> QED
  BY <1>1 DEF CheckTransferPolicy, Agreement, Elements

-----------------------------------------------------------------------------
(***************************************************************************)
(* A policy meets itself.                                                  *)
(***************************************************************************)
LEMMA MeetsItself ==
  \A c \in Constraints : Comparable[c] => Compatible[<<c, c>>]
<1> DEFINE P == {c \in Constraints : Comparable[c] => Compatible[<<c, c>>]}
<1>1. ASSUME NEW c \in Constraints, \A d \in Constraints : Depth[d] < Depth[c] => d \in P,
             Comparable[c]
      PROVE  Compatible[<<c, c>>]
  <2>1. CASE IsAtom(c)
    <3>1. \/ c.op \in {"eq", "neq", "isA"}
          \/ c.property = "spatial" /\ c.op \in {"isPartOf", "hasPart"}
          \/ c.property = "temporal" /\ c.op \in Upper \cup Lower /\ c.value # NoDate
      BY <1>1, <2>1, ComparableEquation DEF ComparableBody
    <3>2. SubsumedBy(c, c)
      <4>1. CASE c.op \in {"eq", "neq", "isA"}
        BY <4>1 DEF SubsumedBy, IsSubclassOf
      <4>2. CASE c.property = "spatial" /\ c.op \in {"isPartOf", "hasPart"}
        BY <4>2 DEF SubsumedBy, IsPartOf
      <4>3. CASE c.property = "temporal" /\ c.op \in Upper \cup Lower /\ c.value # NoDate
        <5>1. c.value \in Int
          BY <2>1, <4>3, EngineAssumption DEF IsAtom, Conjunctions, Alternatives
        <5> QED
          BY <4>3, <5>1 DEF SubsumedBy, Lteq, BothDates
      <4> QED
        BY <3>1, <4>1, <4>2, <4>3
    <3> QED
      BY <2>1, <3>2, CompatibleEquation DEF CompatibleBody
  <2>2. CASE ~IsAtom(c)
    <3>1. c.list # <<>> /\ \A cc \in Elements(c.list) : Comparable[cc]
      BY <1>1, <2>2, ComparableEquation DEF ComparableBody
    <3>2. \A cc \in Elements(c.list) : Compatible[<<cc, cc>>]
      BY <1>1, <2>2, <3>1, Lists
    <3>3. Elements(c.list) # {}
      <4>1. c.list \in Seq(Constraints)
        BY <2>2, Lists
      <4>2. 1 \in DOMAIN c.list
        BY <3>1, <4>1
      <4> QED
        BY <4>2 DEF Elements
    <3>4. c.kind \in Conjunctions \/ c.kind \in Alternatives
      BY <2>2, Lists DEF Kinds
    <3>5. CompatibleBody(Compatible, c, c)
      <4>1. CASE c.kind \in Conjunctions
        BY <3>2, <4>1 DEF CompatibleBody
      <4>2. CASE c.kind \in Alternatives
        <5>1. PICK cc \in Elements(c.list) : Compatible[<<cc, cc>>]
          BY <3>2, <3>3
        <5> QED
          BY <4>2, <5>1 DEF CompatibleBody
      <4> QED
        BY <3>4, <4>1, <4>2
    <3> QED
      BY <3>5, CompatibleEquation
  <2> QED
    BY <2>1, <2>2
<1>2. Constraints \subseteq P
  <2>1. \A c \in Constraints : (\A d \in Constraints : Depth[d] < Depth[c] => d \in P) => c \in P
    BY <1>1
  <2> HIDE DEF P
  <2>2. Inductive(P, Constraints, Depth)
    BY <2>1, Depths DEF Inductive
  <2> QED
    BY <2>2, DepthInduction
<1> QED
  BY <1>2

LEMMA IdenticalToItself ==
  \A c \in Constraints : Identical[<<c, c>>]
<1> DEFINE P == {c \in Constraints : Identical[<<c, c>>]}
<1>1. ASSUME NEW c \in Constraints, \A d \in Constraints : Depth[d] < Depth[c] => d \in P
      PROVE  Identical[<<c, c>>]
  <2>1. ~IsAtom(c) => \A cc \in Elements(c.list) : Identical[<<cc, cc>>]
    BY <1>1, Lists
  <2> QED
    BY <2>1, IdenticalEquation DEF IdenticalBody
<1>2. Constraints \subseteq P
  <2>1. \A c \in Constraints : (\A d \in Constraints : Depth[d] < Depth[c] => d \in P) => c \in P
    BY <1>1
  <2> HIDE DEF P
  <2>2. Inductive(P, Constraints, Depth)
    BY <2>1, Depths DEF Inductive
  <2> QED
    BY <2>2, DepthInduction
<1> QED
  BY <1>2

\* The provider accepts a policy of its own whose permissions it can compare and
\* that does not prohibit what it permits.
LEMMA OwnPolicy ==
  ASSUME NEW p \in PolicyRecords,
         \A c \in ConstraintsOf(p.permission) : Comparable[c],
         \A r \in Elements(p.permission), f \in Elements(p.prohibition) : r.action # f.action
  PROVE  NegotiatePolicy(p, p).outcome = "success"
<1>1. ASSUME NEW r \in Elements(p.permission) PROVE Matches(r, p) # {}
  <2>1. PICK i \in DOMAIN p.permission : p.permission[i] = r
    BY DEF Elements
  <2>2. r \in Rules
    BY <2>1 DEF PolicyRecords
  <2>3. ASSUME r.constraint # NoConstraint, NEW c \in Elements(r.constraint)
        PROVE  Compatible[<<c, c>>]
    <3>1. c \in ConstraintsOf(p.permission)
      BY <2>3 DEF ConstraintsOf
    <3>2. c \in Constraints
      BY <2>2, <2>3, RuleLists
    <3> QED
      BY <3>1, <3>2, MeetsItself
  <2>4. Covers(r, r)
    BY <2>3 DEF Covers, ConstraintsAreCompatible
  <2> QED
    BY <2>1, <2>4 DEF Matches
<1>2. \A r \in Elements(p.permission), f \in Elements(p.prohibition) : ~Covers(r, f)
  BY DEF Covers
<1>3. ASSUME NEW o \in Elements(p.obligation) PROVE Confirmed(o, p)
  <2>1. o \in Rules
    BY DEF PolicyRecords, Elements
  <2>2. ASSUME o.constraint # NoConstraint, NEW c \in Elements(o.constraint)
        PROVE  Identical[<<c, c>>]
    BY <2>1, <2>2, RuleLists, IdenticalToItself
  <2>3. ConstraintsAreIdentical(o.constraint, o.constraint)
    BY <2>2 DEF ConstraintsAreIdentical
  <2> QED
    BY <2>3 DEF Confirmed
<1> QED
  BY <1>1, <1>2, <1>3 DEF NegotiatePolicy

-----------------------------------------------------------------------------
(***************************************************************************)
(* What is decided without a claim is decided the same with it.            *)
(***************************************************************************)
Extends(fuller, results) ==
  /\ DOMAIN fuller = DOMAIN results
  /\ \A i \in DOMAIN results : results[i] # "error" => fuller[i] = results[i]

LEMMA FirstOtherExtends ==
  ASSUME NEW results, NEW fuller, Extends(fuller, results), DOMAIN results \subseteq Nat,
         NEW neutral, neutral # "error", FirstOther(results, neutral) # "error"
  PROVE  FirstOther(fuller, neutral) = FirstOther(results, neutral)
<1>1. CASE \A i \in DOMAIN results : results[i] = neutral
  <2>1. \A i \in DOMAIN fuller : fuller[i] = neutral
    BY <1>1 DEF Extends
  <2> QED
    BY <1>1, <2>1, FirstOtherOf DEF Extends
<1>2. CASE \E i \in DOMAIN results : results[i] # neutral
  <2>1. PICK i \in DOMAIN results :
          /\ results[i] # neutral
          /\ FirstOther(results, neutral) = results[i]
          /\ \A j \in DOMAIN results : j < i => results[j] = neutral
    BY <1>2, FirstOtherOf
  <2>2. /\ i \in DOMAIN fuller
        /\ fuller[i] = results[i]
        /\ \A j \in DOMAIN fuller : j < i => fuller[j] = neutral
    BY <2>1 DEF Extends
  <2>3. PICK k \in DOMAIN fuller :
          /\ fuller[k] # neutral
          /\ FirstOther(fuller, neutral) = fuller[k]
          /\ \A j \in DOMAIN fuller : j < k => fuller[j] = neutral
    BY <2>1, <2>2, FirstOtherOf DEF Extends
  <2>4. i \in Nat /\ k \in Nat
    BY DEF Extends
  <2>5. ~(i < k) /\ ~(k < i)
    BY <2>1, <2>2, <2>3
  <2>6. i = k
    BY <2>4, <2>5
  <2> QED
    BY <2>1, <2>2, <2>3, <2>6
<1> QED
  BY <1>1, <1>2

LEMMA DecidedStays ==
  ASSUME NEW claims \in Claims, NEW fuller \in Completions(claims), NEW date
  PROVE  \A c \in Constraints :
           Satisfied(claims, date)[c] # "error" =>
             Satisfied(fuller, date)[c] = Satisfied(claims, date)[c]
<1> DEFINE S == Satisfied(claims, date)
           T == Satisfied(fuller, date)
           P == {c \in Constraints : S[c] # "error" => T[c] = S[c]}
<1>1. ASSUME NEW c \in Constraints, \A d \in Constraints : Depth[d] < Depth[c] => d \in P,
             S[c] # "error"
      PROVE  T[c] = S[c]
  <2>1. CASE IsAtom(c)
    <3>1. S[c] = AtomSatisfied(c, claims, date) /\ T[c] = AtomSatisfied(c, fuller, date)
      BY <2>1, SatisfiedEquation DEF SatisfiedBody
    <3>2. Have(c, claims, date) # Missing
      BY <1>1, <3>1, AtomVerdict
    <3>3. c.property \in DOMAIN claims \cup {"temporal"}
      BY <2>1, ContractAssumption
    <3>4. Have(c, fuller, date) = Have(c, claims, date)
      BY <3>2, <3>3 DEF Have, Completions
    <3> QED
      BY <3>1, <3>4, AtomVerdict
  <2>2. CASE ~IsAtom(c)
    <3> DEFINE results == [i \in DOMAIN c.list |-> S[c.list[i]]]
               more == [i \in DOMAIN c.list |-> T[c.list[i]]]
    <3>1. /\ S[c] = FirstOther(results, Neutral(c))
          /\ T[c] = FirstOther(more, Neutral(c))
      BY <2>2, SatisfiedEquation DEF SatisfiedBody
    <3>2. Extends(more, results)
      BY <1>1, <2>2, Lists DEF Extends
    <3>3. DOMAIN results \subseteq Nat
      BY <2>2, Lists
    <3>4. Neutral(c) # "error"
      BY DEF Neutral
    <3> HIDE DEF results, more
    <3> QED
      BY <1>1, <3>1, <3>2, <3>3, <3>4, FirstOtherExtends
  <2> QED
    BY <2>1, <2>2
<1>2. Constraints \subseteq P
  <2>1. \A c \in Constraints : (\A d \in Constraints : Depth[d] < Depth[c] => d \in P) => c \in P
    BY <1>1
  <2> HIDE DEF P
  <2>2. Inductive(P, Constraints, Depth)
    BY <2>1, Depths DEF Inductive
  <2> QED
    BY <2>2, DepthInduction
<1> QED
  BY <1>2

LEMMA DecidedRuleStays ==
  ASSUME NEW r \in Rules, NEW claims \in Claims, NEW fuller \in Completions(claims), NEW date,
         RuleSatisfied(r, claims, date) # "error"
  PROVE  RuleSatisfied(r, fuller, date) = RuleSatisfied(r, claims, date)
<1>1. CASE r.action # "use" \/ r.constraint = NoConstraint
  BY <1>1 DEF RuleSatisfied
<1>2. CASE r.action = "use" /\ r.constraint # NoConstraint
  <2> DEFINE results == [i \in DOMAIN r.constraint |-> Satisfied(claims, date)[r.constraint[i]]]
             more == [i \in DOMAIN r.constraint |-> Satisfied(fuller, date)[r.constraint[i]]]
  <2>1. /\ RuleSatisfied(r, claims, date) = FirstOther(results, "yes")
        /\ RuleSatisfied(r, fuller, date) = FirstOther(more, "yes")
    BY <1>2 DEF RuleSatisfied
  <2>2. Extends(more, results)
    <3>1. \A i \in DOMAIN r.constraint : r.constraint[i] \in Constraints
      BY <1>2, RuleLists
    <3> QED
      BY <3>1, DecidedStays DEF Extends
  <2>3. DOMAIN results \subseteq Nat
    BY <1>2, RuleLists
  <2> HIDE DEF results, more
  <2> QED
    BY <2>1, <2>2, <2>3, FirstOtherExtends
<1> QED
  BY <1>1, <1>2

\* Who is let through with claims missing is let through with any of them.
LEMMA CheckStays ==
  ASSUME NEW policy, Elements(policy.permission) \subseteq Rules,
         Elements(policy.prohibition) \subseteq Rules,
         NEW claims \in Claims, NEW fuller \in Completions(claims), NEW date,
         CheckTransferPolicy(policy, claims, date)
  PROVE  CheckTransferPolicy(policy, fuller, date)
BY DecidedRuleStays DEF CheckTransferPolicy

-----------------------------------------------------------------------------
(***************************************************************************)
(* What is identical to a list without repetitions means the same.         *)
(***************************************************************************)
LEMMA SameMeaningSymmetric ==
  \A a, b \in Constraints : SameMeaning[<<a, b>>] => SameMeaning[<<b, a>>]
<1> DEFINE P == {a \in Constraints : \A b \in Constraints :
                   SameMeaning[<<a, b>>] <=> SameMeaning[<<b, a>>]}
<1>1. ASSUME NEW a \in Constraints, \A d \in Constraints : Depth[d] < Depth[a] => d \in P,
             NEW b \in Constraints
      PROVE  SameMeaning[<<a, b>>] <=> SameMeaning[<<b, a>>]
  <2>1. ASSUME ~IsAtom(a), ~IsAtom(b), NEW aa \in Elements(a.list), NEW bb \in Elements(b.list)
        PROVE  SameMeaning[<<aa, bb>>] <=> SameMeaning[<<bb, aa>>]
    <3>1. aa \in P
      BY <1>1, <2>1, Lists
    <3>2. bb \in Constraints
      BY <2>1, Lists
    <3> QED
      BY <3>1, <3>2
  <2>2. /\ SameMeaning[<<a, b>>] = SameMeaningBody(SameMeaning, a, b)
        /\ SameMeaning[<<b, a>>] = SameMeaningBody(SameMeaning, b, a)
    BY SameMeaningEquation
  <2>3. SameMeaningBody(SameMeaning, a, b) <=> SameMeaningBody(SameMeaning, b, a)
    BY <2>1 DEF SameMeaningBody
  <2> QED
    BY <2>2, <2>3
<1>2. Constraints \subseteq P
  <2>1. \A c \in Constraints : (\A d \in Constraints : Depth[d] < Depth[c] => d \in P) => c \in P
    BY <1>1
  <2> HIDE DEF P
  <2>2. Inductive(P, Constraints, Depth)
    BY <2>1, Depths DEF Inductive
  <2> QED
    BY <2>2, DepthInduction
<1> QED
  BY <1>2

LEMMA SameMeaningTransitive ==
  \A a, b, c \in Constraints :
    SameMeaning[<<a, b>>] /\ SameMeaning[<<b, c>>] => SameMeaning[<<a, c>>]
<1> DEFINE P == {a \in Constraints : \A b, c \in Constraints :
                   SameMeaning[<<a, b>>] /\ SameMeaning[<<b, c>>] => SameMeaning[<<a, c>>]}
<1>1. ASSUME NEW a \in Constraints, \A d \in Constraints : Depth[d] < Depth[a] => d \in P,
             NEW b \in Constraints, NEW c \in Constraints,
             SameMeaning[<<a, b>>], SameMeaning[<<b, c>>]
      PROVE  SameMeaning[<<a, c>>]
  <2>1. SameMeaningBody(SameMeaning, a, b) /\ SameMeaningBody(SameMeaning, b, c)
    BY <1>1, SameMeaningEquation
  <2>2. CASE IsAtom(a)
    BY <1>1, <2>1, <2>2 DEF SameMeaningBody
  <2>3. CASE ~IsAtom(a)
    <3>1. ~IsAtom(b) /\ ~IsAtom(c) /\ a.kind = b.kind /\ b.kind = c.kind
      BY <2>1, <2>3 DEF SameMeaningBody
    <3> DEFINE as == Elements(a.list)
               bs == Elements(b.list)
               cs == Elements(c.list)
    <3>2. /\ \A aa \in as : \E bb \in bs : SameMeaning[<<aa, bb>>]
          /\ \A bb \in bs : \E aa \in as : SameMeaning[<<aa, bb>>]
          /\ \A bb \in bs : \E cc \in cs : SameMeaning[<<bb, cc>>]
          /\ \A cc \in cs : \E bb \in bs : SameMeaning[<<bb, cc>>]
      BY <2>1, <2>3, <3>1 DEF SameMeaningBody
    <3>3. as \subseteq P /\ bs \subseteq Constraints /\ cs \subseteq Constraints
      BY <1>1, <2>3, <3>1, Lists
    <3>4. ASSUME NEW aa \in as, NEW bb \in bs, NEW cc \in cs,
                 SameMeaning[<<aa, bb>>], SameMeaning[<<bb, cc>>]
          PROVE  SameMeaning[<<aa, cc>>]
      BY <3>3, <3>4
    <3> HIDE DEF as, bs, cs
    <3>5. /\ \A aa \in as : \E cc \in cs : SameMeaning[<<aa, cc>>]
          /\ \A cc \in cs : \E aa \in as : SameMeaning[<<aa, cc>>]
      BY <3>2, <3>4
    <3>6. SameMeaningBody(SameMeaning, a, c)
      BY <2>3, <3>1, <3>5 DEF SameMeaningBody, as, cs
    <3> QED
      BY <3>6, SameMeaningEquation
  <2> QED
    BY <2>2, <2>3
<1>2. Constraints \subseteq P
  <2>1. \A c \in Constraints : (\A d \in Constraints : Depth[d] < Depth[c] => d \in P) => c \in P
    BY <1>1
  <2> HIDE DEF P
  <2>2. Inductive(P, Constraints, Depth)
    BY <2>1, Depths DEF Inductive
  <2> QED
    BY <2>2, DepthInduction
<1> QED
  BY <1>2

\* The pigeonhole principle.
LEMMA OneToOneIsOnto ==
  ASSUME NEW n \in Nat, NEW f \in [1 .. n -> 1 .. n],
         \A i, j \in 1 .. n : f[i] = f[j] => i = j
  PROVE  \A k \in 1 .. n : \E i \in 1 .. n : f[i] = k
<1>1. f \in Injection(1 .. n, 1 .. n)
  BY DEF Injection, IsInjective
<1>2. IsFiniteSet(1 .. n)
  BY FS_Interval
<1>3. f \in Surjection(1 .. n, 1 .. n)
  BY <1>1, <1>2, FS_Injection
<1> QED
  BY <1>3 DEF Surjection

LEMMA MatchedBothWays ==
  ASSUME NEW a \in Seq(Constraints), NEW b \in Seq(Constraints), Len(a) = Len(b),
         ~RepeatsOne(b),
         \A bb \in Elements(b) : \E aa \in Elements(a) : SameMeaning[<<bb, aa>>]
  PROVE  \A aa \in Elements(a) : \E bb \in Elements(b) : SameMeaning[<<bb, aa>>]
<1> DEFINE n == Len(b)
           f == [j \in 1 .. n |-> CHOOSE i \in 1 .. n : SameMeaning[<<b[j], a[i]>>]]
<1>1. n \in Nat /\ DOMAIN a = 1 .. n /\ DOMAIN b = 1 .. n
  OBVIOUS
<1>2. ASSUME NEW j \in 1 .. n PROVE f[j] \in 1 .. n /\ SameMeaning[<<b[j], a[f[j]]>>]
  <2>1. PICK i \in 1 .. n : SameMeaning[<<b[j], a[i]>>]
    BY <1>1 DEF Elements
  <2> QED
    BY <2>1
<1>3. f \in [1 .. n -> 1 .. n]
  BY <1>2
<1> HIDE DEF f
<1>4. ASSUME NEW i \in 1 .. n, NEW j \in 1 .. n, f[i] = f[j] PROVE i = j
  <2> DEFINE x == a[f[i]]
  <2>1. b[i] \in Constraints /\ b[j] \in Constraints /\ x \in Constraints
    BY <1>1, <1>3
  <2>2. SameMeaning[<<b[i], x>>] /\ SameMeaning[<<b[j], x>>]
    BY <1>2, <1>4
  <2> HIDE DEF x
  <2>3. SameMeaning[<<b[i], b[j]>>]
    BY <2>1, <2>2, SameMeaningSymmetric, SameMeaningTransitive
  <2> QED
    BY <1>1, <2>3 DEF RepeatsOne
<1>5. \A k \in 1 .. n : \E i \in 1 .. n : f[i] = k
  <2> HIDE DEF n
  <2> QED
    BY <1>1, <1>3, <1>4, OneToOneIsOnto
<1>6. ASSUME NEW k \in DOMAIN a PROVE \E bb \in Elements(b) : SameMeaning[<<bb, a[k]>>]
  <2>1. PICK i \in 1 .. n : f[i] = k
    BY <1>1, <1>5
  <2> QED
    BY <1>1, <1>2, <2>1 DEF Elements
<1> QED
  BY <1>6 DEF Elements

LEMMA IdenticalMeansTheSame ==
  \A a, b \in Constraints :
    Identical[<<a, b>>] /\ ~RepeatsInside[b] => SameMeaning[<<b, a>>]
<1> DEFINE P == {b \in Constraints : \A a \in Constraints :
                   Identical[<<a, b>>] /\ ~RepeatsInside[b] => SameMeaning[<<b, a>>]}
<1>1. ASSUME NEW b \in Constraints, \A d \in Constraints : Depth[d] < Depth[b] => d \in P,
             NEW a \in Constraints, Identical[<<a, b>>], ~RepeatsInside[b]
      PROVE  SameMeaning[<<b, a>>]
  <2>1. IdenticalBody(Identical, a, b)
    BY <1>1, IdenticalEquation
  <2>2. CASE IsAtom(b)
    <3>1. SameMeaningBody(SameMeaning, b, a)
      BY <2>1, <2>2 DEF IdenticalBody, SameMeaningBody
    <3> QED
      BY <3>1, SameMeaningEquation
  <2>3. CASE ~IsAtom(b)
    <3>1. /\ ~IsAtom(a)
          /\ a.kind = b.kind
          /\ Len(a.list) = Len(b.list)
          /\ \A bb \in Elements(b.list) : \E aa \in Elements(a.list) : Identical[<<aa, bb>>]
      BY <2>1, <2>3 DEF IdenticalBody
    <3>2. ~RepeatsOne(b.list) /\ \A bb \in Elements(b.list) : ~RepeatsInside[bb]
      BY <1>1, <2>3, RepeatsEquation DEF RepeatsBody
    <3>3. Elements(b.list) \subseteq P /\ Elements(a.list) \subseteq Constraints
      BY <1>1, <2>3, <3>1, Lists
    <3>4. \A bb \in Elements(b.list) : \E aa \in Elements(a.list) : SameMeaning[<<bb, aa>>]
      BY <3>1, <3>2, <3>3
    <3>5. a.list \in Seq(Constraints) /\ b.list \in Seq(Constraints)
      BY <2>3, <3>1, Lists
    <3>6. \A aa \in Elements(a.list) : \E bb \in Elements(b.list) : SameMeaning[<<bb, aa>>]
      BY <3>1, <3>2, <3>4, <3>5, MatchedBothWays
    <3>7. SameMeaningBody(SameMeaning, b, a)
      BY <2>3, <3>1, <3>4, <3>6 DEF SameMeaningBody
    <3> QED
      BY <3>7, SameMeaningEquation
  <2> QED
    BY <2>2, <2>3
<1>2. Constraints \subseteq P
  <2>1. \A c \in Constraints : (\A d \in Constraints : Depth[d] < Depth[c] => d \in P) => c \in P
    BY <1>1
  <2> HIDE DEF P
  <2>2. Inductive(P, Constraints, Depth)
    BY <2>1, Depths DEF Inductive
  <2> QED
    BY <2>2, DepthInduction
<1> QED
  BY <1>2

\* A list of constraints that is identical to one without repetitions is that
\* one in some order.
LEMMA ConfirmedMeansTheSame ==
  ASSUME NEW mine \in Seq(Constraints), NEW theirs \in Seq(Constraints),
         mine # NoConstraint, theirs # NoConstraint,
         ConstraintsAreIdentical(mine, theirs), ~Repeats(theirs)
  PROVE  SameMeanings(theirs, mine)
<1>1. /\ Len(mine) = Len(theirs)
      /\ \A bb \in Elements(theirs) : \E aa \in Elements(mine) : Identical[<<aa, bb>>]
  BY DEF ConstraintsAreIdentical
<1>2. Elements(mine) \subseteq Constraints /\ Elements(theirs) \subseteq Constraints
  BY DEF Elements
<1>3. ~RepeatsOne(theirs) /\ \A bb \in Elements(theirs) : ~RepeatsInside[bb]
  BY DEF Repeats
<1>4. \A bb \in Elements(theirs) : \E aa \in Elements(mine) : SameMeaning[<<bb, aa>>]
  BY <1>1, <1>2, <1>3, IdenticalMeansTheSame
<1>5. \A aa \in Elements(mine) : \E bb \in Elements(theirs) : SameMeaning[<<bb, aa>>]
  BY <1>1, <1>3, <1>4, MatchedBothWays
<1> QED
  BY <1>4, <1>5 DEF SameMeanings

-----------------------------------------------------------------------------
(***************************************************************************)
(* The theorems.                                                           *)
(***************************************************************************)

\* What an agreement has for a policy comes from one of the dataset's, and the
\* data goes to requesters that its check lets through.
PolicyInvariant ==
  /\ dataset \in Seq(PolicyRecords)
  /\ offered \in PolicyRecords
  /\ now \in Nat
  /\ refused => Accepting = {}
  /\ agreed # None => \E i \in DOMAIN dataset : Agreement(agreed, dataset[i], offered)
  /\ granted # None =>
       /\ agreed # None
       /\ granted.claims \in Claims
       /\ granted.at \in Nat
       /\ CheckTransferPolicy(agreed, granted.claims, granted.at)

LEMMA InitialPolicy == Init => PolicyInvariant
BY ContractAssumption DEF Init, PolicyInvariant

LEMMA NegotiateKeeps == PolicyInvariant /\ Negotiate => PolicyInvariant'
<1> SUFFICES ASSUME PolicyInvariant, Negotiate PROVE PolicyInvariant'
  OBVIOUS
<1>1. UNCHANGED <<dataset, offered, now, granted>> /\ agreed = None
  BY DEF Negotiate
<1>2. Accepting' = Accepting
  BY <1>1 DEF Accepting
<1>3. CASE Accepting = {}
  BY <1>1, <1>2, <1>3 DEF Negotiate, PolicyInvariant
<1>4. CASE Accepting # {}
  <2>1. Accepting \subseteq Nat
    BY DEF Accepting, PolicyInvariant
  <2>2. \E i \in Accepting : \A j \in Accepting : i <= j
    BY <1>4, <2>1, LeastNumber
  <2>3. FirstAccepting \in Accepting
    BY <2>2 DEF FirstAccepting
  <2>4. PICK i \in DOMAIN dataset :
          /\ NegotiatePolicy(dataset[i], offered).outcome = "success"
          /\ agreed' = NegotiatePolicy(dataset[i], offered).policy
    BY <1>4, <2>3 DEF Negotiate, Accepting
  <2>5. Agreement(agreed', dataset[i], offered)
    BY <2>4, NegotiatedPolicy DEF PolicyInvariant
  <2> QED
    BY <1>1, <1>2, <1>4, <2>5 DEF Negotiate, PolicyInvariant
<1> QED
  BY <1>3, <1>4

LEMMA TransferRequestKeeps ==
  ASSUME PolicyInvariant, NEW claims \in Claims, TransferRequest(claims)
  PROVE  PolicyInvariant'
<1>1. Accepting' = Accepting
  BY DEF TransferRequest, Accepting
<1> QED
  BY <1>1 DEF TransferRequest, PolicyInvariant

LEMMA TickKeeps == PolicyInvariant /\ Tick => PolicyInvariant'
<1> SUFFICES ASSUME PolicyInvariant, Tick PROVE PolicyInvariant'
  OBVIOUS
<1>1. Accepting' = Accepting
  BY DEF Tick, Accepting
<1> QED
  BY <1>1 DEF Tick, PolicyInvariant

LEMMA StutterKeeps == PolicyInvariant /\ UNCHANGED vars => PolicyInvariant'
<1> SUFFICES ASSUME PolicyInvariant, UNCHANGED vars PROVE PolicyInvariant'
  OBVIOUS
<1>1. Accepting' = Accepting
  BY DEF vars, Accepting
<1> QED
  BY <1>1 DEF vars, PolicyInvariant

\* Whatever is offered, agreed and claimed, an agreement's policy covers one of
\* the dataset's, and only who is let through by it has the data.
THEOREM PolicyInvariance == Spec => []PolicyInvariant
<1>1. PolicyInvariant /\ [Next]_vars => PolicyInvariant'
  BY NegotiateKeeps, TransferRequestKeeps, TickKeeps, StutterKeeps DEF Next
<1> QED
  BY InitialPolicy, <1>1, PTL DEF Spec

\* Nobody has the data whom no policy of the dataset would let have it at that
\* time, if the dataset's permissions are exact: negotiation weakens no such policy.
THEOREM NegotiationWidensNothing == Spec => []NeverWidened
<1>1. PolicyInvariant => NeverWidened
  <2> SUFFICES ASSUME PolicyInvariant, granted # None,
                      \A p \in Policies : \A c \in ConstraintsOf(p.permission) : Exact[c]
               PROVE  \E p \in Policies : CheckTransferPolicy(p, granted.claims, granted.at)
    BY DEF NeverWidened
  <2>1. PICK i \in DOMAIN dataset : Agreement(agreed, dataset[i], offered)
    BY DEF PolicyInvariant
  <2>2. dataset[i] \in Policies /\ dataset[i] \in PolicyRecords /\ offered \in PolicyRecords
    BY DEF Policies, Elements, PolicyInvariant
  <2>3. granted.at \in Int /\ CheckTransferPolicy(agreed, granted.claims, granted.at)
    BY DEF PolicyInvariant
  <2>4. CheckTransferPolicy(dataset[i], granted.claims, granted.at)
    BY <2>1, <2>2, <2>3, AgreementNotWeaker
  <2> QED
    BY <2>2, <2>4
<1> QED
  BY <1>1, PolicyInvariance, PTL

\* A consumer that offers one of the dataset's own policies is not refused, if
\* the provider can compare its constraints and it does not prohibit what it permits.
THEOREM OwnPoliciesAreAccepted == Spec => []OwnPolicyAccepted
<1>1. PolicyInvariant => OwnPolicyAccepted
  <2> SUFFICES ASSUME PolicyInvariant, NEW p \in Policies, refused, offered = p,
                      \A c \in ConstraintsOf(p.permission) : Comparable[c],
                      \A r \in Elements(p.permission), f \in Elements(p.prohibition) :
                        r.action # f.action
               PROVE  FALSE
    BY DEF OwnPolicyAccepted
  <2>1. PICK i \in DOMAIN dataset : p = dataset[i]
    BY DEF Policies, Elements
  <2>2. NegotiatePolicy(p, p).outcome = "success"
    BY OwnPolicy DEF PolicyInvariant
  <2> QED
    BY <2>1, <2>2 DEF PolicyInvariant, Accepting
<1> QED
  BY <1>1, PolicyInvariance, PTL

\* A requester that is let through although it keeps claims back would be let
\* through with any claims in their place.
THEOREM KeepingClaimsBackIsNoHelp == Spec => []MissingClaimsDoNotHelp
<1>1. PolicyInvariant => MissingClaimsDoNotHelp
  <2> SUFFICES ASSUME PolicyInvariant, granted # None, NEW fuller \in Completions(granted.claims)
               PROVE  CheckTransferPolicy(agreed, fuller, granted.at)
    BY DEF MissingClaimsDoNotHelp
  <2>1. PICK i \in DOMAIN dataset : Agreement(agreed, dataset[i], offered)
    BY DEF PolicyInvariant
  <2>2. dataset[i] \in PolicyRecords /\ offered \in PolicyRecords
    BY DEF PolicyInvariant
  <2>3. Elements(agreed.permission) \subseteq Rules
    BY <2>1, <2>2 DEF Agreement, PolicyRecords, Elements
  <2>4. Elements(agreed.prohibition) \subseteq Rules
    BY <2>1, <2>2 DEF Agreement, PolicyRecords, Elements
  <2>5. /\ granted.claims \in Claims
        /\ CheckTransferPolicy(agreed, granted.claims, granted.at)
    BY DEF PolicyInvariant
  <2> QED
    BY <2>3, <2>4, <2>5, CheckStays
<1> QED
  BY <1>1, PolicyInvariance, PTL

\* An agreement's obligations are, but for their order, what the consumer has
\* confirmed, unless the dataset's list repeats itself.
THEOREM ObligationsAreConfirmed == Spec => []ObligationsConfirmed
<1>1. PolicyInvariant => ObligationsConfirmed
  <2> SUFFICES ASSUME PolicyInvariant, agreed # None, NEW o \in Elements(agreed.obligation)
               PROVE  \E c \in Elements(offered.obligation) :
                        /\ c.action = o.action
                        /\ \/ o.constraint = NoConstraint /\ c.constraint = NoConstraint
                           \/ /\ o.constraint # NoConstraint /\ c.constraint # NoConstraint
                              /\ Repeats(o.constraint) \/ SameMeanings(o.constraint, c.constraint)
    BY DEF ObligationsConfirmed
  <2>1. PICK i \in DOMAIN dataset : Agreement(agreed, dataset[i], offered)
    BY DEF PolicyInvariant
  <2>2. dataset[i] \in PolicyRecords /\ offered \in PolicyRecords
    BY DEF PolicyInvariant
  <2>3. o \in Elements(dataset[i].obligation)
    BY <2>1 DEF Agreement
  <2>4. PICK c \in Elements(offered.obligation) :
          c.action = o.action /\ ConstraintsAreIdentical(c.constraint, o.constraint)
    BY <2>1, <2>3 DEF Agreement, Confirmed
  <2>5. o \in Rules /\ c \in Rules
    BY <2>2, <2>3 DEF PolicyRecords, Elements
  <2>6. ASSUME o.constraint # NoConstraint, c.constraint # NoConstraint, ~Repeats(o.constraint)
        PROVE  SameMeanings(o.constraint, c.constraint)
    BY <2>4, <2>5, <2>6, RuleLists, ConfirmedMeansTheSame
  <2> QED
    BY <2>4, <2>6 DEF ConstraintsAreIdentical
<1> QED
  BY <1>1, PolicyInvariance, PTL
=============================================================================
