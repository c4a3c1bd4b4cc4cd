------------------------ MODULE NegotiationStoreProofs ------------------------
(***************************************************************************)
(* The safety of NegotiationStore in the default build, for any number of  *)
(* connectors, negotiations and faults: StoreInv is inductive, and implies *)
(* the properties that the run checks.                                     *)
(***************************************************************************)
EXTENDS NegotiationStoreInvariant, NegotiationSafety

(***************************************************************************)
(* Typing.                                                                 *)
(***************************************************************************)

\* What the types say of the versions of a record.
LEMMA StoreTypes ==
  ASSUME StoreTypeOK
  PROVE  /\ \A x \in Pids :
              /\ Exists(x) => /\ Newest(x) \in Records /\ Newest(x) # Absent
                              /\ neg[x] \in Records /\ neg[x] \in Versions(x)
                              /\ Versions(x) \subseteq Records
                              /\ Old(x) \subseteq Versions(x) /\ Newest(x) \in Versions(x)
              /\ ~Exists(x) => /\ Newest(x) = Absent /\ neg[x] = Absent
                               /\ Old(x) = {} /\ left[x] = {}
                               /\ phase[x] = "idle"
              /\ phase[x] = "idle" =>
                   kept[x] = Absent /\ Newest(x) = neg[x] /\ Old(x) = left[x]
         /\ \A c \in CPids : c \in Pids /\ c \notin PPids
         /\ \A p \in PPids : p \in Pids /\ p \notin CPids /\ p # NoPid
         /\ \A c \in CPids : Exists(c) =>
              \A r \in Versions(c) : r.peer \in PPids \/ r.peer = NoPid
         /\ \A p \in PPids : Exists(p) => \A r \in Versions(p) : r.peer \in CPids
<1>1. \A x \in Pids : /\ Exists(x) => neg[x] \in Records
                      /\ kept[x] # Absent => Exists(x) /\ kept[x] \in Records
                      /\ left[x] \subseteq Records
                      /\ left[x] # {} => Exists(x)
                      /\ phase[x] # "idle" => Exists(x)
                      /\ kept[x] # Absent => phase[x] # "idle"
  BY DEF StoreTypeOK, TypeOK, Exists
<1>2. Absent \notin Records
  BY RecordAssumption
<1>3. \A x \in Pids : Exists(x) => \A r \in Versions(x) : r.peer \in Peers(x)
  BY DEF StoreTypeOK
<1>4. /\ \A c \in CPids : c \in Pids /\ c \notin PPids
      /\ \A p \in PPids : p \in Pids /\ p \notin CPids /\ p # NoPid
  BY RecordAssumption DEF Pids
<1> QED
  BY <1>1, <1>2, <1>3, <1>4 DEF Newest, Old, Versions, Exists, Peers

\* The versions of a record after a step that does not write it: those there
\* were, or fewer.
Unwritten(x) == Newest(x)' = Newest(x) /\ Old(x)' \subseteq Old(x)

\* After a save of r: what there was, but no file of r's name.
Written(x, r) ==
  /\ Newest(x)' = r
  /\ Old(x)' \subseteq {s \in Versions(x) : ~SameName(r, s)}

\* After an event accepted: the record it was accepted in, if anything.
Moved(x, r) == Newest(x)' = r /\ Old(x)' \subseteq {Newest(x)}

\* Types of the older records after a step: the versions are among those there
\* were, or have a counterpart of their record's kind.
LEMMA OldTypes ==
  ASSUME StoreTypeOK, TypeOK',
         left' \in [Pids -> SUBSET Records], kept' \in [Pids -> Records \cup {Absent}],
         \A x \in Pids : /\ kept'[x] # Absent => phase'[x] # "idle"
                         /\ left'[x] # {} => Exists(x)'
                         /\ Exists(x)' => \A r \in Versions(x)' :
                              \/ Exists(x) /\ r \in Versions(x)
                              \/ r.peer \in Peers(x)
  PROVE  StoreTypeOK'
BY DEF StoreTypeOK

\* The poll takes some older records instead of the newest, which it keeps.
LEMMA PollTickFrame ==
  ASSUME StoreTypeOK, NEW k \in Connectors, PollTick(k)
  PROVE  /\ StoreTypeOK'
         /\ \A x \in Pids : Unwritten(x) /\ (Exists(x)' <=> Exists(x))
         /\ \A x \in Pids : phase[x] # "idle" => neg'[x] = neg[x] /\ phase'[x] = phase[x]
         /\ UNCHANGED <<result, net, minted, faults>>
<1> USE StoreTypes
<1> DEFINE found(o, x) == IF o[x] = Absent THEN neg[x] ELSE o[x]
           dueOf(o) == {x \in Pids : Home[x] = k /\ Exists(x) /\ WorkIn(x, found(o, x))}
<1>1. PICK old \in [Pids -> (UNION {left[x] : x \in Pids}) \cup {Absent}] :
        /\ \A x \in Pids : old[x] # Absent => old[x] \in left[x] /\ x \in dueOf(old)
        /\ phase' = [x \in Pids |-> IF x \in dueOf(old) THEN "due" ELSE phase[x]]
        /\ neg' = [x \in Pids |-> found(old, x)]
        /\ kept' = [x \in Pids |-> IF old[x] = Absent THEN kept[x] ELSE neg[x]]
  BY DEF PollTick
<1>2. PICK due \in SUBSET Pids : due = dueOf(old)
  OBVIOUS
<1>3. \A x \in due : Home[x] = k /\ Exists(x) /\ phase[x] = "idle"
  <2>1. \A x \in due : Home[x] = k /\ Exists(x)
    BY <1>2
  <2> QED
    BY <2>1 DEF PollTick, Busy
<1> HIDE DEF dueOf
<1>4. /\ UNCHANGED <<result, net, minted, faults, left>>
      /\ \A x \in Pids : phase'[x] = IF x \in due THEN "due" ELSE phase[x]
      /\ phase' \in [Pids -> Phases]
  BY <1>1, <1>2 DEF PollTick, StoreTypeOK, TypeOK, Phases
<1>5. ASSUME NEW x \in Pids, old[x] # Absent
      PROVE  /\ x \in due /\ Exists(x) /\ old[x] \in left[x] /\ old[x] \in Records
             /\ neg'[x] = old[x] /\ kept'[x] = neg[x] /\ neg[x] # Absent /\ neg[x] \in Records
             /\ Newest(x)' = Newest(x) /\ Old(x)' = Old(x)
  <2>1. x \in due /\ old[x] \in left[x] /\ neg'[x] = old[x] /\ kept'[x] = neg[x]
    BY <1>1, <1>2, <1>5
  <2>2. Exists(x) /\ phase[x] = "idle"
    BY <1>3, <2>1
  <2>3. neg[x] # Absent /\ neg[x] \in Records /\ old[x] \in Records /\ left'[x] = left[x]
    BY <1>4, <2>1, <2>2 DEF StoreTypeOK, Exists
  <2> QED
    BY <2>1, <2>2, <2>3 DEF Newest, Old
<1>6. ASSUME NEW x \in Pids, old[x] = Absent
      PROVE  /\ neg'[x] = neg[x] /\ kept'[x] = kept[x]
             /\ Newest(x)' = Newest(x) /\ Old(x)' = Old(x)
  <2>1. neg'[x] = neg[x] /\ kept'[x] = kept[x] /\ left'[x] = left[x]
    BY <1>1, <1>4, <1>6
  <2> QED
    BY <2>1 DEF Newest, Old
<1>7. \A x \in Pids : Unwritten(x) /\ (Exists(x)' <=> Exists(x)) /\ Versions(x)' = Versions(x)
  BY <1>5, <1>6, RecordAssumption DEF Unwritten, Exists, Versions
<1>8. \A x \in Pids : phase[x] # "idle" => neg'[x] = neg[x] /\ phase'[x] = phase[x]
  BY <1>3, <1>4, <1>5, <1>6
<1>9. TypeOK'
  <2>1. neg' \in [Pids -> Records \cup {Absent}]
    BY <1>1, <1>5, <1>6 DEF StoreTypeOK, TypeOK
  <2>2. \A x \in Pids : Exists(x)' => neg'[x].peer \in Peers(x)
    <3> SUFFICES ASSUME NEW x \in Pids, Exists(x)' PROVE neg'[x].peer \in Peers(x)
      OBVIOUS
    <3>1. CASE old[x] # Absent
      <4>1. old[x] \in Versions(x)
        BY <1>5, <3>1 DEF Versions, Old
      <4> QED
        BY <1>5, <3>1, <4>1 DEF StoreTypeOK
    <3>2. CASE old[x] = Absent
      BY <1>6, <1>7, <3>2 DEF StoreTypeOK, TypeOK
    <3> QED
      BY <3>1, <3>2
  <2>3. \A x \in Pids : phase'[x] # "idle" => Exists(x)'
    BY <1>3, <1>4, <1>7 DEF StoreTypeOK, TypeOK
  <2>4. \A m \in net : m.from \in Pids /\ Exists(m.from)'
    BY <1>7 DEF StoreTypeOK, TypeOK, Messages
  <2> QED
    BY <1>4, <2>1, <2>2, <2>3, <2>4 DEF StoreTypeOK, TypeOK
<1>10. kept' \in [Pids -> Records \cup {Absent}] /\ left' \in [Pids -> SUBSET Records]
  BY <1>1, <1>4, <1>5, <1>6 DEF StoreTypeOK
<1>11. \A x \in Pids : /\ kept'[x] # Absent => phase'[x] # "idle"
                       /\ left'[x] # {} => Exists(x)'
  BY <1>4, <1>5, <1>6, <1>7 DEF StoreTypeOK
<1>12. StoreTypeOK'
  BY <1>7, <1>9, <1>10, <1>11, OldTypes
<1> QED
  BY <1>4, <1>7, <1>8, <1>12

\* Steps that leave the records and the files alone, and end no round.
LEMMA QuietFrame ==
  ASSUME StoreTypeOK, TypeOK', UNCHANGED <<neg, left, kept>>,
         \A x \in Pids : phase'[x] = "idle" => phase[x] = "idle"
  PROVE  /\ StoreTypeOK'
         /\ \A x \in Pids : Unwritten(x) /\ (Exists(x)' <=> Exists(x))
BY DEF StoreTypeOK, Unwritten, Exists, Versions, Newest, Old

\* A new record has one version.
LEMMA NewFrame ==
  ASSUME StoreTypeOK, TypeOK', NEW x \in Pids, ~Exists(x), NEW r \in Records,
         r.peer \in Peers(x), neg' = [neg EXCEPT ![x] = r], UNCHANGED <<left, kept>>,
         \A y \in Pids : phase'[y] = "idle" => phase[y] = "idle"
  PROVE  /\ StoreTypeOK'
         /\ Exists(x)' /\ Newest(x)' = r /\ Old(x)' = {}
         /\ \A y \in Pids : y # x => Unwritten(y) /\ (Exists(y)' <=> Exists(y))
<1>1. neg'[x] = r /\ r # Absent /\ \A y \in Pids : y # x => neg'[y] = neg[y]
  BY RecordAssumption DEF StoreTypeOK, TypeOK
<1>2. left[x] = {} /\ kept[x] = Absent
  BY StoreTypes
<1>3. Exists(x)' /\ Newest(x)' = r /\ Old(x)' = {}
  BY <1>1, <1>2 DEF Exists, Newest, Old
<1>4. \A y \in Pids : y # x => Unwritten(y) /\ (Exists(y)' <=> Exists(y))
  BY <1>1 DEF Unwritten, Exists, Newest, Old
<1>5. /\ \A y \in Pids : y # x => Versions(y)' \subseteq Versions(y)
      /\ Versions(x)' = {r}
  BY <1>3, <1>4 DEF Versions, Unwritten
<1> QED
  BY <1>2, <1>3, <1>4, <1>5, OldTypes DEF StoreTypeOK

\* A failed tick ends without a trace, and the loop drops what it had.
LEMMA SaveNothingFrame ==
  ASSUME StoreTypeOK, NEW x \in Pids, SaveNothing(x)
  PROVE  /\ StoreTypeOK'
         /\ \A y \in Pids : Unwritten(y) /\ (Exists(y)' <=> Exists(y))
         /\ phase[x] = "done" /\ result'[x] = Absent /\ phase'[x] = "idle"
         /\ \A y \in Pids : y # x => /\ neg'[y] = neg[y] /\ phase'[y] = phase[y]
                                     /\ result'[y] = result[y]
         /\ UNCHANGED net
<1>1. /\ neg'[x] = Newest(x) /\ kept'[x] = Absent /\ left'[x] = left[x]
      /\ phase[x] = "done" /\ result'[x] = Absent /\ phase'[x] = "idle"
      /\ \A y \in Pids : y # x => /\ neg'[y] = neg[y] /\ kept'[y] = kept[y]
                                  /\ left'[y] = left[y] /\ phase'[y] = phase[y]
                                  /\ result'[y] = result[y]
      /\ UNCHANGED <<net, minted, faults, left>>
      /\ Exists(x) /\ Newest(x) \in Records /\ Newest(x) # Absent
  BY StoreTypes DEF SaveNothing, Leaves, RoundEnded, StoreTypeOK, TypeOK
<1>2. \A y \in Pids : Unwritten(y) /\ (Exists(y)' <=> Exists(y))
  BY <1>1 DEF Unwritten, Exists, Newest, Old
<1>3. \A y \in Pids : Versions(y)' \subseteq Versions(y)
  BY <1>2 DEF Versions, Unwritten
<1>4. TypeOK'
  <2>1. neg' \in [Pids -> Records \cup {Absent}] /\ phase' \in [Pids -> Phases]
        /\ result' \in [Pids -> Records \cup {Absent}]
    <3>1. neg' = [neg EXCEPT ![x] = Newest(x)] /\ Newest(x) \in Records
      BY <1>1 DEF SaveNothing
    <3>2. neg' \in [Pids -> Records \cup {Absent}]
      BY <3>1 DEF StoreTypeOK, TypeOK
    <3>3. phase' = [phase EXCEPT ![x] = "idle"] /\ result' = [result EXCEPT ![x] = Absent]
      BY DEF SaveNothing, Leaves
    <3> QED
      BY <3>2, <3>3 DEF StoreTypeOK, TypeOK, Phases
  <2>2. \A y \in Pids : Exists(y)' => neg'[y].peer \in Peers(y)
    BY <1>1, <1>2 DEF StoreTypeOK, TypeOK, Versions
  <2>3. \A m \in net : m.from \in Pids /\ Exists(m.from)'
    BY <1>2 DEF StoreTypeOK, TypeOK, Messages
  <2> QED
    BY <1>1, <1>2, <2>1, <2>2, <2>3 DEF StoreTypeOK, TypeOK
<1>5. kept' \in [Pids -> Records \cup {Absent}] /\ left' \in [Pids -> SUBSET Records]
  BY <1>1 DEF StoreTypeOK, SaveNothing, Leaves
<1>6. \A y \in Pids : /\ kept'[y] # Absent => phase'[y] # "idle"
                      /\ left'[y] # {} => Exists(y)'
  BY <1>1, <1>2 DEF StoreTypeOK
<1>7. StoreTypeOK'
  <2>1. \A y \in Pids : Exists(y)' => \A r \in Versions(y)' : Exists(y) /\ r \in Versions(y)
    BY <1>2, <1>3
  <2> QED
    BY <1>4, <1>5, <1>6, <2>1, OldTypes
<1> QED
  BY <1>1, <1>2, <1>7

\* An outcome is saved beside all but one of the files of another name.
LEMMA SaveOutcomeFrame ==
  ASSUME StoreTypeOK, NEW x \in Pids, SaveOutcome(x)
  PROVE  /\ StoreTypeOK'
         /\ Written(x, result[x]) /\ Exists(x) /\ Exists(x)' /\ result[x] \in Records
         /\ result'[x] = Absent /\ phase[x] = "done" /\ phase'[x] = "idle"
         /\ \A y \in Pids : y # x => /\ Unwritten(y) /\ (Exists(y)' <=> Exists(y))
                                     /\ neg'[y] = neg[y] /\ phase'[y] = phase[y]
                                     /\ result'[y] = result[y]
         /\ UNCHANGED net
<1>1. /\ neg'[x] = result[x] /\ kept'[x] = Absent /\ left'[x] \subseteq Others(x, result[x])
      /\ phase[x] = "done" /\ result'[x] = Absent /\ phase'[x] = "idle"
      /\ \A y \in Pids : y # x => /\ neg'[y] = neg[y] /\ kept'[y] = kept[y]
                                  /\ left'[y] = left[y] /\ phase'[y] = phase[y]
                                  /\ result'[y] = result[y]
      /\ UNCHANGED <<net, minted, faults>>
      /\ Exists(x) /\ result[x] \in Records /\ result[x] # Absent
  BY StoreTypes DEF SaveOutcome, Leaves, RoundEnded, StoreTypeOK, TypeOK
<1>2. Others(x, result[x]) \subseteq {s \in Versions(x) : ~SameName(result[x], s)}
  BY DEF Others, Versions, Old
<1>3. Written(x, result[x]) /\ Exists(x)'
  BY <1>1, <1>2 DEF Written, Newest, Old, Exists
<1>4. \A y \in Pids : y # x => Unwritten(y) /\ (Exists(y)' <=> Exists(y))
  BY <1>1 DEF Unwritten, Exists, Newest, Old
<1>5. /\ \A y \in Pids : y # x => Versions(y)' \subseteq Versions(y)
      /\ Versions(x)' \subseteq Versions(x) \cup {result[x]}
  BY <1>3, <1>4 DEF Versions, Unwritten, Written
<1>6. result[x].peer \in Peers(x)
  BY <1>1 DEF StoreTypeOK, TypeOK
<1>7. TypeOK'
  <2>1. neg' \in [Pids -> Records \cup {Absent}] /\ phase' \in [Pids -> Phases]
        /\ result' \in [Pids -> Records \cup {Absent}]
    BY <1>1 DEF SaveOutcome, Leaves, StoreTypeOK, TypeOK, Phases
  <2>2. \A y \in Pids : Exists(y)' => neg'[y].peer \in Peers(y)
    BY <1>1, <1>4, <1>6 DEF StoreTypeOK, TypeOK
  <2>3. \A m \in net : m.from \in Pids /\ Exists(m.from)'
    BY <1>3, <1>4 DEF StoreTypeOK, TypeOK, Messages
  <2> QED
    BY <1>1, <1>3, <1>4, <2>1, <2>2, <2>3 DEF StoreTypeOK, TypeOK
<1>8. kept' \in [Pids -> Records \cup {Absent}] /\ left' \in [Pids -> SUBSET Records]
  <2>1. left'[x] \subseteq Records
    BY <1>1, <1>2, StoreTypes
  <2>2. left' \in [Pids -> SUBSET Records]
    <3>1. \E l : left' = [left EXCEPT ![x] = l]
      BY DEF SaveOutcome
    <3> QED
      BY <2>1, <3>1 DEF StoreTypeOK
  <2> QED
    BY <1>1, <2>2 DEF StoreTypeOK, SaveOutcome, Leaves
<1>9. \A y \in Pids : /\ kept'[y] # Absent => phase'[y] # "idle"
                      /\ left'[y] # {} => Exists(y)'
  BY <1>1, <1>3, <1>4 DEF StoreTypeOK
<1>10. StoreTypeOK'
  <2>1. \A y \in Pids : Exists(y)' => \A r \in Versions(y)' :
          (Exists(y) /\ r \in Versions(y)) \/ r.peer \in Peers(y)
    BY <1>1, <1>4, <1>5, <1>6
  <2> QED
    BY <1>7, <1>8, <1>9, <2>1, OldTypes
<1> QED
  BY <1>1, <1>3, <1>4, <1>10

\* A get removes the older files.
LEMMA GetFrame ==
  ASSUME StoreTypeOK, NEW x \in Pids, Get(x)
  PROVE  /\ StoreTypeOK'
         /\ \A y \in Pids : Unwritten(y) /\ (Exists(y)' <=> Exists(y))
         /\ UNCHANGED vars
<1>1. /\ UNCHANGED <<vars, kept>> /\ left' = [left EXCEPT ![x] = {}]
      /\ left' \in [Pids -> SUBSET Records]
      /\ \A y \in Pids : left'[y] \subseteq left[y]
  BY DEF Get, StoreTypeOK
<1>2. UNCHANGED <<neg, phase, result, net, minted, faults>>
  BY <1>1 DEF vars
<1>3. \A y \in Pids : Unwritten(y) /\ (Exists(y)' <=> Exists(y))
  BY <1>1, <1>2 DEF Unwritten, Exists, Newest, Old
<1>4. TypeOK'
  BY <1>2 DEF StoreTypeOK, TypeOK, Exists
<1>5. \A y \in Pids : Versions(y)' \subseteq Versions(y)
  BY <1>3 DEF Versions, Unwritten
<1>6. \A y \in Pids : /\ kept'[y] # Absent => phase'[y] # "idle"
                      /\ left'[y] # {} => Exists(y)'
  BY <1>1, <1>2, <1>3 DEF StoreTypeOK
<1>7. StoreTypeOK'
  <2>1. \A y \in Pids : Exists(y)' => \A r \in Versions(y)' : Exists(y) /\ r \in Versions(y)
    BY <1>3, <1>5
  <2> QED
    BY <1>1, <1>4, <1>6, <2>1, OldTypes DEF StoreTypeOK
<1> QED
  BY <1>1, <1>3, <1>7

\* What a record becomes that is not with the loop: r, beside its older version
\* or alone.
LEMMA MovedTypes ==
  ASSUME StoreTypeOK, TypeOK', NEW x \in Pids, Exists(x), phase[x] = "idle",
         NEW r \in Records, r.peer \in Peers(x), neg' = [neg EXCEPT ![x] = r],
         NEW l \in SUBSET {neg[x]}, left' = [left EXCEPT ![x] = l], UNCHANGED kept,
         \A y \in Pids : phase'[y] = "idle" => phase[y] = "idle" \/ kept[y] = Absent
  PROVE  /\ StoreTypeOK'
         /\ Moved(x, r) /\ Exists(x)' /\ Newest(x) = neg[x]
         /\ \A y \in Pids : y # x => Unwritten(y) /\ (Exists(y)' <=> Exists(y))
<1>1. /\ kept[x] = Absent /\ neg[x] \in Records /\ neg[x] # Absent /\ r # Absent
      /\ Newest(x) = neg[x]
  BY StoreTypes, RecordAssumption DEF Exists
<1>2. /\ neg'[x] = r /\ left'[x] = l /\ kept'[x] = Absent
      /\ \A y \in Pids : y # x => neg'[y] = neg[y] /\ left'[y] = left[y]
      /\ left' \in [Pids -> SUBSET Records]
  BY <1>1 DEF StoreTypeOK, TypeOK
<1>3. Moved(x, r) /\ Exists(x)'
  BY <1>1, <1>2 DEF Moved, Newest, Old, Exists
<1>4. \A y \in Pids : y # x => Unwritten(y) /\ (Exists(y)' <=> Exists(y))
  BY <1>2 DEF Unwritten, Exists, Newest, Old
<1>5. /\ \A y \in Pids : y # x => Versions(y)' \subseteq Versions(y)
      /\ Versions(x)' \subseteq Versions(x) \cup {r}
  BY <1>3, <1>4 DEF Versions, Unwritten, Moved
<1>6. \A y \in Pids : /\ kept'[y] # Absent => phase'[y] # "idle"
                      /\ left'[y] # {} => Exists(y)'
  BY <1>2, <1>3, <1>4 DEF StoreTypeOK
<1>7. StoreTypeOK'
  <2>1. \A y \in Pids : Exists(y)' => \A s \in Versions(y)' :
          (Exists(y) /\ s \in Versions(y)) \/ s.peer \in Peers(y)
    BY <1>4, <1>5
  <2> QED
    BY <1>2, <1>6, <2>1, OldTypes DEF StoreTypeOK
<1> QED
  BY <1>1, <1>3, <1>4, <1>7

\* An event that is accepted moves its record.
LEMMA AcceptFrame ==
  ASSUME StoreTypeOK, NEW m \in net, Event(m), AcceptEvent(m)
  PROVE  /\ StoreTypeOK'
         /\ m.to \in Pids /\ Exists(m.to) /\ Exists(m.to)' /\ phase[m.to] = "idle"
         /\ Newest(m.to) = neg[m.to]
         /\ Moved(m.to, Accepted(neg[m.to], m.kind, m.agr))
         /\ \A y \in Pids : y # m.to => /\ Unwritten(y) /\ (Exists(y)' <=> Exists(y))
                                        /\ neg'[y] = neg[y]
<1>1. /\ m.to \in Pids /\ m.kind \in Kinds /\ m.agr \in Agreements \cup {NoAgr}
      /\ Exists(m.to) /\ neg[m.to] \in Records /\ neg[m.to].peer \in Peers(m.to)
      /\ TypeOK'
  BY MessageType, AcceptEventType DEF AcceptEvent, StoreTypeOK, TypeOK, Exists
<1>2. PICK r \in Records : r = Accepted(neg[m.to], m.kind, m.agr) /\ r.peer = neg[m.to].peer
  BY <1>1, AcceptedType
<1>3. phase[m.to] = "idle"
  BY <1>1 DEF AcceptEvent, Busy, Dest
<1>4. /\ neg' = [neg EXCEPT ![m.to] = r] /\ left' = [left EXCEPT ![m.to] = {}] /\ UNCHANGED kept
      /\ \A y \in Pids : phase'[y] = "idle" => phase[y] = "idle"
  BY <1>1, <1>2 DEF Event, AcceptEvent, Answer, StoreTypeOK, TypeOK
<1>5. \A y \in Pids : y # m.to => neg'[y] = neg[y]
  BY <1>4
<1> QED
  BY <1>1, <1>2, <1>3, <1>4, <1>5, MovedTypes

\* An event that is rejected is a get.
LEMMA RejectFrame ==
  ASSUME StoreTypeOK, NEW m \in net, Event(m), RejectEvent(m)
  PROVE  /\ StoreTypeOK'
         /\ \A y \in Pids : Unwritten(y) /\ (Exists(y)' <=> Exists(y))
<1>1. TypeOK'
  BY NoOutcomeType DEF RejectEvent, StoreTypeOK, TypeOK
<1>2. /\ UNCHANGED <<neg, kept>> /\ left' = [left EXCEPT ![m.to] = {}]
      /\ left' \in [Pids -> SUBSET Records]
      /\ \A y \in Pids : left'[y] \subseteq left[y]
      /\ \A y \in Pids : phase'[y] = "idle" => phase[y] = "idle"
  BY DEF Event, RejectEvent, Answer, StoreTypeOK, TypeOK
<1>3. \A y \in Pids : Unwritten(y) /\ (Exists(y)' <=> Exists(y))
  BY <1>2 DEF Unwritten, Exists, Newest, Old
<1>5. \A y \in Pids : Versions(y)' \subseteq Versions(y)
  BY <1>3 DEF Versions, Unwritten
<1>6. \A y \in Pids : /\ kept'[y] # Absent => phase'[y] # "idle"
                      /\ left'[y] # {} => Exists(y)'
  BY <1>2, <1>3 DEF StoreTypeOK
<1>7. StoreTypeOK'
  <2>1. \A y \in Pids : Exists(y)' => \A r \in Versions(y)' : Exists(y) /\ r \in Versions(y)
    BY <1>3, <1>5
  <2> QED
    BY <1>1, <1>2, <1>6, <2>1, OldTypes DEF StoreTypeOK
<1> QED
  BY <1>3, <1>7

\* A restart leaves well-formed rounds, outcomes and messages, whatever it leaves
\* of the records.
LEMMA RestartTypes ==
  ASSUME TypeOK, NEW k \in Connectors, Restart(k), faults < MaxFaults, faults' = faults + 1,
         UNCHANGED minted, neg' \in [Pids -> Records \cup {Absent}],
         \A x \in Pids : /\ Exists(x) => Exists(x)'
                         /\ Exists(x)' => neg'[x].peer \in Peers(x)
  PROVE  TypeOK'
<1>1. faults' \in 0..MaxFaults /\ minted' \in 0..MaxMinted
  BY ProtocolAssumption DEF TypeOK
<1>2. \A x \in Pids : /\ result'[x] # Absent => result'[x].peer \in Peers(x)
                      /\ phase'[x] # "idle" => Exists(x)'
  BY RestartEffect DEF TypeOK
<1>3. /\ net' \subseteq Messages
      /\ \A m \in net' : m.from \in Pids
  BY RestartEffect DEF Messages
<1>4. \A m \in net' : /\ Exists(m.from)'
                      /\ m.to \in Peers(m.from)
                      /\ m.kind = "request" <=> m.to = NoPid
  BY <1>3, RestartEffect DEF TypeOK
<1> QED
  BY <1>1, <1>2, <1>3, <1>4, RestartEffect DEF TypeOK

\* A connector that stops between two saves loses no version of a record but
\* what only the loop had.
LEMMA CrashBetweenSavesFrame ==
  ASSUME StoreTypeOK, NEW k \in Connectors, CrashBetweenSaves(k)
  PROVE  /\ StoreTypeOK' /\ Restart(k)
         /\ \A y \in Pids : /\ Unwritten(y) /\ (Exists(y)' <=> Exists(y))
                            /\ Home[y] # k => neg'[y] = neg[y]
<1>1. /\ Restart(k) /\ faults < MaxFaults /\ faults' = faults + 1 /\ UNCHANGED <<minted, left>>
      /\ \A y \in Pids : /\ neg'[y] = IF Home[y] = k THEN Newest(y) ELSE neg[y]
                         /\ kept'[y] = IF Home[y] = k THEN Absent ELSE kept[y]
  BY DEF CrashBetweenSaves, Forgets, NewestAt
<1>2. \A y \in Pids : /\ neg'[y] \in Records \cup {Absent}
                      /\ Unwritten(y) /\ (Exists(y)' <=> Exists(y))
                      /\ Exists(y) => neg'[y] \in Versions(y)
  BY <1>1, StoreTypes DEF StoreTypeOK, TypeOK, Unwritten, Exists, Newest, Old
<1>3. neg' \in [Pids -> Records \cup {Absent}]
  BY <1>2 DEF CrashBetweenSaves, NewestAt
<1>4. TypeOK'
  <2>1. \A x \in Pids : Exists(x)' => neg'[x].peer \in Peers(x)
    BY <1>2 DEF StoreTypeOK
  <2> QED
    BY <1>1, <1>2, <1>3, <2>1, RestartTypes DEF StoreTypeOK
<1>5. kept' \in [Pids -> Records \cup {Absent}] /\ left' \in [Pids -> SUBSET Records]
  BY <1>1 DEF StoreTypeOK, CrashBetweenSaves, Forgets
<1>6. \A y \in Pids : /\ kept'[y] # Absent => phase'[y] # "idle"
                      /\ left'[y] # {} => Exists(y)'
  BY <1>1, <1>2, RestartEffect DEF StoreTypeOK
<1>7. StoreTypeOK'
  <2>1. \A y \in Pids : Versions(y)' \subseteq Versions(y)
    BY <1>2 DEF Versions, Unwritten
  <2>2. \A y \in Pids : Exists(y)' => \A r \in Versions(y)' : Exists(y) /\ r \in Versions(y)
    BY <1>2, <2>1
  <2> QED
    BY <1>4, <1>5, <1>6, <2>2, OldTypes
<1> QED
  BY <1>1, <1>2, <1>7

\* One that stops in a save has saved, and removed nothing.
LEMMA CrashInSaveFrame ==
  ASSUME StoreTypeOK, NEW x \in Pids, CrashInSave(x)
  PROVE  /\ StoreTypeOK' /\ Restart(Home[x]) /\ Home[x] \in Connectors
         /\ Written(x, result[x]) /\ Exists(x) /\ Exists(x)' /\ result[x] \in Records
         /\ \A y \in Pids : y # x => /\ Unwritten(y) /\ (Exists(y)' <=> Exists(y))
                                     /\ Home[y] # Home[x] => neg'[y] = neg[y]
<1>1. /\ Restart(Home[x]) /\ faults < MaxFaults /\ faults' = faults + 1 /\ UNCHANGED minted
      /\ Home[x] \in Connectors
      /\ result[x] \in Records /\ result[x] # Absent /\ result[x].peer \in Peers(x) /\ Exists(x)
      /\ neg'[x] = result[x] /\ kept'[x] = Absent /\ left'[x] = Others(x, result[x])
      /\ \A y \in Pids : y # x =>
           /\ neg'[y] = IF Home[y] = Home[x] THEN Newest(y) ELSE neg[y]
           /\ kept'[y] = IF Home[y] = Home[x] THEN Absent ELSE kept[y]
           /\ left'[y] = left[y]
  BY ProtocolAssumption
  DEF CrashInSave, Forgets, NewestAt, RoundEnded, StoreTypeOK, TypeOK
<1>2. Others(x, result[x]) \subseteq {s \in Versions(x) : ~SameName(result[x], s)}
  BY DEF Others, Versions, Old
<1>3. Written(x, result[x]) /\ Exists(x)'
  BY <1>1, <1>2 DEF Written, Newest, Old, Exists
<1>4. \A y \in Pids : y # x => /\ neg'[y] \in Records \cup {Absent}
                               /\ Unwritten(y) /\ (Exists(y)' <=> Exists(y))
                               /\ Exists(y) => neg'[y] \in Versions(y)
  BY <1>1, StoreTypes DEF StoreTypeOK, TypeOK, Unwritten, Exists, Newest, Old
<1>5. TypeOK'
  <2>1. neg' \in [Pids -> Records \cup {Absent}]
    <3>1. \A y \in Pids : neg'[y] \in Records \cup {Absent}
      BY <1>1, <1>4
    <3> QED
      BY <3>1 DEF CrashInSave, NewestAt
  <2>2. \A y \in Pids : Exists(y) => Exists(y)'
    BY <1>3, <1>4
  <2>3. \A y \in Pids : Exists(y)' => neg'[y].peer \in Peers(y)
    BY <1>1, <1>4 DEF StoreTypeOK
  <2> QED
    BY <1>1, <2>1, <2>2, <2>3, RestartTypes DEF StoreTypeOK
<1>6. kept' \in [Pids -> Records \cup {Absent}] /\ left' \in [Pids -> SUBSET Records]
  <2>1. Others(x, result[x]) \subseteq Records
    BY <1>1, <1>2, StoreTypes
  <2>2. left' = [left EXCEPT ![x] = Others(x, result[x])]
    BY DEF CrashInSave
  <2>3. left' \in [Pids -> SUBSET Records]
    BY <2>1, <2>2 DEF StoreTypeOK
  <2> QED
    BY <2>3 DEF StoreTypeOK, CrashInSave, Forgets
<1>7. \A y \in Pids : /\ kept'[y] # Absent => phase'[y] # "idle"
                      /\ left'[y] # {} => Exists(y)'
  BY <1>1, <1>3, <1>4, RestartEffect DEF StoreTypeOK
<1>8. StoreTypeOK'
  <2>1. /\ \A y \in Pids : y # x => Versions(y)' \subseteq Versions(y)
        /\ Versions(x)' \subseteq Versions(x) \cup {result[x]}
    BY <1>3, <1>4 DEF Versions, Unwritten, Written
  <2>2. \A y \in Pids : Exists(y)' => \A r \in Versions(y)' :
          (Exists(y) /\ r \in Versions(y)) \/ r.peer \in Peers(y)
    BY <1>1, <1>4, <2>1
  <2> QED
    BY <1>5, <1>6, <1>7, <2>2, OldTypes
<1> QED
  BY <1>1, <1>3, <1>4, <1>8

\* One that stops in the save of an event has moved the record.
LEMMA CrashInEventFrame ==
  ASSUME StoreTypeOK, NEW m \in net, CrashInEvent(m)
  PROVE  /\ StoreTypeOK' /\ Restart(Dest(m)) /\ Dest(m) \in Connectors
         /\ m.to \in Pids /\ Exists(m.to) /\ Exists(m.to)' /\ Dest(m) = Home[m.to]
         /\ Newest(m.to) = neg[m.to]
         /\ Moved(m.to, Accepted(neg[m.to], m.kind, m.agr))
         /\ \A y \in Pids : y # m.to => /\ Unwritten(y) /\ (Exists(y)' <=> Exists(y))
                                        /\ neg'[y] = neg[y]
<1>1. /\ m.to \in Pids /\ m.kind \in Kinds /\ m.agr \in Agreements \cup {NoAgr}
      /\ Exists(m.to) /\ neg[m.to] \in Records /\ neg[m.to].peer \in Peers(m.to)
  BY MessageType DEF CrashInEvent, StoreTypeOK, TypeOK, Exists
<1>2. PICK r \in Records : r = Accepted(neg[m.to], m.kind, m.agr) /\ r.peer = neg[m.to].peer
  BY <1>1, AcceptedType
<1>3. /\ Restart(Dest(m)) /\ Dest(m) = Home[m.to] /\ Dest(m) \in Connectors
      /\ faults < MaxFaults /\ faults' = faults + 1 /\ UNCHANGED <<minted, kept>>
      /\ \A y \in Pids : Home[y] = Dest(m) => phase[y] = "idle"
      /\ neg' = [neg EXCEPT ![m.to] = r] /\ left' = [left EXCEPT ![m.to] = {neg[m.to]}]
  BY <1>1, <1>2, ProtocolAssumption DEF CrashInEvent, Busy, Dest, StoreTypeOK, TypeOK
<1>4. /\ neg'[m.to] = r /\ r # Absent /\ \A y \in Pids : y # m.to => neg'[y] = neg[y]
      /\ neg' \in [Pids -> Records \cup {Absent}]
  BY <1>1, <1>3, RecordAssumption DEF StoreTypeOK, TypeOK
<1>5. TypeOK'
  <2>1. \A y \in Pids : /\ Exists(y) => Exists(y)'
                        /\ Exists(y)' => neg'[y].peer \in Peers(y)
    BY <1>1, <1>2, <1>4 DEF StoreTypeOK, TypeOK, Exists
  <2> QED
    BY <1>3, <1>4, <2>1, RestartTypes DEF StoreTypeOK
<1>6. \A y \in Pids : phase'[y] = "idle" => phase[y] = "idle" \/ kept[y] = Absent
  BY <1>3, RestartEffect DEF StoreTypeOK
<1>7. phase[m.to] = "idle"
  BY <1>1, <1>3
<1> QED
  BY <1>1, <1>2, <1>3, <1>4, <1>5, <1>6, <1>7, MovedTypes

(***************************************************************************)
(* The versions of the records.                                            *)
(***************************************************************************)
RecordsInv ==
  /\ ConsumerVersionInv
  /\ ConsumerOldInv
  /\ ProviderVersionInv
  /\ ProviderOldInv
  /\ ProviderNewestInv

\* What no step takes back, a crash included: a record, a provider record's
\* counterpart, its having signed and its being verified; a consumer's being
\* bound, its being committed, and its finalization.
StoreSteady ==
  /\ \A p \in PPids : Exists(p) =>
       /\ Exists(p)' /\ Newest(p)'.peer = Newest(p).peer
       /\ Newest(p).st \in Signed => Newest(p)'.st \in Signed
       /\ Newest(p).st \in {"verified", "finalized"} =>
            Newest(p)'.st \in {"verified", "finalized"}
  /\ \A c \in CPids : Exists(c) =>
       /\ Exists(c)'
       /\ Newest(c).st = "finalized" => Newest(c)'.st = "finalized"
       /\ Committed(c) => Committed(c)'
       /\ \A p \in PPids : Bound(c, p) => Bound(c, p)'

\* Fewer versions are as good as those there were.
LEMMA UnwrittenFacts ==
  ASSUME NEW x \in Pids, Unwritten(x)
  PROVE  /\ Newest(x)' = Newest(x) /\ Old(x)' \subseteq Old(x)
         /\ Versions(x)' \subseteq Versions(x)
         /\ Committed(x) => Committed(x)'
         /\ \A p \in PPids : Bound(x, p) => Bound(x, p)'
BY DEF Unwritten, Versions, Committed, Bound

LEMMA QuietRecords ==
  ASSUME StoreTypeOK, RecordsInv, \A x \in Pids : Unwritten(x) /\ (Exists(x)' <=> Exists(x))
  PROVE  RecordsInv' /\ StoreSteady
<1>1. \A x \in Pids : /\ Newest(x)' = Newest(x) /\ Old(x)' \subseteq Old(x)
                      /\ Versions(x)' \subseteq Versions(x)
                      /\ Exists(x)' <=> Exists(x)
                      /\ Committed(x) => Committed(x)'
                      /\ \A p \in PPids : Bound(x, p) => Bound(x, p)'
  BY UnwrittenFacts
<1>2. /\ \A c \in CPids : c \in Pids
      /\ \A p \in PPids : p \in Pids
      /\ \A p \in PPids : Exists(p) => Newest(p).peer \in CPids
      /\ \A c \in CPids : Exists(c) => \A r \in Versions(c) : r.peer \in PPids \/ r.peer = NoPid
      /\ \A c \in CPids : \A r \in Versions(c) : Exists(c) /\ r.st \in Signed => r.peer # NoPid
  BY StoreTypes DEF RecordsInv, ConsumerVersionInv, Signed
<1>3. StoreSteady
  BY <1>1, <1>2 DEF StoreSteady
<1>4. ConsumerVersionInv'
  BY <1>1, <1>2 DEF RecordsInv, ConsumerVersionInv, Signed
<1>5. ConsumerOldInv' /\ ProviderVersionInv' /\ ProviderOldInv'
  BY <1>1, <1>2 DEF RecordsInv, ConsumerOldInv, ProviderVersionInv, ProviderOldInv
<1>6. ProviderNewestInv'
  BY <1>1, <1>2 DEF RecordsInv, ProviderNewestInv
<1> QED
  BY <1>3, <1>4, <1>5, <1>6 DEF RecordsInv

\* What a consumer's new version must not forget.
LEMMA ConsumerWrite ==
  ASSUME StoreTypeOK, RecordsInv, NEW c \in CPids, NEW r \in Records,
         Exists(c)', Newest(c)' = r, r.peer \in PPids \/ r.peer = NoPid,
         \A x \in Pids : x # c => Unwritten(x) /\ (Exists(x)' <=> Exists(x)),
         IF Exists(c) THEN Old(c)' \subseteq Versions(c) ELSE Old(c)' = {},
         r.st \in {"requested", "terminated"} \/ r.peer # NoPid,
         r.st = "requested" => (r.sent <=> r.peer # NoPid),
         r.st = "terminated" => r.sent,
         r.peer # NoPid => Exists(r.peer) /\ Newest(r.peer).peer = c,
         r.st \in Signed => /\ r.agr \in Agreements /\ r.agr.by = r.peer
                            /\ Newest(r.peer).st \in Signed,
         r.st \in {"verified", "finalized"} => Newest(r.peer).st \in {"verified", "finalized"},
         \A s \in Old(c)' :
           /\ s.peer = IF r.st = "requested" THEN NoPid ELSE r.peer
           /\ r.st = "offered" => s.st = "requested"
           /\ r.st = "accepted" => s.st \notin Signed
           /\ r.st = "terminated" => \A t \in Old(c)' : t = s
           /\ r.st \in Signed => s.st \in {"accepted", "terminated"} \cup Signed
           /\ r.st = "finalized" => s.st = "verified",
         Exists(c) =>
           /\ Newest(c).st = "finalized" => r.st = "finalized"
           /\ Committed(c) => \/ r.st \in Signed
                              \/ /\ r.st = "terminated"
                                 /\ \A s \in Old(c)' : s.st \in {"agreed", "verified"}
           /\ \A p \in PPids : Bound(c, p) =>
                r.st \in {"accepted", "terminated"} \cup Signed /\ r.peer = p
  PROVE  RecordsInv' /\ StoreSteady
<1>1. \A x \in Pids : x # c =>
        /\ Newest(x)' = Newest(x) /\ Old(x)' \subseteq Old(x)
        /\ Versions(x)' \subseteq Versions(x)
        /\ Exists(x)' <=> Exists(x)
        /\ Committed(x) => Committed(x)'
        /\ \A p \in PPids : Bound(x, p) => Bound(x, p)'
  BY UnwrittenFacts
<1>2. /\ \A d \in CPids : d \in Pids
      /\ \A p \in PPids : p \in Pids /\ p # c /\ p # NoPid
      /\ \A p \in PPids : Exists(p) => Newest(p).peer \in CPids
      /\ \A d \in CPids : Exists(d) => \A s \in Versions(d) : s.peer \in PPids \/ s.peer = NoPid
      /\ \A d \in CPids : \A s \in Versions(d) : Exists(d) /\ s.st \in Signed => s.peer # NoPid
  BY StoreTypes DEF RecordsInv, ConsumerVersionInv, Signed
<1>3. Versions(c)' = Old(c)' \cup {r}
  BY DEF Versions
<1>4. Exists(c) => /\ Committed(c) => Committed(c)'
                   /\ \A p \in PPids : Bound(c, p) => Bound(c, p)'
  BY <1>3 DEF Committed, Bound
<1>5. StoreSteady
  BY <1>1, <1>2, <1>4 DEF StoreSteady
<1>6. \A d \in CPids : Exists(d)' => \A s \in Versions(d)' :
        \/ d = c /\ s = r
        \/ Exists(d) /\ s \in Versions(d)
  BY <1>1, <1>2, <1>3
<1>7. ConsumerVersionInv'
  <2> SUFFICES ASSUME NEW d \in CPids, Exists(d)', NEW s \in Versions(d)'
               PROVE  /\ s.st \in {"requested", "terminated"} \/ s.peer # NoPid
                      /\ s.st = "requested" => (s.sent <=> s.peer # NoPid)
                      /\ s.st = "terminated" => s.sent
                      /\ s.peer # NoPid => Exists(s.peer)' /\ Newest(s.peer)'.peer = d
                      /\ s.st \in Signed => /\ s.agr \in Agreements /\ s.agr.by = s.peer
                                            /\ Newest(s.peer)'.st \in Signed
                      /\ s.st \in {"verified", "finalized"} =>
                           Newest(s.peer)'.st \in {"verified", "finalized"}
    BY DEF ConsumerVersionInv
  <2>1. CASE d = c /\ s = r
    BY <1>1, <1>2, <2>1 DEF Signed
  <2>2. CASE Exists(d) /\ s \in Versions(d)
    BY <1>1, <1>2, <2>2 DEF RecordsInv, ConsumerVersionInv, Signed
  <2> QED
    BY <1>6, <2>1, <2>2
<1>8. ConsumerOldInv'
  BY <1>1, <1>2 DEF RecordsInv, ConsumerOldInv
<1>9. ProviderVersionInv' /\ ProviderOldInv'
  BY <1>1, <1>2 DEF RecordsInv, ProviderVersionInv, ProviderOldInv
<1>10. ProviderNewestInv'
  BY <1>1, <1>2, <1>4 DEF RecordsInv, ProviderNewestInv
<1> QED
  BY <1>5, <1>7, <1>8, <1>9, <1>10 DEF RecordsInv

\* What a provider's new version must not forget.
LEMMA ProviderWrite ==
  ASSUME StoreTypeOK, RecordsInv, NEW p \in PPids, NEW r \in Records, NEW c \in CPids,
         Exists(p), Exists(p)', Newest(p)' = r, r.peer = c, Newest(p).peer = c,
         \A x \in Pids : x # p => Unwritten(x) /\ (Exists(x)' <=> Exists(x)),
         Old(p)' \subseteq Versions(p),
         r.st \in Signed => r.agr \in Agreements /\ r.agr.by = p,
         \A s \in Old(p)' :
           /\ r.st \in Opening => s.st \in Opening
           /\ r.st = "accepted" => s.st = "offered"
           /\ r.st = "agreed" => s.st \in {"offered", "accepted", "agreed"}
           /\ r.st \in {"verified", "finalized"} => s.st \in Signed,
         r.st \in {"accepted"} \cup Signed => Bound(c, p),
         r.st \in {"verified", "finalized"} => Committed(c),
         r.st = "finalized" => Newest(c).st = "finalized",
         Newest(p).st \in Signed => r.st \in Signed,
         Newest(p).st \in {"verified", "finalized"} => r.st \in {"verified", "finalized"}
  PROVE  RecordsInv' /\ StoreSteady
<1>1. \A x \in Pids : x # p =>
        /\ Newest(x)' = Newest(x) /\ Old(x)' \subseteq Old(x)
        /\ Versions(x)' \subseteq Versions(x)
        /\ Exists(x)' <=> Exists(x)
        /\ Committed(x) => Committed(x)'
        /\ \A q \in PPids : Bound(x, q) => Bound(x, q)'
  BY UnwrittenFacts
<1>2. /\ \A d \in CPids : d \in Pids /\ d # p
      /\ \A q \in PPids : q \in Pids /\ q # NoPid
      /\ \A q \in PPids : Exists(q) => Newest(q).peer \in CPids
      /\ \A d \in CPids : Exists(d) => \A s \in Versions(d) : s.peer \in PPids \/ s.peer = NoPid
      /\ \A d \in CPids : \A s \in Versions(d) : Exists(d) /\ s.st \in Signed => s.peer # NoPid
  BY StoreTypes DEF RecordsInv, ConsumerVersionInv, Signed
<1>3. Versions(p)' = Old(p)' \cup {r}
  BY DEF Versions
<1>4. StoreSteady
  BY <1>1, <1>2 DEF StoreSteady
<1>5. ConsumerVersionInv'
  BY <1>1, <1>2 DEF RecordsInv, ConsumerVersionInv, Signed
<1>6. ConsumerOldInv' /\ ProviderOldInv'
  BY <1>1, <1>2 DEF RecordsInv, ConsumerOldInv, ProviderOldInv
<1>7. ProviderVersionInv'
  BY <1>1, <1>2, <1>3 DEF RecordsInv, ProviderVersionInv
<1>8. ProviderNewestInv'
  BY <1>1, <1>2 DEF RecordsInv, ProviderNewestInv
<1> QED
  BY <1>4, <1>5, <1>6, <1>7, <1>8 DEF RecordsInv

\* A provider record that did not exist is nobody's counterpart.
LEMMA ProviderNew ==
  ASSUME StoreTypeOK, RecordsInv, NEW p \in PPids, NEW c \in CPids, Exists(c),
         ~Exists(p), Exists(p)', Newest(p)' = NewProvider(c), Old(p)' = {},
         \A x \in Pids : x # p => Unwritten(x) /\ (Exists(x)' <=> Exists(x))
  PROVE  RecordsInv' /\ StoreSteady
<1>1. \A x \in Pids : x # p =>
        /\ Newest(x)' = Newest(x) /\ Old(x)' \subseteq Old(x)
        /\ Versions(x)' \subseteq Versions(x)
        /\ Exists(x)' <=> Exists(x)
        /\ Committed(x) => Committed(x)'
        /\ \A q \in PPids : Bound(x, q) => Bound(x, q)'
  BY UnwrittenFacts
<1>2. /\ \A d \in CPids : d \in Pids /\ d # p
      /\ \A q \in PPids : q \in Pids /\ q # NoPid
      /\ \A q \in PPids : Exists(q) => Newest(q).peer \in CPids
      /\ \A d \in CPids : Exists(d) => \A s \in Versions(d) : s.peer \in PPids \/ s.peer = NoPid
      /\ \A d \in CPids : \A s \in Versions(d) : Exists(d) /\ s.st \in Signed => s.peer # NoPid
  BY StoreTypes DEF RecordsInv, ConsumerVersionInv, Signed
<1>3. /\ Versions(p)' = {NewProvider(c)}
      /\ NewProvider(c).peer = c /\ NewProvider(c).st = "requested"
  BY DEF Versions, NewProvider
<1>4. StoreSteady
  BY <1>1, <1>2 DEF StoreSteady
<1>5. ConsumerVersionInv'
  BY <1>1, <1>2 DEF RecordsInv, ConsumerVersionInv, Signed
<1>6. ConsumerOldInv' /\ ProviderOldInv'
  BY <1>1, <1>2 DEF RecordsInv, ConsumerOldInv, ProviderOldInv
<1>7. ProviderVersionInv'
  BY <1>1, <1>2, <1>3 DEF RecordsInv, ProviderVersionInv, Signed
<1>8. ProviderNewestInv'
  BY <1>1, <1>2, <1>3 DEF RecordsInv, ProviderNewestInv, Signed
<1> QED
  BY <1>4, <1>5, <1>6, <1>7, <1>8 DEF RecordsInv

(***************************************************************************)
(* Events.                                                                 *)
(***************************************************************************)

\* The events a record accepts, and what is then known of both ends.
LEMMA StoreAcceptCases ==
  ASSUME StoreInv, NEW m \in net, m.kind # "request", m.to \in Pids, Exists(m.to),
         Newest(m.to) = neg[m.to], Accepts(m)
  PROVE  LET t == Newest(m.to)
         IN  /\ m.kind \in Kinds /\ m.kind # "counter" /\ m.from \in Pids /\ Exists(m.from)
             /\ t \in Records /\ m.agr \in Agreements \cup {NoAgr}
             /\ \/ /\ m.kind = "offer" /\ m.from \in PPids /\ m.to \in CPids
                   /\ t.st = "requested" /\ t.sent
                \/ /\ m.kind = "accepted" /\ m.from \in CPids /\ m.to \in PPids
                   /\ t.st = "offered" /\ Bound(m.from, m.to) /\ t.peer = m.from
                \/ /\ m.kind = "agreement" /\ m.from \in PPids /\ m.to \in CPids
                   /\ t.st = "accepted" /\ t.peer = m.from /\ Newest(m.from).peer = m.to
                   /\ Newest(m.from).st = "agreed"
                   /\ m.agr \in Agreements /\ m.agr.by = m.from
                \/ /\ m.kind = "verification" /\ m.from \in CPids /\ m.to \in PPids
                   /\ t.st = "agreed" /\ Bound(m.from, m.to) /\ t.peer = m.from
                   /\ Committed(m.from)
                \/ /\ m.kind = "finalized" /\ m.from \in PPids /\ m.to \in CPids
                   /\ t.st = "verified" /\ t.peer = m.from /\ Newest(m.from).peer = m.to
                   /\ Newest(m.from).st \in {"verified", "finalized"}
                \/ /\ m.kind = "termination" /\ m.from \in PPids /\ m.to \in CPids
                   /\ t.st \notin {"finalized", "terminated"}
<1>1. /\ m.kind \in Kinds /\ m.kind \notin {"request", "counter"}
      /\ m.from \in Pids /\ Exists(m.from) /\ Newest(m.to) \in Records
      /\ m.agr \in Agreements \cup {NoAgr}
      /\ m.kind \in {"accepted", "verification"} <=> m.from \in CPids
      /\ m.to \in Peers(m.from)
  BY MessageType, StoreTypes DEF StoreInv, StoreTypeOK, TypeOK, StoreMessageInv, StillTrue
<1>2. CASE m.from \in CPids
  <2>1. m.kind \in {"accepted", "verification"} /\ m.to \in PPids /\ m.to \notin CPids
    BY <1>1, <1>2, StoreTypes, RecordAssumption DEF Peers, StoreInv, Pids
  <2>2. /\ Bound(m.from, m.to)
        /\ m.kind = "verification" => Committed(m.from)
    BY <1>2, <2>1 DEF StoreInv, StoreMessageInv, StillTrue
  <2>3. Newest(m.to).peer = m.from
    <3>1. Newest(m.from) \in Versions(m.from) /\ Newest(m.from).peer = m.to /\ m.to # NoPid
      BY <1>2, <2>1, <2>2, StoreTypes DEF Versions, Bound, StoreInv
    <3> QED
      BY <1>1, <1>2, <3>1 DEF StoreInv, ConsumerVersionInv
  <2>4. ProviderAccepts(Newest(m.to), m.kind, Home[neg[m.to].peer] = Home[m.from])
    BY <2>1 DEF Accepts
  <2> QED
    BY <1>1, <1>2, <2>1, <2>2, <2>3, <2>4 DEF ProviderAccepts
<1>3. CASE m.from \in PPids
  <2>1. /\ m.kind \notin {"accepted", "verification"} /\ m.from \notin CPids
        /\ m.to = Newest(m.from).peer /\ m.to \in CPids
    BY <1>1, <1>3, StoreTypes DEF StoreInv, StoreMessageInv, StillTrue
  <2>2. ConsumerAccepts(Newest(m.to), m.kind, m.agr # NoAgr => Home[m.agr.by] = Home[m.from])
    BY <2>1 DEF Accepts
  <2>3. Newest(m.from).st \in Signed => Bound(m.to, m.from) /\ Newest(m.to).peer = m.from
    BY <1>1, <1>3, <2>1 DEF StoreInv, ProviderNewestInv, Bound, Versions
  <2>4. CASE m.kind = "agreement"
    <3>1. /\ Newest(m.from).st \in Signed /\ m.agr \in Agreements /\ m.agr.by = m.from
          /\ Newest(m.to).st \in {"accepted", "requested"}
      BY <2>2, <2>4 DEF StoreInv, StoreMessageInv, StillTrue, ConsumerAccepts
    <3>2. Newest(m.to).st = "accepted"
      BY <2>3, <3>1 DEF Bound, Signed
    <3>3. ~Committed(m.to)
      BY <3>2 DEF Committed, Signed
    <3>4. Newest(m.from).st = "agreed"
      BY <1>1, <1>3, <2>1, <3>1, <3>3 DEF StoreInv, ProviderNewestInv, Signed
    <3> QED
      BY <1>1, <1>3, <2>1, <2>3, <2>4, <3>1, <3>2, <3>4
  <2>5. CASE m.kind = "finalized"
    <3>1. Newest(m.from).st \in {"verified", "finalized"}
      BY <2>5 DEF StoreInv, StoreMessageInv, StillTrue
    <3> QED
      BY <1>1, <1>3, <2>1, <2>2, <2>3, <2>5, <3>1 DEF ConsumerAccepts, Signed
  <2> QED
    BY <1>1, <1>3, <2>1, <2>2, <2>4, <2>5 DEF ConsumerAccepts, Kinds
<1> QED
  BY <1>1, <1>2, <1>3 DEF Pids

\* An accepted event, saved or cut short in the save, keeps what the records say.
LEMMA MoveRecords ==
  ASSUME StoreInv, NEW m \in net, m.kind # "request", m.to \in Pids, Exists(m.to),
         Newest(m.to) = neg[m.to], Accepts(m), Exists(m.to)',
         Moved(m.to, Accepted(neg[m.to], m.kind, m.agr)),
         \A y \in Pids : y # m.to => Unwritten(y) /\ (Exists(y)' <=> Exists(y))
  PROVE  RecordsInv' /\ StoreSteady
<1> DEFINE x == m.to  t == Newest(m.to)
<1>0. RecordsInv /\ StoreTypeOK
  BY DEF StoreInv, RecordsInv
<1>1. PICK r \in Records : r = Accepted(neg[m.to], m.kind, m.agr)
  BY StoreAcceptCases, AcceptedType
<1>2. /\ r.st = Reached(m.kind) /\ r.sent /\ r.peer = t.peer
      /\ m.kind = "agreement" => r.agr = m.agr
      /\ m.kind \notin {"agreement", "termination"} => r.agr = t.agr
  BY <1>1, StoreAcceptCases, AcceptedFacts
<1>3. /\ Newest(x)' = r /\ Old(x)' \subseteq {t} /\ Exists(x) /\ Exists(x)' /\ x \in Pids
      /\ t \in Versions(x) /\ Old(x)' \subseteq Versions(x)
  BY <1>1 DEF Moved, Versions
<1>4. CASE x \in CPids
  <2>1. /\ t.st \in {"requested", "terminated"} \/ t.peer # NoPid
        /\ t.st = "requested" => (t.sent <=> t.peer # NoPid)
        /\ t.peer # NoPid => Exists(t.peer) /\ Newest(t.peer).peer = x
        /\ t.st \in Signed =>
             /\ t.agr \in Agreements /\ t.agr.by = t.peer
             /\ Newest(t.peer).st \in Signed
        /\ t.peer \in PPids \/ t.peer = NoPid
        /\ \A p \in PPids : Bound(x, p) =>
             t.st \in {"accepted", "terminated"} \cup Signed /\ t.peer = p
    BY <1>0, <1>3, <1>4, StoreTypes DEF RecordsInv, ConsumerVersionInv, Bound
  <2>2. CASE m.kind = "offer"
    <3>1. t.st = "requested" /\ t.sent /\ r.st = "offered"
      BY <1>2, <1>4, <2>2, StoreAcceptCases, ReachedFacts
    <3>2. ~Committed(x) /\ \A p \in PPids : ~Bound(x, p)
      BY <3>1 DEF Committed, Bound, Signed
    <3> HIDE DEF t, x
    <3> QED
      BY <1>0, <1>2, <1>3, <1>4, <2>1, <3>1, <3>2, ConsumerWrite DEF Signed, t, x
  <2>3. CASE m.kind = "agreement"
    <3>1. /\ t.st = "accepted" /\ t.peer = m.from /\ m.from \in PPids /\ r.st = "agreed"
          /\ Newest(m.from).st = "agreed" /\ r.agr \in Agreements /\ r.agr.by = m.from
      BY <1>2, <1>4, <2>3, StoreAcceptCases, ReachedFacts
    <3> HIDE DEF t, x
    <3> QED
      BY <1>0, <1>2, <1>3, <1>4, <2>1, <3>1, ConsumerWrite DEF Signed, t, x
  <2>4. CASE m.kind = "finalized"
    <3>1. /\ t.st = "verified" /\ t.peer = m.from /\ m.from \in PPids /\ r.st = "finalized"
          /\ Newest(m.from).st \in {"verified", "finalized"} /\ r.agr = t.agr
      BY <1>2, <1>4, <2>4, StoreAcceptCases, ReachedFacts
    <3> HIDE DEF t, x
    <3> QED
      BY <1>0, <1>2, <1>3, <1>4, <2>1, <3>1, ConsumerWrite DEF Signed, t, x
  <2>5. CASE m.kind = "termination"
    <3>1. t.st \notin {"finalized", "terminated"} /\ r.st = "terminated"
      BY <1>2, <1>4, <2>5, StoreAcceptCases, ReachedFacts
    <3>2. Committed(x) => t.st \in {"agreed", "verified"}
      BY <3>1 DEF Committed, Signed
    <3> HIDE DEF t, x
    <3> QED
      BY <1>0, <1>2, <1>3, <1>4, <2>1, <3>1, <3>2, ConsumerWrite DEF Signed, t, x
  <2> QED
    BY <1>0, <1>4, <2>2, <2>3, <2>4, <2>5, StoreAcceptCases, StoreTypes
<1>5. CASE x \in PPids
  <2>1. /\ t.peer \in CPids
        /\ t.st \in Signed => t.agr \in Agreements /\ t.agr.by = x
    BY <1>0, <1>3, <1>5, StoreTypes DEF RecordsInv, ProviderVersionInv
  <2>2. CASE m.kind = "accepted"
    <3>1. t.st = "offered" /\ t.peer = m.from /\ Bound(m.from, m.to) /\ r.st = "accepted"
      BY <1>2, <1>5, <2>2, StoreAcceptCases, ReachedFacts
    <3> HIDE DEF t, x
    <3> QED
      BY <1>0, <1>2, <1>3, <1>5, <2>1, <3>1, ProviderWrite DEF Signed, Opening, t, x
  <2>3. CASE m.kind = "verification"
    <3>1. /\ t.st = "agreed" /\ t.peer = m.from /\ Bound(m.from, m.to) /\ r.st = "verified"
          /\ Committed(m.from) /\ r.agr = t.agr
      BY <1>2, <1>5, <2>3, StoreAcceptCases, ReachedFacts
    <3> HIDE DEF t, x
    <3> QED
      BY <1>0, <1>2, <1>3, <1>5, <2>1, <3>1, ProviderWrite DEF Signed, Opening, t, x
  <2> QED
    BY <1>0, <1>5, <2>2, <2>3, StoreAcceptCases, StoreTypes
<1> QED
  BY <1>4, <1>5 DEF Pids

(***************************************************************************)
(* Outcomes that are saved.                                                *)
(***************************************************************************)

\* What an outcome was computed from, and what becomes of it.
LEMMA OutcomeCases ==
  ASSUME StoreInv, NEW x \in Pids, NEW r \in Records, result[x] = r
  PROVE  /\ Exists(x) /\ r # Absent /\ phase[x] = "done" /\ neg[x] \in Versions(x)
         /\ kept[x] = Absent => neg[x] = Newest(x)
         /\ kept[x] # Absent => neg[x] \in Old(x)
         /\ x \in CPids => StoreConsumerOutcome(x, neg[x], r)
         /\ x \in PPids => StoreProviderOutcome(x, neg[x], r)
<1>1. r # Absent
  BY RecordAssumption
<1>2. phase[x] = "done" /\ Exists(x)
  BY <1>1 DEF StoreInv, StoreOutcomeInv, StoreOutcome, StoreTypeOK, TypeOK
<1> QED
  BY <1>1, <1>2, StoreTypes DEF StoreInv, StoreOutcomeInv, StoreOutcome, Newest, Old

\* A saved consumer's outcome keeps what the records say.
LEMMA WriteConsumer ==
  ASSUME StoreInv, NEW x \in CPids, NEW r \in Records, result[x] = r,
         Written(x, r), Exists(x)',
         \A y \in Pids : y # x => Unwritten(y) /\ (Exists(y)' <=> Exists(y))
  PROVE  RecordsInv' /\ StoreSteady
<1> DEFINE n == neg[x]
<1>0. RecordsInv /\ StoreTypeOK /\ x \in Pids /\ NoPid \notin PPids
  BY StoreTypes DEF StoreInv, RecordsInv
<1>1. /\ Exists(x) /\ n \in Versions(x) /\ StoreConsumerOutcome(x, n, r)
      /\ kept[x] = Absent => n = Newest(x)
      /\ kept[x] # Absent => n \in Old(x)
  BY <1>0, OutcomeCases
<1>2. /\ Newest(x)' = r /\ Old(x)' \subseteq Versions(x)
      /\ \A s \in Old(x)' : ~SameName(r, s)
      /\ Newest(x) \in Versions(x) /\ Newest(x) \in Records
  BY <1>0, <1>1, StoreTypes DEF Written
<1>3. n = Newest(x) \/ n \in Old(x)
  BY <1>1
<1> HIDE DEF n
<1>4. \A s \in Versions(x) :
        /\ s.st \in {"requested", "terminated"} \/ s.peer # NoPid
        /\ s.st = "requested" => (s.sent <=> s.peer # NoPid)
        /\ s.st = "terminated" => s.sent
        /\ s.peer # NoPid => Exists(s.peer) /\ Newest(s.peer).peer = x
        /\ s.st \in Signed =>
             /\ s.agr \in Agreements /\ s.agr.by = s.peer
             /\ Newest(s.peer).st \in Signed
        /\ s.peer \in PPids \/ s.peer = NoPid
        /\ s \in Records
  BY <1>0, <1>1, StoreTypes DEF RecordsInv, ConsumerVersionInv
<1>5. \A s \in Versions(x) : \/ s = Newest(x)
                             \/ s \in Old(x)
  BY DEF Versions
<1>6. \A s \in Old(x) :
        /\ s.peer = IF Newest(x).st = "requested" THEN NoPid ELSE Newest(x).peer
        /\ Newest(x).st = "offered" => s.st = "requested"
        /\ Newest(x).st = "accepted" => s.st \notin Signed
        /\ Newest(x).st = "terminated" => \A t \in Old(x) : t = s
        /\ Newest(x).st \in Signed => s.st \in {"accepted", "terminated"} \cup Signed
        /\ Newest(x).st = "finalized" => s.st = "verified"
  BY <1>0, <1>1 DEF RecordsInv, ConsumerOldInv
<1>7. \A p \in PPids : Bound(x, p) => \A s \in Versions(x) : s.peer = p
  BY DEF Bound
<1>8. CASE /\ n.st = "requested" /\ ~n.sent /\ r.st = "requested" /\ r.sent
           /\ r.peer \in PPids /\ Exists(r.peer) /\ Newest(r.peer).peer = x
  <2>1. n.peer = NoPid
    BY <1>1, <1>4, <1>8
  <2>2. \A p \in PPids : ~Bound(x, p)
    BY <1>0, <1>1, <1>7, <2>1
  <2>3. ~Committed(x)
    <3>1. Newest(x).st \notin Signed
      BY <1>3, <1>6, <1>8 DEF Signed
    <3>2. Newest(x).st = "terminated" => n \in Old(x)
      BY <1>3, <1>8
    <3> QED
      BY <1>8, <3>1, <3>2 DEF Committed
  <2>4. \A s \in Old(x)' : s.peer = NoPid
    <3> SUFFICES ASSUME NEW s \in Old(x)', s.peer # NoPid PROVE FALSE
      OBVIOUS
    <3>1. s \in Versions(x) /\ ~SameName(r, s)
      BY <1>2
    <3>2. s.st # "requested"
      BY <1>4, <1>8, <3>1 DEF SameName, Records
    <3>3. Newest(x).st = "requested" \/ Newest(x).peer = NoPid
      BY <1>3, <1>6, <2>1
    <3> QED
      BY <1>5, <1>6, <3>1, <3>2, <3>3
  <2>5. Newest(x).st # "finalized"
    BY <2>3 DEF Committed, Signed
  <2> QED
    BY <1>0, <1>1, <1>2, <1>8, <2>2, <2>3, <2>4, <2>5, ConsumerWrite DEF Signed
<1>9. CASE /\ n.st \in {"offered", "accepted"} /\ r.st = "accepted" /\ r.peer = n.peer
           /\ Newest(x).st \notin Signed
  <2>1. n.peer \in PPids /\ Exists(n.peer) /\ Newest(n.peer).peer = x
    BY <1>0, <1>1, <1>4, <1>9
  <2>2. \A s \in Versions(x) : s.peer = n.peer
    BY <1>0, <1>3, <1>5, <1>6, <1>9, <2>1
  <2>3. \A p \in PPids : Bound(x, p) => n.peer = p
    BY <1>1, <1>7
  <2>4. ~Committed(x)
    BY <1>3, <1>9 DEF Committed
  <2>5. Newest(x).st # "finalized"
    BY <1>9 DEF Signed
  <2>6. \A s \in Versions(x) : s.st \notin Signed
    <3>1. Newest(x).st \in {"requested", "offered", "accepted", "terminated"}
      BY <1>2, <1>9 DEF Records, States, Signed
    <3>2. CASE n = Newest(x)
      BY <1>5, <1>6, <1>9, <3>2 DEF Signed
    <3>3. CASE n \in Old(x)
      <4>1. Newest(x).st \in {"accepted", "terminated"}
        BY <1>0, <1>6, <1>9, <2>1, <3>1, <3>3
      <4>2. Newest(x).st = "terminated" => \A s \in Old(x) : s = n
        BY <1>6, <3>3
      <4> QED
        BY <1>5, <1>6, <1>9, <4>1, <4>2 DEF Signed
    <3> QED
      BY <1>3, <3>2, <3>3
  <2> QED
    BY <1>0, <1>1, <1>2, <1>9, <2>1, <2>2, <2>3, <2>4, <2>5, <2>6, ConsumerWrite DEF Signed
<1>10. CASE /\ n.st = "agreed" /\ r.st = "verified" /\ r.peer = n.peer
            /\ r.agr = n.agr /\ Newest(n.peer).st \in {"verified", "finalized"}
  <2>1. /\ n.peer \in PPids /\ Exists(n.peer) /\ Newest(n.peer).peer = x
        /\ n.agr \in Agreements /\ n.agr.by = n.peer
    BY <1>0, <1>1, <1>4, <1>10 DEF Signed
  <2>2. \A s \in Versions(x) : s.peer = n.peer
    BY <1>0, <1>3, <1>5, <1>6, <1>10, <2>1
  <2>3. Committed(x)
    BY <1>0, <1>10, <2>1 DEF RecordsInv, ProviderNewestInv
  <2>4. Newest(x).st # "finalized"
    BY <1>3, <1>6, <1>10
  <2>5. \A s \in Versions(x) : s.st \in {"accepted", "terminated"} \cup Signed
    BY <1>5, <1>6, <2>3 DEF Committed, Signed
  <2>6. \A p \in PPids : Bound(x, p) => n.peer = p
    BY <1>1, <1>7
  <2> QED
    BY <1>0, <1>1, <1>2, <1>10, <2>1, <2>2, <2>4, <2>5, <2>6, ConsumerWrite DEF Signed
<1> QED
  BY <1>1, <1>8, <1>9, <1>10 DEF StoreConsumerOutcome

\* A saved provider's outcome keeps what the records say.
LEMMA WriteProvider ==
  ASSUME StoreInv, NEW x \in PPids, NEW r \in Records, result[x] = r,
         Written(x, r), Exists(x)',
         \A y \in Pids : y # x => Unwritten(y) /\ (Exists(y)' <=> Exists(y))
  PROVE  RecordsInv' /\ StoreSteady
<1> DEFINE n == neg[x]
           c == Newest(x).peer
           N == Newest(x).st
<1>0. RecordsInv /\ StoreTypeOK /\ x \in Pids
  BY StoreTypes DEF StoreInv, RecordsInv
<1>1. /\ Exists(x) /\ n \in Versions(x) /\ StoreProviderOutcome(x, n, r)
      /\ n = Newest(x) \/ n \in Old(x)
      /\ c \in CPids
  BY <1>0, OutcomeCases, StoreTypes
<1>2. /\ Newest(x)' = r /\ Old(x)' \subseteq Versions(x)
      /\ \A s \in Old(x)' : s = Newest(x) \/ s \in Old(x)
  BY <1>0, <1>1, StoreTypes DEF Written, Versions
<1>3. /\ r.peer = c
      /\ n.st \in Signed => n.agr \in Agreements /\ n.agr.by = x
  BY <1>0, <1>1 DEF RecordsInv, ProviderVersionInv, StoreProviderOutcome
<1>4. \A s \in Old(x) :
        /\ N \in Opening => s.st \in Opening
        /\ N = "accepted" => s.st = "offered"
        /\ N = "agreed" => s.st \in {"offered", "accepted", "agreed"}
        /\ N \in {"verified", "finalized"} => s.st \in Signed
  BY <1>0, <1>1 DEF RecordsInv, ProviderOldInv
<1>5. /\ N \in {"accepted"} \cup Signed => Bound(c, x)
      /\ N \in {"verified", "finalized"} => Committed(c)
  BY <1>0, <1>1 DEF RecordsInv, ProviderNewestInv
<1>6. N \in States
  BY <1>0, <1>1, StoreTypes DEF Records
<1> HIDE DEF n, c
<1>7. CASE r.st \in {"offered", "terminated"}
  <2>1. N \in Opening
    BY <1>1, <1>4, <1>6, <1>7 DEF StoreProviderOutcome, Opening, Signed, States
  <2>2. \A s \in Old(x)' : s.st \in Opening
    BY <1>2, <1>4, <2>1
  <2> QED
    BY <1>0, <1>1, <1>2, <1>3, <1>7, <2>1, <2>2, ProviderWrite DEF Opening, Signed, c
<1>8. CASE n.st = "accepted" /\ r.st = "agreed" /\ r.agr \in Agreements /\ r.agr.by = x
  <2>1. N \in {"accepted", "agreed"}
    BY <1>1, <1>4, <1>6, <1>8 DEF Opening, Signed, States
  <2>2. \A s \in Old(x)' : s.st \in {"offered", "accepted", "agreed"}
    BY <1>2, <1>4, <2>1
  <2> QED
    BY <1>0, <1>1, <1>2, <1>3, <1>5, <1>8, <2>1, <2>2, ProviderWrite DEF Opening, Signed, c
<1>9. CASE n.st = "agreed" /\ r.st = "agreed" /\ r.agr = n.agr /\ N = "agreed"
  <2>1. \A s \in Old(x)' : s.st \in {"offered", "accepted", "agreed"}
    BY <1>2, <1>4, <1>9
  <2> QED
    BY <1>0, <1>1, <1>2, <1>3, <1>5, <1>9, <2>1, ProviderWrite DEF Opening, Signed, c
<1>10. CASE n.st = "verified" /\ r.st = "finalized" /\ r.agr = n.agr
            /\ Newest(n.peer).st = "finalized"
  <2>1. N \in {"verified", "finalized"}
    BY <1>1, <1>4, <1>6, <1>10 DEF Opening, Signed, States
  <2>2. \A s \in Old(x)' : s.st \in Signed
    BY <1>2, <1>4, <2>1 DEF Signed
  <2>3. n.peer = c
    BY <1>1, <1>3 DEF StoreProviderOutcome
  <2> QED
    BY <1>0, <1>1, <1>2, <1>3, <1>5, <1>10, <2>1, <2>2, <2>3, ProviderWrite
    DEF Opening, Signed, c
<1> QED
  BY <1>1, <1>7, <1>8, <1>9, <1>10 DEF StoreProviderOutcome

(***************************************************************************)
(* What a step leaves of the outcomes and the messages.                    *)
(***************************************************************************)

\* An outcome is as good as it was while the loop's record and the newest one
\* are as they were.
LEMMA OutcomeStays ==
  ASSUME StoreInv, StoreSteady, NEW x \in Pids, result[x] # Absent,
         result'[x] = result[x], neg'[x] = neg[x], Newest(x)' = Newest(x)
  PROVE  StoreOutcome(x)'
<1>0. StoreTypeOK /\ StoreOutcome(x) /\ result[x] \in Records
  BY DEF StoreInv, StoreOutcomeInv, StoreTypeOK, TypeOK
<1>1. Exists(x) /\ neg[x] \in Versions(x)
  BY <1>0, OutcomeCases
<1>2. ASSUME x \in CPids PROVE StoreConsumerOutcome(x, neg[x], result[x])'
  <2>1. /\ StoreConsumerOutcome(x, neg[x], result[x])
        /\ neg[x].st = "agreed" => neg[x].peer \in PPids /\ Exists(neg[x].peer)
    BY <1>0, <1>1, <1>2, StoreTypes DEF StoreInv, ConsumerVersionInv, StoreOutcome
  <2> QED
    BY <2>1 DEF StoreConsumerOutcome, StoreSteady
<1>3. ASSUME x \in PPids PROVE StoreProviderOutcome(x, neg[x], result[x])'
  <2>1. /\ StoreProviderOutcome(x, neg[x], result[x])
        /\ neg[x].peer \in CPids /\ Exists(neg[x].peer)
    BY <1>0, <1>1, <1>3, StoreTypes
    DEF StoreInv, ProviderVersionInv, ProviderNewestInv, StoreOutcome
  <2> QED
    BY <2>1 DEF StoreProviderOutcome, StoreSteady
<1> QED
  BY <1>2, <1>3 DEF StoreOutcome

\* So is a message.
LEMMA MessageStays ==
  ASSUME StoreInv, StoreSteady, NEW n \in net, NEW m,
         m.kind = n.kind, m.from = n.from, m.to = n.to, m.agr = n.agr
  PROVE  StillTrue(m)'
<1>1. StillTrue(n) /\ StoreTypeOK
  BY DEF StoreInv, StoreMessageInv
<1>2. /\ n.from \in Pids /\ Exists(n.from)
      /\ n.kind \in {"accepted", "verification"} => n.from \in CPids /\ n.to \in PPids
      /\ n.kind \in {"agreement", "finalized"} => n.from \in PPids
  BY <1>1, MessageType, StoreTypes, RecordAssumption
  DEF StoreTypeOK, TypeOK, Peers, StillTrue, Pids
<1>3. n.kind = "verification" => Exists(n.to)
  <2> SUFFICES ASSUME n.kind = "verification" PROVE Exists(n.to)
    OBVIOUS
  <2>1. Newest(n.from) \in Versions(n.from) /\ Newest(n.from).peer = n.to /\ n.to # NoPid
    BY <1>1, <1>2, StoreTypes DEF StillTrue, Bound, Versions
  <2> QED
    BY <1>2, <2>1 DEF StoreInv, ConsumerVersionInv
<1> QED
  BY <1>1, <1>2, <1>3 DEF StillTrue, StoreSteady

\* The waits, as long as those who wait keep their records.
LEMMA WaitsStay ==
  ASSUME StoreInv,
         \A m \in net' : m.live => /\ m \in net /\ phase'[m.from] = "posting"
                                   /\ neg'[m.from] = neg[m.from]
  PROVE  WaitInv'
BY DEF StoreInv, WaitInv, Posts, TargetOf

\* A step that keeps the records' part of the invariant keeps all of it, if its
\* messages and outcomes are those there were.
LEMMA StoreStep ==
  ASSUME StoreInv, StoreTypeOK', RecordsInv', StoreSteady,
         \A m \in net' : /\ \E n \in net : /\ m.kind = n.kind /\ m.from = n.from
                                           /\ m.to = n.to /\ m.agr = n.agr
                         /\ m.live => /\ m \in net /\ phase'[m.from] = "posting"
                                      /\ neg'[m.from] = neg[m.from],
         \A x \in Pids : result'[x] # Absent =>
           /\ phase'[x] = "done"
           /\ \/ result'[x] = result[x] /\ neg'[x] = neg[x] /\ Newest(x)' = Newest(x)
              \/ StoreOutcome(x)'
  PROVE  StoreInv'
<1>1. WaitInv'
  BY WaitsStay
<1>2. StoreMessageInv'
  BY MessageStays DEF StoreMessageInv
<1>3. StoreOutcomeInv'
  BY OutcomeStays DEF StoreOutcomeInv
<1> QED
  BY <1>1, <1>2, <1>3 DEF StoreInv, RecordsInv

(***************************************************************************)
(* Steps that write no record.                                             *)
(***************************************************************************)

\* Messages kept, dropped or no longer waited for, outcomes kept or dropped.
LEMMA QuietStore ==
  ASSUME StoreInv, StoreTypeOK',
         \A x \in Pids : Unwritten(x) /\ (Exists(x)' <=> Exists(x)),
         \A m \in net' : /\ \E n \in net : /\ m.kind = n.kind /\ m.from = n.from
                                           /\ m.to = n.to /\ m.agr = n.agr
                         /\ m.live => /\ m \in net /\ phase'[m.from] = "posting"
                                      /\ neg'[m.from] = neg[m.from],
         \A x \in Pids : result'[x] # Absent =>
           phase'[x] = "done" /\ result'[x] = result[x] /\ neg'[x] = neg[x]
  PROVE  StoreInv'
<1>1. RecordsInv' /\ StoreSteady
  BY QuietRecords DEF StoreInv, RecordsInv
<1> QED
  BY <1>1, StoreStep DEF Unwritten

\* What the lemmas about answers and restarts ask for.
LEMMA StoreWaits ==
  ASSUME StoreInv
  PROVE  /\ StoreTypeOK /\ TypeOK /\ WaitInv /\ RecordsInv
         /\ \A x \in Pids : result[x] # Absent => phase[x] = "done"
         /\ \A m \in net : /\ m.from \in Pids /\ Exists(m.from)
                           /\ m.live => phase[m.from] = "posting"
         /\ \A m, n \in net : m.live /\ n.live /\ m.from = n.from => m = n
BY DEF StoreInv, StoreTypeOK, TypeOK, Messages, WaitInv, StoreOutcomeInv, RecordsInv

\* A poll.
LEMMA PollTickStore ==
  ASSUME StoreInv, NEW k \in Connectors, PollTick(k)
  PROVE  StoreInv'
BY PollTickFrame, StoreWaits, QuietStore

\* A post that finds no route.
LEMMA PostNowhereStore ==
  ASSUME StoreInv, NEW x \in Pids, NEW kind \in Kinds, PostNowhere(x, kind),
         UNCHANGED storeVars
  PROVE  StoreInv'
<1>1. /\ phase' = [phase EXCEPT ![x] = "done"] /\ phase[x] = "due"
      /\ UNCHANGED <<neg, result, net, left, kept>>
  BY DEF PostNowhere, storeVars
<1>2. \A y \in Pids : phase'[y] = IF y = x THEN "done" ELSE phase[y]
  BY <1>1, StoreWaits DEF TypeOK
<1>3. TypeOK'
  BY StoreWaits, PostNowhereType
<1>4. StoreTypeOK' /\ \A y \in Pids : Unwritten(y) /\ (Exists(y)' <=> Exists(y))
  BY <1>1, <1>2, <1>3, StoreWaits, QuietFrame
<1> QED
  BY <1>1, <1>2, <1>4, StoreWaits, QuietStore

\* A request that is lost, and its sender's wait with it.
LEMMA LoseRequestStore ==
  ASSUME StoreInv, NEW m \in net, LoseRequest(m), UNCHANGED storeVars
  PROVE  StoreInv'
<1>1. Answer(m, Absent) /\ UNCHANGED <<neg, left, kept>>
  BY DEF LoseRequest, storeVars
<1>2. TypeOK'
  BY StoreWaits, NoOutcomeType, ProtocolAssumption DEF LoseRequest, TypeOK
<1>3. \A y \in Pids : phase'[y] = "idle" => phase[y] = "idle"
  BY <1>1, StoreWaits, AnswerEffect
<1>4. StoreTypeOK' /\ \A y \in Pids : Unwritten(y) /\ (Exists(y)' <=> Exists(y))
  BY <1>1, <1>2, <1>3, StoreWaits, QuietFrame
<1> QED
  BY <1>1, <1>4, StoreWaits, AnswerEffect, QuietStore

\* An answer that is lost: the message stays.
LEMMA LoseAnswerStore ==
  ASSUME StoreInv, NEW m \in net, LoseAnswer(m), UNCHANGED storeVars
  PROVE  StoreInv'
<1> DEFINE g == [m EXCEPT !.live = FALSE]
<1>1. /\ g.kind = m.kind /\ g.from = m.from /\ g.to = m.to /\ g.agr = m.agr /\ ~g.live
      /\ net' = (net \ {m}) \cup {g} /\ m.live
      /\ UNCHANGED <<neg, result, left, kept>>
  BY StoreWaits DEF LoseAnswer, storeVars, TypeOK, Messages
<1> HIDE DEF g
<1>2. \A y \in Pids : phase'[y] = IF y = m.from THEN "done" ELSE phase[y]
  BY StoreWaits DEF LoseAnswer, TypeOK
<1>3. TypeOK'
  BY StoreWaits, LoseAnswerType
<1>4. StoreTypeOK' /\ \A y \in Pids : Unwritten(y) /\ (Exists(y)' <=> Exists(y))
  BY <1>1, <1>2, <1>3, StoreWaits, QuietFrame
<1> QED
  BY <1>1, <1>2, <1>4, StoreWaits, QuietStore

\* A failed tick's end.
LEMMA SaveNothingStore ==
  ASSUME StoreInv, NEW x \in Pids, SaveNothing(x)
  PROVE  StoreInv'
BY SaveNothingFrame, StoreWaits, QuietStore

\* A get.
LEMMA GetStore ==
  ASSUME StoreInv, NEW x \in Pids, Get(x)
  PROVE  StoreInv'
<1>1. UNCHANGED <<neg, phase, result, net>>
  BY StoreWaits, GetFrame DEF vars
<1> QED
  BY <1>1, GetFrame, StoreWaits, QuietStore

\* An event that is rejected.
LEMMA RejectStore ==
  ASSUME StoreInv, NEW m \in net, Event(m), RejectEvent(m)
  PROVE  StoreInv'
<1>1. Answer(m, Absent) /\ UNCHANGED neg
  BY DEF RejectEvent
<1> QED
  BY <1>1, RejectFrame, StoreWaits, AnswerEffect, QuietStore

\* A crash between two saves.
LEMMA CrashBetweenSavesStore ==
  ASSUME StoreInv, NEW k \in Connectors, CrashBetweenSaves(k)
  PROVE  StoreInv'
<1>1. StoreTypeOK' /\ Restart(k)
  BY StoreWaits, CrashBetweenSavesFrame
<1>2. \A y \in Pids : /\ Unwritten(y) /\ (Exists(y)' <=> Exists(y))
                      /\ Home[y] # k => neg'[y] = neg[y]
  BY StoreWaits, CrashBetweenSavesFrame
<1>3. \A m \in net' : /\ \E n \in net : /\ m.kind = n.kind /\ m.from = n.from
                                        /\ m.to = n.to /\ m.agr = n.agr
                      /\ m.live => /\ m \in net /\ phase'[m.from] = "posting"
                                   /\ neg'[m.from] = neg[m.from]
  BY <1>1, <1>2, StoreWaits, RestartEffect, RestartWaits
<1>4. \A x \in Pids : result'[x] # Absent =>
        phase'[x] = "done" /\ result'[x] = result[x] /\ neg'[x] = neg[x]
  BY <1>1, <1>2, StoreWaits, RestartEffect, RestartWaits
<1> QED
  BY <1>1, <1>2, <1>3, <1>4, QuietStore

(***************************************************************************)
(* Steps of the loop that compute an outcome or post a message.            *)
(***************************************************************************)

\* The record the loop has is the newest, or bounded by it: what it says of the
\* newest, and of the other versions.
LEMMA HandFacts ==
  ASSUME StoreInv, NEW x \in Pids, Exists(x)
  PROVE  /\ neg[x] \in Records /\ neg[x] \in Versions(x) /\ Newest(x) \in Records
         /\ x \in CPids =>
              /\ neg[x].peer \in PPids \/ neg[x].peer = NoPid
              /\ neg[x].st = "requested" => (neg[x].sent <=> neg[x].peer # NoPid)
              /\ neg[x].st = "terminated" => neg[x].sent
              /\ neg[x].st = "offered" => Newest(x).st \notin Signed
              /\ neg[x].st \in {"accepted", "agreed"} =>
                   neg[x].peer \in PPids /\ Bound(x, neg[x].peer)
              /\ neg[x].st = "agreed" =>
                   Committed(x) /\ Newest(neg[x].peer).st \in Signed
         /\ x \in PPids =>
              /\ neg[x].peer \in CPids /\ neg[x].peer = Newest(x).peer
              /\ neg[x].st = "agreed" =>
                   /\ Newest(x).st \in Signed
                   /\ neg[x].agr \in Agreements /\ neg[x].agr.by = x
              /\ neg[x].st = "verified" => Newest(x).st \in {"verified", "finalized"}
<1>0. StoreTypeOK /\ NoPid \notin PPids
  BY RecordAssumption DEF StoreInv, Pids
<1>1. /\ neg[x] \in Records /\ neg[x] \in Versions(x) /\ Newest(x) \in Records
      /\ neg[x] = Newest(x) \/ neg[x] \in Old(x)
      /\ \A s \in Versions(x) : s = Newest(x) \/ s \in Old(x)
  BY <1>0, StoreTypes DEF Newest, Old, Versions
<1>2. Newest(x).st \in States
  BY <1>1 DEF Records
<1>3. ASSUME x \in CPids
      PROVE  /\ neg[x].peer \in PPids \/ neg[x].peer = NoPid
             /\ neg[x].st = "requested" => (neg[x].sent <=> neg[x].peer # NoPid)
             /\ neg[x].st = "terminated" => neg[x].sent
             /\ neg[x].st = "offered" => Newest(x).st \notin Signed
             /\ neg[x].st \in {"accepted", "agreed"} =>
                  neg[x].peer \in PPids /\ Bound(x, neg[x].peer)
             /\ neg[x].st = "agreed" =>
                  Committed(x) /\ Newest(neg[x].peer).st \in Signed
  <2>1. /\ neg[x].peer \in PPids \/ neg[x].peer = NoPid
        /\ neg[x].st = "requested" => (neg[x].sent <=> neg[x].peer # NoPid)
        /\ neg[x].st = "terminated" => neg[x].sent
        /\ neg[x].st \in {"accepted", "agreed"} => neg[x].peer \in PPids
        /\ neg[x].st = "agreed" => Newest(neg[x].peer).st \in Signed
    BY <1>0, <1>1, <1>3, StoreTypes DEF StoreInv, ConsumerVersionInv, Signed
  <2>2. \A s \in Old(x) :
          /\ s.peer = IF Newest(x).st = "requested" THEN NoPid ELSE Newest(x).peer
          /\ Newest(x).st = "offered" => s.st = "requested"
          /\ Newest(x).st = "accepted" => s.st \notin Signed
          /\ Newest(x).st = "terminated" => \A t \in Old(x) : t = s
          /\ Newest(x).st \in Signed => s.st \in {"accepted", "terminated"} \cup Signed
    BY <1>3 DEF StoreInv, ConsumerOldInv
  <2>3. neg[x].st = "offered" => Newest(x).st \notin Signed
    BY <1>1, <2>2 DEF Signed
  <2>4. ASSUME neg[x].st \in {"accepted", "agreed"} PROVE Bound(x, neg[x].peer)
    <3>1. Newest(x).st \in {"accepted", "terminated"} \cup Signed
      BY <1>0, <1>1, <1>2, <2>1, <2>2, <2>4 DEF States, Signed
    <3>2. \A s \in Versions(x) : s.peer = Newest(x).peer
      BY <1>1, <2>2, <3>1 DEF Signed
    <3> QED
      BY <1>1, <3>1, <3>2 DEF Bound
  <2>5. ASSUME neg[x].st = "agreed" PROVE Committed(x)
    <3>1. Newest(x).st \in {"terminated"} \cup Signed
      BY <1>1, <2>2, <2>4, <2>5 DEF Bound, Signed
    <3>2. Newest(x).st = "terminated" => \A s \in Old(x) : s = neg[x]
      BY <1>1, <2>2, <2>5
    <3> QED
      BY <2>5, <3>1, <3>2 DEF Committed
  <2> QED
    BY <2>1, <2>3, <2>4, <2>5
<1>4. ASSUME x \in PPids
      PROVE  /\ neg[x].peer \in CPids /\ neg[x].peer = Newest(x).peer
             /\ neg[x].st = "agreed" =>
                  /\ Newest(x).st \in Signed
                  /\ neg[x].agr \in Agreements /\ neg[x].agr.by = x
             /\ neg[x].st = "verified" => Newest(x).st \in {"verified", "finalized"}
  <2>1. /\ neg[x].peer \in CPids /\ neg[x].peer = Newest(x).peer
        /\ neg[x].st = "agreed" => neg[x].agr \in Agreements /\ neg[x].agr.by = x
    BY <1>0, <1>1, <1>4, StoreTypes DEF StoreInv, ProviderVersionInv, Signed
  <2>2. \A s \in Old(x) :
          /\ Newest(x).st \in Opening => s.st \in Opening
          /\ Newest(x).st = "accepted" => s.st = "offered"
          /\ Newest(x).st = "agreed" => s.st \in {"offered", "accepted", "agreed"}
    BY <1>4 DEF StoreInv, ProviderOldInv
  <2> QED
    BY <1>1, <1>2, <2>1, <2>2 DEF Opening, Signed, States
<1> QED
  BY <1>1, <1>3, <1>4

\* A decision.
LEMMA DecideStore ==
  ASSUME DefaultBuild, StoreInv, NEW x \in Pids, NEW s \in States, Decide(x, s),
         UNCHANGED storeVars
  PROVE  StoreInv'
<1>0. TypeOK /\ TypeOK' /\ StoreTypeOK
  BY StoreWaits, DecideType
<1>1. /\ Exists(x) /\ phase[x] = "due" /\ Decides(x, s)
      /\ phase' = [phase EXCEPT ![x] = "done"] /\ UNCHANGED <<neg, net, left, kept>>
  BY <1>0 DEF Decide, TypeOK, storeVars
<1>2. \A y \in Pids : phase'[y] = IF y = x THEN "done" ELSE phase[y]
  BY <1>0, <1>1 DEF TypeOK
<1>3. StoreTypeOK' /\ \A y \in Pids : Unwritten(y) /\ (Exists(y)' <=> Exists(y))
  BY <1>0, <1>1, <1>2, QuietFrame
<1>4. RecordsInv' /\ StoreSteady
  BY <1>3, StoreWaits, QuietRecords
<1>5. PICK r : /\ result' = [result EXCEPT ![x] = r]
               /\ r.st = s /\ r.peer = neg[x].peer
               /\ s = "agreed" /\ x \in PPids => r.agr \in Agreements /\ r.agr.by = x
  <2>1. neg[x] \in Records
    BY <1>1, HandFacts
  <2>2. CASE s = "agreed"
    <3>1. x \in PPids => Fresh(x) \in Agreements /\ Fresh(x).by = x
      BY <1>0, <2>2, RecordAssumption DEF Decide, Fresh, Agreements, TypeOK
    <3>2. LET d == Decided(neg[x], s, Fresh(x))
          IN  d.st = s /\ d.peer = neg[x].peer /\ d.agr = Fresh(x)
      BY <2>1, <2>2 DEF Decided, Records
    <3> QED
      BY <2>2, <3>1, <3>2 DEF Decide
  <2>3. CASE s # "agreed"
    <3>1. LET d == Decided(neg[x], s, NoAgr) IN d.st = s /\ d.peer = neg[x].peer
      BY <2>1 DEF Decided, Records
    <3> QED
      BY <2>3, <3>1 DEF Decide
  <2> QED
    BY <2>2, <2>3
<1>6. \A y \in Pids : result'[y] = IF y = x THEN r ELSE result[y]
  BY <1>0, <1>5 DEF TypeOK
<1>7. StoreOutcome(x)'
  <2>1. /\ Newest(x)' = Newest(x) /\ neg'[x] = neg[x] /\ result'[x] = r
    BY <1>1, <1>3, <1>6 DEF Unwritten
  <2> QED
    BY <1>0, <1>1, <1>5, <2>1, DecidesCases, HandFacts, StoreTypes
    DEF StoreOutcome, StoreConsumerOutcome, StoreProviderOutcome
<1>8. \A y \in Pids : result'[y] # Absent =>
        /\ phase'[y] = "done"
        /\ \/ result'[y] = result[y] /\ neg'[y] = neg[y] /\ Newest(y)' = Newest(y)
           \/ StoreOutcome(y)'
  BY <1>1, <1>2, <1>3, <1>6, <1>7, StoreWaits DEF Unwritten
<1>9. \A m \in net' : m \in net /\ (m.live => phase'[m.from] = "posting")
  BY <1>1, <1>2, StoreWaits
<1> QED
  BY <1>1, <1>3, <1>4, <1>8, <1>9, StoreStep

\* A post.
LEMMA PostStore ==
  ASSUME StoreInv, NEW x \in Pids, NEW kind \in Kinds, Post(x, kind), UNCHANGED storeVars
  PROVE  StoreInv'
<1>m. PICK m : m = [kind |-> kind, from |-> x, to |-> neg[x].peer,
                   agr  |-> IF kind = "agreement" THEN neg[x].agr ELSE NoAgr,
                   live |-> TRUE]
  OBVIOUS
<1>0. TypeOK /\ TypeOK' /\ StoreTypeOK
  BY StoreWaits, PostType
<1>1. /\ Exists(x) /\ phase[x] = "due" /\ Posts(x, kind) /\ net' = net \cup {m}
      /\ phase' = [phase EXCEPT ![x] = "posting"] /\ UNCHANGED <<neg, result, left, kept>>
  BY <1>0, <1>m DEF Post, TypeOK, storeVars
<1>2. /\ m.kind = kind /\ m.from = x /\ m.to = neg[x].peer
      /\ kind = "agreement" => m.agr = neg[x].agr
  BY <1>m
<1>3. \A y \in Pids : phase'[y] = IF y = x THEN "posting" ELSE phase[y]
  BY <1>0, <1>1 DEF TypeOK
<1>4. StoreTypeOK' /\ \A y \in Pids : Unwritten(y) /\ (Exists(y)' <=> Exists(y))
  BY <1>0, <1>1, <1>3, QuietFrame
<1>5. RecordsInv' /\ StoreSteady
  BY <1>4, StoreWaits, QuietRecords
<1>6. WaitInv'
  <2>1. \A n \in net : n.live => n.from # x
    BY <1>1, StoreWaits
  <2>2. \A n \in net' : n.live => phase'[n.from] = "posting" /\ Posts(n.from, n.kind)
    BY <1>1, <1>2, <1>3, <2>1, StoreWaits DEF WaitInv
  <2>3. \A n, o \in net' : n.live /\ o.live /\ n.from = o.from => n = o
    BY <1>1, <1>2, <2>1, StoreWaits
  <2> QED
    BY <1>1, <2>2, <2>3 DEF WaitInv, Posts, TargetOf
<1>7. StoreMessageInv'
  <2>1. StillTrue(m)
    <3>1. /\ x \in CPids => x \notin PPids
          /\ x \in CPids => /\ neg[x].st = "requested" => (neg[x].sent <=> neg[x].peer # NoPid)
                            /\ neg[x].st = "terminated" => neg[x].sent
      BY <1>0, <1>1, HandFacts, StoreTypes
    <3> QED
      BY <1>1, <1>2, <3>1, PostsCases, HandFacts DEF StillTrue
  <2>2. StillTrue(m)'
    <3>1. m.from \in Pids /\ m.to \in Peers(x)
      BY <1>0, <1>1, <1>2 DEF TypeOK
    <3>2. \A p \in PPids, c \in CPids : /\ Bound(c, p) => Bound(c, p)'
                                        /\ Committed(c) => Committed(c)'
      BY <1>4, UnwrittenFacts DEF Pids
    <3>3. /\ kind \in {"accepted", "verification"} => x \in CPids /\ m.to \in PPids
          /\ kind \in {"agreement", "finalized"} => x \in PPids
      BY <1>1, <1>2, <2>1, <3>1, RecordAssumption, HandFacts, PostsCases
      DEF Pids, Peers, StillTrue
    <3>4. \A y \in Pids : Newest(y)' = Newest(y)
      BY <1>4 DEF Unwritten
    <3> QED
      BY <1>2, <2>1, <3>1, <3>2, <3>3, <3>4 DEF StillTrue, Pids
  <2> QED
    BY <1>1, <1>5, <2>2, MessageStays DEF StoreMessageInv
<1>8. StoreOutcomeInv'
  <2>1. \A y \in Pids : result'[y] # Absent =>
          /\ phase'[y] = "done" /\ result'[y] = result[y] /\ neg'[y] = neg[y]
          /\ Newest(y)' = Newest(y)
    BY <1>1, <1>3, <1>4, StoreWaits DEF Unwritten
  <2> QED
    BY <1>5, <2>1, OutcomeStays DEF StoreOutcomeInv
<1> QED
  BY <1>4, <1>5, <1>6, <1>7, <1>8 DEF StoreInv, RecordsInv

(***************************************************************************)
(* Steps that write a record.                                              *)
(***************************************************************************)

\* A new consumer record has sent nothing and is nobody's counterpart.
LEMMA NegotiateStore ==
  ASSUME StoreInv, NEW c \in CPids, Negotiate(c), UNCHANGED storeVars
  PROVE  StoreInv'
<1>0. TypeOK' /\ StoreTypeOK /\ RecordsInv /\ c \in Pids /\ NoPid \notin PPids
  BY StoreWaits, NegotiateType, StoreTypes
<1>1. /\ ~Exists(c) /\ neg' = [neg EXCEPT ![c] = NewConsumer]
      /\ UNCHANGED <<phase, result, net, left, kept>>
      /\ \A y \in Pids : y # c => neg'[y] = neg[y]
  BY DEF Negotiate, storeVars, StoreInv, StoreTypeOK, TypeOK
<1>2. /\ NewConsumer \in Records /\ NewConsumer.peer \in Peers(c)
      /\ NewConsumer.st = "requested" /\ ~NewConsumer.sent /\ NewConsumer.peer = NoPid
  BY NewType DEF NewConsumer, Peers
<1>3. /\ StoreTypeOK' /\ Exists(c)' /\ Newest(c)' = NewConsumer /\ Old(c)' = {}
      /\ \A y \in Pids : y # c => Unwritten(y) /\ (Exists(y)' <=> Exists(y))
  BY <1>0, <1>1, <1>2, NewFrame
<1>4. RecordsInv' /\ StoreSteady
  BY <1>0, <1>1, <1>2, <1>3, ConsumerWrite DEF Signed
<1>5. phase[c] = "idle"
  BY <1>0, <1>1, StoreTypes
<1>6. \A m \in net' : m \in net /\ (m.live => phase'[m.from] = "posting" /\ neg'[m.from] = neg[m.from])
  BY <1>1, StoreWaits
<1>7. \A x \in Pids : result'[x] # Absent =>
        phase'[x] = "done" /\ result'[x] = result[x] /\ neg'[x] = neg[x] /\ Newest(x)' = Newest(x)
  BY <1>1, <1>3, <1>5, StoreWaits DEF Unwritten
<1> QED
  BY <1>3, <1>4, <1>6, <1>7, StoreStep

\* A new provider record is the outcome of the request it answers.
LEMMA ContractRequestStore ==
  ASSUME StoreInv, NEW m \in net, NEW p \in PPids, ContractRequest(m, p),
         UNCHANGED storeVars
  PROVE  StoreInv'
<1>0. TypeOK' /\ StoreTypeOK /\ RecordsInv /\ p \in Pids
  BY StoreWaits, ContractRequestType, StoreTypes
<1>1. m.kind = "request" /\ m.from \in CPids /\ Exists(m.from) /\ neg[m.from] \in Records
  BY StoreWaits, MessageType DEF ContractRequest, StoreInv, StoreMessageInv, StillTrue
<1>r. PICK r \in Records : r = Acknowledged(neg[m.from], m.kind, p)
  BY <1>0, <1>1, AcknowledgedType DEF Kinds
<1>2. /\ ~Exists(p) /\ neg' = [neg EXCEPT ![p] = NewProvider(m.from)] /\ Answer(m, r)
      /\ UNCHANGED <<left, kept>> /\ \A y \in Pids : y # p => neg'[y] = neg[y]
  BY <1>r DEF ContractRequest, storeVars, StoreInv, StoreTypeOK, TypeOK
<1>3. /\ NewProvider(m.from) \in Records /\ NewProvider(m.from).peer \in Peers(p)
      /\ NewProvider(m.from).peer = m.from
      /\ r.st = "requested" /\ r.sent /\ r.peer = p
  BY <1>0, <1>1, <1>r, NewType, StoreTypes DEF NewProvider, Peers, Acknowledged, Reached, Records
<1>4. /\ net' = net \ {m}
      /\ m.live => /\ Posts(m.from, m.kind) /\ phase'[m.from] = "done" /\ result'[m.from] = r
      /\ \A x \in Pids : (m.live => x # m.from) =>
           phase'[x] = phase[x] /\ result'[x] = result[x]
      /\ \A n \in net' : n.live => phase'[n.from] = "posting"
  BY <1>2, StoreWaits, AnswerEffect
<1>5. \A y \in Pids : phase'[y] = "idle" => phase[y] = "idle"
  BY <1>4
<1>6. /\ StoreTypeOK' /\ Exists(p)' /\ Newest(p)' = NewProvider(m.from) /\ Old(p)' = {}
      /\ \A y \in Pids : y # p => Unwritten(y) /\ (Exists(y)' <=> Exists(y))
  BY <1>0, <1>2, <1>3, <1>5, NewFrame
<1>7. RecordsInv' /\ StoreSteady
  BY <1>0, <1>1, <1>2, <1>6, ProviderNew
<1>8. phase[p] = "idle"
  BY <1>0, <1>2, StoreTypes
<1>9. \A n \in net' : n \in net /\ (n.live => phase'[n.from] = "posting" /\ neg'[n.from] = neg[n.from])
  BY <1>2, <1>4, StoreWaits
<1>10. ASSUME m.live PROVE StoreOutcome(m.from)'
  <2>1. neg[m.from].st = "requested" /\ ~neg[m.from].sent
    BY <1>1, <1>4, <1>10 DEF Posts, ConsumerPosts
  <2>2. m.from # p /\ m.from \notin PPids
    BY <1>0, <1>1, <1>2, StoreTypes
  <2> QED
    BY <1>0, <1>1, <1>2, <1>3, <1>4, <1>6, <1>10, <2>1, <2>2, StoreTypes
    DEF StoreOutcome, StoreConsumerOutcome
<1>11. ASSUME NEW x \in Pids, result'[x] # Absent
       PROVE  /\ phase'[x] = "done"
              /\ \/ result'[x] = result[x] /\ neg'[x] = neg[x] /\ Newest(x)' = Newest(x)
                 \/ StoreOutcome(x)'
  <2>1. CASE m.live /\ x = m.from
    BY <1>4, <1>10, <2>1
  <2>2. CASE m.live => x # m.from
    BY <1>2, <1>4, <1>6, <1>8, <1>11, <2>2, StoreWaits DEF Unwritten
  <2> QED
    BY <2>1, <2>2
<1> QED
  BY <1>6, <1>7, <1>9, <1>11, StoreStep

\* An event that is accepted is the outcome of the tick that sent it.
LEMMA AcceptStore ==
  ASSUME StoreInv, NEW m \in net, Event(m), AcceptEvent(m)
  PROVE  StoreInv'
<1> DEFINE t == Newest(m.to)
<1>0. StoreTypeOK /\ m.kind # "request" /\ Accepts(m)
  BY StoreWaits DEF AcceptEvent
<1>1. /\ StoreTypeOK'
      /\ m.to \in Pids /\ Exists(m.to) /\ Exists(m.to)' /\ phase[m.to] = "idle"
      /\ Newest(m.to) = neg[m.to]
      /\ Moved(m.to, Accepted(neg[m.to], m.kind, m.agr))
      /\ \A y \in Pids : y # m.to => /\ Unwritten(y) /\ (Exists(y)' <=> Exists(y))
                                     /\ neg'[y] = neg[y]
  BY <1>0, AcceptFrame
<1>2. RecordsInv' /\ StoreSteady
  BY <1>0, <1>1, MoveRecords
<1>3. /\ m.kind \in Kinds \ {"request", "counter"} /\ m.from \in Pids /\ Exists(m.from)
      /\ neg[m.from] \in Records /\ t \in Records /\ m.agr \in Agreements \cup {NoAgr}
  BY <1>0, <1>1, StoreAcceptCases, HandFacts
<1>r. PICK r \in Records : r = Acknowledged(neg[m.from], m.kind, m.to)
  BY <1>1, <1>3, AcknowledgedType
<1>4. /\ r.st = Reached(m.kind) /\ r.sent /\ r.peer = neg[m.from].peer
      /\ r.agr = neg[m.from].agr
  BY <1>3, <1>r, AcknowledgedFacts
<1>5. /\ net' = net \ {m}
      /\ m.live => /\ phase[m.from] = "posting" /\ Posts(m.from, m.kind)
                   /\ phase'[m.from] = "done" /\ result'[m.from] = r
      /\ \A x \in Pids : (m.live => x # m.from) =>
           phase'[x] = phase[x] /\ result'[x] = result[x]
      /\ \A n \in net' : n.live => phase'[n.from] = "posting"
  BY <1>r, StoreWaits, AnswerEffect DEF AcceptEvent
<1>6. \A n \in net' : n \in net /\ (n.live => phase'[n.from] = "posting" /\ neg'[n.from] = neg[n.from])
  BY <1>1, <1>5, StoreWaits
<1>7. Newest(m.to)'.st = Reached(m.kind)
  BY <1>1, <1>3, AcceptedFacts DEF Moved
<1>8. ASSUME m.live PROVE StoreOutcome(m.from)'
  <2>1. /\ m.from # m.to /\ neg'[m.from] = neg[m.from] /\ Newest(m.from)' = Newest(m.from)
        /\ Posts(m.from, m.kind) /\ result'[m.from] = r
    BY <1>1, <1>3, <1>5, <1>8 DEF Unwritten
  <2>2. Newest(m.from) \in Records /\ Newest(m.from).st \in States
    BY <1>3, HandFacts DEF Records
  <2>3. CASE m.from \in CPids
    <3>1. /\ m.from \notin PPids
          /\ \/ /\ m.kind = "accepted" /\ neg[m.from].st = "accepted" /\ t.st = "offered"
             \/ /\ m.kind = "verification" /\ neg[m.from].st = "agreed"
          /\ m.to \in PPids /\ Bound(m.from, m.to)
      BY <1>0, <1>1, <1>3, <2>1, <2>3, StoreAcceptCases, PostsCases, HandFacts, StoreTypes
    <3>2. neg[m.from].peer = m.to /\ Newest(m.from).peer = m.to
      BY <1>0, <1>3, <3>1, HandFacts, StoreTypes DEF Bound, Versions
    <3>3. ASSUME m.kind = "accepted" PROVE Newest(m.from).st \notin Signed
      <4>1. Newest(m.from).st \in Signed => Newest(m.to).st \in Signed
        BY <1>0, <1>3, <2>3, <3>2, StoreTypes DEF StoreInv, ConsumerVersionInv
      <4> QED
        BY <3>1, <3>3, <4>1 DEF Signed
    <3> QED
      BY <1>4, <1>7, <2>1, <2>3, <3>1, <3>2, <3>3, ReachedFacts
      DEF StoreOutcome, StoreConsumerOutcome
  <2>4. CASE m.from \in PPids
    <3>1. /\ m.from \notin CPids /\ m.to \in CPids /\ neg[m.from].peer = Newest(m.from).peer
          /\ m.to = Newest(m.from).peer
      BY <1>0, <1>1, <1>3, <2>4, StoreAcceptCases, HandFacts, StoreTypes
      DEF StoreInv, StoreMessageInv, StillTrue
    <3>2. \/ m.kind = "offer" /\ neg[m.from].st = "offered" /\ t.st = "requested"
          \/ /\ m.kind = "agreement" /\ neg[m.from].st = "agreed"
             /\ Newest(m.from).st = "agreed"
          \/ m.kind = "finalized" /\ neg[m.from].st = "verified"
          \/ m.kind = "termination" /\ neg[m.from].st = "terminated"
      BY <1>0, <1>1, <1>3, <2>1, <2>4, <3>1, StoreAcceptCases, PostsCases
    <3>3. ASSUME m.kind = "offer" PROVE Newest(m.from).st \in Opening
      <4>1. ~Bound(m.to, m.from)
        BY <3>2, <3>3 DEF Bound, Signed
      <4> QED
        BY <1>3, <2>2, <2>4, <3>1, <4>1
        DEF StoreInv, ProviderNewestInv, Opening, Signed, States
    <3> QED
      BY <1>4, <1>7, <2>1, <2>4, <3>1, <3>2, <3>3, ReachedFacts
      DEF StoreOutcome, StoreProviderOutcome
  <2> QED
    BY <1>3, <2>3, <2>4 DEF Pids
<1>9. ASSUME NEW x \in Pids, result'[x] # Absent
      PROVE  /\ phase'[x] = "done"
             /\ \/ result'[x] = result[x] /\ neg'[x] = neg[x] /\ Newest(x)' = Newest(x)
                \/ StoreOutcome(x)'
  <2>1. CASE m.live /\ x = m.from
    BY <1>5, <1>8, <2>1
  <2>2. CASE m.live => x # m.from
    BY <1>1, <1>5, <1>9, <2>2, StoreWaits DEF Unwritten
  <2> QED
    BY <2>1, <2>2
<1> QED
  BY <1>1, <1>2, <1>6, <1>9, StoreStep

\* The record that was saved agrees with the others.
LEMMA WriteRecords ==
  ASSUME StoreInv, NEW x \in Pids, result[x] \in Records, Written(x, result[x]), Exists(x)',
         \A y \in Pids : y # x => Unwritten(y) /\ (Exists(y)' <=> Exists(y))
  PROVE  RecordsInv' /\ StoreSteady
<1>1. PICK r \in Records : r = result[x]
  OBVIOUS
<1> QED
  BY <1>1, WriteConsumer, WriteProvider DEF Pids

\* A save.
LEMMA SaveOutcomeStore ==
  ASSUME StoreInv, NEW x \in Pids, SaveOutcome(x)
  PROVE  StoreInv'
<1>0. StoreTypeOK
  BY StoreWaits
<1>1. /\ StoreTypeOK'
      /\ Written(x, result[x]) /\ Exists(x)' /\ result[x] \in Records
      /\ result'[x] = Absent /\ phase[x] = "done"
      /\ UNCHANGED net
  BY <1>0, SaveOutcomeFrame
<1>2. \A y \in Pids : y # x => /\ Unwritten(y) /\ (Exists(y)' <=> Exists(y))
                               /\ neg'[y] = neg[y] /\ phase'[y] = phase[y]
                               /\ result'[y] = result[y]
  BY <1>0, SaveOutcomeFrame
<1>3. RecordsInv' /\ StoreSteady
  BY <1>1, <1>2, WriteRecords
<1>4. \A m \in net' : m \in net /\ (m.live => phase'[m.from] = "posting" /\ neg'[m.from] = neg[m.from])
  BY <1>1, <1>2, StoreWaits
<1>5. \A y \in Pids : result'[y] # Absent =>
        /\ phase'[y] = "done" /\ result'[y] = result[y] /\ neg'[y] = neg[y]
        /\ Newest(y)' = Newest(y)
  BY <1>1, <1>2, StoreWaits DEF Unwritten
<1> QED
  BY <1>1, <1>3, <1>4, <1>5, StoreStep

\* A restart that leaves the records of the other connectors alone.
LEMMA RestartStore ==
  ASSUME StoreInv, StoreTypeOK', RecordsInv', StoreSteady, NEW k \in Connectors, Restart(k),
         \A y \in Pids : Home[y] # k => neg'[y] = neg[y] /\ Newest(y)' = Newest(y)
  PROVE  StoreInv'
<1>1. \A m \in net' : /\ \E n \in net : /\ m.kind = n.kind /\ m.from = n.from
                                        /\ m.to = n.to /\ m.agr = n.agr
                      /\ m.live => /\ m \in net /\ phase'[m.from] = "posting"
                                   /\ neg'[m.from] = neg[m.from]
  BY StoreWaits, RestartEffect, RestartWaits
<1>2. \A x \in Pids : result'[x] # Absent =>
        /\ phase'[x] = "done" /\ result'[x] = result[x] /\ neg'[x] = neg[x]
        /\ Newest(x)' = Newest(x)
  BY StoreWaits, RestartEffect, RestartWaits
<1> QED
  BY <1>1, <1>2, StoreStep

\* A crash in a save.
LEMMA CrashInSaveStore ==
  ASSUME StoreInv, NEW x \in Pids, CrashInSave(x)
  PROVE  StoreInv'
<1>0. StoreTypeOK
  BY StoreWaits
<1>1. /\ StoreTypeOK' /\ Restart(Home[x]) /\ Home[x] \in Connectors
      /\ Written(x, result[x]) /\ Exists(x)' /\ result[x] \in Records
  BY <1>0, CrashInSaveFrame
<1>2. \A y \in Pids : y # x => /\ Unwritten(y) /\ (Exists(y)' <=> Exists(y))
                               /\ Home[y] # Home[x] => neg'[y] = neg[y]
  BY <1>0, CrashInSaveFrame
<1>3. RecordsInv' /\ StoreSteady
  BY <1>1, <1>2, WriteRecords
<1> QED
  BY <1>1, <1>2, <1>3, RestartStore DEF Unwritten

\* A crash in the save of an event.
LEMMA CrashInEventStore ==
  ASSUME StoreInv, NEW m \in net, CrashInEvent(m)
  PROVE  StoreInv'
<1>0. StoreTypeOK /\ m.kind # "request" /\ Accepts(m)
  BY StoreWaits DEF CrashInEvent
<1>1. /\ StoreTypeOK' /\ Restart(Dest(m)) /\ Dest(m) \in Connectors
      /\ m.to \in Pids /\ Exists(m.to) /\ Exists(m.to)' /\ Dest(m) = Home[m.to]
      /\ Newest(m.to) = neg[m.to]
      /\ Moved(m.to, Accepted(neg[m.to], m.kind, m.agr))
      /\ \A y \in Pids : y # m.to => /\ Unwritten(y) /\ (Exists(y)' <=> Exists(y))
                                     /\ neg'[y] = neg[y]
  BY <1>0, CrashInEventFrame
<1>2. RecordsInv' /\ StoreSteady
  BY <1>0, <1>1, MoveRecords
<1> QED
  BY <1>1, <1>2, RestartStore DEF Unwritten

(***************************************************************************)
(* The invariant holds.                                                    *)
(***************************************************************************)

\* The initial state satisfies the invariant.
LEMMA StoreInitInv == StoreInit => StoreInv
<1> SUFFICES ASSUME StoreInit PROVE StoreInv
  OBVIOUS
<1>1. /\ TypeOK /\ net = {}
      /\ \A x \in Pids : /\ ~Exists(x) /\ phase[x] = "idle" /\ result[x] = Absent
                         /\ left[x] = {} /\ kept[x] = Absent
      /\ left \in [Pids -> SUBSET Records] /\ kept \in [Pids -> Records \cup {Absent}]
  BY InitType DEF StoreInit, Init, Exists
<1> QED
  BY <1>1
  DEF StoreInv, StoreTypeOK, WaitInv, StoreOutcomeInv, ConsumerVersionInv, ConsumerOldInv,
      ProviderVersionInv, ProviderOldInv, ProviderNewestInv, StoreMessageInv, Pids

\* Every step keeps the invariant.
LEMMA StoreNextInv == DefaultBuild /\ StoreInv /\ [StoreNext]_allVars => StoreInv'
<1> SUFFICES ASSUME DefaultBuild, StoreInv, [StoreNext]_allVars PROVE StoreInv'
  OBVIOUS
<1>1. ASSUME NEW k \in Connectors, PollTick(k) \/ CrashBetweenSaves(k) PROVE StoreInv'
  BY <1>1, PollTickStore, CrashBetweenSavesStore
<1>2. ASSUME NEW x \in Pids, SaveNothing(x) \/ SaveOutcome(x) \/ CrashInSave(x) \/ Get(x)
      PROVE  StoreInv'
  BY <1>2, SaveNothingStore, SaveOutcomeStore, CrashInSaveStore, GetStore
<1>3. ASSUME NEW m \in net, Event(m) \/ CrashInEvent(m) PROVE StoreInv'
  BY <1>3, AcceptStore, RejectStore, CrashInEventStore DEF Event
<1>4. ASSUME UNCHANGED storeVars, NEW c \in CPids, Negotiate(c) PROVE StoreInv'
  BY <1>4, NegotiateStore
<1>5. ASSUME UNCHANGED storeVars, NEW x \in Pids,
             \/ \E s \in States : Decide(x, s)
             \/ \E kind \in Kinds : Post(x, kind) \/ PostNowhere(x, kind)
      PROVE  StoreInv'
  BY <1>5, DecideStore, PostStore, PostNowhereStore
<1>6. ASSUME UNCHANGED storeVars, NEW m \in net,
             \/ \E p \in PPids : ContractRequest(m, p)
             \/ LoseRequest(m)
             \/ LoseAnswer(m)
      PROVE  StoreInv'
  BY <1>6, ContractRequestStore, LoseRequestStore, LoseAnswerStore
<1>7. CASE UNCHANGED allVars
  <2>1. UNCHANGED <<neg, phase, result, net, minted, faults, left, kept>>
    BY <1>7 DEF allVars, vars, storeVars
  <2>2. TypeOK'
    BY <2>1, StoreWaits DEF TypeOK, Exists
  <2>3. StoreTypeOK' /\ \A y \in Pids : Unwritten(y) /\ (Exists(y)' <=> Exists(y))
    BY <2>1, <2>2, StoreWaits, QuietFrame
  <2> QED
    BY <2>1, <2>3, StoreWaits, QuietStore
<1> QED
  BY <1>1, <1>2, <1>3, <1>4, <1>5, <1>6, <1>7 DEF StoreNext

\* In the default build StoreInv holds however the saves are interrupted and
\* whichever file the poll takes, for any number of connectors, negotiations
\* and faults.
THEOREM StoreInvariance == ASSUME DefaultBuild PROVE StoreSpec => []StoreInv
<1>1. DefaultBuild
  OBVIOUS
<1> QED
  BY <1>1, StoreInitInv, StoreNextInv, PTL DEF StoreSpec

\* Every step keeps the types, whatever the scripts.
LEMMA StoreNextType == StoreTypeOK /\ [StoreNext]_allVars => StoreTypeOK'
<1> SUFFICES ASSUME StoreTypeOK, [StoreNext]_allVars PROVE StoreTypeOK'
  OBVIOUS
<1>0. TypeOK /\ \A m \in net : m.from \in Pids
  BY DEF StoreTypeOK, TypeOK, Messages
<1>1. ASSUME NEW k \in Connectors, PollTick(k) \/ CrashBetweenSaves(k) PROVE StoreTypeOK'
  BY <1>1, PollTickFrame, CrashBetweenSavesFrame
<1>2. ASSUME NEW x \in Pids, SaveNothing(x) \/ SaveOutcome(x) \/ CrashInSave(x) \/ Get(x)
      PROVE  StoreTypeOK'
  BY <1>2, SaveNothingFrame, SaveOutcomeFrame, CrashInSaveFrame, GetFrame
<1>3. ASSUME NEW m \in net, Event(m) \/ CrashInEvent(m) PROVE StoreTypeOK'
  BY <1>3, AcceptFrame, RejectFrame, CrashInEventFrame DEF Event
<1>4. ASSUME UNCHANGED storeVars, NEW c \in CPids, Negotiate(c) PROVE StoreTypeOK'
  <2>1. TypeOK' /\ c \in Pids /\ NewConsumer \in Records /\ NewConsumer.peer \in Peers(c)
    BY <1>0, <1>4, NegotiateType, NewType DEF NewConsumer, Peers, Pids
  <2> QED
    BY <1>4, <2>1, NewFrame DEF Negotiate, storeVars
<1>5. ASSUME UNCHANGED storeVars, NEW m \in net, NEW p \in PPids, ContractRequest(m, p)
      PROVE  StoreTypeOK'
  <2>1. /\ TypeOK' /\ p \in Pids /\ NewProvider(m.from) \in Records
        /\ NewProvider(m.from).peer \in Peers(p)
    BY <1>0, <1>5, ContractRequestType, MessageType, NewType, StoreTypes
    DEF ContractRequest, NewProvider, Peers
  <2>2. \A y \in Pids : phase'[y] = "idle" => phase[y] = "idle"
    BY <1>0, <1>5 DEF ContractRequest, Answer, TypeOK
  <2> QED
    BY <1>5, <2>1, <2>2, NewFrame DEF ContractRequest, storeVars
<1>6. ASSUME TypeOK', UNCHANGED storeVars, UNCHANGED neg,
             \A x \in Pids : phase'[x] = "idle" => phase[x] = "idle"
      PROVE  StoreTypeOK'
  BY <1>6, QuietFrame DEF storeVars
<1>7. ASSUME UNCHANGED storeVars, NEW x \in Pids,
             \/ \E s \in States : Decide(x, s)
             \/ \E kind \in Kinds : Post(x, kind) \/ PostNowhere(x, kind)
      PROVE  StoreTypeOK'
  <2>1. TypeOK'
    BY <1>0, <1>7, DecideType, PostType, PostNowhereType
  <2>2. UNCHANGED neg /\ \A y \in Pids : phase'[y] = "idle" => phase[y] = "idle"
    BY <1>0, <1>7 DEF Decide, Post, PostNowhere, TypeOK
  <2> QED
    BY <1>6, <1>7, <2>1, <2>2
<1>8. ASSUME UNCHANGED storeVars, NEW m \in net, LoseRequest(m) \/ LoseAnswer(m)
      PROVE  StoreTypeOK'
  <2>1. TypeOK'
    BY <1>0, <1>8, NoOutcomeType, LoseAnswerType, ProtocolAssumption DEF LoseRequest, TypeOK
  <2>2. UNCHANGED neg /\ \A y \in Pids : phase'[y] = "idle" => phase[y] = "idle"
    BY <1>0, <1>8 DEF LoseRequest, LoseAnswer, Answer, TypeOK
  <2> QED
    BY <1>6, <1>8, <2>1, <2>2
<1>9. CASE UNCHANGED allVars
  <2>1. UNCHANGED vars /\ UNCHANGED storeVars
    BY <1>9 DEF allVars
  <2> QED
    BY <1>0, <1>6, <2>1 DEF vars, TypeOK, Exists
<1> QED
  BY <1>1, <1>2, <1>3, <1>4, <1>5, <1>7, <1>8, <1>9 DEF StoreNext

\* The records, files, outcomes and messages stay well formed over the store as
\* it is, in any build.
THEOREM StoreTyping == StoreSpec => []TypeOK
<1>1. StoreInit => StoreTypeOK
  BY StoreInitInv DEF StoreInv
<1>2. StoreTypeOK => TypeOK
  BY DEF StoreTypeOK
<1> QED
  BY <1>1, <1>2, StoreNextType, PTL DEF StoreSpec

\* A consumer's agreement is one of its provider record's own, and that record
\* holds one as well, though perhaps another.
THEOREM BothOwn == ASSUME DefaultBuild PROVE StoreSpec => []BothItsOwn
<1>1. StoreInv => BothItsOwn
  <2> SUFFICES ASSUME StoreInv, NEW c \in CPids, Exists(c), HoldsAgreement(Newest(c))
               PROVE  LET p == Newest(c).peer
                      IN  /\ p # NoPid
                          /\ HoldsAgreement(Newest(p))
                          /\ {Newest(c).agr.by, Newest(p).agr.by} = {p}
    BY DEF BothItsOwn
  <2>1. /\ StoreTypeOK /\ Newest(c) \in Versions(c) /\ Newest(c).st \in Signed
    BY StoreWaits DEF HoldsAgreement, Signed, Versions
  <2>2. /\ Newest(c).peer # NoPid /\ Newest(c).peer \in PPids /\ Exists(Newest(c).peer)
        /\ Newest(c).agr.by = Newest(c).peer /\ Newest(Newest(c).peer).st \in Signed
    BY <2>1, StoreTypes DEF StoreInv, ConsumerVersionInv, Signed
  <2>3. Newest(Newest(c).peer).agr.by = Newest(c).peer
    BY <2>2 DEF StoreInv, ProviderVersionInv, Versions
  <2> QED
    BY <2>2, <2>3 DEF HoldsAgreement, Signed
<1> QED
  BY <1>1, StoreInvariance, PTL

\* A provider's record that is finalized has a consumer's that is finalized with
\* it, however the saves are interrupted.
THEOREM NotAlone == ASSUME DefaultBuild PROVE StoreSpec => []NeverFinalizedAlone
<1>1. StoreInv => NeverFinalizedAlone
  <2> SUFFICES ASSUME StoreInv, NEW p \in PPids, Exists(p), Newest(p).st = "finalized"
               PROVE  LET c == Newest(p).peer
                      IN  Newest(c).st = "finalized" /\ Newest(c).peer = p
    BY DEF NeverFinalizedAlone
  <2> QED
    BY DEF StoreInv, ProviderNewestInv, Bound, Versions, Signed
<1> QED
  BY <1>1, StoreInvariance, PTL

(***************************************************************************)
(* Going back.                                                             *)
(***************************************************************************)

\* A record is left as it is, saved, or moved by an event.
LEMMA StepEffect ==
  ASSUME StoreInv, StoreNext, NEW x \in Pids, Exists(x)
  PROVE  \/ Unwritten(x)
         \/ result[x] \in Records /\ Written(x, result[x])
         \/ \E m \in net : /\ m.kind # "request" /\ m.to = x /\ Newest(x) = neg[x]
                           /\ Accepts(m) /\ Moved(x, Accepted(neg[x], m.kind, m.agr))
<1> DEFINE Goal == \/ Unwritten(x)
                   \/ result[x] \in Records /\ Written(x, result[x])
                   \/ \E m \in net :
                        /\ m.kind # "request" /\ m.to = x /\ Newest(x) = neg[x]
                        /\ Accepts(m) /\ Moved(x, Accepted(neg[x], m.kind, m.agr))
<1>0. StoreTypeOK
  BY StoreWaits
<1>1. ASSUME NEW k \in Connectors, PollTick(k) \/ CrashBetweenSaves(k) PROVE Goal
  BY <1>0, <1>1, PollTickFrame, CrashBetweenSavesFrame
<1>2. ASSUME NEW y \in Pids, SaveNothing(y) \/ SaveOutcome(y) \/ CrashInSave(y) \/ Get(y)
      PROVE  Goal
  BY <1>0, <1>2, SaveNothingFrame, SaveOutcomeFrame, CrashInSaveFrame, GetFrame
<1>3. ASSUME NEW m \in net, Event(m) \/ CrashInEvent(m) PROVE Goal
  <2>1. CASE Event(m) /\ AcceptEvent(m)
    BY <1>0, <2>1, AcceptFrame DEF AcceptEvent
  <2>2. CASE Event(m) /\ RejectEvent(m)
    BY <1>0, <2>2, RejectFrame
  <2>3. CASE CrashInEvent(m)
    BY <1>0, <2>3, CrashInEventFrame DEF CrashInEvent
  <2> QED
    BY <1>3, <2>1, <2>2, <2>3 DEF Event
<1>4. ASSUME UNCHANGED storeVars, neg'[x] = neg[x] PROVE Goal
  BY <1>4 DEF storeVars, Unwritten, Newest, Old
<1>5. ASSUME UNCHANGED storeVars, NEW c \in CPids, Negotiate(c) PROVE Goal
  BY <1>0, <1>4, <1>5 DEF Negotiate, StoreTypeOK, TypeOK
<1>6. ASSUME UNCHANGED storeVars, NEW m \in net, NEW p \in PPids, ContractRequest(m, p)
      PROVE  Goal
  BY <1>0, <1>4, <1>6 DEF ContractRequest, StoreTypeOK, TypeOK
<1> QED
  BY <1>1, <1>2, <1>3, <1>4, <1>5, <1>6
  DEF StoreNext, Decide, Post, PostNowhere, LoseRequest, LoseAnswer

\* A record all of whose older versions are gone does not go back: an outcome
\* comes from the newest file, and events lead forward.
LEMMA WriteForward ==
  ASSUME StoreInv, NEW x \in Pids, Exists(x), Old(x) = {}, result[x] \in Records,
         Written(x, result[x])
  PROVE  Forward(Newest(x), Newest(x)')
<1>1. PICK r \in Records : r = result[x]
  OBVIOUS
<1>2. /\ neg[x] = Newest(x) /\ Newest(x)' = r
      /\ x \in CPids => StoreConsumerOutcome(x, neg[x], r)
      /\ x \in PPids => StoreProviderOutcome(x, neg[x], r)
  BY <1>1, OutcomeCases DEF Written
<1>3. LET n == neg[x]
      IN  \/ n.st = r.st /\ r.sent
          \/ n.st = "requested" /\ r.st \in {"offered", "terminated"}
          \/ n.st = "offered" /\ r.st = "accepted"
          \/ n.st = "accepted" /\ r.st = "agreed"
          \/ n.st = "agreed" /\ r.st = "verified"
          \/ n.st = "verified" /\ r.st = "finalized"
  BY <1>2 DEF StoreConsumerOutcome, StoreProviderOutcome, Pids
<1> QED
  BY <1>2, <1>3, RankFacts DEF Forward

LEMMA MoveForward ==
  ASSUME StoreInv, NEW m \in net, m.kind # "request", m.to \in Pids, Exists(m.to),
         Newest(m.to) = neg[m.to], Accepts(m),
         Moved(m.to, Accepted(neg[m.to], m.kind, m.agr))
  PROVE  Forward(Newest(m.to), Newest(m.to)')
<1>1. /\ m.kind \in Kinds /\ Newest(m.to) \in Records /\ m.agr \in Agreements \cup {NoAgr}
  BY StoreAcceptCases
<1>2. Newest(m.to)'.st = Reached(m.kind) /\ Newest(m.to).st \in States
  BY <1>1, AcceptedFacts DEF Moved, Records
<1>3. \/ m.kind = "offer" /\ Newest(m.to).st = "requested"
      \/ m.kind = "accepted" /\ Newest(m.to).st = "offered"
      \/ m.kind = "agreement" /\ Newest(m.to).st = "accepted"
      \/ m.kind = "verification" /\ Newest(m.to).st = "agreed"
      \/ m.kind = "finalized" /\ Newest(m.to).st = "verified"
      \/ m.kind = "termination" /\ Newest(m.to).st # "terminated"
  BY StoreAcceptCases
<1>4. Rank(Newest(m.to).st) < Rank(Newest(m.to)'.st)
  BY <1>2, <1>3, ReachedFacts, RankFacts
<1> QED
  BY <1>4 DEF Forward

\* Only an older file, on the disk or in the loop's hands, takes a record back.
THEOREM Regress == ASSUME DefaultBuild PROVE StoreSpec => RegressNeedsOlderFile
<1>1. StoreInv /\ [StoreNext]_allVars =>
        [\A x \in Pids : Exists(x) /\ left[x] = {} /\ kept[x] = Absent
           => Forward(Newest(x), Newest(x)')]_allVars
  <2> SUFFICES ASSUME StoreInv, StoreNext, NEW x \in Pids, Exists(x), left[x] = {},
                      kept[x] = Absent
               PROVE  Forward(Newest(x), Newest(x)')
    OBVIOUS
  <2>1. Old(x) = {}
    BY DEF Old
  <2>2. CASE Unwritten(x)
    BY <2>2 DEF Unwritten, Forward
  <2>3. CASE result[x] \in Records /\ Written(x, result[x])
    BY <2>1, <2>3, WriteForward
  <2>4. ASSUME NEW m \in net, m.kind # "request", m.to = x, Newest(x) = neg[x], Accepts(m),
               Moved(x, Accepted(neg[x], m.kind, m.agr))
        PROVE  Forward(Newest(x), Newest(x)')
    BY <2>4, MoveForward
  <2> QED
    BY <2>2, <2>3, <2>4, StepEffect
<1>2. DefaultBuild
  OBVIOUS
<1> QED
  BY <1>1, <1>2, StoreInvariance, PTL DEF StoreSpec, RegressNeedsOlderFile
==============================================================================
