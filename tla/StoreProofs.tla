----------------------------- MODULE StoreProofs -----------------------------
(***************************************************************************)
(* What FileStore promises, for any number of readers, states, saves and   *)
(* crashes: undisturbed, the files of a record are one register, whoever   *)
(* gets it; where only crashes interfere, nothing is lost and a get by the *)
(* loop repairs what they left behind; and without a crash the loop never  *)
(* goes back, whatever else interferes.                                    *)
(***************************************************************************)
EXTENDS FileStore, TLAPS

\* What a listing notes of the file of state n, if it was written by save v.
Note(n, v) == [name |-> n, time |-> v]

TypeInv ==
  /\ scenario \in Scenarios
  /\ saves \in Nat /\ clock \in Nat
  /\ file \in [Names -> Nat]
  /\ time \in [Names -> Nat]
  /\ task \in [Actors -> [pc : Steps, todo : SUBSET Names,
                          seen : SUBSET [name : Names, time : Nat],
                          name : Names \cup {0}, got : Nat, since : Nat]]

\* The creator saves first, and nobody saves while it does.
CreatorInv ==
  /\ task[Creator].pc \in {"idle", "clean"}
  /\ task[Creator].pc = "clean" => saves = 1 /\ task[Creator].name = 1
  /\ saves <= 1 => /\ task[Loop].pc \notin {"clean", "remove"}
                   /\ \A n \in Names : file[n] # 0 => n = 1

\* Without ties the times tell the order of the saves.
OrderInv ==
  /\ clock = saves
  /\ \A n \in Names : file[n] # 0 => time[n] = file[n] /\ file[n] <= saves
  /\ \A m, n \in Names : file[m] = file[n] /\ file[n] # 0 => m = n

(***************************************************************************)
(* Undisturbed, the save that wrote a file is the state it is of.          *)
(***************************************************************************)
Saving == task[Loop].pc \in {"clean", "remove"}

\* There is the newest file, and during a save the one before.
TwoFiles ==
  /\ \A n \in Names : file[n] \in {0, n}
  /\ \A n \in Names : file[n] # 0 => n = saves \/ (n + 1 = saves /\ Saving)
  /\ saves > 0 => saves \in Names /\ file[saves] = saves

LoopInv ==
  /\ task[Loop].pc = "clean" => task[Loop].name = saves
  /\ task[Loop].pc = "remove" => task[Loop].name \in Names /\ task[Loop].name + 1 = saves
  /\ task[Loop].pc \in {"get", "poll"} => \A f \in task[Loop].seen : f = Note(saves, saves)
  /\ task[Loop].pc \in {"tidy", "held"} =>
       saves > 0 /\ task[Loop].name = saves /\ task[Loop].seen = {}

\* A reader's listing has the file that was the newest when it began, unless
\* there has been a save since.
Lists(r) ==
  \/ saves > task[r].since
  \/ task[r].since = 0
  \/ task[r].since \in task[r].todo
  \/ Note(task[r].since, task[r].since) \in task[r].seen

Reads(r) ==
  /\ task[r].pc \in {"idle", "get", "tidy"}
  /\ task[r].since <= saves
  /\ \A f \in task[r].seen : f = Note(f.name, f.name) /\ f.name <= saves
  /\ task[r].pc = "get" => task[r].got = 0 /\ Lists(r)
  /\ task[r].pc = "tidy" => /\ task[r].got = task[r].name
                            /\ task[r].name \in 1..saves
                            /\ \A f \in task[r].seen : f.name < task[r].name
  /\ task[r].got # 0 => task[r].got >= task[r].since
  /\ task[r].pc = "idle" /\ task[r].got = 0 => saves > task[r].since \/ task[r].since = 0

ReaderInv == \A r \in scenario.readers : Reads(r)

RegisterInv == OrderInv /\ CreatorInv /\ TwoFiles /\ LoopInv /\ ReaderInv

QuietInv == Undisturbed => RegisterInv

(***************************************************************************)
(* With crashes any number of older files may be left.                     *)
(***************************************************************************)
\* Once there are several saves, nothing changes while the loop lists.
Noticed ==
  saves > 1 => \A n \in Names \ task[Loop].todo :
                 file[n] # 0 => Note(n, file[n]) \in task[Loop].seen

CrashLoopInv ==
  /\ task[Loop].pc \in {"tidy", "held"} => saves > 0
  /\ task[Loop].pc = "clean" => task[Loop].name \in Names /\ file[task[Loop].name] = saves
  /\ task[Loop].pc = "remove" => task[Loop].name \in Names /\ file[task[Loop].name] # saves
  /\ task[Loop].pc \in {"get", "poll", "tidy"} =>
       \A f \in task[Loop].seen : file[f.name] # 0 /\ f = Note(f.name, file[f.name])
  /\ task[Loop].pc = "get" => Noticed
  /\ task[Loop].pc = "tidy" =>
       /\ task[Loop].name \in Names
       /\ task[Loop].got = saves
       /\ file[task[Loop].name] = saves
       /\ \A f \in task[Loop].seen : f.name # task[Loop].name
       /\ \A n \in Names : file[n] # 0 => \/ n = task[Loop].name
                                          \/ Note(n, file[n]) \in task[Loop].seen

Kept == saves > 0 => \E n \in Names : file[n] = saves

LeftoverInv == OrderInv /\ CreatorInv /\ CrashLoopInv /\ Kept

CrashInv == OnlyCrashes => LeftoverInv

(***************************************************************************)
(* Without a crash, whatever else goes wrong, there is one file but during *)
(* a save by the loop, and two of states that follow each other then.      *)
(***************************************************************************)
UncrashedInv ==
  /\ crashes \in Nat
  /\ \A n \in Names : file[n] <= saves
  /\ crashes = 0 =>
       /\ saves = 0 => /\ Copies = {}
                       /\ task[Loop].pc \in {"idle", "get", "poll"}
       /\ ~Saving => \A m, n \in Copies : m = n
       /\ task[Loop].pc = "clean" => Copies \subseteq {task[Loop].name, task[Loop].name - 1}
       /\ task[Loop].pc = "remove" => Copies \subseteq {task[Loop].name, task[Loop].name + 1}
       /\ task[Loop].pc \in {"tidy", "held"} => Copies \subseteq {task[Loop].name}

IInv == TypeInv /\ QuietInv /\ CrashInv /\ UncrashedInv

-----------------------------------------------------------------------------
(***************************************************************************)
(* Types, and who is who.                                                  *)
(***************************************************************************)
LEMMA ScenarioFacts ==
  ASSUME TypeInv
  PROVE  /\ scenario.last \in Nat \ {0}
         /\ Names \subseteq Nat \ {0}
         /\ 1 \in Names
         /\ \A n \in Nat : n \in Names <=> 0 < n /\ n <= scenario.last
BY StoreAssumption DEF TypeInv, Names

LEMMA ActorFacts ==
  ASSUME TypeInv
  PROVE  /\ Loop \in Actors /\ Creator \in Actors /\ Loop # Creator
         /\ \A a \in Actors : a \in scenario.readers \/ a = Loop \/ a = Creator
         /\ \A r \in scenario.readers : r \in Actors /\ r # Loop /\ r # Creator
         /\ Undisturbed \/ OnlyCrashes =>
              "tie" \notin scenario.mishaps /\ "overtaken" \notin scenario.mishaps
         /\ Undisturbed => "crash" \notin scenario.mishaps
         /\ OnlyCrashes => scenario.readers = {}
BY StoreAssumption DEF TypeInv, Actors, Undisturbed, OnlyCrashes, Kinds

LEMMA RenameType ==
  ASSUME TypeInv, UNCHANGED scenario, NEW a \in Actors, NEW n \in Names, Rename(a, n)
  PROVE  TypeInv'
<1>1. Names' = Names /\ Actors' = Actors
  BY DEF Names, Actors
<1>2. clock' \in Nat /\ saves' \in Nat /\ file' \in [Names -> Nat]
  BY DEF Rename, TypeInv
<1>3. time' = [time EXCEPT ![n] = clock']
  BY DEF Rename
<1>4. task' = [task EXCEPT ![a] = [Idle EXCEPT !.pc = "clean", !.name = n]]
  BY DEF Rename
<1>5. time' \in [Names' -> Nat]
  BY <1>1, <1>2, <1>3 DEF TypeInv
<1>6. task' \in [Actors' -> [pc : Steps, todo : SUBSET Names',
                             seen : SUBSET [name : Names', time : Nat],
                             name : Names' \cup {0}, got : Nat, since : Nat]]
  BY <1>1, <1>4 DEF TypeInv, Steps, Idle
<1> QED
  BY <1>1, <1>2, <1>5, <1>6 DEF TypeInv

LEMMA StepType == TypeInv /\ [Next]_vars => TypeInv'
<1> SUFFICES ASSUME TypeInv, [Next]_vars PROVE TypeInv'
  OBVIOUS
<1>1. CASE UNCHANGED vars
  BY <1>1 DEF vars, TypeInv, Names, Actors
<1>2. CASE Next
  <2>1. UNCHANGED scenario
    BY <1>2 DEF Next
  <2>2. Names' = Names /\ Actors' = Actors
    BY <2>1 DEF Names, Actors
  <2>3. CASE Create
    BY <2>1, <2>3, RenameType, ScenarioFacts, ActorFacts DEF Create
  <2>4. CASE Advance
    <3>1. task[Loop].name + 1 \in Names
      BY <2>4, ScenarioFacts, ActorFacts DEF Advance, TypeInv
    <3> QED
      BY <2>1, <2>4, <3>1, RenameType, ActorFacts DEF Advance
  <2>5. CASE Crash
    BY <2>1, <2>2, <2>5 DEF Crash, TypeInv, Idle, Steps
  <2>6. ASSUME NEW a \in Actors, NEW pc \in {"get", "poll"}, Begin(a, pc) PROVE TypeInv'
    BY <2>1, <2>2, <2>6 DEF Begin, TypeInv, Idle, Steps
  <2>7. ASSUME NEW a \in Actors, NEW n \in Names, FindOther(a, n) \/ Visit(a, n) PROVE TypeInv'
    <3>1. Noted(a, n) \subseteq [name : Names, time : Nat]
      BY DEF Noted, TypeInv
    <3> QED
      BY <2>1, <2>2, <2>7, <3>1 DEF FindOther, Visit, TypeInv, Idle, Steps
  <2>8. ASSUME NEW a \in Actors,
               FindNone(a) \/ RemoveOther(a) \/ ReadNothing(a) \/ End(a)
        PROVE  TypeInv'
    <3>1. CASE FindNone(a) \/ RemoveOther(a)
      BY <2>1, <2>2, <3>1 DEF FindNone, RemoveOther, TypeInv, Idle, Steps
    <3>2. CASE ReadNothing(a)
      BY <2>1, <2>2, <3>2 DEF ReadNothing, TypeInv, Idle, Steps
    <3>3. CASE End(a)
      BY <2>1, <2>2, <3>3 DEF End, TypeInv, Idle, Steps
    <3> QED
      BY <2>8, <3>1, <3>2, <3>3
  <2>9. ASSUME NEW a \in Actors, NEW f \in task[a].seen, Read(a, f) \/ Tidy(a, f)
        PROVE  TypeInv'
    BY <2>1, <2>2, <2>9 DEF Read, Tidy, TypeInv, Steps
  <2> QED
    BY <1>2, <2>3, <2>4, <2>5, <2>6, <2>7, <2>8, <2>9, ActorFacts DEF Next
<1> QED
  BY <1>1, <1>2

-----------------------------------------------------------------------------
(***************************************************************************)
(* Undisturbed: one lemma per kind of step.                                *)
(***************************************************************************)
SameFiles == UNCHANGED <<scenario, file, time, clock, saves>>

OnlyMoves(a) == \A b \in Actors : b # a => task'[b] = task[b]

LEMMA ReaderMoves ==
  ASSUME TypeInv, RegisterInv, SameFiles, NEW r \in scenario.readers, OnlyMoves(r), Reads(r)'
  PROVE  RegisterInv'
<1>1. task'[Loop] = task[Loop] /\ task'[Creator] = task[Creator] /\ Names' = Names
  BY ActorFacts DEF OnlyMoves, SameFiles, Names
<1>2. \A q \in scenario.readers : q # r => task'[q] = task[q]
  BY ActorFacts DEF OnlyMoves
<1>3. ReaderInv'
  <2> SUFFICES ASSUME NEW q \in scenario.readers PROVE Reads(q)'
    BY DEF ReaderInv, SameFiles
  <2>1. q # r => task'[q] = task[q] /\ Reads(q)
    BY <1>2 DEF RegisterInv, ReaderInv
  <2> QED
    BY <2>1 DEF Reads, Lists, SameFiles
<1>4. OrderInv' /\ CreatorInv' /\ TwoFiles' /\ LoopInv'
  BY <1>1 DEF RegisterInv, SameFiles, OrderInv, CreatorInv, TwoFiles, Saving, LoopInv
<1> QED
  BY <1>3, <1>4 DEF RegisterInv

LEMMA LoopMoves ==
  ASSUME TypeInv, RegisterInv, SameFiles, OnlyMoves(Loop),
         TwoFiles', LoopInv', saves <= 1 => task'[Loop].pc \notin {"clean", "remove"}
  PROVE  RegisterInv'
<1>1. task'[Creator] = task[Creator] /\ Names' = Names
  BY ActorFacts DEF OnlyMoves, SameFiles, Names
<1>2. \A q \in scenario.readers : task'[q] = task[q]
  BY ActorFacts DEF OnlyMoves
<1>3. ReaderInv'
  BY <1>2 DEF RegisterInv, ReaderInv, Reads, Lists, SameFiles
<1>4. OrderInv' /\ CreatorInv'
  BY <1>1 DEF RegisterInv, SameFiles, OrderInv, CreatorInv
<1> QED
  BY <1>3, <1>4 DEF RegisterInv

LEMMA CreateRegister ==
  ASSUME TypeInv, RegisterInv, Undisturbed, UNCHANGED scenario, Create
  PROVE  RegisterInv'
<1>1. saves = 0 /\ saves' = 1 /\ clock' = 1 /\ Names' = Names
  BY ActorFacts DEF Create, Rename, RegisterInv, OrderInv, Names
<1>2. \A n \in Names : file'[n] = (IF n = 1 THEN 1 ELSE 0) /\ (n = 1 => time'[n] = 1)
  <2>1. file' = [file EXCEPT ![1] = 1] /\ time' = [time EXCEPT ![1] = 1]
    BY ActorFacts DEF Create, Rename, RegisterInv, OrderInv
  <2>2. \A n \in Names : file[n] = 0
    BY <1>1, ScenarioFacts DEF RegisterInv, TwoFiles, TypeInv
  <2> QED
    BY <2>1, <2>2, ScenarioFacts DEF TypeInv
<1>3. /\ task'[Creator].pc = "clean" /\ task'[Creator].name = 1
      /\ task'[Loop] = task[Loop]
      /\ \A r \in scenario.readers : task'[r] = task[r]
  <2>1. task' = [task EXCEPT ![Creator] = [Idle EXCEPT !.pc = "clean", !.name = 1]]
    BY DEF Create, Rename
  <2> QED
    BY <2>1, ActorFacts DEF TypeInv, Idle
<1>4. OrderInv'
  BY <1>1, <1>2, ScenarioFacts DEF OrderInv
<1>5. TwoFiles'
  BY <1>1, <1>2, ScenarioFacts DEF TwoFiles
<1>6. CreatorInv'
  BY <1>1, <1>2, <1>3 DEF RegisterInv, CreatorInv
<1>7. task[Loop].pc \notin {"clean", "remove", "tidy", "held"}
  BY <1>1 DEF RegisterInv, CreatorInv, LoopInv
<1>8. task[Loop].pc \in {"get", "poll"} => task[Loop].seen = {}
  <2>1. task[Loop].seen \subseteq [name : Names, time : Nat]
    BY ActorFacts DEF TypeInv
  <2> QED
    BY <1>1, <2>1, ScenarioFacts DEF RegisterInv, LoopInv, Note
<1>9. LoopInv'
  BY <1>3, <1>7, <1>8 DEF LoopInv
<1>10. ASSUME NEW r \in scenario.readers PROVE Reads(r)'
  <2>1. Reads(r) /\ task[r].seen \subseteq [name : Names, time : Nat] /\ task[r].since \in Nat
    BY ActorFacts DEF RegisterInv, ReaderInv, TypeInv
  <2>2. task[r].since = 0 /\ task[r].seen = {} /\ task[r].pc # "tidy"
    BY <1>1, <2>1, ScenarioFacts DEF Reads
  <2> QED
    BY <1>1, <1>3, <2>1, <2>2 DEF Reads, Lists
<1> QED
  BY <1>4, <1>5, <1>6, <1>9, <1>10 DEF RegisterInv, ReaderInv

LEMMA AdvanceRegister ==
  ASSUME TypeInv, RegisterInv, Undisturbed, UNCHANGED scenario, Advance
  PROVE  RegisterInv'
<1> DEFINE next == saves + 1
<1>1. /\ saves \in Nat \ {0} /\ task[Loop].name = saves /\ next \in Names
      /\ ~Saving /\ task[Creator].pc = "idle"
  BY ScenarioFacts, ActorFacts DEF Advance, HasRead, RegisterInv, LoopInv, TwoFiles, Saving, TypeInv
<1>2. saves' = next /\ clock' = next /\ Names' = Names
  BY <1>1, ActorFacts DEF Advance, Rename, RegisterInv, OrderInv, Names
<1>3. \A n \in Names : /\ file'[n] = (IF n = next THEN next ELSE file[n])
                       /\ time'[n] = (IF n = next THEN next ELSE time[n])
  <2>1. file' = [file EXCEPT ![next] = next] /\ time' = [time EXCEPT ![next] = next]
    BY <1>1, ActorFacts DEF Advance, Rename, RegisterInv, OrderInv
  <2> QED
    BY <1>1, <2>1 DEF TypeInv
<1>4. /\ task'[Loop].pc = "clean" /\ task'[Loop].name = next
      /\ task'[Creator] = task[Creator]
      /\ \A r \in scenario.readers : task'[r] = task[r]
  <2>1. task' = [task EXCEPT ![Loop] = [Idle EXCEPT !.pc = "clean", !.name = next]]
    BY <1>1 DEF Advance, Rename
  <2> QED
    BY <2>1, ActorFacts DEF TypeInv, Idle
<1>5. \A n \in Names : file[n] # 0 => n = saves /\ file[n] = saves /\ time[n] = saves
  BY <1>1 DEF RegisterInv, TwoFiles, OrderInv
<1>6. \A n \in Names : file'[n] # 0 =>
        /\ n \in {saves, next} /\ file'[n] = n
        /\ time'[n] = file'[n]
  BY <1>3, <1>5
<1>7. OrderInv'
  BY <1>1, <1>2, <1>6 DEF OrderInv
<1>8. CreatorInv'
  BY <1>1, <1>2, <1>4 DEF CreatorInv
<1>9. TwoFiles'
  <2>1. Saving'
    BY <1>4 DEF Saving
  <2>2. \A n \in Names : file[n] \in {0, n}
    BY DEF RegisterInv, TwoFiles
  <2> QED
    BY <1>1, <1>2, <1>3, <1>6, <2>1, <2>2 DEF TwoFiles
<1>10. LoopInv'
  BY <1>2, <1>4 DEF LoopInv
<1>11. ASSUME NEW r \in scenario.readers PROVE Reads(r)'
  <2>1. Reads(r) /\ task[r].seen \subseteq [name : Names, time : Nat] /\ task[r].since \in Nat
        /\ task[r].name \in Names \cup {0} /\ task[r].got \in Nat /\ task'[r] = task[r]
    BY <1>4, ActorFacts DEF RegisterInv, ReaderInv, TypeInv
  <2>2. \A f \in task[r].seen : f = Note(f.name, f.name) /\ f.name <= next
    BY <1>1, <2>1, ScenarioFacts DEF Reads
  <2>3. task[r].since <= saves /\ Lists(r)'
    BY <1>1, <1>2, <2>1 DEF Reads, Lists
  <2> QED
    BY <1>1, <1>2, <2>1, <2>2, <2>3, ScenarioFacts DEF Reads
<1> QED
  BY <1>7, <1>8, <1>9, <1>10, <1>11 DEF RegisterInv, ReaderInv

LEMMA ReaderLists ==
  ASSUME TypeInv, RegisterInv, SameFiles, NEW r \in scenario.readers,
         Begin(r, "get") \/ (\E n \in Names : Visit(r, n)) \/ End(r)
  PROVE  RegisterInv'
<1>1. /\ r \in Actors /\ Reads(r) /\ saves \in Nat
      /\ task[r].seen \subseteq [name : Names, time : Nat]
      /\ task[r].since \in Nat /\ task[r].name \in Names \cup {0} /\ task[r].got \in Nat
  BY ActorFacts DEF RegisterInv, ReaderInv, TypeInv
<1>2. CASE Begin(r, "get")
  <2>1. /\ task'[r].pc = "get" /\ task'[r].todo = Names /\ task'[r].seen = {}
        /\ task'[r].since = saves /\ task'[r].got = 0
    BY <1>1, <1>2 DEF Begin, TypeInv, Idle
  <2>2. saves' = saves /\ (saves = 0 \/ saves \in Names)
    BY <1>1 DEF SameFiles, RegisterInv, TwoFiles
  <2>3. Reads(r)'
    BY <1>1, <2>1, <2>2 DEF Reads, Lists
  <2> QED
    BY <1>1, <1>2, <2>3, ReaderMoves DEF Begin, OnlyMoves, TypeInv
<1>3. ASSUME NEW n \in Names, Visit(r, n) PROVE RegisterInv'
  <2>1. /\ task'[r].pc = task[r].pc /\ task'[r].todo = task[r].todo \ {n}
        /\ task'[r].seen = task[r].seen \cup Noted(r, n)
        /\ task'[r].since = task[r].since /\ task'[r].got = task[r].got
    BY <1>1, <1>3 DEF Visit, TypeInv
  <2>2. task[r].pc = "get" /\ saves' = saves
    BY <1>1, <1>3 DEF Visit, Reads, SameFiles
  <2>3. \A f \in Noted(r, n) : f = Note(n, n) /\ f.name <= saves
    BY <1>1, ScenarioFacts DEF Noted, Note, RegisterInv, TwoFiles, OrderInv, TypeInv
  <2>4. n = saves => Note(n, n) \in Noted(r, n)
    BY <2>2, ScenarioFacts DEF Noted, Note, RegisterInv, TwoFiles, OrderInv, TypeInv
  <2>5. Lists(r)'
    BY <1>1, <2>1, <2>2, <2>4 DEF Reads, Lists, Note
  <2>6. \A f \in task'[r].seen : f = Note(f.name, f.name) /\ f.name <= saves
    BY <1>1, <2>1, <2>3 DEF Reads, Note
  <2>7. Reads(r)'
    BY <1>1, <2>1, <2>2, <2>5, <2>6 DEF Reads, Note
  <2> QED
    BY <1>1, <1>3, <2>7, ReaderMoves DEF Visit, OnlyMoves, TypeInv
<1>4. CASE End(r)
  <2>1. /\ task'[r].pc = "idle" /\ task'[r].seen = {}
        /\ task'[r].since = task[r].since /\ task'[r].got = task[r].got
    BY <1>1, <1>4 DEF End, TypeInv, Idle
  <2>2. task[r].pc = "tidy" /\ saves' = saves
    BY <1>1, <1>4 DEF End, HasRead, Reads, SameFiles
  <2>3. task[r].got # 0
    BY <1>1, <2>2 DEF Reads
  <2>4. Reads(r)'
    BY <1>1, <2>1, <2>2, <2>3 DEF Reads
  <2> QED
    BY <1>1, <1>4, <2>4, ReaderMoves DEF End, OnlyMoves, TypeInv
<1> QED
  BY <1>2, <1>3, <1>4

LEMMA ReadEffect ==
  ASSUME TypeInv, NEW a \in Actors, NEW f \in task[a].seen, Read(a, f)
  PROVE  /\ OnlyMoves(a)
         /\ task'[a].pc = (IF task[a].pc = "get" THEN "tidy" ELSE "held")
         /\ task'[a].seen = task[a].seen \ {f}
         /\ task'[a].name = f.name
         /\ task'[a].got = file[f.name]
         /\ task'[a].since = task[a].since
<1> DEFINE pc == IF task[a].pc = "get" THEN "tidy" ELSE "held"
           read == [task[a] EXCEPT !.pc = pc, !.seen = @ \ {f},
                                   !.name = f.name, !.got = file[f.name]]
<1>1. task' = [task EXCEPT ![a] = read]
  BY DEF Read
<1>2. task'[a] = read
  BY <1>1 DEF TypeInv
<1>3. OnlyMoves(a)
  BY <1>1 DEF OnlyMoves, TypeInv
<1>4. task[a] \in [pc : Steps, todo : SUBSET Names, seen : SUBSET [name : Names, time : Nat],
                  name : Names \cup {0}, got : Nat, since : Nat]
  BY DEF TypeInv
<1> HIDE DEF pc
<1>5. /\ read.pc = pc /\ read.seen = task[a].seen \ {f} /\ read.name = f.name
      /\ read.got = file[f.name] /\ read.since = task[a].since
  BY <1>4
<1> QED
  BY <1>2, <1>3, <1>5 DEF pc

\* What a get reads is the newest file it has found, and there was one when it
\* began.
LEMMA ReaderReads ==
  ASSUME TypeInv, RegisterInv, SameFiles, NEW r \in scenario.readers,
         ReadNothing(r) \/ \E f \in task[r].seen : Read(r, f)
  PROVE  RegisterInv'
<1>1. /\ r \in Actors /\ Reads(r) /\ saves \in Nat
      /\ task[r].seen \subseteq [name : Names, time : Nat]
      /\ task[r].since \in Nat /\ task[r].name \in Names \cup {0} /\ task[r].got \in Nat
  BY ActorFacts DEF RegisterInv, ReaderInv, TypeInv
<1>2. task[r].pc = "get" /\ task[r].todo = {} /\ saves' = saves
  BY <1>1 DEF ReadNothing, Read, Reads, SameFiles
<1>3. saves = task[r].since /\ saves # 0 => Note(saves, saves) \in task[r].seen
  BY <1>1, <1>2 DEF Reads, Lists
<1>4. \A f \in task[r].seen : f.time = f.name /\ f.name \in Names /\ f.name <= saves
  BY <1>1 DEF Reads, Note
<1>5. CASE ReadNothing(r)
  <2>1. /\ task'[r].pc = "idle" /\ task'[r].seen = {}
        /\ task'[r].since = task[r].since /\ task'[r].got = 0
    BY <1>1, <1>5 DEF ReadNothing, TypeInv, Idle
  <2>2. ASSUME saves = task[r].since, saves # 0 PROVE FALSE
    <3>1. Note(saves, saves) \in Newest(task[r].seen)
      BY <1>1, <1>3, <1>4, <2>2 DEF Newest, Note
    <3>2. file[saves] = 0
      BY <1>5, <3>1 DEF ReadNothing, Note
    <3> QED
      BY <1>1, <2>2, <3>2 DEF RegisterInv, TwoFiles
  <2>3. Reads(r)'
    BY <1>1, <1>2, <2>1, <2>2 DEF Reads
  <2> QED
    BY <1>1, <1>5, <2>3, ReaderMoves DEF ReadNothing, OnlyMoves, TypeInv
<1>6. ASSUME NEW f \in task[r].seen, Read(r, f) PROVE RegisterInv'
  <2>1. /\ task'[r].pc = "tidy" /\ task'[r].seen = task[r].seen \ {f}
        /\ task'[r].name = f.name /\ task'[r].got = file[f.name]
        /\ task'[r].since = task[r].since
    BY <1>1, <1>2, <1>6, ReadEffect
  <2>2. f \in Newest(task[r].seen) /\ file[f.name] # 0
    BY <1>6 DEF Read
  <2>3. f.name \in Names /\ file[f.name] = f.name /\ f.name + 1 >= saves /\ f.name <= saves
    BY <1>1, <1>4, <2>2, ScenarioFacts DEF RegisterInv, TwoFiles
  <2>4. \A g \in task[r].seen : g # f => g.name < f.name
    <3> SUFFICES ASSUME NEW g \in task[r].seen, g # f PROVE g.name < f.name
      OBVIOUS
    <3>1. g.name <= f.name
      BY <1>4, <2>2 DEF Newest
    <3>2. g = Note(g.name, g.name) /\ f = Note(f.name, f.name)
      BY <1>1 DEF Reads
    <3> QED
      BY <1>4, <3>1, <3>2, ScenarioFacts
  <2>5. f.name >= task[r].since
    <3>1. CASE saves = task[r].since /\ saves # 0
      <4>1. saves <= f.name
        BY <1>1, <1>3, <1>4, <2>2, <3>1 DEF Newest, Note
      <4> QED
        BY <1>1, <3>1, <4>1
    <3>2. CASE saves # task[r].since \/ saves = 0
      BY <1>1, <2>3, <3>2, ScenarioFacts DEF Reads
    <3> QED
      BY <3>1, <3>2
  <2>6. f.name \in 1..saves
    BY <1>1, <2>3, ScenarioFacts
  <2>7. Reads(r)'
    BY <1>1, <1>2, <2>1, <2>3, <2>4, <2>5, <2>6 DEF Reads
  <2> QED
    BY <1>1, <1>6, <2>7, ReaderMoves, ReadEffect
<1> QED
  BY <1>5, <1>6

Removes(n) ==
  /\ UNCHANGED <<scenario, time, clock, saves>>
  /\ file' = [file EXCEPT ![n] = 0]

LEMMA RemovalEffect ==
  ASSUME TypeInv, NEW n \in Names, Removes(n)
  PROVE  /\ Names' = Names
         /\ \A m \in Names : file'[m] = (IF m = n THEN 0 ELSE file[m])
         /\ OrderInv => OrderInv'
<1>1. Names' = Names /\ \A m \in Names : file'[m] = (IF m = n THEN 0 ELSE file[m])
  BY DEF Removes, TypeInv, Names
<1> QED
  BY <1>1 DEF Removes, OrderInv

\* A get removes only files older than the one it has read.
LEMMA ReaderTidies ==
  ASSUME TypeInv, RegisterInv, UNCHANGED scenario,
         NEW r \in scenario.readers, NEW f \in task[r].seen, Tidy(r, f)
  PROVE  RegisterInv'
<1>1. /\ r \in Actors /\ Reads(r) /\ saves \in Nat /\ task[r].pc = "tidy"
      /\ f \in [name : Names, time : Nat]
  BY ActorFacts DEF RegisterInv, ReaderInv, TypeInv, Tidy
<1>2. f.name \in Names /\ f.name # saves
  BY <1>1, ScenarioFacts DEF Reads
<1>3. Removes(f.name) /\ UNCHANGED <<scenario, saves>>
  BY DEF Tidy, Removes
<1>4. /\ task'[r].pc = task[r].pc /\ task'[r].seen = task[r].seen \ {f}
      /\ task'[r].name = task[r].name /\ task'[r].got = task[r].got
      /\ task'[r].since = task[r].since
  BY <1>1 DEF Tidy, TypeInv
<1>5. \A a \in Actors : a # r => task'[a] = task[a]
  BY DEF Tidy, TypeInv
<1>6. task'[Loop] = task[Loop] /\ task'[Creator] = task[Creator]
  BY <1>5, ActorFacts
<1>7. Reads(r)'
  BY <1>1, <1>3, <1>4 DEF Reads
<1>8. ASSUME NEW q \in scenario.readers, q # r PROVE Reads(q)'
  <2>1. Reads(q) /\ task'[q] = task[q]
    BY <1>5, <1>8, ActorFacts DEF RegisterInv, ReaderInv
  <2> QED
    BY <1>3, <2>1 DEF Reads, Lists
<1>9. ReaderInv'
  BY <1>3, <1>7, <1>8 DEF ReaderInv
<1>10. OrderInv'
  BY <1>2, <1>3, RemovalEffect DEF RegisterInv
<1>11. CreatorInv'
  BY <1>2, <1>3, <1>6, RemovalEffect DEF RegisterInv, CreatorInv
<1>12. TwoFiles'
  BY <1>2, <1>3, <1>6, RemovalEffect DEF RegisterInv, TwoFiles, Saving
<1>13. LoopInv'
  BY <1>2, <1>3, <1>6, RemovalEffect DEF RegisterInv, LoopInv, Note
<1> QED
  BY <1>9, <1>10, <1>11, <1>12, <1>13 DEF RegisterInv

\* The end of the creator's save; there is no other file to remove.
LEMMA CreatorSteps ==
  ASSUME TypeInv, RegisterInv, UNCHANGED scenario,
         \/ \E n \in Names : FindOther(Creator, n) \/ Visit(Creator, n)
         \/ FindNone(Creator) \/ RemoveOther(Creator) \/ ReadNothing(Creator) \/ End(Creator)
         \/ \E f \in task[Creator].seen : Read(Creator, f) \/ Tidy(Creator, f)
  PROVE  RegisterInv'
<1>1. FindNone(Creator)
  <2>1. task[Creator].pc \notin {"get", "poll", "tidy", "held", "remove"}
    BY DEF RegisterInv, CreatorInv
  <2>2. ASSUME NEW n \in Names PROVE ~FindOther(Creator, n)
    BY DEF FindOther, RegisterInv, CreatorInv
  <2> QED
    BY <2>1, <2>2 DEF Visit, RemoveOther, ReadNothing, End, HasRead, Read, Tidy
<1>2. SameFiles /\ OnlyMoves(Creator) /\ task'[Creator].pc = "idle"
  BY <1>1, ActorFacts DEF FindNone, SameFiles, OnlyMoves, TypeInv, Idle
<1>3. task'[Loop] = task[Loop] /\ \A r \in scenario.readers : task'[r] = task[r]
  BY <1>2, ActorFacts DEF OnlyMoves
<1>4. Names' = Names
  BY DEF Names
<1>5. OrderInv' /\ CreatorInv' /\ TwoFiles' /\ LoopInv'
  BY <1>2, <1>3, <1>4 DEF RegisterInv, SameFiles, OrderInv, CreatorInv, TwoFiles, Saving, LoopInv
<1>6. ReaderInv'
  BY <1>2, <1>3 DEF RegisterInv, SameFiles, ReaderInv, Reads, Lists
<1> QED
  BY <1>5, <1>6 DEF RegisterInv

\* The loop's listings find the one file there is.
LEMMA LoopReads ==
  ASSUME TypeInv, RegisterInv, SameFiles,
         \/ Begin(Loop, "get") \/ Begin(Loop, "poll") \/ ReadNothing(Loop) \/ End(Loop)
         \/ \E n \in Names : Visit(Loop, n)
         \/ \E f \in task[Loop].seen : Read(Loop, f)
  PROVE  RegisterInv'
<1>1. OnlyMoves(Loop)
  BY ActorFacts, ReadEffect DEF Begin, ReadNothing, End, Visit, OnlyMoves, TypeInv
<1>2. task[Loop].pc \notin {"clean", "remove"}
  BY DEF Begin, ReadNothing, End, HasRead, Visit, Read
<1>3. \A n \in Names : file[n] # 0 => n = saves /\ file[n] = saves /\ time[n] = saves
  BY <1>2 DEF RegisterInv, TwoFiles, OrderInv, Saving
<1>4. LoopInv' /\ task'[Loop].pc \notin {"clean", "remove"}
  <2>1. CASE Begin(Loop, "get") \/ Begin(Loop, "poll")
    <3>1. \E pc \in {"get", "poll"} :
            task' = [task EXCEPT ![Loop] = [Idle EXCEPT !.pc = pc, !.todo = Names, !.since = saves]]
      BY <2>1 DEF Begin
    <3>2. task'[Loop].pc \in {"get", "poll"} /\ task'[Loop].seen = {}
      BY <3>1, ActorFacts DEF TypeInv, Idle
    <3> QED
      BY <3>2 DEF LoopInv
  <2>2. CASE ReadNothing(Loop) \/ End(Loop)
    <3>1. task'[Loop].pc = "idle"
      BY <2>2, ActorFacts DEF ReadNothing, End, TypeInv, Idle
    <3> QED
      BY <3>1 DEF LoopInv
  <2>3. ASSUME NEW n \in Names, Visit(Loop, n) PROVE LoopInv' /\ task'[Loop].pc \in {"get", "poll"}
    <3>1. /\ task'[Loop].pc = task[Loop].pc
          /\ task'[Loop].seen = task[Loop].seen \cup Noted(Loop, n)
      BY <2>3, ActorFacts DEF Visit, TypeInv
    <3>2. \A f \in Noted(Loop, n) : f = Note(saves, saves)
      BY <1>3 DEF Noted, Note
    <3> QED
      BY <2>3, <3>1, <3>2 DEF Visit, RegisterInv, LoopInv, SameFiles, Note
  <2>4. ASSUME NEW f \in task[Loop].seen, Read(Loop, f)
        PROVE  LoopInv' /\ task'[Loop].pc \in {"tidy", "held"}
    <3>1. /\ task'[Loop].pc \in {"tidy", "held"} /\ task'[Loop].name = f.name
          /\ task'[Loop].seen = task[Loop].seen \ {f}
      BY <2>4, ReadEffect, ActorFacts
    <3>2. \A g \in task[Loop].seen : g = Note(saves, saves)
      BY <2>4 DEF Read, RegisterInv, LoopInv
    <3>3. f.name = saves /\ task'[Loop].seen = {} /\ saves # 0
      <4>1. f.name \in Names
        BY ActorFacts DEF TypeInv
      <4> QED
        BY <3>1, <3>2, <4>1, ScenarioFacts DEF Note
    <3> QED
      BY <3>1, <3>3 DEF LoopInv, SameFiles, TypeInv
  <2> QED
    BY <2>1, <2>2, <2>3, <2>4, ActorFacts DEF Begin, ReadNothing, End, TypeInv, Idle
<1>5. TwoFiles'
  BY <1>2, <1>3 DEF RegisterInv, TwoFiles, SameFiles, Saving, Names
<1> QED
  BY <1>1, <1>4, <1>5, LoopMoves

\* The end of a save by the loop: it removes the file of the state before, unless
\* a get has done so.
LEMMA LoopCleans ==
  ASSUME TypeInv, RegisterInv, UNCHANGED scenario,
         \/ \E n \in Names : FindOther(Loop, n)
         \/ FindNone(Loop) \/ RemoveOther(Loop)
         \/ \E f \in task[Loop].seen : Tidy(Loop, f)
  PROVE  RegisterInv'
<1>1. task[Loop].pc \in {"clean", "remove"}
  BY DEF FindOther, FindNone, RemoveOther, Tidy, RegisterInv, LoopInv
<1>2. saves > 1 /\ saves \in Nat /\ saves \in Names
  BY <1>1, ScenarioFacts DEF RegisterInv, CreatorInv, TwoFiles, TypeInv
<1>3. ASSUME NEW n \in Names, FindOther(Loop, n) PROVE RegisterInv'
  <2>1. task'[Loop].pc = "remove" /\ task'[Loop].name = n /\ SameFiles /\ OnlyMoves(Loop)
    BY <1>3, ActorFacts DEF FindOther, SameFiles, OnlyMoves, TypeInv
  <2>2. n + 1 = saves
    BY <1>3 DEF FindOther, RegisterInv, TwoFiles, LoopInv
  <2>3. LoopInv' /\ TwoFiles'
    BY <1>1, <2>1, <2>2 DEF RegisterInv, LoopInv, TwoFiles, SameFiles, Saving, Names
  <2> QED
    BY <1>2, <2>1, <2>3, LoopMoves
<1>4. CASE FindNone(Loop)
  <2>1. task'[Loop].pc = "idle" /\ SameFiles /\ OnlyMoves(Loop)
    BY <1>4, ActorFacts DEF FindNone, SameFiles, OnlyMoves, TypeInv, Idle
  <2>2. \A n \in Names : file[n] # 0 => n = saves
    BY <1>4 DEF FindNone, RegisterInv, LoopInv
  <2>3. LoopInv' /\ TwoFiles'
    BY <2>1, <2>2 DEF RegisterInv, LoopInv, TwoFiles, SameFiles, Saving, Names
  <2> QED
    BY <1>2, <2>1, <2>3, LoopMoves
<1>5. CASE RemoveOther(Loop)
  <2> DEFINE old == task[Loop].name
  <2>1. /\ Removes(old) /\ UNCHANGED <<scenario, saves>>
        /\ old \in Names /\ old + 1 = saves /\ old # saves
    BY <1>2, <1>5, ScenarioFacts DEF RemoveOther, Removes, RegisterInv, LoopInv
  <2>2. task'[Loop].pc = "idle" /\ \A a \in Actors : a # Loop => task'[a] = task[a]
    BY <1>5, ActorFacts DEF RemoveOther, TypeInv, Idle
  <2>3. task'[Creator] = task[Creator] /\ \A r \in scenario.readers : task'[r] = task[r]
    BY <2>2, ActorFacts
  <2> HIDE DEF old
  <2>4. OrderInv'
    BY <2>1, RemovalEffect DEF RegisterInv
  <2>5. CreatorInv'
    BY <1>2, <2>1, <2>3 DEF RegisterInv, CreatorInv
  <2>6. TwoFiles'
    <3>1. Names' = Names /\ \A m \in Names : file'[m] = (IF m = old THEN 0 ELSE file[m])
      BY <2>1, RemovalEffect
    <3>2. \A m \in Names : file'[m] # 0 => m = saves /\ file'[m] = m
      BY <1>2, <2>1, <3>1, ScenarioFacts DEF RegisterInv, TwoFiles
    <3>3. file'[saves] = saves
      BY <1>2, <2>1, <3>1 DEF RegisterInv, TwoFiles
    <3> QED
      BY <1>2, <2>1, <3>1, <3>2, <3>3 DEF TwoFiles
  <2>7. LoopInv'
    BY <2>2 DEF LoopInv
  <2>8. ReaderInv'
    BY <2>1, <2>3 DEF RegisterInv, ReaderInv, Reads, Lists
  <2> QED
    BY <2>4, <2>5, <2>6, <2>7, <2>8 DEF RegisterInv
<1> QED
  BY <1>1, <1>3, <1>4, <1>5 DEF Tidy

LEMMA StepQuiet ==
  ASSUME TypeInv, TypeInv', Undisturbed, RegisterInv, [Next]_vars
  PROVE  RegisterInv'
<1>1. CASE UNCHANGED vars
  BY <1>1 DEF vars, RegisterInv, OrderInv, CreatorInv, TwoFiles, Saving, LoopInv, ReaderInv,
              Reads, Lists, Names
<1>2. CASE Next
  <2>1. UNCHANGED scenario
    BY <1>2 DEF Next
  <2>2. CASE Create
    BY <2>1, <2>2, CreateRegister
  <2>3. CASE Advance
    BY <2>1, <2>3, AdvanceRegister
  <2>4. CASE Crash
    BY <2>4, ActorFacts DEF Crash
  <2>5. CASE Begin(Loop, "poll")
    BY <2>1, <2>5, LoopReads DEF Begin, SameFiles
  <2>6. ASSUME NEW a \in Actors \ {Creator}, Begin(a, "get") PROVE RegisterInv'
    BY <2>1, <2>6, ActorFacts, LoopReads, ReaderLists DEF Begin, SameFiles
  <2>7. ASSUME NEW a \in Actors,
               \/ \E n \in Names : FindOther(a, n) \/ Visit(a, n)
               \/ FindNone(a) \/ RemoveOther(a) \/ ReadNothing(a) \/ End(a)
               \/ \E f \in task[a].seen : Read(a, f) \/ Tidy(a, f)
        PROVE  RegisterInv'
    <3>1. CASE a = Creator
      BY <2>1, <2>7, <3>1, CreatorSteps
    <3>2. CASE a = Loop
      <4>1. (\E n \in Names : Visit(a, n)) \/ ReadNothing(a) \/ End(a)
              \/ (\E f \in task[a].seen : Read(a, f)) => SameFiles
        BY <2>1 DEF Visit, ReadNothing, End, Read, SameFiles
      <4> QED
        BY <2>1, <2>7, <3>2, <4>1, LoopCleans, LoopReads
    <3>3. CASE a \in scenario.readers
      <4>1. (\E n \in Names : Visit(a, n)) \/ ReadNothing(a) \/ End(a)
              \/ (\E f \in task[a].seen : Read(a, f)) => SameFiles
        BY <2>1 DEF Visit, ReadNothing, End, Read, SameFiles
      <4>2. task[a].pc \in {"idle", "get", "tidy"}
        BY <3>3 DEF RegisterInv, ReaderInv, Reads
      <4>3. ~(FindNone(a) \/ RemoveOther(a) \/ \E n \in Names : FindOther(a, n))
        BY <4>2 DEF FindNone, RemoveOther, FindOther
      <4> QED
        BY <2>1, <2>7, <3>3, <4>1, <4>3, ReaderTidies, ReaderLists, ReaderReads
    <3> QED
      BY <3>1, <3>2, <3>3, ActorFacts
  <2> QED
    BY <1>2, <2>2, <2>3, <2>4, <2>5, <2>6, <2>7 DEF Next
<1> QED
  BY <1>1, <1>2

-----------------------------------------------------------------------------
(***************************************************************************)
(* Where only crashes interfere: one lemma per kind of step.               *)
(***************************************************************************)
LEMMA CreateLeftover ==
  ASSUME TypeInv, LeftoverInv, OnlyCrashes, UNCHANGED scenario, Create
  PROVE  LeftoverInv'
<1>1. saves = 0 /\ saves' = 1 /\ clock' = 1 /\ Names' = Names
  BY ActorFacts DEF Create, Rename, LeftoverInv, OrderInv, Names
<1>2. \A n \in Names : file'[n] = (IF n = 1 THEN 1 ELSE 0) /\ (n = 1 => time'[n] = 1)
  <2>1. file' = [file EXCEPT ![1] = 1] /\ time' = [time EXCEPT ![1] = 1]
    BY ActorFacts DEF Create, Rename, LeftoverInv, OrderInv
  <2>2. \A n \in Names : file[n] = 0
    BY <1>1, ScenarioFacts DEF LeftoverInv, OrderInv, TypeInv
  <2> QED
    BY <2>1, <2>2, ScenarioFacts DEF TypeInv
<1>3. task'[Creator].pc = "clean" /\ task'[Creator].name = 1 /\ task'[Loop] = task[Loop]
  <2>1. task' = [task EXCEPT ![Creator] = [Idle EXCEPT !.pc = "clean", !.name = 1]]
    BY DEF Create, Rename
  <2> QED
    BY <2>1, ActorFacts DEF TypeInv, Idle
<1>4. OrderInv'
  BY <1>1, <1>2, ScenarioFacts DEF OrderInv
<1>5. CreatorInv'
  BY <1>1, <1>2, <1>3 DEF LeftoverInv, CreatorInv
<1>6. task[Loop].pc \notin {"clean", "remove", "tidy", "held"}
  BY <1>1 DEF LeftoverInv, CreatorInv, CrashLoopInv
<1>7. task[Loop].pc \in {"get", "poll"} => task[Loop].seen = {}
  <2>1. task[Loop].seen \subseteq [name : Names, time : Nat]
    BY ActorFacts DEF TypeInv
  <2>2. \A n \in Names : file[n] = 0
    BY <1>1, ScenarioFacts DEF LeftoverInv, OrderInv, TypeInv
  <2> QED
    BY <2>1, <2>2 DEF LeftoverInv, CrashLoopInv
<1>8. CrashLoopInv'
  BY <1>1, <1>3, <1>6, <1>7 DEF CrashLoopInv, Noticed
<1>9. Kept'
  BY <1>1, <1>2, ScenarioFacts DEF Kept
<1> QED
  BY <1>4, <1>5, <1>8, <1>9 DEF LeftoverInv

LEMMA AdvanceLeftover ==
  ASSUME TypeInv, LeftoverInv, OnlyCrashes, UNCHANGED scenario, Advance
  PROVE  LeftoverInv'
<1> DEFINE new == task[Loop].name + 1
           next == saves + 1
<1>1. /\ saves \in Nat \ {0} /\ new \in Names /\ task[Creator].pc = "idle"
  BY ScenarioFacts, ActorFacts DEF Advance, HasRead, LeftoverInv, CrashLoopInv, TypeInv
<1>2. saves' = next /\ clock' = next /\ Names' = Names
  BY <1>1, ActorFacts DEF Advance, Rename, LeftoverInv, OrderInv, Names
<1>3. \A n \in Names : /\ file'[n] = (IF n = new THEN next ELSE file[n])
                       /\ time'[n] = (IF n = new THEN next ELSE time[n])
  <2>1. file' = [file EXCEPT ![new] = next] /\ time' = [time EXCEPT ![new] = next]
    BY <1>1, ActorFacts DEF Advance, Rename, LeftoverInv, OrderInv
  <2> QED
    BY <1>1, <2>1 DEF TypeInv
<1>4. /\ task'[Loop].pc = "clean" /\ task'[Loop].name = new
      /\ task'[Creator] = task[Creator]
  <2>1. task' = [task EXCEPT ![Loop] = [Idle EXCEPT !.pc = "clean", !.name = new]]
    BY <1>1 DEF Advance, Rename
  <2> QED
    BY <2>1, ActorFacts DEF TypeInv, Idle
<1> HIDE DEF new
<1>5. \A n \in Names : file[n] # 0 => time[n] = file[n] /\ file[n] < next
  BY <1>1 DEF LeftoverInv, OrderInv, TypeInv
<1>6. OrderInv'
  BY <1>1, <1>2, <1>3, <1>5 DEF LeftoverInv, OrderInv, TypeInv
<1>7. CreatorInv'
  BY <1>1, <1>2, <1>4 DEF CreatorInv
<1>8. CrashLoopInv'
  BY <1>1, <1>2, <1>3, <1>4 DEF CrashLoopInv
<1>9. Kept'
  BY <1>1, <1>2, <1>3 DEF Kept
<1> QED
  BY <1>6, <1>7, <1>8, <1>9 DEF LeftoverInv

\* The end of the creator's save; there is no other file to remove.
LEMMA CreatorLeftover ==
  ASSUME TypeInv, LeftoverInv, UNCHANGED scenario,
         \/ \E n \in Names : FindOther(Creator, n) \/ Visit(Creator, n)
         \/ FindNone(Creator) \/ RemoveOther(Creator) \/ ReadNothing(Creator) \/ End(Creator)
         \/ \E f \in task[Creator].seen : Read(Creator, f) \/ Tidy(Creator, f)
  PROVE  LeftoverInv'
<1>1. FindNone(Creator)
  <2>1. task[Creator].pc \notin {"get", "poll", "tidy", "held", "remove"}
    BY DEF LeftoverInv, CreatorInv
  <2>2. ASSUME NEW n \in Names PROVE ~FindOther(Creator, n)
    BY DEF FindOther, LeftoverInv, CreatorInv
  <2> QED
    BY <2>1, <2>2 DEF Visit, RemoveOther, ReadNothing, End, HasRead, Read, Tidy
<1>2. SameFiles /\ task'[Loop] = task[Loop] /\ task'[Creator].pc = "idle"
  BY <1>1, ActorFacts DEF FindNone, SameFiles, TypeInv, Idle
<1>3. Names' = Names
  BY DEF Names
<1> QED
  BY <1>2, <1>3 DEF LeftoverInv, SameFiles, OrderInv, CreatorInv, CrashLoopInv, Noticed, Kept

\* A restart leaves the files as they are.
LEMMA CrashLeftover ==
  ASSUME TypeInv, LeftoverInv, UNCHANGED scenario, Crash
  PROVE  LeftoverInv'
<1>1. SameFiles /\ task'[Loop].pc = "idle" /\ task'[Creator].pc = "idle" /\ Names' = Names
  BY ActorFacts DEF Crash, SameFiles, Idle, Names
<1> QED
  BY <1>1 DEF LeftoverInv, SameFiles, OrderInv, CreatorInv, CrashLoopInv, Kept

\* Steps of the loop that change no file.
LEMMA LoopLeftover ==
  ASSUME TypeInv, LeftoverInv, SameFiles, task'[Creator] = task[Creator],
         CrashLoopInv', task'[Loop].pc \in {"clean", "remove"} => saves > 1
  PROVE  LeftoverInv'
<1>1. Names' = Names
  BY DEF SameFiles, Names
<1> QED
  BY <1>1 DEF LeftoverInv, SameFiles, OrderInv, CreatorInv, Kept, TypeInv

LEMMA ListLeftover ==
  ASSUME TypeInv, LeftoverInv, SameFiles,
         \/ Begin(Loop, "get") \/ Begin(Loop, "poll") \/ ReadNothing(Loop) \/ End(Loop)
         \/ \E n \in Names : Visit(Loop, n)
  PROVE  LeftoverInv'
<1>1. task'[Creator] = task[Creator]
  BY ActorFacts DEF Begin, ReadNothing, End, Visit, TypeInv
<1>2. CASE Begin(Loop, "get") \/ Begin(Loop, "poll")
  <2>1. \E pc \in {"get", "poll"} :
          task' = [task EXCEPT ![Loop] = [Idle EXCEPT !.pc = pc, !.todo = Names, !.since = saves]]
    BY <1>2 DEF Begin
  <2>2. /\ task'[Loop].pc \in {"get", "poll"} /\ task'[Loop].seen = {}
        /\ task'[Loop].todo = Names
    BY <2>1, ActorFacts DEF TypeInv, Idle
  <2>3. Names' = Names
    BY DEF SameFiles, Names
  <2>4. CrashLoopInv'
    BY <2>2, <2>3 DEF CrashLoopInv, Noticed
  <2> QED
    BY <1>1, <2>2, <2>4, LoopLeftover
<1>3. CASE ReadNothing(Loop) \/ End(Loop)
  <2>1. task'[Loop].pc = "idle"
    <3>1. CASE ReadNothing(Loop)
      BY <3>1, ActorFacts DEF ReadNothing, TypeInv, Idle
    <3>2. CASE End(Loop)
      BY <3>2, ActorFacts DEF End, TypeInv, Idle
    <3> QED
      BY <1>3, <3>1, <3>2
  <2>2. CrashLoopInv'
    BY <2>1 DEF CrashLoopInv
  <2> QED
    BY <1>1, <2>1, <2>2, LoopLeftover
<1>4. ASSUME NEW n \in Names, Visit(Loop, n) PROVE LeftoverInv'
  <2>1. /\ task'[Loop].pc = task[Loop].pc /\ task'[Loop].todo = task[Loop].todo \ {n}
        /\ task'[Loop].seen = task[Loop].seen \cup Noted(Loop, n)
        /\ task[Loop].pc \in {"get", "poll"}
    BY <1>4, ActorFacts DEF Visit, TypeInv
  <2>2. \A f \in Noted(Loop, n) : f = Note(n, file[n]) /\ file[n] # 0
    BY DEF Noted, Note, LeftoverInv, OrderInv
  <2>3. task[Loop].pc = "get" /\ file[n] # 0 => Note(n, file[n]) \in Noted(Loop, n)
    BY DEF Noted, Note, LeftoverInv, OrderInv
  <2>4. \A f \in task'[Loop].seen : file[f.name] # 0 /\ f = Note(f.name, file[f.name])
    BY <2>1, <2>2 DEF LeftoverInv, CrashLoopInv, Note
  <2>5. task[Loop].pc = "get" => Noticed'
    <3> SUFFICES ASSUME task[Loop].pc = "get", saves > 1, NEW m \in Names \ task'[Loop].todo,
                        file[m] # 0
                 PROVE  Note(m, file[m]) \in task'[Loop].seen
      BY DEF Noticed, SameFiles, Names, Note
    <3>1. CASE m = n
      BY <2>1, <2>3, <3>1
    <3>2. CASE m # n
      BY <2>1, <3>2 DEF LeftoverInv, CrashLoopInv, Noticed
    <3> QED
      BY <3>1, <3>2
  <2>6. file' = file
    BY DEF SameFiles
  <2>7. CrashLoopInv'
    <3>1. \A f \in task'[Loop].seen : file'[f.name] # 0 /\ f = Note(f.name, file'[f.name])
      BY <2>4, <2>6
    <3>2. task'[Loop].pc \in {"get", "poll"} /\ (task'[Loop].pc = "get" => Noticed')
      BY <2>1, <2>5
    <3> QED
      BY <3>1, <3>2 DEF CrashLoopInv, Note
  <2> QED
    BY <1>1, <2>1, <2>7, LoopLeftover
<1> QED
  BY <1>2, <1>3, <1>4

\* The newest file that a finished listing has is the latest save.
LEMMA ReadLeftover ==
  ASSUME TypeInv, LeftoverInv, SameFiles, NEW f \in task[Loop].seen, Read(Loop, f)
  PROVE  LeftoverInv'
<1>1. /\ task'[Loop].pc = (IF task[Loop].pc = "get" THEN "tidy" ELSE "held")
      /\ task'[Loop].seen = task[Loop].seen \ {f}
      /\ task'[Loop].name = f.name /\ task'[Loop].got = file[f.name]
      /\ task'[Creator] = task[Creator]
  BY ReadEffect, ActorFacts DEF OnlyMoves
<1>2. /\ task[Loop].pc \in {"get", "poll"} /\ task[Loop].todo = {}
      /\ f \in Newest(task[Loop].seen) /\ file[f.name] # 0
  BY DEF Read
<1>3. \A g \in task[Loop].seen :
        g.name \in Names /\ file[g.name] # 0 /\ g = Note(g.name, file[g.name])
  BY <1>2, ActorFacts DEF LeftoverInv, CrashLoopInv, TypeInv
<1>4. saves > 0 /\ saves \in Nat /\ Names' = Names
  BY <1>2, <1>3, ScenarioFacts DEF LeftoverInv, OrderInv, TypeInv, SameFiles, Names
<1>5. CASE task[Loop].pc = "poll"
  BY <1>1, <1>4, <1>5, LoopLeftover DEF CrashLoopInv, SameFiles
<1>6. CASE task[Loop].pc = "get"
  <2>1. \A n \in Names : file[n] # 0 => Note(n, file[n]) \in task[Loop].seen
    <3>1. CASE saves > 1
      BY <1>2, <1>6, <3>1 DEF LeftoverInv, CrashLoopInv, Noticed
    <3>2. CASE saves = 1
      BY <1>3, <1>4, <3>2 DEF LeftoverInv, CreatorInv
    <3> QED
      BY <1>4, <3>1, <3>2
  <2>2. file[f.name] = saves
    <3>1. PICK n \in Names : file[n] = saves
      BY <1>4 DEF LeftoverInv, Kept
    <3>2. Note(n, saves) \in task[Loop].seen
      BY <1>4, <2>1, <3>1
    <3>3. saves <= f.time
      BY <1>2, <3>2 DEF Newest, Note
    <3> QED
      BY <1>3, <1>4, <3>3 DEF LeftoverInv, OrderInv, TypeInv, Note
  <2>3. \A g \in task'[Loop].seen : g.name # f.name
    BY <1>1, <1>3
  <2>4. CrashLoopInv'
    <3>1. task'[Loop].pc = "tidy" /\ file' = file /\ saves' = saves
      BY <1>1, <1>6 DEF SameFiles
    <3>2. \A n \in Names : file[n] # 0 => n = f.name \/ Note(n, file[n]) \in task'[Loop].seen
      BY <1>1, <2>1 DEF Note
    <3> QED
      BY <1>1, <1>3, <1>4, <2>2, <2>3, <3>1, <3>2 DEF CrashLoopInv, Note
  <2> QED
    BY <1>1, <1>6, <2>4, LoopLeftover
<1> QED
  BY <1>2, <1>5, <1>6

\* Nothing that is removed is the latest save.
LEMMA RemoveLeftover ==
  ASSUME TypeInv, LeftoverInv, NEW n \in Names, Removes(n), file[n] # saves,
         task'[Creator] = task[Creator], CrashLoopInv',
         task'[Loop].pc \in {"clean", "remove"} => saves > 1
  PROVE  LeftoverInv'
<1>1. /\ Names' = Names /\ saves' = saves
      /\ \A m \in Names : file'[m] = (IF m = n THEN 0 ELSE file[m])
  BY RemovalEffect DEF Removes
<1>2. OrderInv'
  BY RemovalEffect DEF LeftoverInv
<1>3. CreatorInv'
  BY <1>1 DEF LeftoverInv, CreatorInv, TypeInv
<1>4. Kept'
  BY <1>1 DEF LeftoverInv, Kept
<1> QED
  BY <1>2, <1>3, <1>4 DEF LeftoverInv

LEMMA CleanLeftover ==
  ASSUME TypeInv, LeftoverInv, UNCHANGED scenario,
         \/ \E n \in Names : FindOther(Loop, n)
         \/ FindNone(Loop) \/ RemoveOther(Loop)
  PROVE  LeftoverInv'
<1>1. saves > 1 /\ saves \in Nat
  <2>1. task[Loop].pc \in {"clean", "remove"}
    BY DEF FindOther, FindNone, RemoveOther
  <2> QED
    BY <2>1 DEF LeftoverInv, CreatorInv, TypeInv
<1>2. ASSUME NEW n \in Names, FindOther(Loop, n) PROVE LeftoverInv'
  <2>1. /\ task'[Loop].pc = "remove" /\ task'[Loop].name = n /\ SameFiles
        /\ task'[Creator] = task[Creator]
    BY <1>2, ActorFacts DEF FindOther, SameFiles, TypeInv
  <2>2. file[n] # saves
    BY <1>1, <1>2 DEF FindOther, LeftoverInv, CrashLoopInv, OrderInv
  <2>3. CrashLoopInv'
    BY <2>1, <2>2 DEF CrashLoopInv, SameFiles, Names
  <2> QED
    BY <1>1, <2>1, <2>3, LoopLeftover
<1>3. CASE FindNone(Loop)
  <2>1. task'[Loop].pc = "idle" /\ SameFiles /\ task'[Creator] = task[Creator]
    BY <1>3, ActorFacts DEF FindNone, SameFiles, TypeInv, Idle
  <2>2. CrashLoopInv'
    BY <2>1 DEF CrashLoopInv
  <2> QED
    BY <1>1, <2>1, <2>2, LoopLeftover
<1>4. CASE RemoveOther(Loop)
  <2>1. task'[Loop].pc = "idle" /\ task'[Creator] = task[Creator]
    BY <1>4, ActorFacts DEF RemoveOther, TypeInv, Idle
  <2>2. Removes(task[Loop].name) /\ task[Loop].name \in Names /\ file[task[Loop].name] # saves
    BY <1>4 DEF RemoveOther, Removes, LeftoverInv, CrashLoopInv
  <2>3. CrashLoopInv'
    BY <2>1 DEF CrashLoopInv
  <2> QED
    BY <1>1, <2>1, <2>2, <2>3, RemoveLeftover
<1> QED
  BY <1>2, <1>3, <1>4

LEMMA TidyLeftover ==
  ASSUME TypeInv, LeftoverInv, UNCHANGED scenario, NEW f \in task[Loop].seen, Tidy(Loop, f)
  PROVE  LeftoverInv'
<1>1. /\ task[Loop].pc = "tidy" /\ task'[Loop].pc = "tidy"
      /\ task'[Loop].seen = task[Loop].seen \ {f}
      /\ task'[Loop].name = task[Loop].name /\ task'[Loop].got = task[Loop].got
      /\ task'[Creator] = task[Creator]
  BY ActorFacts DEF Tidy, TypeInv
<1>2. \A g \in task[Loop].seen :
        /\ g.name \in Names /\ file[g.name] # 0 /\ g = Note(g.name, file[g.name])
        /\ g.name # task[Loop].name
  BY <1>1, ActorFacts DEF LeftoverInv, CrashLoopInv, TypeInv
<1>3. /\ task[Loop].name \in Names /\ file[task[Loop].name] = saves
      /\ saves > 0 /\ task[Loop].got = saves
      /\ \A n \in Names : file[n] # 0 => \/ n = task[Loop].name
                                         \/ Note(n, file[n]) \in task[Loop].seen
  BY <1>1 DEF LeftoverInv, CrashLoopInv
<1>4. f.name \in Names /\ Removes(f.name) /\ file[f.name] # saves
  BY <1>2, <1>3 DEF Tidy, Removes, LeftoverInv, OrderInv
<1>5. /\ Names' = Names /\ saves' = saves
      /\ \A m \in Names : file'[m] = (IF m = f.name THEN 0 ELSE file[m])
  BY <1>4, RemovalEffect DEF Removes
<1>6. \A g \in task'[Loop].seen : file'[g.name] # 0 /\ g = Note(g.name, file'[g.name])
  BY <1>1, <1>2, <1>5
<1>7. \A n \in Names : file'[n] # 0 => n = task[Loop].name \/ Note(n, file'[n]) \in task'[Loop].seen
  BY <1>1, <1>3, <1>5 DEF Note
<1>8. CrashLoopInv'
  BY <1>1, <1>2, <1>3, <1>4, <1>5, <1>6, <1>7 DEF CrashLoopInv, Note
<1> QED
  BY <1>1, <1>4, <1>8, RemoveLeftover

LEMMA StepLeftover ==
  ASSUME TypeInv, OnlyCrashes, LeftoverInv, [Next]_vars
  PROVE  LeftoverInv'
<1>1. CASE UNCHANGED vars
  BY <1>1 DEF vars, LeftoverInv, OrderInv, CreatorInv, CrashLoopInv, Noticed, Kept, Names
<1>2. CASE Next
  <2>1. UNCHANGED scenario
    BY <1>2 DEF Next
  <2>2. Actors = {Loop, Creator}
    BY DEF OnlyCrashes, Actors
  <2>3. CASE Create
    BY <2>1, <2>3, CreateLeftover
  <2>4. CASE Advance
    BY <2>1, <2>4, AdvanceLeftover
  <2>5. CASE Crash
    BY <2>1, <2>5, CrashLeftover
  <2>6. CASE Begin(Loop, "poll") \/ Begin(Loop, "get")
    BY <2>1, <2>6, ListLeftover DEF Begin, SameFiles
  <2>7. ASSUME NEW a \in Actors,
               \/ \E n \in Names : FindOther(a, n) \/ Visit(a, n)
               \/ FindNone(a) \/ RemoveOther(a) \/ ReadNothing(a) \/ End(a)
               \/ \E f \in task[a].seen : Read(a, f) \/ Tidy(a, f)
        PROVE  LeftoverInv'
    <3>1. CASE a = Creator
      BY <2>1, <2>7, <3>1, CreatorLeftover
    <3>2. CASE a = Loop
      <4>1. (\E n \in Names : Visit(a, n)) \/ ReadNothing(a) \/ End(a)
              \/ (\E f \in task[a].seen : Read(a, f)) => SameFiles
        BY <2>1 DEF Visit, ReadNothing, End, Read, SameFiles
      <4> QED
        BY <2>1, <2>7, <3>2, <4>1, ListLeftover, ReadLeftover, CleanLeftover, TidyLeftover
    <3> QED
      BY <2>2, <3>1, <3>2
  <2> QED
    BY <1>2, <2>2, <2>3, <2>4, <2>5, <2>6, <2>7 DEF Next
<1> QED
  BY <1>1, <1>2

-----------------------------------------------------------------------------
(***************************************************************************)
(* Without a crash: whatever else goes wrong.                              *)
(***************************************************************************)
\* Everything but the loop's own steps and a save only removes files.
LEMMA UncrashedRest ==
  ASSUME TypeInv, UncrashedInv, UNCHANGED <<scenario, saves>>,
         crashes' \in Nat, crashes' = 0 => crashes = 0,
         \A n \in Names : file'[n] \in {0, file[n]},
         crashes' = 0 => task'[Loop] = task[Loop]
  PROVE  UncrashedInv'
<1>1. Names' = Names /\ saves \in Nat
  BY DEF Names, TypeInv
<1>2. Copies' \subseteq Copies
  BY <1>1 DEF Copies
<1>3. \A n \in Names : file'[n] <= saves
  BY <1>1 DEF UncrashedInv
<1> QED
  BY <1>1, <1>2, <1>3 DEF UncrashedInv, Saving

LEMMA UncrashedCreate ==
  ASSUME TypeInv, UncrashedInv, UNCHANGED scenario, Create
  PROVE  UncrashedInv'
<1>1. /\ saves = 0 /\ saves' = 1 /\ file' = [file EXCEPT ![1] = 1] /\ Names' = Names
      /\ UNCHANGED crashes /\ task'[Loop] = task[Loop]
  BY ActorFacts DEF Create, Rename, Names, TypeInv
<1>2. \A n \in Names : file'[n] <= 1
  BY <1>1, ScenarioFacts DEF UncrashedInv, TypeInv
<1>3. crashes = 0 => Copies' \subseteq {1}
  BY <1>1 DEF UncrashedInv, Copies, TypeInv
<1> QED
  BY <1>1, <1>2, <1>3 DEF UncrashedInv, Saving

LEMMA UncrashedAdvance ==
  ASSUME TypeInv, UncrashedInv, UNCHANGED scenario, Advance
  PROVE  /\ UncrashedInv'
         /\ \A n \in Names : file'[n] = saves' => n = task[Loop].name + 1
<1> DEFINE next == task[Loop].name + 1
<1>1. next \in Names /\ next \in Nat /\ task[Loop].name \in Nat
  BY ScenarioFacts, ActorFacts DEF Advance, TypeInv
<1>2. /\ saves' = saves + 1 /\ file' = [file EXCEPT ![next] = saves + 1]
      /\ Names' = Names /\ UNCHANGED crashes
      /\ task' = [task EXCEPT ![Loop] = [Idle EXCEPT !.pc = "clean", !.name = next]]
  BY DEF Advance, Rename, Names
<1>3. task'[Loop].pc = "clean" /\ task'[Loop].name = next
  BY <1>2, ActorFacts DEF TypeInv, Idle
<1>4. \A n \in Names : file'[n] <= saves + 1 /\ (file'[n] = saves + 1 => n = next)
  BY <1>1, <1>2 DEF UncrashedInv, TypeInv
<1>5. crashes = 0 => Copies' \subseteq {next, next - 1}
  <2>1. crashes = 0 => Copies \subseteq {task[Loop].name}
    BY DEF UncrashedInv, Advance, HasRead
  <2>2. Copies' \subseteq Copies \cup {next}
    BY <1>1, <1>2 DEF Copies, TypeInv
  <2> QED
    BY <1>1, <2>1, <2>2
<1>6. saves' # 0
  BY <1>2 DEF TypeInv
<1> QED
  BY <1>2, <1>3, <1>4, <1>5, <1>6 DEF UncrashedInv, Saving

\* The loop's reads.
LEMMA UncrashedReads ==
  ASSUME TypeInv, UncrashedInv, UNCHANGED <<scenario, crashes>>,
         \/ \E pc \in {"get", "poll"} : Begin(Loop, pc)
         \/ \E n \in Names : Visit(Loop, n)
         \/ ReadNothing(Loop)
         \/ \E f \in task[Loop].seen : Read(Loop, f)
         \/ End(Loop)
  PROVE  UncrashedInv'
<1>1. SameFiles /\ Names' = Names /\ Copies' = Copies
  BY DEF SameFiles, Begin, Visit, ReadNothing, Read, End, Names, Copies
<1>2. CASE \E f \in task[Loop].seen : Read(Loop, f)
  <2>1. PICK f \in task[Loop].seen : Read(Loop, f)
    BY <1>2
  <2>2. task[Loop].pc \in {"get", "poll"} /\ f.name \in Copies
    <3>1. task[Loop].seen \subseteq [name : Names, time : Nat]
      BY ActorFacts DEF TypeInv
    <3>2. f.name \in Names
      BY <2>1, <3>1
    <3> QED
      BY <2>1, <3>2 DEF Read, Copies
  <2>3. task'[Loop].pc \in {"tidy", "held"} /\ task'[Loop].name = f.name
    BY <2>1, ReadEffect, ActorFacts
  <2>4. crashes = 0 => Copies \subseteq {f.name} /\ saves # 0
    BY <2>2 DEF UncrashedInv, Saving
  <2> QED
    BY <1>1, <2>2, <2>3, <2>4 DEF UncrashedInv, Saving, SameFiles
<1>3. CASE ~\E f \in task[Loop].seen : Read(Loop, f)
  <2>1. task'[Loop].pc \in {"idle", "get", "poll"}
    <3>1. ASSUME NEW pc \in {"get", "poll"}, Begin(Loop, pc)
          PROVE  task'[Loop].pc \in {"idle", "get", "poll"}
      BY <3>1, ActorFacts DEF Begin, TypeInv, Idle
    <3>2. ASSUME NEW n \in Names, Visit(Loop, n)
          PROVE  task'[Loop].pc \in {"idle", "get", "poll"}
      BY <3>2, ActorFacts DEF Visit, TypeInv
    <3>3. CASE ReadNothing(Loop) \/ End(Loop)
      BY <3>3, ActorFacts DEF ReadNothing, End, TypeInv, Idle
    <3> QED
      BY <1>3, <3>1, <3>2, <3>3
  <2>2. task[Loop].pc \in {"idle", "get", "poll", "tidy", "held"}
    BY <1>3 DEF Begin, Visit, ReadNothing, End, HasRead
  <2>3. crashes = 0 => \A m, n \in Copies : m = n
    BY <2>2 DEF UncrashedInv, Saving
  <2> QED
    BY <1>1, <2>1, <2>3 DEF UncrashedInv, Saving, SameFiles
<1> QED
  BY <1>2, <1>3

\* What the loop removes, or does not find.
LEMMA UncrashedCleans ==
  ASSUME TypeInv, UncrashedInv, UNCHANGED <<scenario, crashes>>,
         \/ \E n \in Names : FindOther(Loop, n)
         \/ FindNone(Loop)
         \/ RemoveOther(Loop)
         \/ \E f \in task[Loop].seen : Tidy(Loop, f)
  PROVE  UncrashedInv'
<1> DEFINE name == task[Loop].name
<1>1. UNCHANGED saves /\ Names' = Names /\ saves \in Nat /\ name \in Nat
  BY ActorFacts, ScenarioFacts DEF FindOther, FindNone, RemoveOther, Tidy, Names, TypeInv
<1>2. ASSUME NEW n \in Names, FindOther(Loop, n) PROVE UncrashedInv'
  <2>1. /\ task[Loop].pc = "clean" /\ n \in Copies \ {name} /\ Copies' = Copies /\ file' = file
        /\ task'[Loop].pc = "remove" /\ task'[Loop].name = n
    BY <1>1, <1>2, ActorFacts DEF FindOther, TypeInv, Copies
  <2>2. crashes = 0 => n = name - 1 /\ Copies \subseteq {n, n + 1} /\ saves # 0
    BY <1>1, <2>1 DEF UncrashedInv
  <2> QED
    BY <1>1, <2>1, <2>2 DEF UncrashedInv, Saving
<1>3. CASE FindNone(Loop)
  <2>1. Copies \subseteq {name} /\ Copies' = Copies /\ file' = file /\ task'[Loop].pc = "idle"
    BY <1>1, <1>3, ActorFacts DEF FindNone, TypeInv, Copies, Idle
  <2>2. crashes = 0 => saves # 0
    BY <1>3 DEF FindNone, UncrashedInv
  <2> QED
    BY <1>1, <2>1, <2>2 DEF UncrashedInv, Saving
<1>4. CASE RemoveOther(Loop)
  <2>1. /\ task[Loop].pc = "remove" /\ task'[Loop].pc = "idle" /\ Copies' = Copies \ {name}
        /\ \A n \in Names : file'[n] \in {0, file[n]}
    BY <1>1, <1>4, ActorFacts DEF RemoveOther, TypeInv, Copies, Idle
  <2>2. crashes = 0 => Copies' \subseteq {name + 1} /\ saves # 0
    BY <2>1 DEF UncrashedInv
  <2>3. \A n \in Names : file'[n] <= saves
    BY <1>1, <2>1 DEF UncrashedInv
  <2> QED
    BY <1>1, <2>1, <2>2, <2>3 DEF UncrashedInv, Saving
<1>5. ASSUME NEW f \in task[Loop].seen, Tidy(Loop, f) PROVE UncrashedInv'
  <2>1. /\ task[Loop].pc = "tidy" /\ task'[Loop].pc = "tidy" /\ task'[Loop].name = name
        /\ Copies' \subseteq Copies
        /\ \A n \in Names : file'[n] \in {0, file[n]}
    BY <1>1, <1>5, ActorFacts DEF Tidy, TypeInv, Copies
  <2>2. crashes = 0 => Copies' \subseteq {name} /\ saves # 0
    BY <2>1 DEF UncrashedInv
  <2>3. \A n \in Names : file'[n] <= saves
    BY <1>1, <2>1 DEF UncrashedInv
  <2> QED
    BY <1>1, <2>1, <2>2, <2>3 DEF UncrashedInv, Saving
<1> QED
  BY <1>2, <1>3, <1>4, <1>5

LEMMA StepUncrashed ==
  ASSUME TypeInv, UncrashedInv, [Next]_vars
  PROVE  UncrashedInv'
<1>1. CASE UNCHANGED vars
  BY <1>1, UncrashedRest DEF vars, UncrashedInv
<1>2. CASE Next
  <2>1. UNCHANGED scenario
    BY <1>2 DEF Next
  <2>2. CASE Create \/ Advance
    BY <2>1, <2>2, UncrashedCreate, UncrashedAdvance
  <2>3. CASE Crash
    <3>1. UNCHANGED <<file, saves>> /\ crashes' \in Nat /\ crashes' # 0
      BY <2>3 DEF Crash, UncrashedInv
    <3> QED
      BY <2>1, <3>1, UncrashedRest
  <2>4. ASSUME NEW a \in Actors, a # Loop,
               \/ \E pc \in {"get", "poll"} : Begin(a, pc)
               \/ \E n \in Names : FindOther(a, n) \/ Visit(a, n)
               \/ FindNone(a) \/ RemoveOther(a) \/ ReadNothing(a) \/ End(a)
               \/ \E f \in task[a].seen : Read(a, f) \/ Tidy(a, f)
        PROVE  UncrashedInv'
    <3>1. UNCHANGED <<saves, crashes>> /\ task'[Loop] = task[Loop]
      BY <2>4, ActorFacts
         DEF Begin, FindOther, Visit, FindNone, RemoveOther, ReadNothing, End, Read, Tidy, TypeInv
    <3>2. \A n \in Names : file'[n] \in {0, file[n]}
      BY <2>4
         DEF Begin, FindOther, Visit, FindNone, RemoveOther, ReadNothing, End, Read, Tidy, TypeInv
    <3> QED
      BY <2>1, <3>1, <3>2, UncrashedRest DEF UncrashedInv
  <2>5. CASE \/ \E pc \in {"get", "poll"} : Begin(Loop, pc)
             \/ \E n \in Names : Visit(Loop, n)
             \/ ReadNothing(Loop) \/ End(Loop)
             \/ \E f \in task[Loop].seen : Read(Loop, f)
    <3>1. UNCHANGED crashes
      BY <2>5 DEF Begin, Visit, ReadNothing, End, Read
    <3> QED
      BY <2>1, <2>5, <3>1, UncrashedReads
  <2>6. CASE \/ \E n \in Names : FindOther(Loop, n)
             \/ FindNone(Loop) \/ RemoveOther(Loop)
             \/ \E f \in task[Loop].seen : Tidy(Loop, f)
    <3>1. UNCHANGED crashes
      BY <2>6 DEF FindOther, FindNone, RemoveOther, Tidy
    <3> QED
      BY <2>1, <2>6, <3>1, UncrashedCleans
  <2> QED
    BY <1>2, <2>2, <2>3, <2>4, <2>5, <2>6, ActorFacts DEF Next
<1> QED
  BY <1>1, <1>2

-----------------------------------------------------------------------------
(***************************************************************************)
(* The invariant, and what follows.                                        *)
(***************************************************************************)
LEMMA InitInv == Init => IInv
<1> SUFFICES ASSUME Init PROVE IInv
  OBVIOUS
<1>1. TypeInv
  BY StoreAssumption DEF Init, TypeInv, Idle, Steps
<1>2. /\ saves = 0 /\ clock = 0 /\ crashes = 0 /\ (\A n \in Names : file[n] = 0)
      /\ \A a \in Actors : /\ task[a].pc = "idle" /\ task[a].seen = {}
                           /\ task[a].got = 0 /\ task[a].since = 0
  BY DEF Init, Idle
<1>3. OrderInv /\ CreatorInv
  BY <1>1, <1>2, ActorFacts DEF OrderInv, CreatorInv
<1>4. RegisterInv
  BY <1>1, <1>2, <1>3, ActorFacts DEF RegisterInv, TwoFiles, LoopInv, ReaderInv, Reads
<1>5. LeftoverInv
  BY <1>1, <1>2, <1>3, ActorFacts DEF LeftoverInv, CrashLoopInv, Kept
<1>6. UncrashedInv
  BY <1>1, <1>2, ActorFacts DEF UncrashedInv, Copies
<1> QED
  BY <1>1, <1>4, <1>5, <1>6 DEF IInv, QuietInv, CrashInv

LEMMA NextInv == IInv /\ [Next]_vars => IInv'
<1> SUFFICES ASSUME IInv, [Next]_vars PROVE IInv'
  OBVIOUS
<1>1. TypeInv /\ TypeInv'
  BY StepType DEF IInv
<1>2. scenario' = scenario
  BY DEF Next, vars
<1>3. QuietInv'
  BY <1>1, <1>2, StepQuiet DEF IInv, QuietInv, Undisturbed
<1>4. CrashInv'
  BY <1>1, <1>2, StepLeftover DEF IInv, CrashInv, OnlyCrashes
<1>5. UncrashedInv'
  BY <1>1, StepUncrashed DEF IInv
<1> QED
  BY <1>1, <1>3, <1>4, <1>5 DEF IInv

\* Every reachable state of a record's files and tasks satisfies IInv, for any
\* number of readers, states, saves and crashes.
THEOREM StoreInvariance == Spec => []IInv
BY InitInv, NextInv, PTL DEF Spec

\* However gets and saves interleave, undisturbed, a get answers with a version
\* that was the latest when it began, or a later one.
THEOREM NoOldGets == Spec => []GetNotOlder
<1>1. IInv => GetNotOlder
  BY DEF IInv, QuietInv, RegisterInv, ReaderInv, Reads, GetNotOlder
<1> QED
  BY <1>1, StoreInvariance, PTL

\* A get that misses an existing record overlapped a save.
THEOREM MissesOverlap == Spec => []NotFoundNeedsSave
<1>1. IInv => NotFoundNeedsSave
  BY ActorFacts DEF IInv, TypeInv, QuietInv, RegisterInv, ReaderInv, Reads, NotFoundNeedsSave
<1> QED
  BY <1>1, StoreInvariance, PTL

\* However often saves are interrupted by crashes, the latest version is kept.
THEOREM Lossless == Spec => []NeverLost
<1>1. IInv => NeverLost
  BY DEF IInv, CrashInv, LeftoverInv, Kept, NeverLost
<1> QED
  BY <1>1, StoreInvariance, PTL

\* Whatever the crashes have left, an event's get reads the latest version, and
\* removes the rest.
THEOREM EventsRepair == Spec => []EventRepairs
<1>1. IInv => EventRepairs
  BY DEF IInv, CrashInv, LeftoverInv, CrashLoopInv, EventRepairs, Copies
<1> QED
  BY <1>1, StoreInvariance, PTL

\* Without a crash the loop only goes forward, whatever happens to the files
\* while it reads and saves.
THEOREM CrashesAlone == Spec => RegressNeedsCrash
<1>1. IInv /\ [Next]_vars =>
        [crashes = 0 => \A n \in Names : file'[n] = saves' /\ saves' > saves =>
           \A m \in Copies : m < n]_vars
  <2> SUFFICES ASSUME IInv, Next, crashes = 0, saves' > saves,
                      NEW n \in Names, file'[n] = saves', NEW m \in Copies
               PROVE  m < n
    OBVIOUS
  <2>1. TypeInv /\ UncrashedInv /\ saves \in Nat /\ UNCHANGED scenario
    BY DEF IInv, TypeInv, Next
  <2>2. Create \/ Advance
    <3>1. ~UNCHANGED saves
      BY <2>1
    <3> QED
      BY <3>1 DEF Next, Crash, Begin, FindOther, Visit, FindNone, RemoveOther, ReadNothing, Read,
           Tidy, End
  <2>3. ~Create
    BY <2>1 DEF Create, UncrashedInv
  <2>4. n = task[Loop].name + 1 /\ m = task[Loop].name
    BY <2>1, <2>2, <2>3, UncrashedAdvance DEF UncrashedInv, Advance, HasRead
  <2>5. task[Loop].name \in Nat
    BY <2>1, ScenarioFacts, ActorFacts DEF TypeInv
  <2> QED
    BY <2>4, <2>5
<1> QED
  BY <1>1, StoreInvariance, PTL DEF Spec, RegressNeedsCrash

\* Undisturbed, the latest save is the state the record is in.
StateIsSave == Undisturbed => LatestState = saves

LEMMA RegisterState == IInv => StateIsSave
<1> SUFFICES ASSUME IInv, Undisturbed PROVE LatestState = saves
  BY DEF StateIsSave
<1>1. TypeInv /\ TwoFiles
  BY DEF IInv, QuietInv, RegisterInv
<1>2. CASE saves = 0
  BY <1>1, <1>2, ScenarioFacts DEF TwoFiles, LatestState, Copies
<1>3. CASE saves # 0
  <2>1. saves \in Copies /\ file[saves] = saves
    BY <1>1, <1>3 DEF TypeInv, TwoFiles, Copies
  <2>2. \A n \in Copies : file[n] = saves => n = saves
    BY <1>1, <1>3, ScenarioFacts DEF TwoFiles, Copies
  <2> QED
    BY <2>1, <2>2 DEF LatestState
<1> QED
  BY <1>2, <1>3

\* Undisturbed, the files are one register that goes from state to state,
\* whoever reads it, and whatever the directory looks like meanwhile.
THEOREM FilesAreARegister == Spec => ImplementsRecord
<1> DEFINE state == IF Undisturbed THEN LatestState ELSE 0
<1>1. Init => Register!Init
  BY InitInv, RegisterState DEF Init, StateIsSave, Register!Init
<1>2. StateIsSave /\ StateIsSave' /\ [Next]_vars => [Register!Advance]_state
  <2> SUFFICES ASSUME StateIsSave, StateIsSave', [Next]_vars PROVE state' \in {state, state + 1}
    BY DEF Register!Advance
  <2>1. scenario' = scenario
    BY DEF Next, vars
  <2>2. Undisturbed => LatestState = saves /\ LatestState' = saves'
    BY <2>1 DEF StateIsSave, Undisturbed
  <2>3. saves' \in {saves, saves + 1}
    BY DEF Next, vars, Create, Advance, Rename, Crash, Begin, FindOther, Visit, FindNone,
           RemoveOther, ReadNothing, Read, Tidy, End
  <2> QED
    BY <2>1, <2>2, <2>3 DEF Undisturbed
<1> QED
  BY <1>1, <1>2, RegisterState, StoreInvariance, PTL DEF Spec, ImplementsRecord, Register!Spec
==============================================================================
