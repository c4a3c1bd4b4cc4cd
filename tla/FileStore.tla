------------------------------ MODULE FileStore ------------------------------
(***************************************************************************)
(* The files of one record.  A record is saved under a name that has its   *)
(* id and its state: the content is written to a temporary file, which is  *)
(* renamed, and then the directory is searched for ONE file of the record  *)
(* under another name, which is removed.  In between, and after a crash in *)
(* between, the record has several files.  Directories are listed one      *)
(* entry at a time, while others add and remove files.                     *)
(*                                                                         *)
(* Three kinds of tasks touch the files: the task that creates the record, *)
(* the connector's loop, which reads it (by a poll of the pending records, *)
(* or by a get, for an event) and then saves its next state, and HTTP      *)
(* tasks that get it.                                                      *)
(***************************************************************************)
EXTENDS Integers, FiniteSets

CONSTANTS
  Loop, Creator,  \* the event loop; the task that creates the record
  Readers,        \* HTTP tasks that get the record
  Scenarios       \* what may happen, and how often: see below

Kinds == {"crash",      \* the connector restarts, with the files it has
          "overtaken",  \* the loop saves while the creator still cleans up
          "tie"}        \* two saves get one modification time

ASSUME StoreAssumption ==
  /\ \A s \in Scenarios : /\ s.readers \subseteq Readers
                         /\ s.mishaps \subseteq Kinds
                         /\ s.last \in Nat \ {0}
                         /\ s.saves \in Nat
                         /\ s.crashes \in Nat
  /\ Loop # Creator
  /\ Loop \notin Readers
  /\ Creator \notin Readers

VARIABLES
  scenario, \* the one of the scenarios that this behaviour is of
  file,     \* file[n]: the version in the file of state n, 0 if there is none
  time,     \* time[n]: when that file was written
  clock,    \* the time of the last write
  saves,    \* the number of saves, which is the latest version
  task,     \* what each task is doing
  crashes,  \* the number of crashes
  mishaps   \* what has gone wrong

vars == <<scenario, file, time, clock, saves, task, crashes, mishaps>>

Actors == scenario.readers \cup {Loop, Creator}

\* The states that the record goes through.  At the last of them no poll looks
\* (a finalized record).
Names == 1..scenario.last
Settled == {scenario.last}

Steps == {"idle", "get", "poll", "tidy", "held", "clean", "remove"}

\* A listing has yet to come to the names in todo, and has found those in seen;
\* got is the version read, since the latest version when the listing began.
Idle == [pc |-> "idle", todo |-> {}, seen |-> {}, name |-> 0, got |-> 0, since |-> 0]

Init ==
  /\ scenario \in Scenarios
  /\ file = [n \in Names |-> 0]
  /\ time = [n \in Names |-> 0]
  /\ clock = 0
  /\ saves = 0
  /\ task = [a \in Actors |-> Idle]
  /\ crashes = 0
  /\ mishaps = {}

(***************************************************************************)
(* A save: write, rename, and remove one other file.                       *)
(***************************************************************************)
Rename(a, n) ==
  /\ saves < scenario.saves
  /\ saves' = saves + 1
  /\ file' = [file EXCEPT ![n] = saves + 1]
  /\ \E t \in IF "tie" \in scenario.mishaps /\ saves > 0 THEN {clock, clock + 1} ELSE {clock + 1} :
       /\ clock' = t
       /\ time' = [time EXCEPT ![n] = t]
  /\ task' = [task EXCEPT ![a] = [Idle EXCEPT !.pc = "clean", !.name = n]]

FindOther(a, n) ==
  /\ task[a].pc = "clean"
  /\ n # task[a].name
  /\ file[n] # 0
  /\ task' = [task EXCEPT ![a].pc = "remove", ![a].name = n]
  /\ UNCHANGED <<file, time, clock, saves, crashes, mishaps>>

\* Mutant: the save ends without a look for other files.
FindNoneAtOnce(a) ==
  /\ task[a].pc = "clean"
  /\ task' = [task EXCEPT ![a] = Idle]
  /\ UNCHANGED <<file, time, clock, saves, crashes, mishaps>>

FindNone(a) ==
  /\ task[a].pc = "clean"
  /\ \A n \in Names \ {task[a].name} : file[n] = 0
  /\ task' = [task EXCEPT ![a] = Idle]
  /\ UNCHANGED <<file, time, clock, saves, crashes, mishaps>>

RemoveOther(a) ==
  /\ task[a].pc = "remove"
  /\ file' = [file EXCEPT ![task[a].name] = 0]
  /\ task' = [task EXCEPT ![a] = Idle]
  /\ UNCHANGED <<time, clock, saves, crashes, mishaps>>

(***************************************************************************)
(* Reads.  A get lists all files of the record, reads the newest and       *)
(* removes the others; a poll reads the first it comes to.                 *)
(***************************************************************************)
Begin(a, pc) ==
  /\ task[a].pc = "idle"
  /\ task' = [task EXCEPT ![a] = [Idle EXCEPT !.pc = pc, !.todo = Names, !.since = saves]]
  /\ UNCHANGED <<file, time, clock, saves, crashes, mishaps>>

\* Mutant: a get applies the filter of a poll.
NotedUnsettled(a, n) ==
  IF file[n] = 0 \/ n \in Settled THEN {}
  ELSE IF task[a].pc = "poll" /\ task[a].seen # {} THEN {}
  ELSE {[name |-> n, time |-> time[n]]}

Noted(a, n) ==
  IF file[n] = 0 THEN {}
  ELSE IF task[a].pc = "poll" /\ (n \in Settled \/ task[a].seen # {}) THEN {}
  ELSE {[name |-> n, time |-> time[n]]}

Visit(a, n) ==
  /\ task[a].pc \in {"get", "poll"}
  /\ n \in task[a].todo
  /\ task' = [task EXCEPT ![a].todo = @ \ {n}, ![a].seen = @ \cup Noted(a, n)]
  /\ UNCHANGED <<file, time, clock, saves, crashes, mishaps>>

\* Mutant: the files are sorted the other way round.
Oldest(seen) == {f \in seen : \A g \in seen : g.time >= f.time}

Newest(seen) == {f \in seen : \A g \in seen : g.time <= f.time}

\* No file, or one that is gone when it is read.
ReadNothing(a) ==
  /\ task[a].pc \in {"get", "poll"}
  /\ task[a].todo = {}
  /\ \A f \in Newest(task[a].seen) : file[f.name] = 0
  /\ task' = [task EXCEPT ![a] = [Idle EXCEPT !.since = task[a].since]]
  /\ UNCHANGED <<file, time, clock, saves, crashes, mishaps>>

\* Mutant: the file read counts among those to remove.
ReadKeepingNone(a, f) ==
  /\ task[a].pc \in {"get", "poll"}
  /\ task[a].todo = {}
  /\ f \in Newest(task[a].seen)
  /\ file[f.name] # 0
  /\ task' = [task EXCEPT ![a].pc = IF @ = "get" THEN "tidy" ELSE "held",
                          ![a].name = f.name, ![a].got = file[f.name]]
  /\ UNCHANGED <<file, time, clock, saves, crashes, mishaps>>

Read(a, f) ==
  /\ task[a].pc \in {"get", "poll"}
  /\ task[a].todo = {}
  /\ f \in Newest(task[a].seen)
  /\ file[f.name] # 0
  /\ task' = [task EXCEPT ![a].pc = IF @ = "get" THEN "tidy" ELSE "held",
                          ![a].seen = @ \ {f},
                          ![a].name = f.name, ![a].got = file[f.name]]
  /\ UNCHANGED <<file, time, clock, saves, crashes, mishaps>>

\* Mutant: a get removes one other file, as a save does.
TidyOne(a, f) ==
  /\ task[a].pc = "tidy"
  /\ f \in task[a].seen
  /\ file' = [file EXCEPT ![f.name] = 0]
  /\ task' = [task EXCEPT ![a].seen = {}]
  /\ UNCHANGED <<time, clock, saves, crashes, mishaps>>

Tidy(a, f) ==
  /\ task[a].pc = "tidy"
  /\ f \in task[a].seen
  /\ file' = [file EXCEPT ![f.name] = 0]
  /\ task' = [task EXCEPT ![a].seen = @ \ {f}]
  /\ UNCHANGED <<time, clock, saves, crashes, mishaps>>

\* The record has been read, and what was to be removed with it is removed.
HasRead(a) ==
  /\ task[a].pc \in {"tidy", "held"}
  /\ task[a].seen = {}

\* The task is done with the record, or has nothing to save.
End(a) ==
  /\ HasRead(a)
  /\ task' = [task EXCEPT ![a] = [Idle EXCEPT !.got = task[a].got, !.since = task[a].since]]
  /\ UNCHANGED <<file, time, clock, saves, crashes, mishaps>>

(***************************************************************************)
(* The tasks.                                                              *)
(***************************************************************************)
Create ==
  /\ saves = 0
  /\ Rename(Creator, 1)
  /\ UNCHANGED <<crashes, mishaps>>

\* The loop saves the state after the one it has read.
Advance ==
  /\ HasRead(Loop)
  /\ task[Loop].name < scenario.last
  /\ task[Creator].pc # "idle" => "overtaken" \in scenario.mishaps
  /\ Rename(Loop, task[Loop].name + 1)
  /\ UNCHANGED crashes
  /\ mishaps' = mishaps \cup IF task[Creator].pc = "idle" THEN {} ELSE {"overtaken"}

Crash ==
  /\ "crash" \in scenario.mishaps
  /\ crashes < scenario.crashes
  /\ \E a \in Actors : task[a].pc # "idle"
  /\ task' = [a \in Actors |-> Idle]
  /\ crashes' = crashes + 1
  /\ mishaps' = mishaps \cup {"crash"}
  /\ UNCHANGED <<file, time, clock, saves>>

Next ==
  /\ UNCHANGED scenario
  /\ \/ Create
     \/ Advance
     \/ Begin(Loop, "poll")
     \/ \E a \in Actors \ {Creator} : Begin(a, "get")
     \/ \E a \in Actors :
          \/ \E n \in Names : FindOther(a, n) \/ Visit(a, n)
          \/ FindNone(a)
          \/ RemoveOther(a)
          \/ ReadNothing(a)
          \/ \E f \in task[a].seen : Read(a, f) \/ Tidy(a, f)
          \/ End(a)
     \/ Crash

Spec == Init /\ [][Next]_vars

-----------------------------------------------------------------------------
(***************************************************************************)
(* Properties.                                                             *)
(***************************************************************************)

Copies == {n \in Names : file[n] # 0}

\* The state of the latest version, 0 if no file has it.
LatestState == IF \E n \in Copies : file[n] = saves
               THEN CHOOSE n \in Copies : file[n] = saves
               ELSE 0

Undisturbed == scenario.mishaps = {}

\* With no crash, no two saves at one time and a creator that is done before
\* the loop saves, the files are one record that the loop reads and advances
\* atomically, whoever gets it meanwhile.
Register == INSTANCE AtomicRecord WITH
  state <- IF Undisturbed THEN LatestState ELSE 0

ImplementsRecord == Register!Spec

\* A get never answers with a version older than the one that was the latest
\* when it began, although saves add and remove files while it lists them.
GetNotOlder ==
  Undisturbed => \A a \in scenario.readers : task[a].got # 0 => task[a].got >= task[a].since

\* A get that finds no record, of one that exists, had a save going on: the
\* listing was past the new name and not yet at the old one.
NotFoundNeedsSave ==
  Undisturbed => \A a \in scenario.readers :
    task[a].pc = "idle" /\ task[a].since > 0 /\ task[a].got = 0 => saves > task[a].since

\* Wherever crashes interrupt the saves, the latest version is on disk, as long
\* as only the loop reads the record.
OnlyCrashes == scenario.mishaps \subseteq {"crash"} /\ scenario.readers = {}

NeverLost == OnlyCrashes /\ saves > 0 => \E n \in Names : file[n] = saves

\* What the loop reads for an event is the latest version, even with the copies
\* that crashes have left behind, and those are then gone.
EventRepairs ==
  OnlyCrashes /\ task[Loop].pc = "tidy" =>
    /\ task[Loop].got = saves
    /\ task[Loop].seen = {} => Copies = {task[Loop].name}

\* The record's state goes back only after a crash: neither equal times, nor a
\* creator that cleans up late, nor gets make the loop advance an old version.
RegressNeedsCrash ==
  [][crashes = 0 => \A n \in Names : file'[n] = saves' /\ saves' > saves =>
       \A m \in Copies : m < n]_vars
=============================================================================
