----------------------------- MODULE PendingPoll -----------------------------
(***************************************************************************)
(* How a loop finds the records it has work for.  Once a second it lists   *)
(* the directory, and keeps one file per record, of a state its filter     *)
(* lets through; then it reads these files, in the random order of a       *)
(* HashMap, until it has Limit records, or none at all if one cannot be    *)
(* read; then it ticks what it has read, and saves what came of it.        *)
(*                                                                         *)
(* Only a finalized negotiation leaves the list: a terminated one, and a   *)
(* transfer in any state, is listed for ever.  A crash in a save leaves a  *)
(* record with an older file beside the newest one (FileStore); a power    *)
(* cut in a save leaves a file without its content, as nothing is synced.  *)
(***************************************************************************)
EXTENDS Naturals, FiniteSets

CONSTANTS
  Records,
  Stays,      \* the records that are still listed when they are settled
  Limit,      \* 100 in the code
  Work,       \* how many saves of the loop it takes to settle a record
  MaxCrashes  \* bound: crashes in saves

ASSUME PollAssumption ==
  /\ Stays \subseteq Records
  /\ Limit \in Nat \ {0}
  /\ Work \in Nat
  /\ MaxCrashes \in Nat

VARIABLES
  newest,   \* newest[r]: the state of r's newest file, or Unborn
  older,    \* older[r]: the states of its other files
  blank,    \* blank[r]: those of its files that cannot be parsed
  listed,   \* listed[r]: the file of r the poll has found, or Unborn
  round,    \* the records read and not yet ticked and saved
  loop,     \* what the loop is doing
  torn,     \* history: the records with a save that a crash interrupted
  crashes   \* crashes so far

files == <<newest, older, blank>>

vars == <<files, listed, round, loop, torn, crashes>>

\* A state is the number of saves it takes to settle.
Unborn == Work + 1

Nothing == [r \in Records |-> Unborn]

Init ==
  /\ newest = Nothing
  /\ older = [r \in Records |-> {}]
  /\ blank = [r \in Records |-> {}]
  /\ listed = Nothing
  /\ round = {}
  /\ loop = "idle"
  /\ torn = {}
  /\ crashes = 0

\* An API task or a message from a counterpart creates the record.
Create(r) ==
  /\ newest[r] = Unborn
  /\ newest' = [newest EXCEPT ![r] = Work]
  /\ UNCHANGED <<older, blank, listed, round, loop, torn, crashes>>

\* Any get of the record removes what is older than its newest file, but not if
\* that cannot be parsed.
Get(r) ==
  /\ older[r] # {}
  /\ newest[r] \notin blank[r]
  /\ older' = [older EXCEPT ![r] = {}]
  /\ blank' = [blank EXCEPT ![r] = {}]
  /\ UNCHANGED <<newest, listed, round, loop, torn, crashes>>

-----------------------------------------------------------------------------
FilesOf(r) == ({newest[r]} \cup older[r]) \ {Unborn}

\* The files of r in states that the filter lets through.
Pending(r) == IF r \in Stays THEN FilesOf(r) ELSE FilesOf(r) \ {0}

\* Of a record's files the poll keeps the one it comes to first.
List ==
  /\ loop = "idle"
  /\ listed' \in {f \in [Records -> 0..Unborn] :
                    \A r \in Records : IF Pending(r) = {} THEN f[r] = Unborn
                                                          ELSE f[r] \in Pending(r)}
  /\ loop' = "listed"
  /\ UNCHANGED <<files, round, torn, crashes>>

Listed == {r \in Records : listed[r] # Unborn}

Readable(r) == listed[r] \in FilesOf(r) \ blank[r]

Selections ==
  {s \in SUBSET Listed : Cardinality(s) = Limit \/ (s = Listed /\ Cardinality(s) < Limit)}

\* Mutant: the files are read in the same order each time.
ReadInOrder(s) ==
  /\ loop = "listed"
  /\ s = CHOOSE x \in Selections : TRUE
  /\ \A r \in s : Readable(r)
  /\ round' = s
  /\ loop' = "ticking"
  /\ UNCHANGED <<files, listed, torn, crashes>>

Read(s) ==
  /\ loop = "listed"
  /\ s \in Selections
  /\ \A r \in s : Readable(r)
  /\ round' = s
  /\ loop' = "ticking"
  /\ UNCHANGED <<files, listed, torn, crashes>>

EndRound == listed' = Nothing /\ round' = {} /\ loop' = "idle"

\* One file that was removed after the listing, or cannot be parsed, comes up
\* before there are Limit records: nothing is ticked.
ReadFails ==
  /\ loop = "listed"
  /\ \E r \in Listed : ~Readable(r)
  /\ EndRound
  /\ UNCHANGED <<files, torn, crashes>>

Finish ==
  /\ loop = "ticking"
  /\ round = {}
  /\ EndRound
  /\ UNCHANGED <<files, torn, crashes>>

-----------------------------------------------------------------------------
\* The state after the one read.
Successor(r) == listed[r] - 1

Others(r) == FilesOf(r) \ {Successor(r)}

\* The state after the one read is saved, and becomes the newest file, whatever
\* the others are, of which some remain; `lost` says that its content does not
\* get to the disk.
Saves(r, remaining, lost) ==
  /\ r \in round
  /\ listed[r] > 0
  /\ newest' = [newest EXCEPT ![r] = Successor(r)]
  /\ older' = [older EXCEPT ![r] = remaining]
  /\ blank' = [blank EXCEPT ![r] = (@ \cap remaining) \cup IF lost THEN {Successor(r)} ELSE {}]

\* The tick succeeds and its outcome is saved: one other file is removed.
Advance(r) ==
  /\ \/ Others(r) = {} /\ Saves(r, {}, FALSE)
     \/ \E state \in Others(r) : Saves(r, Others(r) \ {state}, FALSE)
  /\ round' = round \ {r}
  /\ UNCHANGED <<listed, loop, torn, crashes>>

\* The tick fails, or has nothing to do: a settled record stays as it is.
Rest(r) ==
  /\ r \in round
  /\ round' = round \ {r}
  /\ UNCHANGED <<files, listed, loop, torn, crashes>>

\* The connector stops in or after a save, once the file is renamed; if the whole
\* machine stops, the content may not be on its disk yet.
CrashInSave(r) ==
  /\ crashes < MaxCrashes
  /\ crashes' = crashes + 1
  /\ torn' = torn \cup {r}
  /\ \E remaining \in SUBSET Others(r), lost \in BOOLEAN :
       /\ Cardinality(Others(r) \ remaining) <= 1
       /\ Saves(r, remaining, lost)
  /\ EndRound

-----------------------------------------------------------------------------
Loop ==
  \/ List
  \/ \E s \in SUBSET Records : Read(s)
  \/ ReadFails
  \/ Finish
  \/ \E r \in Records : Advance(r) \/ Rest(r)

Next ==
  \/ \E r \in Records : Create(r) \/ Get(r) \/ CrashInSave(r)
  \/ Loop

Spec == Init /\ [][Next]_vars

\* The loop goes on; a record that can come up when the files are read, in their
\* random order, does come up; and ticks do not fail for ever.
Fairness ==
  /\ WF_vars(Loop)
  /\ \A r \in Records : /\ SF_vars(\E s \in SUBSET Records : r \in s /\ Read(s))
                        /\ SF_vars(Advance(r))

FairSpec == Spec /\ Fairness

-----------------------------------------------------------------------------
(***************************************************************************)
(* Properties.                                                             *)
(***************************************************************************)

\* No crash has interrupted a save of the record.
Intact == Records \ torn

\* A file that cannot be parsed may come up in every poll, unless so many other
\* records are listed that a poll can do without it.
Stuck ==
  /\ \E r \in Records : blank[r] \cap Pending(r) # {}
  /\ Cardinality({r \in Intact : Pending(r) # {}}) < Limit

\* Every record is settled unless a crash has interrupted one of its own saves,
\* however many settled ones the loop keeps listing and whatever crashes and gets
\* do to the files of others.  But one file without its content is enough to stop
\* all work, unless it is of a finalized negotiation, or enough terminated ones
\* hide it.
EveryRecordSettles ==
  <>[](\A r \in Intact : newest[r] \in {0, Unborn} \/ Stuck)
==============================================================================
