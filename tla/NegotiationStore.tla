--------------------------- MODULE NegotiationStore ---------------------------
(***************************************************************************)
(* NegotiationProtocol over the store as it is: the files of a record are  *)
(* named after its states, a save removes one other file of the record     *)
(* after it has written its own, and a crash between the two leaves the    *)
(* record with an older file beside the newest.  A get, and with it every  *)
(* event, reads the newest file and removes the others; but the loop's     *)
(* poll takes the file that comes first, and ticks the record as it was.   *)
(*                                                                         *)
(* The steps of one save, and reads that overlap it, are in FileStore;     *)
(* here a save happens at once, or a crash cuts it short.                  *)
(***************************************************************************)
EXTENDS NegotiationProtocol

VARIABLES
  left,  \* left[x]: the records in the files of x beside the newest
  kept   \* kept[x]: the newest file's record while the loop has an older one
         \* in neg[x], Absent otherwise

storeVars == <<left, kept>>

allVars == <<vars, storeVars>>

StoreInit ==
  /\ Init
  /\ left = [x \in Pids |-> {}]
  /\ kept = [x \in Pids |-> Absent]

Newest(x) == IF kept[x] = Absent THEN neg[x] ELSE kept[x]

\* A file's name tells the state, whether it is pending, and the agreement of a
\* finalized one.
SameName(r, s) ==
  /\ r.st = s.st
  /\ r.sent = s.sent
  /\ r.st = "finalized" => r.agr = s.agr

WorkIn(x, r) ==
  IF x \in CPids
  THEN \/ \E s \in States : ConsumerDecides(TargetOf(x), r, s)
       \/ \E kind \in Kinds : ConsumerPosts(TargetOf(x), r, kind)
  ELSE \/ \E s \in States : ProviderDecides(TargetOf(x), r, s)
       \/ \E kind \in Kinds : ProviderPosts(TargetOf(x), r, kind)

-----------------------------------------------------------------------------
(***************************************************************************)
(* The loop.                                                               *)
(***************************************************************************)
\* The poll finds the newest file of some records and an older one of others;
\* it does not look at finalized ones.
PollTick(k) ==
  /\ ~Busy(k)
  /\ \E old \in [Pids -> (UNION {left[x] : x \in Pids}) \cup {Absent}] :
       LET found(x) == IF old[x] = Absent THEN neg[x] ELSE old[x]
           due == {x \in Pids : Home[x] = k /\ Exists(x) /\ WorkIn(x, found(x))}
       IN  /\ \A x \in Pids : old[x] # Absent => old[x] \in left[x] /\ x \in due
           /\ due # {}
           /\ phase' = [x \in Pids |-> IF x \in due THEN "due" ELSE phase[x]]
           /\ neg' = [x \in Pids |-> found(x)]
           /\ kept' = [x \in Pids |-> IF old[x] = Absent THEN kept[x] ELSE neg[x]]
  /\ UNCHANGED <<result, net, minted, faults, left>>

\* The files of x besides the one that outcome r is saved in.
Others(x, r) == {s \in left[x] \cup {Newest(x)} : ~SameName(r, s)}

RoundEnded(x) ==
  /\ phase[x] = "done"
  /\ \A y \in Pids : Home[y] = Home[x] => phase[y] \in {"idle", "done"}

Leaves(x) ==
  /\ phase' = [phase EXCEPT ![x] = "idle"]
  /\ result' = [result EXCEPT ![x] = Absent]
  /\ kept' = [kept EXCEPT ![x] = Absent]

\* A tick that came to nothing leaves the files as they are.
SaveNothing(x) ==
  /\ RoundEnded(x)
  /\ result[x] = Absent
  /\ Leaves(x)
  /\ neg' = [neg EXCEPT ![x] = Newest(x)]
  /\ UNCHANGED <<net, minted, faults, left>>

\* The outcome becomes the newest file, whichever it was computed from, and one
\* other file is removed.
SaveOutcome(x) ==
  /\ RoundEnded(x)
  /\ result[x] # Absent
  /\ Leaves(x)
  /\ neg' = [neg EXCEPT ![x] = result[x]]
  /\ LET others == Others(x, result[x])
     IN  \/ others = {} /\ left' = [left EXCEPT ![x] = {}]
         \/ \E r \in others : left' = [left EXCEPT ![x] = others \ {r}]
  /\ UNCHANGED <<net, minted, faults>>

(***************************************************************************)
(* Gets.                                                                   *)
(***************************************************************************)
\* An HTTP task looks at the record.
Get(x) ==
  /\ left[x] # {}
  /\ left' = [left EXCEPT ![x] = {}]
  /\ UNCHANGED <<vars, kept>>

\* The loop gets the record for an event, and saves it if it accepts.
Event(m) ==
  /\ AcceptEvent(m) \/ RejectEvent(m)
  /\ left' = [left EXCEPT ![m.to] = {}]
  /\ UNCHANGED kept

(***************************************************************************)
(* Crashes.                                                                *)
(***************************************************************************)
Forgets(k) == kept' = [x \in Pids |-> IF Home[x] = k THEN Absent ELSE kept[x]]

NewestAt(k) == [x \in Pids |-> IF Home[x] = k THEN Newest(x) ELSE neg[x]]

CrashBetweenSaves(k) ==
  /\ faults < MaxFaults
  /\ faults' = faults + 1
  /\ Busy(k) \/ \E m \in net : Dest(m) = k
  /\ Restart(k)
  /\ Forgets(k)
  /\ neg' = NewestAt(k)
  /\ UNCHANGED <<minted, left>>

\* The outcome is in its file, and no other file is removed.
CrashInSave(x) ==
  /\ faults < MaxFaults
  /\ faults' = faults + 1
  /\ RoundEnded(x)
  /\ result[x] # Absent
  /\ Restart(Home[x])
  /\ Forgets(Home[x])
  /\ neg' = [NewestAt(Home[x]) EXCEPT ![x] = result[x]]
  /\ left' = [left EXCEPT ![x] = Others(x, result[x])]
  /\ UNCHANGED minted

\* The same in the save of an event.
CrashInEvent(m) ==
  /\ faults < MaxFaults
  /\ faults' = faults + 1
  /\ m.kind # "request"
  /\ ~Busy(Dest(m))
  /\ Exists(m.to)
  /\ Accepts(m)
  /\ Restart(Dest(m))
  /\ neg' = [neg EXCEPT ![m.to] = Accepted(@, m.kind, m.agr)]
  /\ left' = [left EXCEPT ![m.to] = {neg[m.to]}]
  /\ UNCHANGED <<minted, kept>>

-----------------------------------------------------------------------------
StoreNext ==
  \/ \E k \in Connectors : PollTick(k) \/ CrashBetweenSaves(k)
  \/ \E x \in Pids : SaveNothing(x) \/ SaveOutcome(x) \/ CrashInSave(x) \/ Get(x)
  \/ \E m \in net : Event(m) \/ CrashInEvent(m)
  \/ /\ \/ \E c \in CPids : Negotiate(c)
        \/ \E x \in Pids : \/ \E s \in States : Decide(x, s)
                           \/ \E kind \in Kinds : Post(x, kind) \/ PostNowhere(x, kind)
        \/ \E m \in net : \/ \E p \in PPids : ContractRequest(m, p)
                          \/ LoseRequest(m)
                          \/ LoseAnswer(m)
     /\ UNCHANGED storeVars

StoreSpec == StoreInit /\ [][StoreNext]_allVars

-----------------------------------------------------------------------------
(***************************************************************************)
(* Properties.                                                             *)
(***************************************************************************)
\* The two sides of an interrupted save may come to hold different agreements:
\* the provider's loop may find its record as it was before it agreed, and agree
\* again, and the consumer keeps the first agreement.  But the consumer's
\* provider always holds one, and both are its own.
BothItsOwn ==
  \A c \in CPids : Exists(c) /\ HoldsAgreement(Newest(c)) =>
    LET p == Newest(c).peer
    IN  /\ p # NoPid
        /\ HoldsAgreement(Newest(p))
        /\ {Newest(c).agr.by, Newest(p).agr.by} = {p}

\* However the saves are interrupted, a provider does not finalize alone: its
\* consumer has finalized the negotiation with this record.  (The agreements
\* can differ, and then a transfer of the consumer's is refused.)
NeverFinalizedAlone ==
  \A p \in PPids : Exists(p) /\ Newest(p).st = "finalized" =>
    LET c == Newest(p).peer
    IN  Newest(c).st = "finalized" /\ Newest(c).peer = p

\* A record goes back, out of a termination even, only while an older file of
\* it is left or in the loop's hands.
RegressNeedsOlderFile ==
  [][\A x \in Pids :
       Exists(x) /\ left[x] = {} /\ kept[x] = Absent
       => Forward(Newest(x), Newest(x)')]_allVars
==============================================================================
