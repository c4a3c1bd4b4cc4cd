------------------------------ MODULE Transfer ------------------------------
(***************************************************************************)
(* The record of one transfer process, as a connector keeps it, and the    *)
(* three ways it moves: a decision of the connector's tick, a message the  *)
(* tick posts to the counterpart, and a message received.                  *)
(*                                                                         *)
(* A record has the state's name, whether the counterpart has been told of *)
(* the state (`sent`), how often the transfer was resumed (`count`, which  *)
(* only the TCK scripts look at), the counterpart's process id, the        *)
(* agreement, and, in a consumer's record, the data address received: the  *)
(* provider record its token is for.                                       *)
(***************************************************************************)
EXTENDS Naturals

CONSTANTS
  CProcs,      \* process ids of consumer records
  PProcs,      \* process ids of provider records
  NoProc,      \* the empty provider_pid; the data address not received yet
  Absent,      \* the store has no record under this id
  Agreements,  \* agreement ids
  Script       \* Script[a]: the TCK script that agreement a stands for

Procs == CProcs \cup PProcs

States == {"requested", "started", "suspended", "completed", "terminated"}

Kinds == {"request", "start", "suspension", "completion", "termination"}

Records == [st : States, sent : BOOLEAN, count : Nat,
            peer : Procs \cup {NoProc}, agr : Agreements, token : PProcs \cup {NoProc}]

ASSUME RecordAssumption ==
  /\ DOMAIN Script = Agreements
  /\ CProcs \cap PProcs = {}
  /\ NoProc \notin Procs
  /\ Absent \notin Records

(***************************************************************************)
(* The two ways a record is born: the consumer's user asks for a transfer, *)
(* the provider answers a transfer request.  A provider's request has      *)
(* nothing to tell: it is never pending.                                   *)
(***************************************************************************)
NewConsumer(a) == [st |-> "requested", sent |-> FALSE, count |-> 0,
                   peer |-> NoProc, agr |-> a, token |-> NoProc]

NewProvider(c, a) == [st |-> "requested", sent |-> TRUE, count |-> 0,
                      peer |-> c, agr |-> a, token |-> NoProc]

(***************************************************************************)
(* Decisions: the tick puts the record in state s without a message.  A    *)
(* provider starts what is requested.  With the feature `tck`, agreements  *)
(* named ATP.. (scripts of the provider side) and ATPC.. (of the consumer  *)
(* side) decide first, once the counterpart knows of the present state.    *)
(***************************************************************************)
NeverStarted == {"ATP0301", "ATP0302"}

ProviderScript(r, s) ==
  /\ r.sent
  /\ \/ r.st = "requested" /\ Script[r.agr] = "ATP0105" /\ s = "terminated"
     \/ r.st = "started" /\ Script[r.agr] = "ATP0101" /\ s = "terminated"
     \/ r.st = "started" /\ Script[r.agr] = "ATP0102" /\ s = "completed"
     \/ r.st = "started" /\ Script[r.agr] = "ATP0103" /\ s = "suspended"
     \/ r.st = "started" /\ Script[r.agr] = "ATP0104" /\ r.count = 0 /\ s = "suspended"
     \/ r.st = "started" /\ Script[r.agr] = "ATP0104" /\ r.count > 0 /\ s = "completed"
     \/ r.st = "suspended" /\ Script[r.agr] = "ATP0103" /\ s = "terminated"
     \/ r.st = "suspended" /\ Script[r.agr] = "ATP0104" /\ s = "started"

ConsumerScript(r, s) ==
  /\ r.sent
  /\ \/ r.st = "requested" /\ Script[r.agr] = "ATPC0205" /\ s = "terminated"
     \/ r.st = "started" /\ Script[r.agr] = "ATPC0201" /\ s = "terminated"
     \/ r.st = "started" /\ Script[r.agr] = "ATPC0202" /\ s = "completed"
     \/ r.st = "started" /\ Script[r.agr] = "ATPC0203" /\ s = "suspended"
     \/ r.st = "started" /\ Script[r.agr] = "ATPC0204" /\ r.count = 1 /\ s = "suspended"
     \/ r.st = "started" /\ Script[r.agr] = "ATPC0204" /\ r.count > 1 /\ s = "completed"
     \/ r.st = "suspended" /\ Script[r.agr] = "ATPC0203" /\ s = "terminated"
     \/ r.st = "suspended" /\ Script[r.agr] = "ATPC0204" /\ s = "started"

ProviderDecides(r, s) ==
  \/ ProviderScript(r, s)
  \/ /\ r.st = "requested" /\ s = "started"
     /\ Script[r.agr] \notin NeverStarted \cup {"ATP0105"}

\* Mutant: a suspension forgets the count.
CountedAnew(r, s) ==
  IF s = "started" /\ r.st = "suspended" THEN r.count + 1 ELSE 0

\* What is left of the count in state s: a provider's first start counts 0.
Counted(r, s) ==
  IF s = "started" /\ r.st = "suspended" THEN r.count + 1
  ELSE IF s = "suspended" THEN r.count
  ELSE 0

\* Mutant: a resumption counts as announced.
DecidedAsSent(r, s) ==
  [r EXCEPT !.st = s, !.sent = (r.st = "suspended" /\ s = "started"),
            !.count = Counted(r, s)]

Decided(r, s) == [r EXCEPT !.st = s, !.sent = FALSE, !.count = Counted(r, s)]

(***************************************************************************)
(* Posts: the tick sends a message and keeps the record until it is        *)
(* answered with a 2xx status.                                             *)
(***************************************************************************)
\* The state a message announces.
Reached(kind) ==
  CASE kind = "request"     -> "requested"
    [] kind = "start"       -> "started"
    [] kind = "suspension"  -> "suspended"
    [] kind = "completion"  -> "completed"
    [] kind = "termination" -> "terminated"

\* Mutant: a request is repeated until something comes of it.
PostsUntilStarted(r, kind) ==
  (~r.sent \/ r.st = "requested") /\ r.st = Reached(kind)

\* A pending record posts the message that announces its state; only a
\* consumer's record is ever pending in the requested state.
Posts(r, kind) == ~r.sent /\ r.st = Reached(kind)

\* The sender's record after a 2xx answer; the answer to a request names the
\* provider's record.
Acknowledged(r, kind, answerer) ==
  [r EXCEPT !.sent = TRUE, !.peer = IF kind = "request" THEN answerer ELSE @]

(***************************************************************************)
(* Messages received, by either side alike.                                *)
(***************************************************************************)
Accepts(r, kind) ==
  \/ kind = "start" /\ r.st \in {"requested", "suspended"}
  \/ kind \in {"suspension", "completion"} /\ r.st = "started"
  \/ kind = "termination" /\ r.st # "completed"

\* Mutant: a state received is pending like one decided.
AcceptedUnsent(r, kind, from) ==
  [r EXCEPT !.st = Reached(kind), !.sent = FALSE,
            !.count = IF kind = "start" /\ r.st = "requested" THEN 1
                      ELSE Counted(r, Reached(kind)),
            !.token = IF kind = "start" /\ from \in PProcs THEN from ELSE @]

\* A start received counts from 1; a consumer keeps the data address it has,
\* whichever provider record sent it.
Accepted(r, kind, from) ==
  [r EXCEPT !.st = Reached(kind), !.sent = TRUE,
            !.count = IF kind = "start" /\ r.st = "requested" THEN 1
                      ELSE Counted(r, Reached(kind)),
            !.token = IF kind = "start" /\ from \in PProcs THEN from ELSE @]
=============================================================================
