-------------------------- MODULE TransferProtocol --------------------------
(***************************************************************************)
(* Connectors that transfer data under agreements.  Each runs one loop for *)
(* its transfers, beside the one for its negotiations: it takes an event   *)
(* from its channel, or, once a second, ticks all its transfers and waits  *)
(* for all of them before it saves the outcomes.  A transfer request is    *)
(* answered by the HTTP task, every other message by the loop.             *)
(*                                                                         *)
(* The reverse proxy hands out the data of a transfer the provider has     *)
(* started, to whoever presents the token that was sent with the start.    *)
(***************************************************************************)
EXTENDS Transfer, FiniteSets

CONSTANTS
  Connectors,   \* the running connectors
  Home,         \* Home[x]: the connector that keeps record x
  Provider,     \* Provider[c]: the connector consumer record c asks
  Forbidden,    \* agreements whose policy the consumer's claims do not meet
  MaxFaults     \* bound: lost requests, lost answers and crashes

ASSUME ProtocolAssumption ==
  /\ Home \in [Procs -> Connectors]
  /\ Provider \in [CProcs -> Connectors]
  /\ MaxFaults \in Nat

VARIABLES
  finalized,  \* agreements whose provider has a finalized negotiation
  proc,       \* proc[x]: the saved record, or Absent
  phase,      \* phase[x]: where the loop is with record x in this round
  result,     \* result[x]: the record to save when the round ends, or Absent
  net,        \* messages sent and not yet handled
  faults      \* number of faults so far

vars == <<finalized, proc, phase, result, net, faults>>

Phases == {"idle", "due", "posting", "done"}

\* `to` is NoProc in a request; `live`: the sender still waits.
Messages == [kind : Kinds, from : Procs, to : Procs \cup {NoProc}, live : BOOLEAN]

Exists(x) == proc[x] # Absent

Busy(k) == \E x \in Procs : Home[x] = k /\ phase[x] # "idle"

Decides(x, s) ==
  IF x \in CProcs THEN ConsumerScript(proc[x], s) ELSE ProviderDecides(proc[x], s)

\* A record whose tick does something; the others tick to None.
HasWork(x) ==
  /\ Exists(x)
  /\ (\E s \in States : Decides(x, s)) \/ (\E kind \in Kinds : Posts(proc[x], kind))

Init ==
  /\ finalized = {}
  /\ proc = [x \in Procs |-> Absent]
  /\ phase = [x \in Procs |-> "idle"]
  /\ result = [x \in Procs |-> Absent]
  /\ net = {}
  /\ faults = 0

\* The negotiation of agreement a is finalized by its provider.
Finalize(a) ==
  /\ finalized' = finalized \cup {a}
  /\ UNCHANGED <<proc, phase, result, net, faults>>

\* The user's API task saves a new record; the loop finds it by polling.
AskTransfer(c, a) ==
  /\ ~Exists(c)
  /\ proc' = [proc EXCEPT ![c] = NewConsumer(a)]
  /\ UNCHANGED <<finalized, phase, result, net, faults>>

(***************************************************************************)
(* The loop's tick.                                                        *)
(***************************************************************************)
StartTick(k) ==
  /\ ~Busy(k)
  /\ \E x \in Procs : Home[x] = k /\ HasWork(x)
  /\ phase' = [x \in Procs |-> IF Home[x] = k /\ HasWork(x) THEN "due" ELSE phase[x]]
  /\ UNCHANGED <<finalized, proc, result, net, faults>>

Decide(x, s) ==
  /\ phase[x] = "due"
  /\ Decides(x, s)
  /\ phase' = [phase EXCEPT ![x] = "done"]
  /\ result' = [result EXCEPT ![x] = Decided(proc[x], s)]
  /\ UNCHANGED <<finalized, proc, net, faults>>

Post(x, kind) ==
  /\ phase[x] = "due"
  /\ Posts(proc[x], kind)
  /\ kind # "request" => proc[x].peer # NoProc
  /\ phase' = [phase EXCEPT ![x] = "posting"]
  /\ net' = net \cup {[kind |-> kind, from |-> x, to |-> proc[x].peer, live |-> TRUE]}
  /\ UNCHANGED <<finalized, proc, result, faults>>

\* A message to an empty provider_pid matches no route: 404.
PostNowhere(x, kind) ==
  /\ phase[x] = "due"
  /\ Posts(proc[x], kind)
  /\ kind # "request"
  /\ proc[x].peer = NoProc
  /\ phase' = [phase EXCEPT ![x] = "done"]
  /\ UNCHANGED <<finalized, proc, result, net, faults>>

\* Saving begins when every tick of the round has ended; a failed one (no
\* result) leaves its record as it was.
Save(x) ==
  /\ phase[x] = "done"
  /\ \A y \in Procs : Home[y] = Home[x] => phase[y] \in {"idle", "done"}
  /\ proc' = [proc EXCEPT ![x] = IF result[x] = Absent THEN @ ELSE result[x]]
  /\ phase' = [phase EXCEPT ![x] = "idle"]
  /\ result' = [result EXCEPT ![x] = Absent]
  /\ UNCHANGED <<finalized, net, faults>>

(***************************************************************************)
(* Messages.  An answer ends the sender's wait, if it still waits.         *)
(***************************************************************************)
Dest(m) == IF m.kind = "request" THEN Provider[m.from] ELSE Home[m.to]

Answer(m, outcome) ==
  /\ net' = net \ {m}
  /\ IF m.live
     THEN /\ phase' = [phase EXCEPT ![m.from] = "done"]
          /\ result' = [result EXCEPT ![m.from] = outcome]
     ELSE UNCHANGED <<phase, result>>

\* Mutant: the consumer's own word for the agreement is enough.
TransferRequestOnTrust(m, p) ==
  /\ m.kind = "request"
  /\ proc[m.from].agr \notin Forbidden
  /\ ~Exists(p)
  /\ Home[p] = Dest(m)
  /\ proc' = [proc EXCEPT ![p] = NewProvider(m.from, proc[m.from].agr)]
  /\ Answer(m, Acknowledged(proc[m.from], m.kind, p))
  /\ UNCHANGED <<finalized, faults>>

\* The HTTP task looks for a finalized negotiation with this agreement, checks
\* its policy and saves a new record; nothing looks whether this consumer's
\* transfer already has one.
TransferRequest(m, p) ==
  /\ m.kind = "request"
  /\ proc[m.from].agr \in finalized \ Forbidden
  /\ ~Exists(p)
  /\ Home[p] = Dest(m)
  /\ proc' = [proc EXCEPT ![p] = NewProvider(m.from, proc[m.from].agr)]
  /\ Answer(m, Acknowledged(proc[m.from], m.kind, p))
  /\ UNCHANGED <<finalized, faults>>

\* Mutant: a refusal ends the request.
RefuseRequestForGood(m) ==
  /\ m.kind = "request"
  /\ proc[m.from].agr \notin finalized \ Forbidden
  /\ Answer(m, Acknowledged(proc[m.from], m.kind, NoProc))
  /\ UNCHANGED <<finalized, proc, faults>>

RefuseRequest(m) ==
  /\ m.kind = "request"
  /\ proc[m.from].agr \notin finalized \ Forbidden
  /\ Answer(m, Absent)
  /\ UNCHANGED <<finalized, proc, faults>>

\* Mutant: events are handled while the loop's tick goes on.
AcceptEventAnytime(m) ==
  /\ m.kind # "request"
  /\ Exists(m.to)
  /\ Accepts(proc[m.to], m.kind)
  /\ proc' = [proc EXCEPT ![m.to] = Accepted(@, m.kind, m.from)]
  /\ Answer(m, Acknowledged(proc[m.from], m.kind, m.to))
  /\ UNCHANGED <<finalized, faults>>

\* The loop takes an event from the channel: a 2xx answer if the record
\* accepts it and is saved, an error answer and no change otherwise.
AcceptEvent(m) ==
  /\ m.kind # "request"
  /\ ~Busy(Dest(m))
  /\ Exists(m.to)
  /\ Accepts(proc[m.to], m.kind)
  /\ proc' = [proc EXCEPT ![m.to] = Accepted(@, m.kind, m.from)]
  /\ Answer(m, Acknowledged(proc[m.from], m.kind, m.to))
  /\ UNCHANGED <<finalized, faults>>

\* Mutant: the sender does not look at the status of the answer.
RejectEventUnseen(m) ==
  /\ m.kind # "request"
  /\ ~Busy(Dest(m))
  /\ Exists(m.to) => ~Accepts(proc[m.to], m.kind)
  /\ Answer(m, Acknowledged(proc[m.from], m.kind, m.to))
  /\ UNCHANGED <<finalized, proc, faults>>

RejectEvent(m) ==
  /\ m.kind # "request"
  /\ ~Busy(Dest(m))
  /\ Exists(m.to) => ~Accepts(proc[m.to], m.kind)
  /\ Answer(m, Absent)
  /\ UNCHANGED <<finalized, proc, faults>>

(***************************************************************************)
(* Faults, as in NegotiationProtocol.                                      *)
(***************************************************************************)
\* The request is not delivered; the sender's tick ends with an error.
LoseRequest(m) ==
  /\ faults < MaxFaults
  /\ faults' = faults + 1
  /\ Answer(m, Absent)
  /\ UNCHANGED <<finalized, proc>>

\* The sender's tick ends with an error although the message was delivered.
LoseAnswer(m) ==
  /\ faults < MaxFaults
  /\ faults' = faults + 1
  /\ m.live
  /\ net' = (net \ {m}) \cup {[m EXCEPT !.live = FALSE]}
  /\ phase' = [phase EXCEPT ![m.from] = "done"]
  /\ UNCHANGED <<finalized, proc, result>>

\* Connector k restarts with its store; what waited for k gets an error.
Crash(k) ==
  /\ faults < MaxFaults
  /\ faults' = faults + 1
  /\ Busy(k) \/ \E m \in net : Dest(m) = k
  /\ phase' = [x \in Procs |->
                 IF Home[x] = k THEN "idle"
                 ELSE IF \E m \in net : m.live /\ m.from = x /\ Dest(m) = k THEN "done"
                 ELSE phase[x]]
  /\ result' = [x \in Procs |-> IF Home[x] = k THEN Absent ELSE result[x]]
  /\ net' = {[m EXCEPT !.live = @ /\ Home[m.from] # k] : m \in {n \in net : Dest(n) # k}}
  /\ UNCHANGED <<finalized, proc>>

-----------------------------------------------------------------------------
Loop(k) ==
  \/ StartTick(k)
  \/ \E x \in Procs : /\ Home[x] = k
                      /\ \/ \E s \in States : Decide(x, s)
                         \/ \E kind \in Kinds : Post(x, kind) \/ PostNowhere(x, kind)
                         \/ Save(x)

Deliver(m) ==
  \/ \E p \in PProcs : TransferRequest(m, p)
  \/ RefuseRequest(m)
  \/ AcceptEvent(m)
  \/ RejectEvent(m)

Fault ==
  \/ \E m \in net : LoseRequest(m) \/ LoseAnswer(m)
  \/ \E k \in Connectors : Crash(k)

\* What the connectors' transfer tasks do, and what is done to them.
Work ==
  \/ \E k \in Connectors : Loop(k)
  \/ \E m \in net : Deliver(m)
  \/ Fault

Next ==
  \/ \E a \in Agreements \ finalized : Finalize(a)
  \/ \E c \in CProcs, a \in Agreements : AskTransfer(c, a)
  \/ Work

Spec == Init /\ [][Next]_vars

\* As for negotiations: a task that can run runs, an event that is ready again
\* and again is taken; nothing is assumed of users and faults.  A negotiation
\* that is about to be finalized will be.
Fairness ==
  /\ \A k \in Connectors : WF_vars(Loop(k))
  /\ \A x \in Procs : SF_vars(\E m \in net : m.from = x /\ Deliver(m))

FairSpec == Spec /\ Fairness /\ \A a \in Agreements : WF_vars(Finalize(a))

-----------------------------------------------------------------------------
(***************************************************************************)
(* Properties.                                                             *)
(***************************************************************************)

\* Every record, outcome and message is well formed: a record's counterpart is
\* of the other side (a consumer's may be unknown), only a request goes out
\* without one, and the loop works on, and messages come from, records that
\* exist.
Peers(x) == IF x \in CProcs THEN PProcs \cup {NoProc} ELSE CProcs

TypeOK ==
  /\ finalized \subseteq Agreements
  /\ proc \in [Procs -> Records \cup {Absent}]
  /\ phase \in [Procs -> Phases]
  /\ result \in [Procs -> Records \cup {Absent}]
  /\ net \subseteq Messages
  /\ faults \in 0..MaxFaults
  /\ \A x \in Procs : /\ Exists(x) => proc[x].peer \in Peers(x)
                      /\ result[x] # Absent => result[x].peer \in Peers(x)
                      /\ phase[x] # "idle" => Exists(x)
  /\ \A m \in net : /\ Exists(m.from)
                    /\ m.to \in Peers(m.from)
                    /\ m.kind = "request" <=> m.to = NoProc

\* The records the provider side keeps for consumer record c.
Answers(c) == {p \in PProcs : Exists(p) /\ proc[p].peer = c}

\* The reverse proxy serves the token of provider record p (it looks once, when
\* a request comes in).
Serves(p) == Exists(p) /\ proc[p].st = "started" /\ proc[p].sent

\* The data of a transfer is handed out only once its consumer has taken the
\* start and holds the very token that is served: a request that was answered
\* twice never opens the second record as well.
ServedToHolder ==
  \A p \in PProcs : Serves(p) => proc[proc[p].peer].token = p

\* Once a consumer has suspended, completed or terminated a transfer, or has
\* been told so, its data is not handed out any more, unless a fault split what
\* the two sides know.
EndedIsClosed ==
  \A c \in CProcs :
    /\ Exists(c)
    /\ proc[c].st \in {"suspended", "completed", "terminated"}
    /\ proc[c].sent
    => faults > 0 \/ \A p \in Answers(c) : ~Serves(p)

\* A completed or terminated transfer stays so.  Outcomes are computed from
\* copies and saved a round later: an event handled in between would be undone.
FinalForever ==
  [][\A x \in Procs :
       Exists(x) /\ proc[x].st \in {"completed", "terminated"} =>
         proc'[x] # Absent /\ proc'[x].st = proc[x].st]_vars

\* Two connectors whose loops wait for each other's answer, for good.
Deadlocked(m, n) ==
  /\ m.live /\ m.kind # "request" /\ n.live /\ n.kind # "request"
  /\ Home[m.from] = Dest(n) /\ Home[n.from] = Dest(m)

ConsumerOf(m) == IF m.from \in CProcs THEN m.from ELSE m.to

\* Within one transfer the loops of two connectors wait for each other only if
\* a fault or a termination, which needs no turn, has a message sent out of it.
MutualWaitHasCause ==
  \A m, n \in net : Deadlocked(m, n) =>
    \/ faults > 0
    \/ ConsumerOf(m) # ConsumerOf(n)
    \/ "termination" \in {m.kind, n.kind}

MutualWait == \E m, n \in net : Deadlocked(m, n)

\* Nothing but two transfers in opposite directions, both about to start, makes
\* the loops wait for each other, whatever is lost.
MutualWaitOfStarts ==
  \A m, n \in net : Deadlocked(m, n) =>
    /\ m.kind = "start" /\ n.kind = "start"
    /\ Home[ConsumerOf(m)] # Home[ConsumerOf(n)]

Refused(c) == proc[c].st = "requested" /\ ~proc[c].sent

\* The consumer has a token of a started transfer.
HasStarted(c) ==
  /\ proc[c].st = "started"
  /\ proc[c].token \in Answers(c)
  /\ proc[proc[c].token].st = "started"

\* Every transfer that is asked for, and no script is about, is started and
\* served, although requests that come before the provider has saved its
\* finalized negotiation are refused; it is never started if the policy forbids
\* it.  After a fault the provider may be left with a start it repeats for good
\* and does not serve.
EveryTransferStarts ==
  <>[](\A c \in CProcs : Exists(c) /\ Script[proc[c].agr] = "none" =>
         IF proc[c].agr \in Forbidden THEN Refused(c)
         ELSE /\ HasStarted(c)
              /\ \/ Serves(proc[c].token) /\ proc[c].peer = proc[c].token
                 \/ faults > 0)
=============================================================================
