-------------------------- MODULE NegotiationSafety --------------------------
(***************************************************************************)
(* Typing and safety of NegotiationProtocol, for any number of connectors, *)
(* negotiations and faults: ScriptsInv holds whatever the scripts, IInv    *)
(* for datasets no TCK script is about (the default build), and they imply *)
(* the safety properties that the runs check and, at the end, that the     *)
(* protocol implements ContractSigning.                                    *)
(***************************************************************************)
EXTENDS NegotiationInvariant, TLAPS

(***************************************************************************)
(* Lemmas about the records.                                               *)
(***************************************************************************)

\* The outcome of a decision is a well-formed record with the same counterpart.
LEMMA DecidedType ==
  ASSUME NEW r \in Records, NEW s \in States, NEW a \in Agreements \cup {NoAgr}
  PROVE  /\ Decided(r, s, a) \in Records
         /\ Decided(r, s, a).peer = r.peer
BY DEF Decided, Records

\* Every message announces a state.
LEMMA ReachedType == \A kind \in Kinds : Reached(kind) \in States
BY DEF Kinds, Reached, States

\* The sender's record after its answer is well formed.
LEMMA AcknowledgedType ==
  ASSUME NEW r \in Records, NEW kind \in Kinds, NEW y \in Pids
  PROVE  /\ Acknowledged(r, kind, y) \in Records
         /\ Acknowledged(r, kind, y).peer =
              IF kind \in {"request", "counter"} THEN y ELSE r.peer
BY ReachedType DEF Acknowledged, Records

\* The receiver's record after a message is well formed.
LEMMA AcceptedType ==
  ASSUME NEW r \in Records, NEW kind \in Kinds, NEW a \in Agreements \cup {NoAgr}
  PROVE  /\ Accepted(r, kind, a) \in Records
         /\ Accepted(r, kind, a).peer = r.peer
BY ReachedType DEF Accepted, Records

\* A new record is well formed.
LEMMA NewType ==
  /\ NewConsumer \in Records
  /\ \A c \in CPids : NewProvider(c) \in Records
BY DEF NewConsumer, NewProvider, Records, States, Pids

\* What the receiver's record becomes.
LEMMA AcceptedFacts ==
  ASSUME NEW r \in Records, NEW kind \in Kinds, NEW a \in Agreements \cup {NoAgr}
  PROVE  /\ Accepted(r, kind, a).st = Reached(kind)
         /\ Accepted(r, kind, a).sent
         /\ Accepted(r, kind, a).peer = r.peer
         /\ kind = "agreement" => Accepted(r, kind, a).agr = a
         /\ kind \notin {"agreement", "termination"} => Accepted(r, kind, a).agr = r.agr
BY DEF Accepted, Records

\* What the sender's record is to become.
LEMMA AcknowledgedFacts ==
  ASSUME NEW r \in Records, NEW kind \in Kinds, NEW y
  PROVE  /\ Acknowledged(r, kind, y).st = Reached(kind)
         /\ Acknowledged(r, kind, y).sent
         /\ kind \notin {"request", "counter"} => Acknowledged(r, kind, y).peer = r.peer
         /\ Acknowledged(r, kind, y).agr = r.agr
BY DEF Acknowledged, Records

\* A message's name is that of the state it announces, but for these.
LEMMA ReachedFacts ==
  /\ Reached("offer") = "offered" /\ Reached("accepted") = "accepted"
  /\ Reached("agreement") = "agreed" /\ Reached("verification") = "verified"
  /\ Reached("finalized") = "finalized" /\ Reached("termination") = "terminated"
BY DEF Reached

(***************************************************************************)
(* Typing.                                                                 *)
(***************************************************************************)

\* The initial state is well typed.
LEMMA InitType == Init => TypeOK
BY RecordAssumption, ProtocolAssumption DEF Init, TypeOK, Phases, Exists

\* A new consumer record keeps the types.
LEMMA NegotiateType ==
  ASSUME TypeOK, NEW c \in CPids, Negotiate(c)
  PROVE  TypeOK'
BY NewType, RecordAssumption
DEF TypeOK, Negotiate, Exists, Pids, Peers, NewConsumer, Records

\* Starting a round keeps the types.
LEMMA StartTickType ==
  ASSUME TypeOK, NEW k \in Connectors, StartTick(k)
  PROVE  TypeOK'
BY DEF TypeOK, StartTick, HasWork, Exists, Phases

\* A decision draws an agreement or none.
LEMMA DecideOutcome ==
  ASSUME TypeOK, NEW x \in Pids, NEW s \in States, Decide(x, s)
  PROVE  \E a \in Agreements \cup {NoAgr} :
           /\ result' = [result EXCEPT ![x] = Decided(neg[x], s, a)]
           /\ minted' \in 0..MaxMinted
<1>1. CASE s = "agreed"
  <2>1. Fresh(x) \in Agreements
    <3>1. x \in PPids
      BY <1>1 DEF Decide, Decides, ConsumerDecides, ConsumerScript, Pids
    <3> QED
      BY <1>1, <3>1, RecordAssumption DEF Decide, Fresh, Agreements, TypeOK
  <2> QED
    BY <1>1, <2>1, RecordAssumption DEF Decide, TypeOK
<1>2. CASE s # "agreed"
  BY <1>2 DEF Decide, TypeOK
<1> QED
  BY <1>1, <1>2

\* Whatever the tick decides keeps the types.
LEMMA DecideType ==
  ASSUME TypeOK, NEW x \in Pids, NEW s \in States, Decide(x, s)
  PROVE  TypeOK'
<1>1. neg[x] \in Records /\ neg[x].peer \in Peers(x) /\ Exists(x)
  BY DEF TypeOK, Exists, Decide
<1>2. PICK a \in Agreements \cup {NoAgr} :
        /\ result' = [result EXCEPT ![x] = Decided(neg[x], s, a)]
        /\ minted' \in 0..MaxMinted
  BY DecideOutcome
<1>3. Decided(neg[x], s, a) \in Records /\ Decided(neg[x], s, a).peer = neg[x].peer
  BY <1>1, DecidedType
<1> QED
  BY <1>1, <1>2, <1>3, RecordAssumption DEF TypeOK, Decide, Exists, Phases

\* Posting keeps the types.
LEMMA PostType ==
  ASSUME TypeOK, NEW x \in Pids, NEW kind \in Kinds, Post(x, kind)
  PROVE  TypeOK'
<1> DEFINE m == [kind |-> kind, from |-> x, to |-> neg[x].peer,
                 agr  |-> IF kind = "agreement" THEN neg[x].agr ELSE NoAgr,
                 live |-> TRUE]
<1>1. neg[x] \in Records /\ neg[x].peer \in Peers(x) /\ Exists(x)
  BY DEF TypeOK, Exists, Post
<1>2. m \in Messages
  BY <1>1 DEF Messages, Records
<1>3. kind = "request" <=> neg[x].peer = NoPid
  BY <1>1, RecordAssumption
  DEF Post, Posts, ConsumerPosts, ProviderPosts, Peers, Pids
<1>4. net' = net \cup {m} /\ UNCHANGED <<neg, result, minted, faults>>
  BY DEF Post
<1>5. \A n \in net' : /\ Exists(n.from)'
                      /\ n.to \in Peers(n.from)
                      /\ n.kind = "request" <=> n.to = NoPid
  BY <1>1, <1>3, <1>4 DEF TypeOK, Exists
<1> HIDE DEF m
<1> QED
  BY <1>1, <1>2, <1>4, <1>5 DEF TypeOK, Post, Exists, Phases

\* A post that finds no route keeps the types.
LEMMA PostNowhereType ==
  ASSUME TypeOK, NEW x \in Pids, NEW kind \in Kinds, PostNowhere(x, kind)
  PROVE  TypeOK'
BY DEF TypeOK, PostNowhere, Exists, Phases

\* Saving an outcome keeps the types.
LEMMA SaveType ==
  ASSUME TypeOK, NEW x \in Pids, Save(x)
  PROVE  TypeOK'
BY DEF TypeOK, Save, Exists, Phases

\* Answering a message with an outcome of its sender's kind keeps the types of
\* everything but the records, as long as none of these is removed.
LEMMA AnswerType ==
  ASSUME TypeOK, NEW m \in net, NEW outcome \in Records \cup {Absent},
         outcome # Absent => outcome.peer \in Peers(m.from),
         Answer(m, outcome), \A x \in Pids : Exists(x) => Exists(x)'
  PROVE  /\ phase' \in [Pids -> Phases]
         /\ result' \in [Pids -> Records \cup {Absent}]
         /\ net' \subseteq Messages
         /\ \A x \in Pids : /\ result'[x] # Absent => result'[x].peer \in Peers(x)
                            /\ phase'[x] # "idle" => Exists(x)'
         /\ \A n \in net' : /\ Exists(n.from)'
                            /\ n.to \in Peers(n.from)
                            /\ n.kind = "request" <=> n.to = NoPid
<1>1. m.from \in Pids /\ net' \subseteq net /\ Exists(m.from)
  BY DEF TypeOK, Messages, Answer
<1>2. \A n \in net : n.from \in Pids
  BY DEF TypeOK, Messages
<1>3. CASE m.live
  BY <1>1, <1>2, <1>3 DEF TypeOK, Answer, Phases
<1>4. CASE ~m.live
  BY <1>1, <1>2, <1>4 DEF TypeOK, Answer
<1> QED
  BY <1>3, <1>4

\* A message's fields, and what is known of its two ends.
LEMMA MessageType ==
  ASSUME TypeOK, NEW m \in net
  PROVE  /\ m.kind \in Kinds /\ m.from \in Pids /\ m.live \in BOOLEAN
         /\ m.agr \in Agreements \cup {NoAgr}
         /\ neg[m.from] \in Records /\ neg[m.from].peer \in Peers(m.from)
         /\ m.kind = "request" => m.from \in CPids
         /\ m.kind # "request" => m.to \in Pids /\ m.to \in Peers(m.from)
BY RecordAssumption DEF TypeOK, Messages, Exists, Peers, Pids

\* An initial contract request keeps the types.
LEMMA ContractRequestType ==
  ASSUME TypeOK, NEW m \in net, NEW p \in PPids, ContractRequest(m, p)
  PROVE  TypeOK'
<1> DEFINE r == Acknowledged(neg[m.from], m.kind, p)
<1>1. p \in Pids /\ m.from \in CPids /\ m.kind = "request"
  BY MessageType DEF Pids, ContractRequest
<1>2. r \in Records /\ r.peer = p /\ p \in Peers(m.from)
  BY <1>1, MessageType, AcknowledgedType DEF Peers
<1>3. NewProvider(m.from) \in Records /\ m.from \in Peers(p) /\ NewProvider(m.from).peer = m.from
  BY <1>1, NewType, RecordAssumption DEF Peers, NewProvider
<1>4. neg' = [neg EXCEPT ![p] = NewProvider(m.from)] /\ Answer(m, r)
  BY DEF ContractRequest
<1> HIDE DEF r
<1>5. \A x \in Pids : Exists(x) => Exists(x)'
  BY <1>1, <1>3, <1>4, RecordAssumption DEF TypeOK, Exists
<1>6. /\ neg' \in [Pids -> Records \cup {Absent}]
      /\ \A x \in Pids : Exists(x)' => neg'[x].peer \in Peers(x)
  BY <1>1, <1>3, <1>4 DEF TypeOK, Exists
<1>7. minted' \in 0..MaxMinted /\ faults' \in 0..MaxFaults
  BY DEF TypeOK, ContractRequest
<1> QED
  BY <1>2, <1>4, <1>5, <1>6, <1>7, AnswerType DEF TypeOK

\* An accepted event keeps the types.
LEMMA AcceptEventType ==
  ASSUME TypeOK, NEW m \in net, AcceptEvent(m)
  PROVE  TypeOK'
<1> DEFINE r == Acknowledged(neg[m.from], m.kind, m.to)
           a == Accepted(neg[m.to], m.kind, m.agr)
<1>1. /\ m.to \in Pids /\ m.to \in Peers(m.from)
      /\ neg[m.to] \in Records /\ neg[m.to].peer \in Peers(m.to)
  BY MessageType DEF AcceptEvent, TypeOK, Exists
<1>2. r \in Records /\ r.peer \in Peers(m.from)
  <2>1. m.kind \in Kinds /\ neg[m.from] \in Records /\ neg[m.from].peer \in Peers(m.from)
    BY MessageType
  <2>2. /\ r \in Records
        /\ r.peer = IF m.kind \in {"request", "counter"} THEN m.to ELSE neg[m.from].peer
    BY <1>1, <2>1, AcknowledgedType
  <2> QED
    BY <1>1, <2>1, <2>2
<1>3. a \in Records /\ a.peer = neg[m.to].peer
  BY <1>1, MessageType, AcceptedType
<1>4. neg' = [neg EXCEPT ![m.to] = a] /\ Answer(m, r)
  BY <1>1 DEF AcceptEvent, TypeOK
<1> HIDE DEF r, a
<1>5. \A x \in Pids : Exists(x) => Exists(x)'
  BY <1>1, <1>3, <1>4, RecordAssumption DEF TypeOK, Exists
<1>6. /\ neg' \in [Pids -> Records \cup {Absent}]
      /\ \A x \in Pids : Exists(x)' => neg'[x].peer \in Peers(x)
  BY <1>1, <1>3, <1>4 DEF TypeOK, Exists
<1>7. minted' \in 0..MaxMinted /\ faults' \in 0..MaxFaults
  BY DEF TypeOK, AcceptEvent
<1> QED
  BY <1>2, <1>4, <1>5, <1>6, <1>7, AnswerType DEF TypeOK

\* A rejected event and a lost request keep the types.
LEMMA NoOutcomeType ==
  ASSUME TypeOK, NEW m \in net, Answer(m, Absent), UNCHANGED <<neg, minted>>,
         faults' \in 0..MaxFaults
  PROVE  TypeOK'
<1>1. \A x \in Pids : Exists(x) => Exists(x)'
  BY DEF Exists
<1> QED
  BY <1>1, AnswerType DEF TypeOK, Exists

\* A lost answer keeps the types.
LEMMA LoseAnswerType ==
  ASSUME TypeOK, NEW m \in net, LoseAnswer(m)
  PROVE  TypeOK'
<1> DEFINE g == [m EXCEPT !.live = FALSE]
<1>1. g \in Messages /\ g.from = m.from /\ g.to = m.to /\ g.kind = m.kind
  BY DEF TypeOK, Messages
<1>2. net' = (net \ {m}) \cup {g} /\ phase' = [phase EXCEPT ![m.from] = "done"]
  BY DEF LoseAnswer
<1>3. faults' \in 0..MaxFaults
  BY ProtocolAssumption DEF TypeOK, LoseAnswer
<1> HIDE DEF g
<1> QED
  BY <1>1, <1>2, <1>3, MessageType DEF TypeOK, LoseAnswer, Exists, Phases

\* What a restart leaves of the rounds, the outcomes and the messages.
LEMMA RestartEffect ==
  ASSUME TypeOK, NEW k \in Connectors, Restart(k)
  PROVE  /\ phase' \in [Pids -> Phases]
         /\ \A x \in Pids : /\ phase'[x] # "idle" => Home[x] # k /\ Exists(x)
                            /\ phase[x] # "idle" /\ Home[x] # k => phase'[x] # "idle"
         /\ result' \in [Pids -> Records \cup {Absent}]
         /\ \A x \in Pids : result'[x] # Absent => result'[x] = result[x] /\ Home[x] # k
         /\ net' \subseteq Messages
         /\ \A m \in net' : /\ \E n \in net : /\ m.kind = n.kind /\ m.from = n.from
                                            /\ m.to = n.to /\ m.agr = n.agr
                            /\ m.live => m \in net /\ Dest(m) # k /\ Home[m.from] # k
<1> DEFINE ghost(m) == [m EXCEPT !.live = @ /\ Home[m.from] # k]
<1>1. \A m \in net : /\ ghost(m) \in Messages /\ ghost(m).from = m.from
                     /\ ghost(m).to = m.to /\ ghost(m).kind = m.kind
                     /\ ghost(m).agr = m.agr
                     /\ ghost(m).live => ghost(m) = m /\ Home[m.from] # k
  BY DEF TypeOK, Messages
<1>2. net' = {ghost(m) : m \in {n \in net : Dest(n) # k}}
  BY DEF Restart
<1>3. /\ phase' \in [Pids -> Phases]
      /\ \A x \in Pids : /\ phase'[x] # "idle" => Home[x] # k /\ Exists(x)
                         /\ phase[x] # "idle" /\ Home[x] # k => phase'[x] # "idle"
  BY DEF TypeOK, Restart, Phases
<1>4. /\ result' \in [Pids -> Records \cup {Absent}]
      /\ \A x \in Pids : result'[x] # Absent => result'[x] = result[x] /\ Home[x] # k
  BY DEF TypeOK, Restart
<1> HIDE DEF ghost
<1> QED
  BY <1>1, <1>2, <1>3, <1>4

\* A crash keeps the types.
LEMMA CrashType ==
  ASSUME TypeOK, NEW k \in Connectors, Crash(k)
  PROVE  TypeOK'
<1>1. Restart(k) /\ UNCHANGED <<neg, minted>> /\ faults' \in 0..MaxFaults
  BY ProtocolAssumption DEF TypeOK, Crash
<1>2. \A x \in Pids : result'[x] # Absent => result'[x].peer \in Peers(x)
  BY <1>1, RestartEffect DEF TypeOK
<1>3. /\ net' \subseteq Messages
      /\ \A m \in net' : /\ Exists(m.from)
                         /\ m.to \in Peers(m.from)
                         /\ m.kind = "request" <=> m.to = NoPid
  BY <1>1, RestartEffect DEF TypeOK
<1> QED
  BY <1>1, <1>2, <1>3, RestartEffect DEF TypeOK, Exists

\* Every step keeps the types.
LEMMA NextType == TypeOK /\ [Next]_vars => TypeOK'
<1> SUFFICES ASSUME TypeOK, [Next]_vars PROVE TypeOK'
  OBVIOUS
<1>1. ASSUME NEW c \in CPids, Negotiate(c) PROVE TypeOK'
  BY <1>1, NegotiateType
<1>2. ASSUME NEW k \in Connectors, Loop(k) PROVE TypeOK'
  BY <1>2, StartTickType, DecideType, PostType, PostNowhereType, SaveType DEF Loop
<1>3. ASSUME NEW m \in net, Deliver(m) PROVE TypeOK'
  <2>1. CASE RejectEvent(m)
    BY <2>1, NoOutcomeType DEF RejectEvent, TypeOK
  <2> QED
    BY <1>3, <2>1, ContractRequestType, AcceptEventType DEF Deliver
<1>4. CASE Fault
  <2>1. ASSUME NEW m \in net, LoseRequest(m) PROVE TypeOK'
    BY <2>1, NoOutcomeType, ProtocolAssumption DEF LoseRequest, TypeOK
  <2> QED
    BY <1>4, <2>1, LoseAnswerType, CrashType DEF Fault
<1>5. CASE UNCHANGED vars
  BY <1>5 DEF vars, TypeOK, Exists
<1> QED
  BY <1>1, <1>2, <1>3, <1>4, <1>5 DEF Next

\* The records, outcomes and messages of every reachable state are well formed.
THEOREM Typing == Spec => []TypeOK
BY InitType, NextType, PTL DEF Spec

(***************************************************************************)
(* Steps that change no record: outcomes are kept or dropped, messages are *)
(* kept, dropped or no longer waited for; without a fault outcomes are     *)
(* kept, and so is what is waited for.                                     *)
(***************************************************************************)

\* Where an answer leaves the waits and the outcomes.
LEMMA AnswerEffect ==
  ASSUME TypeOK, WaitInv, \A x \in Pids : result[x] # Absent => phase[x] = "done",
         NEW m \in net, NEW r, Answer(m, r)
  PROVE  /\ net' = net \ {m}
         /\ m.live => /\ phase[m.from] = "posting" /\ Posts(m.from, m.kind)
                      /\ phase'[m.from] = "done" /\ result'[m.from] = r
         /\ \A x \in Pids : (m.live => x # m.from) =>
              phase'[x] = phase[x] /\ result'[x] = result[x]
         /\ \A n \in net' : n.live => phase'[n.from] = "posting"
         /\ \A x \in Pids : phase[x] = "posting" => result[x] = Absent
<1>1. m.from \in Pids /\ \A n \in net : n.from \in Pids
  BY DEF TypeOK, Messages
<1> QED
  BY <1>1 DEF Answer, WaitInv, TypeOK

\* A restart drops outcomes and waits, of the connector that crashed and of
\* those that waited for it.
LEMMA RestartWaits ==
  ASSUME TypeOK, WaitInv, \A x \in Pids : result[x] # Absent => phase[x] = "done",
         NEW k \in Connectors, Restart(k)
  PROVE  /\ \A x \in Pids : result'[x] # Absent => phase'[x] = "done"
         /\ \A m \in net' : m.live => phase'[m.from] = "posting"
<1>1. \A x \in Pids : result'[x] # Absent => phase'[x] = "done"
  BY DEF Restart, TypeOK
<1>2. ASSUME NEW m \in net', m.live PROVE phase'[m.from] = "posting"
  <2>1. m \in net /\ Dest(m) # k /\ Home[m.from] # k
    BY <1>2, RestartEffect
  <2>2. m.from \in Pids /\ phase[m.from] = "posting"
        /\ \A n \in net : n.live /\ n.from = m.from => n = m
    BY <1>2, <2>1 DEF WaitInv, TypeOK, Messages
  <2> QED
    BY <2>1, <2>2 DEF Restart
<1> QED
  BY <1>1, <1>2

Orderly == TypeOK /\ WaitInv /\ \A x \in Pids : result[x] # Absent => phase[x] = "done"

Quiet ==
  /\ UNCHANGED neg
  /\ \A x \in Pids : result'[x] # Absent => result'[x] = result[x] /\ phase'[x] = "done"
  /\ \A m \in net' : /\ \E n \in net : /\ m.kind = n.kind /\ m.from = n.from
                                       /\ m.to = n.to /\ m.agr = n.agr
                     /\ m.live => m \in net /\ phase'[m.from] = "posting"
  /\ faults' = 0 => /\ faults = 0 /\ net' \subseteq net
                    /\ \A x \in Pids : result'[x] = result[x]

\* Who is on which side.
LEMMA SideFacts ==
  /\ \A c \in CPids : c \in Pids /\ c \notin PPids /\ c # NoPid
  /\ \A p \in PPids : p \in Pids /\ p \notin CPids /\ p # NoPid
  /\ \A x \in Pids : x \in CPids \/ x \in PPids
  /\ Absent \notin Records
BY RecordAssumption DEF Pids

\* Starting a round touches idle records only.
LEMMA StartTickQuiet ==
  ASSUME Orderly, NEW k \in Connectors, StartTick(k)
  PROVE  Quiet
<1>1. \A x \in Pids : Home[x] = k => phase[x] = "idle"
  BY DEF StartTick, Busy, Orderly, TypeOK, Phases
<1>2. \A x \in Pids : result'[x] # Absent => result'[x] = result[x] /\ phase'[x] = "done"
  BY <1>1 DEF StartTick, Orderly
<1>3. \A m \in net' : m \in net /\ (m.live => phase'[m.from] = "posting")
  BY <1>1 DEF StartTick, Orderly, WaitInv, TypeOK, Messages
<1> QED
  BY <1>2, <1>3 DEF Quiet, StartTick

\* A tick whose post finds no route has no outcome.
LEMMA PostNowhereQuiet ==
  ASSUME Orderly, NEW x \in Pids, NEW kind \in Kinds, PostNowhere(x, kind)
  PROVE  Quiet
<1>1. \A y \in Pids : result'[y] # Absent => result'[y] = result[y] /\ phase'[y] = "done"
  BY DEF PostNowhere, Orderly, TypeOK
<1>2. \A m \in net' : m \in net /\ (m.live => phase'[m.from] = "posting")
  BY DEF PostNowhere, Orderly, WaitInv, TypeOK, Messages
<1> QED
  BY <1>1, <1>2 DEF Quiet, PostNowhere

\* A message that ends without an outcome: it is rejected or lost.
LEMMA NoOutcomeQuiet ==
  ASSUME Orderly, NEW m \in net, Answer(m, Absent), UNCHANGED neg, faults' \in {faults, faults + 1}
  PROVE  Quiet
<1>1. \A x \in Pids : /\ result'[x] # Absent => result'[x] = result[x] /\ phase'[x] = "done"
                      /\ result'[x] = result[x]
  <2>1. m.from \in Pids
    BY DEF Orderly, TypeOK, Messages
  <2> QED
    BY <2>1, AnswerEffect DEF Orderly
<1>2. net' \subseteq net /\ \A n \in net' : n.live => phase'[n.from] = "posting"
  BY AnswerEffect DEF Orderly
<1>3. faults' = 0 => faults = 0
  BY ProtocolAssumption DEF Orderly, TypeOK
<1> QED
  BY <1>1, <1>2, <1>3 DEF Quiet

\* An answer that gets lost: the sender gives up, the message stays.
LEMMA LoseAnswerQuiet ==
  ASSUME Orderly, NEW m \in net, LoseAnswer(m)
  PROVE  Quiet
<1> DEFINE g == [m EXCEPT !.live = FALSE]
<1>1. m.from \in Pids /\ m.live /\ \A n \in net : n.from \in Pids
  BY DEF LoseAnswer, Orderly, TypeOK, Messages
<1>2. \A x \in Pids : result'[x] # Absent => result'[x] = result[x] /\ phase'[x] = "done"
  BY <1>1 DEF LoseAnswer, Orderly, TypeOK
<1>3. /\ g.kind = m.kind /\ g.from = m.from /\ g.to = m.to /\ g.agr = m.agr /\ ~g.live
      /\ net' = (net \ {m}) \cup {g}
  BY DEF LoseAnswer, Orderly, TypeOK, Messages
<1> HIDE DEF g
<1>4. \A n \in net \ {m} : n.live => phase'[n.from] = "posting"
  BY <1>1 DEF LoseAnswer, Orderly, WaitInv, TypeOK
<1>5. faults' # 0
  BY ProtocolAssumption DEF LoseAnswer, Orderly, TypeOK
<1> QED
  BY <1>2, <1>3, <1>4, <1>5 DEF Quiet, LoseAnswer

\* A restart drops outcomes and waits, of the connector that crashed and of
\* those that waited for it.
LEMMA CrashQuiet ==
  ASSUME Orderly, NEW k \in Connectors, Crash(k)
  PROVE  Quiet
<1>1. Restart(k) /\ UNCHANGED neg
  BY DEF Crash
<1>2. \A x \in Pids : result'[x] # Absent => result'[x] = result[x] /\ phase'[x] = "done"
  BY <1>1, RestartEffect, RestartWaits DEF Orderly
<1>3. \A m \in net' : /\ \E n \in net : /\ m.kind = n.kind /\ m.from = n.from
                                        /\ m.to = n.to /\ m.agr = n.agr
                      /\ m.live => m \in net /\ phase'[m.from] = "posting"
  BY <1>1, RestartEffect, RestartWaits DEF Orderly
<1>4. faults' # 0
  BY ProtocolAssumption DEF Crash, Orderly, TypeOK
<1> QED
  BY <1>1, <1>2, <1>3, <1>4 DEF Quiet

\* The other steps.
Stir ==
  \/ \E c \in CPids : Negotiate(c)
  \/ \E x \in Pids : \/ \E s \in States : Decide(x, s)
                     \/ \E kind \in Kinds : Post(x, kind)
                     \/ Save(x)
  \/ \E m \in net : AcceptEvent(m) \/ \E p \in PPids : ContractRequest(m, p)

\* Every step is one or the other.
LEMMA StepCases ==
  ASSUME Orderly, [Next]_vars
  PROVE  Quiet \/ Stir
<1>1. ASSUME NEW k \in Connectors, Loop(k) PROVE Quiet \/ Stir
  BY <1>1, StartTickQuiet, PostNowhereQuiet DEF Loop, Stir
<1>2. ASSUME NEW m \in net, Deliver(m) PROVE Quiet \/ Stir
  <2>1. CASE RejectEvent(m)
    BY <2>1, NoOutcomeQuiet DEF RejectEvent
  <2> QED
    BY <1>2, <2>1 DEF Deliver, Stir
<1>3. CASE Fault
  <2>1. ASSUME NEW m \in net, LoseRequest(m) PROVE Quiet
    BY <2>1, NoOutcomeQuiet DEF LoseRequest
  <2> QED
    BY <1>3, <2>1, LoseAnswerQuiet, CrashQuiet DEF Fault
<1>4. CASE UNCHANGED vars
  BY <1>4 DEF vars, Orderly, WaitInv, Quiet
<1> QED
  BY <1>1, <1>2, <1>3, <1>4 DEF Next, Stir

(***************************************************************************)
(* Whatever the scripts.                                                   *)
(***************************************************************************)

\* The rounds are in order.
LEMMA RoundsOrderly == RoundsInv => Orderly
BY DEF RoundsInv, RoundInv, Orderly

\* A record and its counterpart.
LEMMA RecordEnds ==
  ASSUME RoundsInv, NEW x \in Pids, Exists(x)
  PROVE  /\ neg[x] \in Records /\ result[x] \in Records \cup {Absent}
         /\ x \in PPids => /\ neg[x].peer \in CPids /\ Exists(neg[x].peer)
                           /\ IsPartner(x, neg[x].peer) /\ Home[x] = Provider[neg[x].peer]
         /\ x \in CPids => /\ neg[x].peer \in PPids \cup {NoPid}
                           /\ neg[x].peer # NoPid => IsPartner(neg[x].peer, x)
<1>1. neg[x] \in Records /\ result[x] \in Records \cup {Absent} /\ neg[x].peer \in Peers(x)
  BY DEF RoundsInv, TypeOK, Exists
<1> QED
  BY <1>1, SideFacts DEF RoundsInv, PartnerInv, IsPartner, Peers

\* A message and the records at its ends.
LEMMA MessageEnds ==
  ASSUME RoundsInv, NEW m \in net
  PROVE  /\ m.kind \in Kinds /\ m.from \in Pids /\ m.live \in BOOLEAN
         /\ m.agr \in Agreements \cup {NoAgr}
         /\ Exists(m.from) /\ neg[m.from] \in Records
         /\ m.kind = "request" <=> m.to = NoPid
         /\ m.kind = "request" => m.from \in CPids
         /\ m.kind # "request" => /\ m.to \in Pids /\ Exists(m.to) /\ neg[m.to] \in Records
                                  /\ m.to = neg[m.from].peer
         /\ m.kind # "request" /\ m.from \in CPids => m.to \in PPids /\ IsPartner(m.to, m.from)
         /\ m.kind # "request" /\ m.from \in PPids => m.to \in CPids /\ IsPartner(m.from, m.to)
<1>1. /\ m.kind \in Kinds /\ m.from \in Pids /\ m.live \in BOOLEAN
      /\ m.agr \in Agreements \cup {NoAgr} /\ Exists(m.from) /\ neg[m.from] \in Records
      /\ m.kind = "request" <=> m.to = NoPid
      /\ m.kind = "request" => m.from \in CPids
  BY MessageType DEF RoundsInv, TypeOK
<1>2. ASSUME m.kind # "request"
      PROVE  /\ m.to \in Pids /\ Exists(m.to) /\ neg[m.to] \in Records /\ m.to = neg[m.from].peer
             /\ m.from \in CPids => m.to \in PPids /\ IsPartner(m.to, m.from)
             /\ m.from \in PPids => m.to \in CPids /\ IsPartner(m.from, m.to)
  <2>1. m.to = neg[m.from].peer /\ m.to # NoPid
    BY <1>1, <1>2 DEF RoundsInv, PartnerInv
  <2>2. m.from \in CPids => m.to \in PPids /\ IsPartner(m.to, m.from)
    BY <1>1, <2>1, RecordEnds
  <2>3. m.from \in PPids => m.to \in CPids /\ IsPartner(m.from, m.to) /\ Exists(m.to)
    BY <1>1, <2>1, RecordEnds
  <2>4. m.to \in Pids /\ Exists(m.to)
    BY <1>1, <2>2, <2>3, SideFacts DEF IsPartner
  <2> QED
    BY <2>1, <2>2, <2>3, <2>4, RecordEnds
<1> QED
  BY <1>1, <1>2

\* What a tick decides.
LEMMA ScriptDecides ==
  ASSUME RoundsInv, NEW x \in Pids, Exists(x), NEW s \in States, Decides(x, s)
  PROVE  LET n == neg[x]
         IN  /\ x \in CPids =>
                  \/ n.st = "requested" /\ n.sent /\ s = "terminated"
                  \/ n.st = "offered" /\ s \in {"requested", "accepted", "terminated"}
                  \/ n.st = "agreed" /\ s = "terminated"
             /\ x \in PPids =>
                  \/ n.st = "requested" /\ s \in {"offered", "terminated"}
                  \/ n.st = "requested" /\ s = "agreed" /\ Target[n.peer] \in AgreesAtOnce
                  \/ n.st \in {"offered", "accepted"} /\ s = "terminated"
                  \/ n.st = "accepted" /\ s = "agreed"
                  \/ n.st = "verified" /\ s = "terminated" /\ Target[n.peer] = "ACN0207"
<1>1. CASE x \in CPids
  BY <1>1, SideFacts DEF Decides, ConsumerDecides, ConsumerScript
<1>2. CASE x \in PPids
  BY <1>2, SideFacts DEF Decides, TargetOf, ProviderDecides, ProviderScript
<1> QED
  BY <1>1, <1>2, SideFacts

\* What a tick posts.
LEMMA ScriptPosts ==
  ASSUME NEW x \in Pids, NEW kind \in Kinds, Posts(x, kind)
  PROVE  LET n == neg[x]
         IN  /\ x \in CPids =>
                  \/ n.st = "requested" /\ ~n.sent /\ n.peer = NoPid /\ kind = "request"
                  \/ n.st = "requested" /\ ~n.sent /\ n.peer # NoPid /\ kind = "counter"
                  \/ n.st = "accepted" /\ ~n.sent /\ kind = "accepted"
                  \/ n.st = "agreed" /\ kind = "verification"
                  \/ n.st = "terminated" /\ ~n.sent /\ kind = "termination"
             /\ x \in PPids =>
                  \/ n.st = "offered" /\ ~n.sent /\ kind = "offer"
                  \/ n.st = "agreed" /\ ~n.sent /\ kind = "agreement"
                  \/ n.st = "verified" /\ kind = "finalized"
                  \/ n.st = "terminated" /\ ~n.sent /\ kind = "termination"
BY SideFacts DEF Posts, ConsumerPosts, ProviderPosts

\* What a round can do with a record.
LEMMA ScriptOutcomes ==
  ASSUME RoundsInv, NEW x \in Pids, result[x] # Absent
  PROVE  LET n == neg[x]  r == result[x]
         IN  /\ Exists(x) /\ r \in Records
             /\ r.st = "requested" => r.peer # NoPid
             /\ \/ r.peer = n.peer
                \/ x \in CPids /\ n.st = "requested" /\ n.peer = NoPid /\ IsPartner(r.peer, x)
             /\ x \in CPids =>
                  \/ n.st = "requested" /\ ~n.sent /\ r.st = "requested" /\ r.sent
                  \/ n.st \in {"requested", "offered", "agreed", "terminated"} /\ r.st = "terminated"
                  \/ n.st = "offered" /\ r.st = "requested" /\ ~r.sent
                  \/ n.st = "offered" /\ r.st = "accepted"
                  \/ n.st = "accepted" /\ r.st = "accepted" /\ r.sent
                  \/ n.st = "agreed" /\ r.st = "verified" /\ r.agr = n.agr
             /\ x \in PPids =>
                  \/ n.st \in {"requested", "offered", "accepted", "terminated"} /\ r.st = "terminated"
                  \/ n.st = "requested" /\ r.st = "offered"
                  \/ n.st = "requested" /\ r.st = "agreed" /\ Target[n.peer] \in AgreesAtOnce
                  \/ n.st = "offered" /\ r.st = "offered" /\ r.sent
                  \/ n.st = "accepted" /\ r.st = "agreed"
                  \/ n.st = "agreed" /\ r.st = "agreed" /\ r.sent /\ r.agr = n.agr
                  \/ n.st = "verified" /\ r.st = "finalized" /\ r.agr = n.agr
                  \/ n.st = "verified" /\ r.st = "terminated" /\ Target[n.peer] = "ACN0207"
<1>1. PICK r \in Records : r = result[x]
  BY DEF RoundsInv, TypeOK
<1>2. Exists(x) /\ OutcomeOf(x, r)
  BY <1>1 DEF RoundsInv, TypeOK, RoundInv
<1>3. CASE r.sent
  <2>1. PICK kind \in Kinds : Posts(x, kind) /\ r.st = Reached(kind)
    BY <1>2, <1>3 DEF OutcomeOf
  <2>2. r.agr = neg[x].agr /\ Reached("request") = "requested" /\ Reached("counter") = "requested"
    BY <1>2, <1>3 DEF OutcomeOf, Reached
  <2> QED
    BY <1>1, <1>2, <1>3, <2>1, <2>2, ScriptPosts, ReachedFacts, SideFacts DEF OutcomeOf
<1>4. CASE ~r.sent
  <2>1. Decides(x, r.st) /\ r.st \in States
    BY <1>2, <1>4 DEF OutcomeOf, Records
  <2> QED
    BY <1>1, <1>2, <1>4, <2>1, ScriptDecides, SideFacts DEF OutcomeOf
<1> QED
  BY <1>1, <1>3, <1>4 DEF Records

\* What no step takes back: a record, and its counterpart once it has one.
Stays == \A x \in Pids : Exists(x) => /\ Exists(x)'
                                      /\ neg[x].peer # NoPid => neg'[x].peer = neg[x].peer

\* So partners stay partners, and an unchanged record's outcome its outcome.
LEMMA StaysFacts ==
  ASSUME RoundsInv, Stays
  PROVE  /\ \A p, c : IsPartner(p, c) => IsPartner(p, c)'
         /\ \A x \in Pids : \A r : neg'[x] = neg[x] /\ OutcomeOf(x, r) => OutcomeOf(x, r)'
<1>1. ASSUME NEW p, NEW c, IsPartner(p, c) PROVE IsPartner(p, c)'
  <2>1. p \in Pids /\ Exists(p) /\ neg[p].peer # NoPid
    BY <1>1, RecordEnds, SideFacts DEF IsPartner
  <2> QED
    BY <1>1, <2>1 DEF Stays, IsPartner
<1> QED
  BY <1>1 DEF OutcomeOf, Decides, Posts, TargetOf

\* A step that changes one record at most, neither waited for nor, from then on,
\* with an outcome.
LEMMA RoundsKept ==
  ASSUME RoundsInv, TypeOK', NEW z \in Pids, \A x \in Pids : x # z => neg'[x] = neg[x], Stays,
         Exists(z)',
         z \in PPids => Exists(neg'[z].peer) /\ Home[z] = Provider[neg'[z].peer],
         z \in CPids => IF neg'[z].peer = NoPid
                        THEN \/ neg'[z].st = "requested" /\ ~neg'[z].sent
                             \/ neg'[z].st \in {"terminated"} \cup Signed
                        ELSE IsPartner(neg'[z].peer, z),
         \A m \in net' : m \in net /\ (m.live => phase'[m.from] = "posting" /\ m.from # z),
         \A x \in Pids : result'[x] # Absent =>
           /\ phase'[x] = "done"
           /\ \/ result'[x] = result[x] /\ neg'[x] = neg[x]
              \/ OutcomeOf(x, result[x])'
  PROVE  RoundsInv'
<1> USE SideFacts
<1>1. WaitInv'
  <2>1. ASSUME NEW m \in net', m.live PROVE Posts(m.from, m.kind)'
    <3>1. m.from \in Pids /\ neg'[m.from] = neg[m.from] /\ Posts(m.from, m.kind)
      BY <2>1, MessageEnds DEF RoundsInv, WaitInv
    <3> QED
      BY <3>1 DEF Posts, TargetOf
  <2> QED
    BY <2>1 DEF RoundsInv, WaitInv
<1>2. PartnerInv'
  <2>1. ASSUME NEW p \in PPids, Exists(p)'
        PROVE  (Exists(neg[p].peer) /\ Home[p] = Provider[neg[p].peer])'
    <3>1. CASE p = z
      <4>1. neg'[z].peer \in Pids /\ Exists(neg'[z].peer) /\ Home[z] = Provider[neg'[z].peer]
        BY <2>1, <3>1 DEF TypeOK, Exists, Peers
      <4> QED
        BY <3>1, <4>1 DEF Stays, Exists
    <3>2. CASE p # z
      <4>1. Exists(p) /\ neg'[p] = neg[p]
        BY <2>1, <3>2 DEF Exists
      <4>2. neg[p].peer \in Pids /\ Exists(neg[p].peer) /\ Home[p] = Provider[neg[p].peer]
        BY <4>1, RecordEnds
      <4> QED
        BY <4>1, <4>2 DEF Stays
    <3> QED
      BY <3>1, <3>2
  <2>2. ASSUME NEW c \in CPids, Exists(c)', neg'[c].peer # NoPid
        PROVE  IsPartner(neg[c].peer, c)'
    <3>1. PICK q : q = neg'[c].peer
      OBVIOUS
    <3>2. IsPartner(q, c)
      BY <2>2, <3>1, RecordEnds DEF Exists
    <3> QED
      BY <3>1, <3>2, StaysFacts
  <2>3. ASSUME NEW m \in net', m.kind # "request" PROVE m.to = neg'[m.from].peer
    <3>1. m.from \in Pids /\ Exists(m.from) /\ m.to = neg[m.from].peer /\ m.to # NoPid
      BY <2>3, MessageEnds
    <3> QED
      BY <3>1 DEF Stays
  <2> QED
    BY <2>1, <2>2, <2>3 DEF PartnerInv
<1>3. KnowsInv'
  BY DEF RoundsInv, KnowsInv, Exists
<1>4. RoundInv'
  <2>1. ASSUME NEW x \in Pids, result'[x] # Absent PROVE OutcomeOf(x, result[x])'
    <3>1. CASE result'[x] = result[x] /\ neg'[x] = neg[x]
      <4>1. PICK r : r = result[x] /\ r = result'[x]
        BY <3>1
      <4>2. OutcomeOf(x, r)
        BY <2>1, <4>1 DEF RoundsInv, RoundInv
      <4> QED
        BY <3>1, <4>1, <4>2, StaysFacts
    <3> QED
      BY <2>1, <3>1
  <2> QED
    BY <2>1 DEF RoundInv
<1> QED
  BY <1>1, <1>2, <1>3, <1>4 DEF RoundsInv

\* Steps that change no record.
LEMMA QuietRounds ==
  ASSUME RoundsInv, TypeOK', Quiet
  PROVE  RoundsInv'
<1>1. WaitInv'
  BY DEF Quiet, RoundsInv, WaitInv, Posts, TargetOf
<1>2. PartnerInv' /\ KnowsInv'
  BY DEF Quiet, RoundsInv, PartnerInv, KnowsInv, IsPartner, Exists
<1>3. RoundInv'
  BY DEF Quiet, RoundsInv, RoundInv, OutcomeOf, Decides, Posts, TargetOf, IsPartner, Exists
<1> QED
  BY <1>1, <1>2, <1>3 DEF RoundsInv

\* A new consumer record is nobody's counterpart.
LEMMA NegotiateRounds ==
  ASSUME RoundsInv, TypeOK', NEW c \in CPids, Negotiate(c)
  PROVE  /\ RoundsInv' /\ Stays /\ ~Exists(c) /\ UNCHANGED <<result, net, faults>>
         /\ neg'[c].st = "requested" /\ \A x \in Pids : x # c => neg'[x] = neg[x]
<1> USE SideFacts
<1>1. /\ ~Exists(c) /\ neg'[c] = NewConsumer /\ UNCHANGED <<phase, result, net, faults>>
      /\ \A x \in Pids : x # c => neg'[x] = neg[x]
  BY DEF Negotiate, RoundsInv, TypeOK
<1>2. NewConsumer.st = "requested" /\ ~NewConsumer.sent /\ NewConsumer.peer = NoPid /\ NewConsumer # Absent
  BY NewType DEF NewConsumer
<1>3. Stays
  BY <1>1 DEF Stays, Exists
<1>4. \A m \in net : m.from # c /\ (m.live => phase[m.from] = "posting")
  BY <1>1, MessageEnds DEF RoundsInv, WaitInv
<1>5. \A x \in Pids : result[x] # Absent => phase[x] = "done" /\ x # c
  BY <1>1 DEF RoundsInv, RoundInv, TypeOK
<1>6. RoundsInv'
  BY <1>1, <1>2, <1>3, <1>4, <1>5, RoundsKept DEF Exists
<1> QED
  BY <1>1, <1>2, <1>3, <1>6

\* A decision becomes the outcome of a record that has neither an outcome nor a
\* message waited for.
LEMMA DecideRounds ==
  ASSUME RoundsInv, TypeOK', NEW x \in Pids, NEW s \in States, Decide(x, s)
  PROVE  /\ RoundsInv' /\ UNCHANGED <<neg, net, faults>>
         /\ result'[x] # Absent /\ \A y \in Pids : y # x => result'[y] = result[y]
<1> USE SideFacts
<1>1. Exists(x) /\ phase[x] = "due" /\ neg[x] \in Records /\ Decides(x, s)
  BY DEF Decide, RoundsInv, TypeOK, Exists
<1>2. PICK a \in Agreements \cup {NoAgr} : result' = [result EXCEPT ![x] = Decided(neg[x], s, a)]
  BY DecideOutcome DEF RoundsInv
<1>3. PICK r \in Records : r = Decided(neg[x], s, a)
  BY <1>1, DecidedType
<1>4. r.st = s /\ ~r.sent /\ r.peer = neg[x].peer
  BY <1>1, <1>3 DEF Decided, Records
<1>5. /\ UNCHANGED <<neg, net, faults>> /\ result'[x] = r /\ phase'[x] = "done"
      /\ \A y \in Pids : y # x => result'[y] = result[y] /\ phase'[y] = phase[y]
  BY <1>2, <1>3 DEF Decide, RoundsInv, TypeOK
<1>6. \A m \in net : m.live => m.from # x /\ m.from \in Pids
  BY <1>1, MessageEnds DEF RoundsInv, WaitInv
<1>7. WaitInv'
  BY <1>5, <1>6 DEF RoundsInv, WaitInv, Posts, TargetOf
<1>8. PartnerInv' /\ KnowsInv'
  BY <1>5 DEF RoundsInv, PartnerInv, KnowsInv, IsPartner, Exists
<1>9. OutcomeOf(x, r)
  <2>1. s = "requested" => neg[x].peer # NoPid
    BY <1>1, ScriptDecides, RecordEnds DEF RoundsInv, KnowsInv, Signed
  <2> QED
    BY <1>1, <1>4, <2>1 DEF OutcomeOf
<1>10. RoundInv'
  <2>1. Stays
    BY <1>5 DEF Stays, Exists
  <2> QED
    BY <1>5, <1>9, <2>1, StaysFacts DEF RoundsInv, RoundInv
<1> QED
  BY <1>5, <1>7, <1>8, <1>10 DEF RoundsInv

\* A posted message is the only one its sender waits for.
LEMMA PostRounds ==
  ASSUME RoundsInv, TypeOK', NEW x \in Pids, NEW kind \in Kinds, Post(x, kind)
  PROVE  /\ RoundsInv' /\ UNCHANGED <<neg, result, faults>> /\ Exists(x) /\ Posts(x, kind)
         /\ \A m \in net' : \/ m \in net
                            \/ /\ m.kind = kind /\ m.from = x /\ m.to = neg[x].peer /\ m.live
                               /\ kind = "agreement" => m.agr = neg[x].agr
<1> DEFINE g == [kind |-> kind, from |-> x, to |-> neg[x].peer,
                 agr  |-> IF kind = "agreement" THEN neg[x].agr ELSE NoAgr,
                 live |-> TRUE]
<1>1. Exists(x) /\ phase[x] = "due" /\ Posts(x, kind)
  BY DEF Post, RoundsInv, TypeOK
<1>2. /\ g.kind = kind /\ g.from = x /\ g.to = neg[x].peer /\ g.live
      /\ kind = "agreement" => g.agr = neg[x].agr
  OBVIOUS
<1>3. /\ net' = net \cup {g} /\ phase' = [phase EXCEPT ![x] = "posting"]
      /\ UNCHANGED <<neg, result, faults>>
  BY DEF Post
<1> HIDE DEF g
<1>4. \A m \in net : m.live => m.from # x /\ m.from \in Pids
  BY <1>1, MessageEnds DEF RoundsInv, WaitInv
<1>5. WaitInv'
  <2>1. \A m \in net' : m.live => phase'[m.from] = "posting" /\ Posts(m.from, m.kind)
    BY <1>1, <1>2, <1>3, <1>4 DEF RoundsInv, WaitInv, TypeOK
  <2>2. \A m, n \in net' : m.live /\ n.live /\ m.from = n.from => m = n
    BY <1>2, <1>3, <1>4 DEF RoundsInv, WaitInv
  <2> QED
    BY <1>3, <2>1, <2>2 DEF WaitInv, Posts, TargetOf
<1>6. PartnerInv' /\ KnowsInv'
  BY <1>2, <1>3 DEF RoundsInv, PartnerInv, KnowsInv, IsPartner, Exists
<1>7. RoundInv'
  <2>1. Stays
    BY <1>3 DEF Stays, Exists
  <2> QED
    BY <1>1, <1>3, <2>1, StaysFacts DEF RoundsInv, RoundInv, TypeOK
<1> QED
  BY <1>1, <1>2, <1>3, <1>5, <1>6, <1>7 DEF RoundsInv

\* A saved outcome.
LEMMA SaveRounds ==
  ASSUME RoundsInv, TypeOK', NEW x \in Pids, Save(x)
  PROVE  /\ RoundsInv' /\ Stays /\ Exists(x) /\ UNCHANGED <<net, faults>>
         /\ neg'[x] = IF result[x] = Absent THEN neg[x] ELSE result[x]
         /\ result'[x] = Absent
         /\ \A y \in Pids : y # x => neg'[y] = neg[y] /\ result'[y] = result[y]
<1> USE SideFacts
<1>1. /\ neg'[x] = (IF result[x] = Absent THEN neg[x] ELSE result[x])
      /\ result'[x] = Absent /\ Exists(x) /\ UNCHANGED <<net, faults>> /\ phase[x] = "done"
      /\ \A y \in Pids : y # x =>
           neg'[y] = neg[y] /\ result'[y] = result[y] /\ phase'[y] = phase[y]
  BY DEF Save, RoundsInv, TypeOK
<1>2. /\ neg'[x] # Absent
      /\ neg[x].peer # NoPid => neg'[x].peer = neg[x].peer
      /\ x \in CPids /\ neg'[x].peer # NoPid => IsPartner(neg'[x].peer, x)
      /\ x \in CPids /\ neg'[x].peer = NoPid =>
           \/ neg'[x].st = "requested" /\ ~neg'[x].sent
           \/ neg'[x].st \in {"terminated"} \cup Signed
  <2>1. CASE result[x] = Absent
    BY <1>1, <2>1, RecordEnds DEF RoundsInv, KnowsInv, Exists
  <2>2. CASE result[x] # Absent
    <3>1. PICK r \in Records : r = result[x] /\ r = neg'[x]
      BY <1>1, <2>2, ScriptOutcomes
    <3>2. /\ r.st = "requested" => r.peer # NoPid
          /\ \/ r.peer = neg[x].peer
             \/ neg[x].peer = NoPid /\ IsPartner(r.peer, x)
      BY <2>2, <3>1, ScriptOutcomes
    <3>3. x \in CPids /\ r.peer = NoPid => r.st \in {"terminated", "verified"}
      <4> SUFFICES ASSUME x \in CPids, r.peer = NoPid PROVE r.st \in {"terminated", "verified"}
        OBVIOUS
      <4>1. neg[x].peer = NoPid
        BY <3>2 DEF IsPartner
      <4>2. neg[x].st \in {"requested", "terminated"} \cup Signed
        BY <1>1, <4>1 DEF RoundsInv, KnowsInv
      <4> QED
        BY <2>2, <3>1, <3>2, <4>2, ScriptOutcomes DEF Signed
    <3> QED
      BY <1>1, <3>1, <3>2, <3>3, RecordEnds DEF Signed
  <2> QED
    BY <2>1, <2>2
<1>3. Stays
  BY <1>1, <1>2 DEF Stays, Exists
<1>4. x \in PPids => Exists(neg'[x].peer) /\ Home[x] = Provider[neg'[x].peer]
  BY <1>1, <1>2, RecordEnds
<1>5. \A m \in net : m.live => phase[m.from] = "posting" /\ m.from # x /\ m.from \in Pids
  BY <1>1, MessageEnds DEF RoundsInv, WaitInv
<1>6. RoundsInv'
  BY <1>1, <1>2, <1>3, <1>4, <1>5, RoundsKept DEF Exists, RoundsInv, RoundInv
<1> QED
  BY <1>1, <1>3, <1>6

\* A request is answered: the new record says nothing of any other, and the
\* consumer, if it waits, is told its id.
LEMMA ContractRequestRounds ==
  ASSUME RoundsInv, TypeOK', NEW m \in net, NEW p \in PPids, ContractRequest(m, p)
  PROVE  LET c == m.from
         IN  /\ RoundsInv' /\ Stays /\ UNCHANGED faults /\ net' = net \ {m}
             /\ c \in CPids /\ Exists(c) /\ ~Exists(p)
             /\ neg'[p].st = "requested" /\ neg'[p].peer = c
             /\ \A x \in Pids : x # p => neg'[x] = neg[x]
             /\ \A x \in Pids : x # c => result'[x] = result[x]
             /\ m.live => /\ neg[c].st = "requested" /\ ~neg[c].sent /\ neg[c].peer = NoPid
                          /\ result[c] = Absent /\ result'[c] # Absent
<1> USE SideFacts
<1>c. PICK c \in CPids : c = m.from
  BY MessageEnds DEF ContractRequest
<1>1. /\ m.kind = "request" /\ Exists(c) /\ neg[c] \in Records /\ ~Exists(p) /\ p # c
      /\ Home[p] = Provider[c] /\ neg' = [neg EXCEPT ![p] = NewProvider(c)] /\ UNCHANGED faults
  BY <1>c, MessageEnds DEF ContractRequest, Dest
<1>2. /\ NewProvider(c).st = "requested" /\ NewProvider(c).peer = c /\ NewProvider(c) # Absent
  BY NewType DEF NewProvider
<1>r. PICK r \in Records : r = Acknowledged(neg[c], "request", p)
  BY <1>1, AcknowledgedType DEF Kinds
<1>3. r.st = "requested" /\ r.sent /\ r.peer = p /\ r.agr = neg[c].agr /\ r # Absent
  BY <1>1, <1>r DEF Acknowledged, Reached, Records
<1>4. /\ neg'[p] = NewProvider(c) /\ \A x \in Pids : x # p => neg'[x] = neg[x]
      /\ Answer(m, r)
  BY <1>c, <1>1, <1>r DEF ContractRequest, RoundsInv, TypeOK
<1>5. /\ net' = net \ {m} /\ \A n \in net' : n.live => phase'[n.from] = "posting"
      /\ m.live => /\ Posts(c, "request") /\ result[c] = Absent
                   /\ phase'[c] = "done" /\ result'[c] = r
      /\ \A x \in Pids : (m.live => x # c) => phase'[x] = phase[x] /\ result'[x] = result[x]
  BY <1>c, <1>1, <1>4, AnswerEffect, RoundsOrderly DEF Orderly
<1>6. m.live => neg[c].st = "requested" /\ ~neg[c].sent /\ neg[c].peer = NoPid
  BY <1>5, ScriptPosts DEF Kinds
<1>7. Stays
  BY <1>1, <1>4 DEF Stays, Exists
<1>8. m.live => OutcomeOf(c, r)'
  <2>1. IsPartner(p, c)'
    BY <1>2, <1>4 DEF IsPartner, Exists
  <2>2. m.live => Posts(c, "request")' /\ Reached("request") = "requested"
    BY <1>1, <1>4, <1>5 DEF Posts, TargetOf, Reached
  <2> QED
    BY <1>1, <1>3, <1>4, <1>6, <2>1, <2>2 DEF OutcomeOf, Kinds
<1>9. \A x \in Pids : result'[x] # Absent =>
        /\ phase'[x] = "done"
        /\ \/ result'[x] = result[x] /\ neg'[x] = neg[x]
           \/ OutcomeOf(x, result[x])'
  <2>1. \A x \in Pids : result[x] # Absent => x # p /\ phase[x] = "done"
    BY <1>1, ScriptOutcomes DEF RoundsInv, RoundInv
  <2>2. m.live => OutcomeOf(c, result[c])'
    BY <1>5, <1>8
  <2> QED
    BY <1>4, <1>5, <2>1, <2>2
<1>10. \A n \in net' : n \in net /\ (n.live => phase'[n.from] = "posting" /\ n.from # p)
  BY <1>1, <1>5, MessageEnds
<1>11. RoundsInv'
  <2>1. Exists(neg'[p].peer) /\ Home[p] = Provider[neg'[p].peer] /\ Exists(p)'
    BY <1>1, <1>2, <1>4 DEF Exists
  <2> QED
    BY <1>4, <1>7, <1>9, <1>10, <2>1, RoundsKept
<1> QED
  BY <1>c, <1>1, <1>2, <1>3, <1>4, <1>5, <1>6, <1>7, <1>11

\* What a record accepts.
LEMMA ScriptAccepts ==
  ASSUME RoundsInv, NEW m \in net, AcceptEvent(m)
  PROVE  LET n == neg[m.to]
         IN  /\ m.kind # "request"
             /\ m.to \in CPids =>
                  \/ m.kind = "offer" /\ n.st = "requested" /\ n.sent
                  \/ m.kind = "agreement" /\ n.st \in {"accepted", "requested"}
                  \/ m.kind = "finalized" /\ n.st = "verified"
                  \/ m.kind = "termination" /\ n.st \notin {"finalized", "terminated"}
             /\ m.to \in PPids =>
                  \/ m.kind \in {"counter", "accepted"} /\ n.st = "offered"
                  \/ m.kind = "verification" /\ n.st = "agreed"
                  \/ m.kind = "termination" /\ n.st \notin {"finalized", "terminated"}
BY SideFacts DEF AcceptEvent, Accepts, ConsumerAccepts, ProviderAccepts

\* An event changes a record whose connector is not in a round: no outcome and
\* no wait is about it.
LEMMA AcceptEventRounds ==
  ASSUME RoundsInv, TypeOK', NEW m \in net, AcceptEvent(m)
  PROVE  /\ RoundsInv' /\ Stays /\ UNCHANGED faults /\ net' = net \ {m}
         /\ m.from \in Pids /\ m.to \in Pids /\ m.from # m.to
         /\ neg'[m.to].st = Reached(m.kind) /\ neg'[m.to].sent
         /\ neg'[m.to].peer = neg[m.to].peer
         /\ m.kind = "agreement" => neg'[m.to].agr = m.agr
         /\ m.kind \notin {"agreement", "termination"} => neg'[m.to].agr = neg[m.to].agr
         /\ \A x \in Pids : x # m.to => neg'[x] = neg[x]
         /\ \A x \in Pids : x # m.from => result'[x] = result[x]
         /\ result[m.to] = Absent
         /\ m.live => Posts(m.from, m.kind) /\ result[m.from] = Absent /\ result'[m.from] # Absent
<1> USE SideFacts
<1>1. PICK f \in Pids, t \in Pids : f = m.from /\ t = m.to
  BY MessageEnds DEF AcceptEvent
<1>2. /\ m.kind # "request" /\ m.kind \in Kinds /\ m.agr \in Agreements \cup {NoAgr}
      /\ Exists(f) /\ Exists(t) /\ neg[f] \in Records /\ neg[t] \in Records
      /\ t = neg[f].peer /\ f # t /\ UNCHANGED faults
      /\ t \in PPids => Exists(neg[t].peer) /\ Home[t] = Provider[neg[t].peer]
      /\ t \in CPids /\ neg[t].peer # NoPid => IsPartner(neg[t].peer, t)
  <2>1. /\ m.kind # "request" /\ m.kind \in Kinds /\ m.agr \in Agreements \cup {NoAgr}
        /\ Exists(f) /\ neg[f] \in Records /\ UNCHANGED faults
        /\ Exists(t) /\ neg[t] \in Records /\ t = neg[f].peer /\ f # t
    BY <1>1, MessageEnds DEF AcceptEvent
  <2> QED
    BY <2>1, RecordEnds
<1>a. PICK a \in Records : a = Accepted(neg[t], m.kind, m.agr)
  BY <1>2, AcceptedType
<1>3. /\ a.st = Reached(m.kind) /\ a.sent /\ a.peer = neg[t].peer /\ a # Absent
      /\ m.kind = "agreement" => a.agr = m.agr
      /\ m.kind \notin {"agreement", "termination"} => a.agr = neg[t].agr
  BY <1>2, <1>a, AcceptedFacts
<1>r. PICK r \in Records : r = Acknowledged(neg[f], m.kind, t)
  BY <1>2, AcknowledgedType
<1>4. r.st = Reached(m.kind) /\ r.sent /\ r.peer = t /\ r.agr = neg[f].agr /\ r # Absent
  <2>1. r.peer = IF m.kind \in {"request", "counter"} THEN t ELSE neg[f].peer
    BY <1>2, <1>r, AcknowledgedType
  <2> QED
    BY <1>2, <1>r, <2>1, AcknowledgedFacts
<1>5. /\ neg'[t] = a /\ \A x \in Pids : x # t => neg'[x] = neg[x]
      /\ Answer(m, r)
  BY <1>1, <1>2, <1>a, <1>r DEF AcceptEvent, RoundsInv, TypeOK
<1>6. phase[t] = "idle" /\ result[t] = Absent
  <2>1. phase[t] = "idle"
    BY <1>1 DEF AcceptEvent, Busy, Dest
  <2> QED
    BY <2>1 DEF RoundsInv, RoundInv
<1>7. /\ net' = net \ {m} /\ \A n \in net' : n.live => phase'[n.from] = "posting"
      /\ m.live => /\ Posts(f, m.kind) /\ result[f] = Absent
                   /\ phase'[f] = "done" /\ result'[f] = r
      /\ \A x \in Pids : (m.live => x # f) => phase'[x] = phase[x] /\ result'[x] = result[x]
  BY <1>1, <1>5, AnswerEffect, RoundsOrderly DEF Orderly
<1>8. Stays
  BY <1>2, <1>3, <1>5 DEF Stays, Exists
<1>9. m.live => OutcomeOf(f, r)'
  <2>1. m.live => Posts(f, m.kind)'
    BY <1>2, <1>5, <1>7 DEF Posts, TargetOf
  <2> QED
    BY <1>2, <1>4, <1>5, <2>1 DEF OutcomeOf
<1>10. \A x \in Pids : result'[x] # Absent =>
        /\ phase'[x] = "done"
        /\ \/ result'[x] = result[x] /\ neg'[x] = neg[x]
           \/ OutcomeOf(x, result[x])'
  <2>1. m.live => OutcomeOf(f, result[f])'
    BY <1>7, <1>9
  <2> QED
    BY <1>2, <1>5, <1>6, <1>7, <2>1 DEF RoundsInv, RoundInv
<1>11. \A n \in net' : n \in net /\ (n.live => phase'[n.from] = "posting" /\ n.from # t)
  BY <1>2, <1>6, <1>7 DEF RoundsInv, WaitInv
<1>12. t \in CPids => IF a.peer = NoPid THEN a.st \in {"terminated"} \cup Signed
                      ELSE IsPartner(a.peer, t)
  <2> SUFFICES ASSUME t \in CPids, a.peer = NoPid PROVE a.st \in {"terminated"} \cup Signed
    BY <1>2, <1>3
  <2>1. ~(neg[t].st = "requested" /\ neg[t].sent)
    BY <1>2, <1>3 DEF RoundsInv, KnowsInv, Signed
  <2> QED
    BY <1>1, <1>3, <2>1, ScriptAccepts, ReachedFacts DEF Signed
<1>13. RoundsInv'
  BY <1>2, <1>3, <1>5, <1>8, <1>10, <1>11, <1>12, RoundsKept DEF Exists
<1> QED
  BY <1>1, <1>2, <1>3, <1>4, <1>5, <1>6, <1>7, <1>8, <1>13

\* The rounds at first, and from step to step.
LEMMA InitRounds == Init => RoundsInv
<1> SUFFICES ASSUME Init PROVE RoundsInv
  OBVIOUS
<1>1. \A x \in Pids : ~Exists(x) /\ result[x] = Absent
  BY DEF Init, Exists
<1> QED
  BY <1>1, InitType, SideFacts DEF Init, RoundsInv, WaitInv, PartnerInv, KnowsInv, RoundInv

LEMMA NextRounds ==
  ASSUME RoundsInv, [Next]_vars
  PROVE  RoundsInv' /\ Stays
<1>1. TypeOK'
  BY NextType DEF RoundsInv
<1>2. CASE UNCHANGED neg
  <2>1. Stays
    BY <1>2 DEF Stays, Exists
  <2> QED
    BY <1>1, <1>2, <2>1, StepCases, RoundsOrderly, QuietRounds, DecideRounds, PostRounds,
       NegotiateRounds, SaveRounds, AcceptEventRounds, ContractRequestRounds DEF Stir
<1>3. CASE neg' # neg
  BY <1>1, <1>3, StepCases, RoundsOrderly, DecideRounds, PostRounds,
     NegotiateRounds, SaveRounds, AcceptEventRounds, ContractRequestRounds DEF Stir, Quiet
<1> QED
  BY <1>2, <1>3

\* Whatever the scripts, a consumer that knows its provider record goes on with
\* it: a counter-request is answered by the record it is sent to, and opens no
\* other negotiation.
THEOREM PeerStays == Spec => PeerFixed
<1>1. RoundsInv /\ [Next]_vars =>
        [\A c \in CPids : Exists(c) /\ neg[c].peer # NoPid => neg'[c].peer = neg[c].peer]_vars
  BY NextRounds, SideFacts DEF Stays
<1>2. RoundsInv /\ [Next]_vars => RoundsInv'
  BY NextRounds
<1> QED
  BY <1>1, <1>2, InitRounds, PTL DEF Spec, PeerFixed

(***************************************************************************)
(* What is said and agreed, whatever the scripts.                          *)
(***************************************************************************)

Binding == {"accepted", "terminated"} \cup Signed

\* How a record goes on: a termination is for good; a consumer does not go back
\* behind its acceptance, and signs what its provider record has signed; a
\* provider keeps the agreement it has issued, or withdraws it, and commits
\* itself to a consumer that has, unless it agrees at once.
Goes(x) ==
  /\ neg[x].st = "terminated" => neg'[x].st = "terminated"
  /\ x \in CPids =>
       /\ neg[x].st \in Binding => neg'[x].st \in Binding
       /\ neg'[x].st \in Signed =>
            \/ neg[x].st \in Signed /\ neg'[x].agr = neg[x].agr
            \/ /\ neg[x].peer # NoPid /\ neg[neg[x].peer].st \in Signed
               /\ neg'[x].agr = neg[neg[x].peer].agr
            \/ Target[x] \in AgreesAtOnce /\ faults > 0
  /\ x \in PPids =>
       /\ neg[x].st \in Signed =>
            \/ neg'[x].st \in Signed /\ neg'[x].agr = neg[x].agr
            \/ /\ neg'[x].st = "terminated"
               /\ neg[neg[x].peer].st = "terminated" \/ Target[neg[x].peer] = "ACN0207"
       /\ neg'[x].st \in {"accepted"} \cup Signed =>
            \/ neg[x].st \in {"accepted"} \cup Signed
            \/ Target[neg[x].peer] \in AgreesAtOnce
            \/ neg[neg[x].peer].peer = x /\ neg[neg[x].peer].st \in Binding

AllGo == \A x \in Pids : Exists(x)' => IF Exists(x) THEN Goes(x) ELSE neg'[x].st = "requested"

SidesInv == SaidInv /\ BoundInv /\ SharedInv

\* A message goes on being true.
LEMMA SaysStays ==
  ASSUME RoundsInv, Stays, AllGo, NEW m \in net, Says(m)
  PROVE  Says(m)'
<1> USE SideFacts
<1>1. m.from \in Pids /\ Exists(m.from) /\ Exists(m.from)'
  BY MessageEnds DEF Stays
<1>2. Goes(m.from)
  BY <1>1 DEF AllGo
<1>3. m.kind \in {"accepted", "termination"} => Says(m)'
  BY <1>1, <1>2 DEF Says, Goes, Binding
<1>4. ASSUME m.kind = "agreement" PROVE Says(m)'
  <2>1. /\ m.to \in Pids /\ Exists(m.to) /\ m.to = neg[m.from].peer /\ m.from \in PPids
    BY <1>4, MessageEnds DEF Says
  <2>2. Goes(m.to)
    BY <2>1 DEF AllGo, Stays
  <2> QED
    BY <1>2, <1>4, <2>1, <2>2 DEF Says, Goes
<1>5. m.kind \notin {"accepted", "termination", "agreement"} => Says(m)'
  BY DEF Says
<1> QED
  BY <1>3, <1>4, <1>5

\* So each side stays with what it is bound to.
LEMMA SidesKept ==
  ASSUME RoundsInv, RoundsInv', SidesInv, Stays, AllGo, faults > 0 => faults' > 0,
         \A m \in net' : \/ Says(m)'
                         \/ \E n \in net : /\ m.kind = n.kind /\ m.from = n.from
                                           /\ m.to = n.to /\ m.agr = n.agr
  PROVE  SidesInv'
<1> USE SideFacts
<1>1. SaidInv'
  <2> SUFFICES ASSUME NEW m \in net' PROVE Says(m)'
    BY DEF SaidInv
  <2>1. ASSUME NEW n \in net, m.kind = n.kind, m.from = n.from, m.to = n.to, m.agr = n.agr
        PROVE  Says(m)'
    <3>1. Says(n)'
      BY SaysStays DEF SidesInv, SaidInv
    <3> QED
      BY <2>1, <3>1 DEF Says
  <2> QED
    BY <2>1
<1>2. BoundInv'
  <2> SUFFICES ASSUME NEW p \in PPids, Exists(p)', neg'[p].st \in {"accepted"} \cup Signed
               PROVE  \/ Target[neg'[p].peer] \in AgreesAtOnce
                      \/ neg'[neg'[p].peer].peer = p /\ neg'[neg'[p].peer].st \in Binding
    BY DEF BoundInv, Binding
  <2>1. Exists(p) /\ Goes(p)
    BY DEF AllGo, Signed
  <2>2. PICK c \in CPids : c = neg[p].peer /\ c = neg'[p].peer /\ Exists(c)
    BY <2>1, RecordEnds DEF Stays
  <2>3. Goes(c)
    BY <2>2 DEF AllGo, Stays
  <2>4. Target[c] \in AgreesAtOnce \/ (neg[c].peer = p /\ neg[c].st \in Binding)
    BY <2>1, <2>2 DEF Goes, SidesInv, BoundInv, Binding
  <2> QED
    BY <2>2, <2>3, <2>4 DEF Goes, Stays
<1>3. SharedInv'
  <2> SUFFICES ASSUME NEW c \in CPids, Exists(c)', neg'[c].st \in Signed
               PROVE  (\/ /\ neg[c].peer # NoPid /\ neg[neg[c].peer].st \in Signed
                          /\ neg[neg[c].peer].agr = neg[c].agr
                       \/ Target[c] = "ACN0207" /\ PeerIs(c, "terminated")
                       \/ Target[c] \in AgreesAtOnce /\ faults > 0)'
    BY DEF SharedInv
  <2>1. Exists(c) /\ Goes(c) /\ neg[c].st # "terminated"
    BY DEF AllGo, Goes, Signed
  <2>2. \/ /\ neg[c].peer # NoPid /\ neg[neg[c].peer].st \in Signed
           /\ neg[neg[c].peer].agr = neg'[c].agr
        \/ Target[c] = "ACN0207" /\ PeerIs(c, "terminated")
        \/ Target[c] \in AgreesAtOnce /\ faults > 0
    BY <2>1 DEF Goes, SidesInv, SharedInv
  <2>3. ASSUME neg[c].peer # NoPid
        PROVE  \E p \in PPids : /\ p = neg[c].peer /\ p = neg'[c].peer /\ neg[p].peer = c
                                /\ Exists(p) /\ Goes(p)
    BY <2>1, <2>3, RecordEnds DEF Stays, AllGo, IsPartner
  <2>4. CASE /\ neg[c].peer # NoPid /\ neg[neg[c].peer].st \in Signed
             /\ neg[neg[c].peer].agr = neg'[c].agr
    BY <2>1, <2>3, <2>4 DEF Goes, PeerIs
  <2>5. CASE Target[c] = "ACN0207" /\ PeerIs(c, "terminated")
    BY <2>3, <2>5 DEF Goes, PeerIs
  <2> QED
    BY <2>2, <2>4, <2>5
<1> QED
  BY <1>1, <1>2, <1>3 DEF SidesInv

\* What a saved outcome takes back and commits to.
LEMMA SaveGoes ==
  ASSUME RoundsInv, TypeOK', SidesInv, NEW x \in Pids, Save(x)
  PROVE  AllGo
<1> USE SideFacts
<1>1. /\ Exists(x) /\ neg'[x] = (IF result[x] = Absent THEN neg[x] ELSE result[x])
      /\ \A y \in Pids : y # x => neg'[y] = neg[y]
  BY SaveRounds
<1>2. \A y \in Pids : neg'[y] = neg[y] => Goes(y)
  BY DEF Goes
<1>3. ASSUME result[x] # Absent PROVE Goes(x)
  <2>1. neg'[x] = result[x]
    BY <1>1, <1>3
  <2> QED
    BY <1>3, <2>1, ScriptOutcomes DEF Goes, Binding, Signed
<1> QED
  BY <1>1, <1>2, <1>3 DEF AllGo, Exists

\* A consumer that takes an agreement knows who it is from, unless its provider
\* agreed at once and an answer was lost.
LEMMA AgreementFromPeer ==
  ASSUME RoundsInv, SidesInv, TurnInv, NEW m \in net, AcceptEvent(m), m.kind = "agreement",
         result[m.to] = Absent, m.live => Posts(m.from, m.kind)
  PROVE  LET c == m.to
         IN  \/ /\ neg[c].peer # NoPid /\ neg[neg[c].peer].st \in Signed
                /\ m.agr = neg[neg[c].peer].agr
             \/ Target[c] \in AgreesAtOnce /\ faults > 0
<1> USE SideFacts
<1>1. PICK p \in PPids, c \in CPids :
        /\ p = m.from /\ c = m.to /\ IsPartner(p, c) /\ Exists(p) /\ Exists(c) /\ neg[p].peer = c
  BY MessageEnds DEF SidesInv, SaidInv, Says, IsPartner
<1>2. neg[c].st \in {"accepted", "requested"}
  BY <1>1, ScriptAccepts
<1>3. \/ neg[p].st \in Signed /\ m.agr = neg[p].agr
      \/ neg[p].st = "terminated" /\ Target[c] = "ACN0207"
  BY <1>1, <1>2 DEF SidesInv, SaidInv, Says
<1>4. CASE Target[c] \notin AgreesAtOnce
  <2>1. neg[p].st \in Signed /\ m.agr = neg[p].agr
    BY <1>3, <1>4 DEF AgreesAtOnce
  <2>2. neg[c].peer = p
    BY <1>1, <1>4, <2>1 DEF SidesInv, BoundInv
  <2> QED
    BY <1>1, <2>1, <2>2
<1>5. CASE faults = 0
  <2>1. Turns
    BY <1>5 DEF TurnInv
  <2>2. neg[p].st = "agreed" /\ m.agr = neg[p].agr
    <3>1. Posts(p, "agreement")
      BY <1>1, <2>1 DEF Turns
    <3>2. neg[p].st = "agreed"
      BY <1>1, <3>1, ScriptPosts DEF Kinds
    <3> QED
      BY <1>3, <3>2
  <2>3. neg[c].peer # NoPid
    <3>1. Turn(p, c)
      BY <1>1, <2>1 DEF Turns
    <3>2. neg[c].st = "requested" /\ ~neg[c].sent => neg[c].peer # NoPid
      BY <1>1, <3>1 DEF Turn
    <3> QED
      BY <1>1, <1>2, <3>2 DEF RoundsInv, KnowsInv, Signed
  <2>4. neg[c].peer = p
    BY <1>1, <2>1, <2>3, RecordEnds DEF Turns
  <2> QED
    BY <1>1, <2>2, <2>4 DEF Signed
<1>6. faults = 0 \/ faults > 0
  BY ProtocolAssumption DEF RoundsInv, TypeOK
<1> QED
  BY <1>1, <1>4, <1>5, <1>6

\* What an event takes back and commits to.
LEMMA AcceptGoes ==
  ASSUME RoundsInv, TypeOK', SidesInv, TurnInv, NEW m \in net, AcceptEvent(m)
  PROVE  AllGo
<1> USE SideFacts
<1>1. PICK f \in Pids, t \in Pids : f = m.from /\ t = m.to
  BY AcceptEventRounds
<1>2. /\ neg'[t].st = Reached(m.kind)
      /\ m.kind = "agreement" => neg'[t].agr = m.agr
      /\ m.kind \notin {"agreement", "termination"} => neg'[t].agr = neg[t].agr
      /\ \A x \in Pids : x # t => neg'[x] = neg[x]
      /\ result[t] = Absent /\ m.live => Posts(m.from, m.kind)
      /\ Exists(t) /\ m.kind # "request" /\ m.kind \in Kinds
  BY <1>1, AcceptEventRounds, MessageEnds DEF AcceptEvent
<1>3. \A y \in Pids : neg'[y] = neg[y] => Goes(y)
  BY DEF Goes
<1>4. Reached("counter") = "requested"
  BY DEF Reached
<1>5. CASE t \in CPids
  <2>1. m.kind = "agreement" =>
          \/ /\ neg[t].peer # NoPid /\ neg[neg[t].peer].st \in Signed
             /\ m.agr = neg[neg[t].peer].agr
          \/ Target[t] \in AgreesAtOnce /\ faults > 0
    BY <1>1, <1>2, AcceptEventRounds, AgreementFromPeer
  <2> QED
    BY <1>1, <1>2, <1>3, <1>5, <2>1, ScriptAccepts, ReachedFacts DEF AllGo, Goes, Exists, Binding, Signed
<1>6. CASE t \in PPids
  <2>1. f \in CPids /\ f = neg[t].peer /\ neg[f].peer = t
    BY <1>1, <1>2, <1>6, MessageEnds DEF IsPartner
  <2>2. m.kind = "accepted" => neg[f].st \in Binding
    BY <1>1 DEF SidesInv, SaidInv, Says, Binding
  <2>3. m.kind = "termination" => neg[f].st = "terminated"
    BY <1>1 DEF SidesInv, SaidInv, Says
  <2>4. Goes(t)
    BY <1>1, <1>2, <1>4, <1>6, <2>1, <2>2, <2>3, ScriptAccepts, ReachedFacts
    DEF Goes, Signed
  <2> QED
    BY <1>2, <1>3, <2>4 DEF AllGo, Exists
<1> QED
  BY <1>5, <1>6

\* Every step keeps what is said and agreed.
LEMMA NextSides ==
  ASSUME RoundsInv, SidesInv, TurnInv, [Next]_vars
  PROVE  SidesInv'
<1> USE SideFacts
<1>1. RoundsInv' /\ Stays /\ TypeOK'
  BY NextRounds DEF RoundsInv
<1>2. faults > 0 => faults' > 0
  <2>1. faults' \in {faults, faults + 1} /\ faults \in Nat
    BY ProtocolAssumption
    DEF RoundsInv, TypeOK, vars, Next, Loop, Deliver, Fault, Negotiate, StartTick, Decide, Post,
        PostNowhere, Save, ContractRequest, AcceptEvent, RejectEvent, LoseRequest, LoseAnswer, Crash
  <2> QED
    BY <2>1
<1>3. UNCHANGED neg => AllGo
  BY DEF AllGo, Goes, Exists
<1>4. ASSUME AllGo,
             \A m \in net' : \E n \in net : /\ m.kind = n.kind /\ m.from = n.from
                                            /\ m.to = n.to /\ m.agr = n.agr
      PROVE  SidesInv'
  BY <1>1, <1>2, <1>4, SidesKept
<1>5. ASSUME AllGo, net' \subseteq net PROVE SidesInv'
  BY <1>4, <1>5
<1>6. CASE Quiet
  BY <1>3, <1>4, <1>6 DEF Quiet
<1>7. ASSUME NEW c \in CPids, Negotiate(c) PROVE SidesInv'
  <2>1. /\ ~Exists(c) /\ UNCHANGED net /\ neg'[c].st = "requested"
        /\ \A x \in Pids : x # c => neg'[x] = neg[x]
    BY <1>1, <1>7, NegotiateRounds
  <2>2. AllGo
    BY <2>1 DEF AllGo, Goes, Exists
  <2> QED
    BY <1>5, <2>1, <2>2
<1>8. ASSUME NEW x \in Pids, NEW s \in States, Decide(x, s) PROVE SidesInv'
  BY <1>1, <1>3, <1>5, <1>8, DecideRounds
<1>9. ASSUME NEW x \in Pids, NEW kind \in Kinds, Post(x, kind) PROVE SidesInv'
  <2>1. ASSUME NEW m \in net', m \notin net PROVE Says(m)'
    <3>1. /\ m.kind = kind /\ m.from = x /\ Posts(x, kind) /\ UNCHANGED neg
          /\ kind = "agreement" => m.agr = neg[x].agr
      BY <1>1, <1>9, <2>1, PostRounds
    <3> QED
      BY <3>1, ScriptPosts DEF Says, Signed
  <2>2. AllGo
    BY <1>1, <1>3, <1>9, PostRounds
  <2> QED
    BY <1>1, <1>2, <2>1, <2>2, SidesKept
<1>10. ASSUME NEW x \in Pids, Save(x) PROVE SidesInv'
  BY <1>1, <1>5, <1>10, SaveGoes, SaveRounds
<1>11. ASSUME NEW m \in net, AcceptEvent(m) PROVE SidesInv'
  BY <1>1, <1>5, <1>11, AcceptGoes, AcceptEventRounds
<1>12. ASSUME NEW m \in net, NEW p \in PPids, ContractRequest(m, p) PROVE SidesInv'
  <2>1. /\ ~Exists(p) /\ net' \subseteq net /\ neg'[p].st = "requested"
        /\ \A x \in Pids : x # p => neg'[x] = neg[x]
    BY <1>1, <1>12, ContractRequestRounds
  <2>2. AllGo
    BY <2>1 DEF AllGo, Goes, Exists
  <2> QED
    BY <1>5, <2>1, <2>2
<1> QED
  BY <1>6, <1>7, <1>8, <1>9, <1>10, <1>11, <1>12, StepCases, RoundsOrderly DEF Stir

(***************************************************************************)
(* Whose turn it is, whatever the scripts.                                 *)
(***************************************************************************)

\* The two records of a negotiation.
LEMMA PairFacts ==
  ASSUME RoundsInv, NEW p \in PPids, NEW c \in CPids, IsPartner(p, c)
  PROVE  /\ p \in Pids /\ c \in Pids /\ p # c /\ Exists(p) /\ Exists(c)
         /\ neg[p] \in Records /\ neg[c] \in Records
         /\ neg[p].peer = c /\ Home[p] = Provider[c]
         /\ Turns => neg[c].peer \in {NoPid, p}
BY SideFacts, RecordEnds DEF IsPartner, Turns

\* Without faults, a consumer in these states knows its provider record, and one
\* that has signed has a provider record that has.
LEMMA PairStates ==
  ASSUME RoundsInv, SidesInv, Turns, faults = 0,
         NEW p \in PPids, NEW c \in CPids, IsPartner(p, c)
  PROVE  /\ neg[c].st \in {"offered", "accepted"} => neg[c].peer = p
         /\ neg[c].st \in Signed => neg[p].st \in Signed \cup {"terminated"}
<1>1. neg[c].st \in {"offered", "accepted"} => neg[c].peer = p
  BY PairFacts DEF RoundsInv, KnowsInv, Signed
<1>2. neg[c].st \in Signed => neg[p].st \in Signed \cup {"terminated"}
  <2> SUFFICES ASSUME neg[c].st \in Signed PROVE neg[p].st \in Signed \cup {"terminated"}
    OBVIOUS
  <2>1. neg[c].peer # NoPid /\ neg[neg[c].peer].st \in Signed \cup {"terminated"}
    BY PairFacts DEF SidesInv, SharedInv, PeerIs
  <2> QED
    BY <2>1, PairFacts
<1> QED
  BY <1>1, <1>2

\* Where neither record of a pair changes, it stays the same side's turn.
LEMMA TurnSame ==
  ASSUME NEW p, NEW c, neg'[p] = neg[p], neg'[c] = neg[c], Turn(p, c),
         result[p] # Absent => result'[p] # Absent, result[c] # Absent => result'[c] # Absent
  PROVE  Turn(p, c)'
BY DEF Turn

\* Where no provider record is new, each negotiation is looked at by itself.
LEMMA TurnsKept ==
  ASSUME RoundsInv, Turns, Stays, \A m \in net' : m.live,
         \A p \in PPids : Exists(p)' => Exists(p),
         \A p \in PPids, c \in CPids : IsPartner(p, c) /\ Turn(p, c) => Turn(p, c)'
  PROVE  Turns'
<1>1. \A p \in PPids, c \in CPids : IsPartner(p, c)' => IsPartner(p, c)
  BY SideFacts, RecordEnds DEF Stays, IsPartner
<1> QED
  BY <1>1 DEF Turns

\* Steps that change no record and take no answer back.
LEMMA TurnAnswers ==
  ASSUME RoundsInv, Turns, UNCHANGED neg, \A m \in net' : m.live,
         \A x \in Pids : result[x] # Absent => result'[x] # Absent
  PROVE  Turns'
<1>1. Stays /\ \A p \in PPids : Exists(p)' => Exists(p)
  BY DEF Stays, Exists
<1>2. \A p \in PPids, c \in CPids : IsPartner(p, c) /\ Turn(p, c) => Turn(p, c)'
  BY SideFacts, TurnSame
<1> QED
  BY <1>1, <1>2, TurnsKept

\* A new consumer record has no counterpart.
LEMMA TurnNegotiate ==
  ASSUME RoundsInv, TypeOK', Turns, NEW d \in CPids, Negotiate(d)
  PROVE  Turns'
<1>1. /\ ~Exists(d) /\ UNCHANGED <<net, result>> /\ Stays
      /\ \A x \in Pids : x # d => neg'[x] = neg[x]
  BY NegotiateRounds
<1>2. \A p \in PPids : Exists(p)' => Exists(p)
  BY <1>1, SideFacts DEF Exists
<1>3. \A p \in PPids, c \in CPids : IsPartner(p, c) /\ Turn(p, c) => Turn(p, c)'
  BY <1>1, PairFacts, TurnSame
<1> QED
  BY <1>1, <1>2, <1>3, TurnsKept DEF Turns

\* A request is answered when its consumer has no provider record.
LEMMA TurnContractRequest ==
  ASSUME RoundsInv, TypeOK', Turns, NEW m \in net, NEW p \in PPids, ContractRequest(m, p)
  PROVE  Turns'
<1> USE SideFacts
<1>1. PICK c \in CPids : c = m.from
  BY ContractRequestRounds
<1>2. /\ m.live /\ net' = net \ {m} /\ Exists(c) /\ ~Exists(p)
      /\ neg'[p].st = "requested" /\ neg'[p].peer = c
      /\ \A x \in Pids : x # p => neg'[x] = neg[x]
      /\ \A x \in Pids : x # c => result'[x] = result[x]
      /\ neg[c].st = "requested" /\ ~neg[c].sent /\ neg[c].peer = NoPid
      /\ result[c] = Absent /\ result'[c] # Absent
  BY <1>1, ContractRequestRounds DEF Turns
<1>3. \A q \in PPids : ~IsPartner(q, c)
  BY <1>2 DEF Turns, Turn
<1>4. ASSUME NEW q \in PPids, NEW d \in CPids, IsPartner(q, d)'
      PROVE  (q = p /\ d = c) \/ (q # p /\ d # c /\ IsPartner(q, d))
  <2>1. q # p => IsPartner(q, d)
    BY <1>2, <1>4 DEF IsPartner, Exists
  <2> QED
    BY <1>2, <1>3, <1>4, <2>1 DEF IsPartner
<1>5. Turn(p, c)'
  BY <1>2 DEF Turn, Signed
<1>6. ASSUME NEW q \in PPids, NEW d \in CPids, IsPartner(q, d)' PROVE Turn(q, d)'
  <2>1. CASE q = p /\ d = c
    BY <1>5, <2>1
  <2>2. CASE q # p /\ d # c /\ IsPartner(q, d)
    BY <1>2, <2>2, PairFacts, TurnSame DEF Turns
  <2> QED
    BY <1>4, <1>6, <2>1, <2>2
<1>7. \A q, r \in PPids, d \in CPids : IsPartner(q, d)' /\ IsPartner(r, d)' => q = r
  BY <1>4 DEF Turns
<1> QED
  BY <1>2, <1>6, <1>7 DEF Turns

\* An event gives its sender the answer, before it can have another message.
LEMMA TurnAccept ==
  ASSUME RoundsInv, TypeOK', SidesInv, Turns, NEW m \in net, AcceptEvent(m)
  PROVE  Turns'
<1> USE SideFacts
<1>1. PICK f \in Pids, t \in Pids : f = m.from /\ t = m.to
  BY AcceptEventRounds
<1>2. /\ Stays /\ net' = net \ {m} /\ m.kind \in Kinds /\ m.kind # "request"
      /\ Exists(f) /\ Exists(t) /\ f # t
      /\ neg'[t].st = Reached(m.kind) /\ neg'[t].sent
      /\ Posts(f, m.kind) /\ result'[f] # Absent
      /\ \A x \in Pids : x # t => neg'[x] = neg[x]
      /\ \A x \in Pids : x # f => result'[x] = result[x]
  BY <1>1, AcceptEventRounds, MessageEnds DEF Turns, AcceptEvent
<1>3. \A p \in PPids : Exists(p)' => Exists(p)
  BY <1>2 DEF Exists
<1>4. /\ f \in PPids => t \in CPids /\ IsPartner(f, t)
      /\ f \in CPids => t \in PPids /\ IsPartner(t, f)
  BY <1>1, <1>2, MessageEnds
<1>5. Reached("counter") = "requested"
  BY DEF Reached
<1>6. ASSUME NEW p \in PPids, NEW c \in CPids, IsPartner(p, c), Turn(p, c)
      PROVE  Turn(p, c)'
  <2>0. p \in Pids /\ c \in Pids /\ p # c
    BY <1>6, PairFacts
  <2>1. CASE f = p /\ t = c
    <3>1. \/ m.kind = "offer" /\ neg[p].st = "offered"
          \/ m.kind = "agreement" /\ neg[p].st = "agreed"
          \/ m.kind = "finalized" /\ neg[p].st = "verified"
          \/ m.kind = "termination"
      BY <1>2, <2>1, ScriptPosts
    <3>2. neg'[p] = neg[p] /\ result'[p] # Absent
      BY <1>2, <2>0, <2>1
    <3> QED
      BY <1>2, <2>1, <3>1, <3>2, ReachedFacts DEF Turn, Signed
  <2>2. CASE f = c /\ t = p
    <3>1. \/ m.kind = "counter" /\ neg[c].st = "requested"
          \/ m.kind = "accepted" /\ neg[c].st = "accepted"
          \/ m.kind = "verification" /\ neg[c].st = "agreed"
          \/ m.kind = "termination" /\ neg[c].st = "terminated"
      BY <1>2, <2>2, ScriptPosts
    <3>2. neg'[c] = neg[c] /\ result'[c] # Absent
      BY <1>2, <2>0, <2>2
    <3> QED
      BY <1>2, <1>5, <2>2, <3>1, <3>2, ReachedFacts DEF Turn, Signed
  <2>3. CASE {f, t} # {p, c}
    <3>1. t \notin {p, c}
      BY <1>4, <1>6, <2>3, PairFacts DEF Turns, IsPartner
    <3>2. f \notin {p, c}
      BY <1>4, <1>6, <2>3, PairFacts DEF Turns, IsPartner
    <3> QED
      BY <1>2, <1>6, <2>0, <3>1, <3>2, TurnSame
  <2> QED
    BY <2>1, <2>2, <2>3
<1> QED
  BY <1>2, <1>3, <1>6, TurnsKept DEF Turns

\* What a consumer newly has to tell, its provider record does not show yet.
LEMMA TurnSaveConsumer ==
  ASSUME RoundsInv, TypeOK', SidesInv, Turns, faults = 0,
         NEW p \in PPids, NEW c \in CPids, IsPartner(p, c), Save(c), result[c] # Absent
  PROVE  Turn(p, c)'
<1> USE SideFacts
<1>1. /\ neg'[c] = result[c] /\ result'[c] = Absent /\ Stays
      /\ neg'[p] = neg[p] /\ result'[p] = result[p]
  BY SaveRounds, PairFacts
<1>2. Turn(p, c) /\ (neg[c].st = "offered" => neg'[c].peer = p)
  BY <1>1, PairFacts, PairStates DEF Turns, Stays
<1>3. \/ neg[c].st = "requested" /\ neg'[c].st = "requested" /\ neg'[c].sent
      \/ neg'[c].st = "terminated"
      \/ neg[c].st = "offered" /\ neg'[c].st = "requested" /\ ~neg'[c].sent
      \/ neg[c].st = "offered" /\ neg'[c].st = "accepted"
      \/ neg[c].st = "accepted" /\ neg'[c].st = "accepted" /\ neg'[c].sent
      \/ neg[c].st = "agreed" /\ neg'[c].st = "verified"
  BY <1>1, ScriptOutcomes
<1> QED
  BY <1>1, <1>2, <1>3 DEF Turn, Signed

\* Nor does the consumer show what a provider newly has to tell.
LEMMA TurnSaveProvider ==
  ASSUME RoundsInv, TypeOK', SidesInv, Turns, faults = 0,
         NEW p \in PPids, NEW c \in CPids, IsPartner(p, c), Save(p), result[p] # Absent
  PROVE  Turn(p, c)'
<1> USE SideFacts
<1>1. /\ neg'[p] = result[p] /\ result'[p] = Absent
      /\ neg'[c] = neg[c] /\ result'[c] = result[c]
  BY SaveRounds, PairFacts
<1>2. Turn(p, c) /\ (neg[c].st \in Signed => neg[p].st \in Signed \cup {"terminated"})
  BY PairStates DEF Turns
<1>3. \/ neg'[p].st = "terminated"
      \/ neg[p].st = "requested" /\ neg'[p].st \in {"offered", "agreed"}
      \/ neg[p].st = "offered" /\ neg'[p].st = "offered" /\ neg'[p].sent
      \/ neg[p].st = "accepted" /\ neg'[p].st = "agreed"
      \/ neg[p].st = "agreed" /\ neg'[p].st = "agreed" /\ neg'[p].sent
      \/ neg[p].st = "verified" /\ neg'[p].st = "finalized"
  BY <1>1, ScriptOutcomes
<1> QED
  BY <1>1, <1>2, <1>3 DEF Turn, Signed

\* A save, of either side.
LEMMA TurnSave ==
  ASSUME RoundsInv, TypeOK', SidesInv, Turns, faults = 0, NEW x \in Pids, Save(x)
  PROVE  Turns'
<1>1. Stays /\ (\A p \in PPids : Exists(p)' => Exists(p)) /\ UNCHANGED net
  BY SaveRounds, SideFacts DEF Exists
<1>2. ASSUME NEW p \in PPids, NEW c \in CPids, IsPartner(p, c), Turn(p, c)
      PROVE  Turn(p, c)'
  <2>0. p \in Pids /\ c \in Pids
    BY <1>2, PairFacts
  <2>1. CASE x = p /\ result[x] # Absent
    BY <1>2, <2>1, TurnSaveProvider
  <2>2. CASE x = c /\ result[x] # Absent
    BY <1>2, <2>2, TurnSaveConsumer
  <2>3. CASE x \notin {p, c} \/ result[x] = Absent
    <3>1. /\ neg'[p] = neg[p] /\ neg'[c] = neg[c]
          /\ result'[p] = result[p] /\ result'[c] = result[c]
      BY <2>0, <2>3, SaveRounds
    <3> QED
      BY <1>2, <3>1, TurnSame
  <2> QED
    BY <2>1, <2>2, <2>3
<1> QED
  BY <1>1, <1>2, TurnsKept DEF Turns

\* Every step keeps the turns.
LEMMA NextTurns ==
  ASSUME RoundsInv, SidesInv, TurnInv, [Next]_vars
  PROVE  TurnInv'
<1> SUFFICES ASSUME faults' = 0 PROVE Turns'
  BY DEF TurnInv
<1>0. faults' \in {faults, faults + 1} /\ faults \in Nat
  BY ProtocolAssumption
  DEF RoundsInv, TypeOK, vars, Next, Loop, Deliver, Fault, Negotiate, StartTick, Decide, Post,
      PostNowhere, Save, ContractRequest, AcceptEvent, RejectEvent, LoseRequest, LoseAnswer, Crash
<1>1. faults = 0 /\ Turns /\ TypeOK'
  BY <1>0, NextType DEF TurnInv, RoundsInv
<1>2. CASE Quiet
  BY <1>1, <1>2, TurnAnswers DEF Quiet, Turns
<1>3. ASSUME NEW x \in Pids, NEW s \in States, Decide(x, s) PROVE Turns'
  <2>1. /\ UNCHANGED <<neg, net>> /\ result'[x] # Absent
        /\ \A y \in Pids : y # x => result'[y] = result[y]
    BY <1>1, <1>3, DecideRounds
  <2> QED
    BY <1>1, <2>1, TurnAnswers DEF Turns
<1>4. ASSUME NEW x \in Pids, NEW kind \in Kinds, Post(x, kind) PROVE Turns'
  <2>1. UNCHANGED <<neg, result>> /\ \A m \in net' : m \in net \/ m.live
    BY <1>1, <1>4, PostRounds
  <2> QED
    BY <1>1, <2>1, TurnAnswers DEF Turns
<1>5. CASE Stir
  BY <1>1, <1>3, <1>4, <1>5, TurnNegotiate, TurnSave, TurnAccept, TurnContractRequest DEF Stir
<1> QED
  BY <1>2, <1>5, StepCases, RoundsOrderly

\* Every reachable state satisfies ScriptsInv, whatever the scripts.
LEMMA ScriptsInvariance == Spec => []ScriptsInv
<1>1. Init => ScriptsInv
  <2>1. Init => net = {} /\ \A x \in Pids : ~Exists(x)
    BY DEF Init, Exists
  <2>2. Init => SidesInv /\ TurnInv
    BY <2>1, SideFacts DEF SidesInv, SaidInv, BoundInv, SharedInv, TurnInv, Turns, IsPartner
  <2> QED
    BY <2>2, InitRounds DEF ScriptsInv, SidesInv
<1>2. ScriptsInv /\ [Next]_vars => ScriptsInv'
  BY NextRounds, NextSides, NextTurns DEF ScriptsInv, SidesInv
<1> QED
  BY <1>1, <1>2, PTL DEF Spec

\* A consumer holds the agreement its provider record still holds, unless that
\* record's script withdrew it, or its provider agrees at once and an answer
\* was lost: whatever the scripts, and however many connectors, negotiations
\* and faults.
THEOREM AgreementOrWithdrawn == Spec => []AgreementSharedOrWithdrawn
<1>1. ScriptsInv => AgreementSharedOrWithdrawn
  <2> SUFFICES ASSUME ScriptsInv, NEW c \in CPids, Exists(c), HoldsAgreement(neg[c])
               PROVE  \/ neg[c].peer \in Answers(c) /\ neg[neg[c].peer].agr = neg[c].agr
                      \/ Target[c] = "ACN0207" /\ PeerIs(c, "terminated")
                      \/ Target[c] \in AgreesAtOnce /\ faults > 0
    BY DEF AgreementSharedOrWithdrawn
  <2>1. neg[c].st \in Signed
    BY DEF HoldsAgreement, Signed
  <2>2. neg[c].peer # NoPid => neg[c].peer \in Answers(c)
    BY SideFacts, RecordEnds DEF ScriptsInv, IsPartner, Answers
  <2> QED
    BY <2>1, <2>2 DEF ScriptsInv, SharedInv
<1> QED
  BY <1>1, ScriptsInvariance, PTL

\* Without faults, the two sides of a negotiation do not both wait for an answer
\* to what they tell, unless one of them terminates.
LEMMA SidesTakeTurns ==
  ASSUME ScriptsInv, Turns, faults = 0, NEW m \in net, NEW n \in net,
         m.kind \notin {"request", "termination"}, n.kind \notin {"request", "termination"},
         m.from \in CPids, n.from \in PPids
  PROVE  m.from # n.to
<1> SUFFICES ASSUME m.from = n.to PROVE FALSE
  OBVIOUS
<1> USE SideFacts
<1>0. RoundsInv /\ SidesInv
  BY DEF ScriptsInv, SidesInv
<1>1. PICK c \in CPids, p \in PPids : c = m.from /\ p = n.from
  OBVIOUS
<1>2. /\ IsPartner(p, c) /\ Posts(c, m.kind) /\ Posts(p, n.kind)
      /\ result[c] = Absent /\ result[p] = Absent /\ m.kind \in Kinds /\ n.kind \in Kinds
  BY <1>0, <1>1, MessageEnds DEF Turns, RoundsInv, WaitInv, RoundInv
<1>3. \/ neg[c].st \in {"requested", "accepted"} /\ ~neg[c].sent
      \/ neg[c].st = "agreed"
  BY <1>1, <1>2, ScriptPosts
<1>4. \/ neg[p].st \in {"offered", "agreed"} /\ ~neg[p].sent
      \/ neg[p].st = "verified"
  BY <1>1, <1>2, ScriptPosts
<1>5. neg[c].st = "agreed" => neg[p].st # "offered"
  BY <1>0, <1>2, PairStates DEF Signed
<1> QED
  BY <1>2, <1>3, <1>4, <1>5 DEF Turns, Turn, Signed

\* Whatever the scripts: when no connector negotiates with itself, two loops wait
\* for each other's answers within one negotiation only after a fault or for a
\* termination.
THEOREM MutualWaits ==
  ASSUME \A c \in CPids : Provider[c] # Home[c]
  PROVE  Spec => []MutualWaitHasCause
<1>1. ScriptsInv => MutualWaitHasCause
  <2> SUFFICES ASSUME ScriptsInv, NEW m \in net, NEW n \in net, Deadlocked(m, n),
                      ~(faults > 0), ConsumerOf(m) = ConsumerOf(n),
                      "termination" \notin {m.kind, n.kind}
               PROVE  FALSE
    BY DEF MutualWaitHasCause
  <2> USE SideFacts
  <2>0. RoundsInv
    BY DEF ScriptsInv
  <2>1. Turns /\ faults = 0
    <3>1. faults = 0
      BY <2>0, ProtocolAssumption DEF RoundsInv, TypeOK
    <3> QED
      BY <3>1 DEF ScriptsInv, TurnInv
  <2>2. /\ m.live /\ n.live /\ m.kind # "request" /\ n.kind # "request"
        /\ Home[m.from] = Home[n.to] /\ Home[n.from] = Home[m.to]
    BY DEF Deadlocked, Dest
  <2>3. ASSUME NEW k \in net, k.kind # "request"
        PROVE  /\ Home[k.from] # Home[k.to]
               /\ k.from \in CPids => IsPartner(k.to, k.from)
               /\ k.from \notin CPids => k.from \in PPids /\ IsPartner(k.from, k.to)
    <3>1. /\ k.from \in CPids => k.to \in PPids /\ IsPartner(k.to, k.from)
          /\ k.from \notin CPids => /\ k.from \in PPids /\ k.to \in CPids
                                    /\ IsPartner(k.from, k.to)
      BY <2>0, <2>3, MessageEnds
    <3> QED
      BY <2>0, <3>1, PairFacts
  <2>4. CASE m.from \in CPids /\ n.from \notin CPids
    BY <2>1, <2>2, <2>3, <2>4, SidesTakeTurns DEF ConsumerOf
  <2>5. CASE m.from \notin CPids /\ n.from \in CPids
    BY <2>1, <2>2, <2>3, <2>5, SidesTakeTurns DEF ConsumerOf
  <2>6. CASE m.from \in CPids <=> n.from \in CPids
    <3>1. m.from = n.from
      <4>1. m.from \notin CPids => m.to \in CPids /\ m.from \in PPids
        BY <2>0, <2>2, MessageEnds
      <4>2. n.from \notin CPids => n.to \in CPids /\ n.from \in PPids
        BY <2>0, <2>2, MessageEnds
      <4> QED
        BY <2>1, <2>2, <2>3, <2>6, <4>1, <4>2 DEF ConsumerOf, Turns
    <3>2. m = n
      BY <2>0, <2>2, <3>1 DEF RoundsInv, WaitInv
    <3> QED
      BY <2>2, <2>3, <3>2
  <2> QED
    BY <2>4, <2>5, <2>6
<1> QED
  BY <1>1, ScriptsInvariance, PTL

(***************************************************************************)
(* What a tick does in the default build.                                  *)
(***************************************************************************)

\* A consumer accepts an offer, a provider offers, refuses or agrees.
LEMMA DecidesCases ==
  ASSUME DefaultBuild, TypeOK, NEW x \in Pids, NEW s \in States,
         Exists(x), Decides(x, s)
  PROVE  \/ x \in CPids /\ neg[x].st = "offered" /\ s = "accepted"
         \/ /\ x \in PPids /\ neg[x].st = "requested"
            /\ s \in {"offered", "terminated"}
         \/ x \in PPids /\ neg[x].st = "accepted" /\ s = "agreed"
<1>1. CASE x \in CPids
  BY <1>1 DEF DefaultBuild, TckScripts, Decides, TargetOf, ConsumerDecides, ConsumerScript
<1>2. CASE x \in PPids
  <2>1. x \notin CPids /\ neg[x].peer \in CPids
    BY <1>2, RecordAssumption DEF TypeOK, Peers, Pids
  <2> QED
    BY <1>2, <2>1
    DEF DefaultBuild, TckScripts, Decides, TargetOf, ProviderDecides,
        ProviderScript, AgreesAtOnce
<1> QED
  BY <1>1, <1>2 DEF Pids

\* The same where IInv holds.
LEMMA DefaultDecides ==
  ASSUME DefaultBuild, IInv, NEW x \in Pids, NEW s \in States,
         Exists(x), Decides(x, s)
  PROVE  \/ x \in CPids /\ neg[x].st = "offered" /\ s = "accepted"
         \/ /\ x \in PPids /\ neg[x].st = "requested"
            /\ s \in {"offered", "terminated"}
         \/ x \in PPids /\ neg[x].st = "accepted" /\ s = "agreed"
BY DecidesCases DEF IInv

\* A consumer asks once, accepts and verifies, a provider offers, agrees,
\* finalizes and terminates.
LEMMA PostsCases ==
  ASSUME NEW x \in Pids, NEW kind \in Kinds, Posts(x, kind),
         x \in CPids => /\ neg[x].st = "requested" => (neg[x].sent <=> neg[x].peer # NoPid)
                        /\ neg[x].st = "terminated" => neg[x].sent
  PROVE  \/ /\ x \in CPids /\ neg[x].st = "requested" /\ ~neg[x].sent
            /\ neg[x].peer = NoPid /\ kind = "request"
         \/ x \in CPids /\ neg[x].st = "accepted" /\ kind = "accepted"
         \/ x \in CPids /\ neg[x].st = "agreed" /\ kind = "verification"
         \/ x \in PPids /\ neg[x].st = "offered" /\ kind = "offer"
         \/ x \in PPids /\ neg[x].st = "agreed" /\ kind = "agreement"
         \/ x \in PPids /\ neg[x].st = "verified" /\ kind = "finalized"
         \/ x \in PPids /\ neg[x].st = "terminated" /\ kind = "termination"
<1>1. CASE x \in CPids
  BY <1>1 DEF Posts, ConsumerPosts
<1>2. CASE x \in PPids
  BY <1>2, RecordAssumption DEF Posts, ProviderPosts, Pids
<1> QED
  BY <1>1, <1>2 DEF Pids

\* The same where IInv holds.
LEMMA DefaultPosts ==
  ASSUME IInv, NEW x \in Pids, NEW kind \in Kinds, Exists(x), Posts(x, kind)
  PROVE  \/ /\ x \in CPids /\ neg[x].st = "requested" /\ ~neg[x].sent
            /\ neg[x].peer = NoPid /\ kind = "request"
         \/ x \in CPids /\ neg[x].st = "accepted" /\ kind = "accepted"
         \/ x \in CPids /\ neg[x].st = "agreed" /\ kind = "verification"
         \/ x \in PPids /\ neg[x].st = "offered" /\ kind = "offer"
         \/ x \in PPids /\ neg[x].st = "agreed" /\ kind = "agreement"
         \/ x \in PPids /\ neg[x].st = "verified" /\ kind = "finalized"
         \/ x \in PPids /\ neg[x].st = "terminated" /\ kind = "termination"
BY PostsCases DEF IInv, ConsumerInv

(***************************************************************************)
(* Steps of the default build that change no record.                       *)
(***************************************************************************)
LEMMA QuietStep ==
  ASSUME IInv, TypeOK', UNCHANGED neg,
         \A x \in Pids : result'[x] # Absent =>
           result'[x] = result[x] /\ phase'[x] = "done",
         \A m \in net' : /\ \E n \in net : /\ m.kind = n.kind /\ m.from = n.from
                                           /\ m.to = n.to /\ m.agr = n.agr
                         /\ m.live => m \in net /\ phase'[m.from] = "posting"
  PROVE  IInv'
<1>1. WaitInv'
  BY DEF IInv, WaitInv, Posts, TargetOf
<1>2. OutcomeInv'
  BY DEF IInv, OutcomeInv, ConsumerOutcome, ProviderOutcome, Exists
<1>3. MessageInv'
  BY DEF IInv, MessageInv
<1>4. ConsumerInv' /\ ProviderInv' /\ AgreementInv'
  BY DEF IInv, ConsumerInv, ProviderInv, AgreementInv, Exists
<1> QED
  BY <1>1, <1>2, <1>3, <1>4 DEF IInv

(***************************************************************************)
(* Steps of the loop.                                                      *)
(***************************************************************************)

\* A decision becomes the outcome of a record that has neither an outcome nor a
\* message waited for.
LEMMA DecideInv ==
  ASSUME DefaultBuild, IInv, TypeOK', NEW x \in Pids, NEW s \in States, Decide(x, s)
  PROVE  IInv'
<1>1. Exists(x) /\ phase[x] = "due" /\ neg[x] \in Records
  BY DEF Decide, IInv, TypeOK, Exists
<1>2. /\ phase' = [phase EXCEPT ![x] = "done"] /\ UNCHANGED <<neg, net>>
      /\ \E a \in Agreements \cup {NoAgr} :
           /\ result' = [result EXCEPT ![x] = Decided(neg[x], s, a)]
           /\ s = "agreed" => a \in Agreements /\ a.by = x
  <2>1. CASE s = "agreed"
    <3>1. x \in PPids
      BY <1>1, <2>1, DefaultDecides DEF Decide
    <3>2. Fresh(x) \in Agreements /\ Fresh(x).by = x
      BY <2>1, <3>1, RecordAssumption DEF Decide, Fresh, Agreements, IInv, TypeOK
    <3> QED
      BY <2>1, <3>2 DEF Decide
  <2>2. CASE s # "agreed"
    BY <2>2 DEF Decide
  <2> QED
    BY <2>1, <2>2
<1>3. \A m \in net : m.from \in Pids /\ (m.live => m.from # x)
  BY <1>1 DEF IInv, WaitInv, TypeOK, Messages
<1>4. WaitInv'
  BY <1>2, <1>3 DEF IInv, WaitInv, Posts, TargetOf, TypeOK
<1>5. OutcomeInv'
  <2>1. PICK a \in Agreements \cup {NoAgr} :
          /\ result' = [result EXCEPT ![x] = Decided(neg[x], s, a)]
          /\ s = "agreed" => a \in Agreements /\ a.by = x
    BY <1>2
  <2> DEFINE r == Decided(neg[x], s, a)
  <2>2. /\ r.st = s /\ r.peer = neg[x].peer
        /\ s = "agreed" => r.agr \in Agreements /\ r.agr.by = x
    BY <1>1, <2>1 DEF Decided, Records
  <2>3. /\ x \in CPids => ConsumerOutcome(x, neg[x], r)
        /\ x \in PPids => ProviderOutcome(x, neg[x], r)
    <3> HIDE DEF r
    <3> QED
      BY <1>1, <2>2, DefaultDecides, RecordAssumption
      DEF Decide, ConsumerOutcome, ProviderOutcome
  <2> HIDE DEF r
  <2>4. result'[x] = r /\ phase'[x] = "done"
    BY <1>2, <2>1 DEF r, IInv, TypeOK
  <2>5. \A y \in Pids : y # x => result'[y] = result[y] /\ phase'[y] = phase[y]
    BY <1>2, <2>1 DEF IInv, TypeOK
  <2> QED
    BY <1>2, <2>3, <2>4, <2>5
    DEF IInv, OutcomeInv, ConsumerOutcome, ProviderOutcome, Exists
<1>6. MessageInv' /\ ConsumerInv' /\ ProviderInv' /\ AgreementInv'
  BY <1>2 DEF IInv, MessageInv, ConsumerInv, ProviderInv, AgreementInv, Exists
<1> QED
  BY <1>4, <1>5, <1>6 DEF IInv

\* A posted message is the only one its sender waits for, and true.
LEMMA PostInv ==
  ASSUME IInv, TypeOK', NEW x \in Pids, NEW kind \in Kinds, Post(x, kind)
  PROVE  IInv'
<1> DEFINE m == [kind |-> kind, from |-> x, to |-> neg[x].peer,
                 agr  |-> IF kind = "agreement" THEN neg[x].agr ELSE NoAgr,
                 live |-> TRUE]
<1>1. Exists(x) /\ phase[x] = "due" /\ neg[x] \in Records
  BY DEF Post, IInv, TypeOK, Exists
<1>2. /\ m.kind = kind /\ m.from = x /\ m.to = neg[x].peer
      /\ kind = "agreement" => m.agr = neg[x].agr
  OBVIOUS
<1>3. /\ net' = net \cup {m} /\ phase' = [phase EXCEPT ![x] = "posting"]
      /\ UNCHANGED <<neg, result>> /\ Posts(x, kind)
  BY DEF Post
<1> HIDE DEF m
<1>4. \A n \in net : n.from \in Pids /\ (n.live => n.from # x)
  BY <1>1 DEF IInv, WaitInv, TypeOK, Messages
<1>5. WaitInv'
  <2>1. \A n \in net' : n.live => phase'[n.from] = "posting" /\ Posts(n.from, n.kind)
    BY <1>2, <1>3, <1>4 DEF IInv, WaitInv, TypeOK
  <2>2. \A n, o \in net' : n.live /\ o.live /\ n.from = o.from => n = o
    BY <1>2, <1>3, <1>4 DEF IInv, WaitInv
  <2> QED
    BY <1>3, <2>1, <2>2 DEF WaitInv, Posts, TargetOf
<1>6. OutcomeInv'
  BY <1>1, <1>3 DEF IInv, OutcomeInv, TypeOK, ConsumerOutcome, ProviderOutcome, Exists
<1>7. MessageInv'
  <2>1. /\ kind \in {"request", "accepted", "verification"} <=> x \in CPids
        /\ kind # "counter"
        /\ kind = "accepted" => neg[x].st = "accepted"
        /\ kind = "verification" => neg[x].st = "agreed" /\ x \in CPids
        /\ kind = "agreement" => neg[x].st = "agreed"
        /\ kind = "finalized" => neg[x].st = "verified"
    BY <1>1, <1>3, DefaultPosts, RecordAssumption
  <2>2. kind = "verification" => neg[neg[x].peer].st \in Signed
    BY <1>1, <2>1 DEF IInv, AgreementInv, Signed
  <2> QED
    BY <1>2, <1>3, <2>1, <2>2 DEF IInv, MessageInv, Signed
<1>8. ConsumerInv' /\ ProviderInv' /\ AgreementInv'
  BY <1>3 DEF IInv, ConsumerInv, ProviderInv, AgreementInv, Exists
<1> QED
  BY <1>5, <1>6, <1>7, <1>8 DEF IInv

(***************************************************************************)
(* Steps that change a record.                                             *)
(***************************************************************************)

\* A provider's record names a consumer's, which exists; a consumer's names a
\* provider's, once it names any.
LEMMA PeerFacts ==
  ASSUME IInv
  PROVE  /\ \A x \in Pids : Exists(x) => neg[x] \in Records
         /\ \A c \in CPids : c \notin PPids /\ c \in Pids
         /\ \A p \in PPids : p \notin CPids /\ p \in Pids
         /\ \A p \in PPids : Exists(p) => neg[p].peer \in CPids /\ Exists(neg[p].peer)
         /\ \A c \in CPids : Exists(c) /\ neg[c].peer # NoPid =>
              neg[c].peer \in PPids /\ Exists(neg[c].peer)
         /\ \A m \in net : /\ m.from \in Pids /\ Exists(m.from)
                           /\ m.kind = "request" <=> m.to = NoPid
                           /\ m.kind # "request" => m.to \in Pids /\ Exists(m.to)
<1>1. /\ \A x \in Pids : Exists(x) => neg[x] \in Records /\ neg[x].peer \in Peers(x)
      /\ \A m \in net : /\ m.from \in Pids /\ Exists(m.from)
                        /\ m.to \in Peers(m.from)
                        /\ m.kind = "request" <=> m.to = NoPid
  BY DEF IInv, TypeOK, Messages, Exists
<1>2. /\ \A p \in PPids : Exists(p) => neg[p].peer \in CPids /\ Exists(neg[p].peer)
      /\ \A c \in CPids : Exists(c) /\ neg[c].peer # NoPid =>
              neg[c].peer \in PPids /\ Exists(neg[c].peer)
  BY <1>1, RecordAssumption DEF IInv, ProviderInv, ConsumerInv, Peers, Pids
<1>3. ASSUME NEW m \in net, m.kind # "request" PROVE m.to \in Pids /\ Exists(m.to)
  <2>1. m.to = neg[m.from].peer /\ m.to # NoPid
    BY <1>1, <1>3 DEF IInv, MessageInv
  <2> QED
    BY <1>1, <1>2, <2>1 DEF Pids
<1> QED
  BY <1>1, <1>2, <1>3, RecordAssumption DEF Pids

\* What no step takes back: a record, a provider record's counterpart, its being
\* verified, and a finalization on either side.
Steady ==
  \A y \in Pids : Exists(y) =>
    /\ neg'[y] # Absent
    /\ y \in PPids => neg'[y].peer = neg[y].peer
    /\ y \in PPids /\ neg[y].st \in {"verified", "finalized"} =>
         neg'[y].st \in {"verified", "finalized"}
    /\ neg[y].st = "finalized" => neg'[y].st = "finalized"

\* So the outcome of an unchanged record stays its outcome.
LEMMA OutcomeSteady ==
  ASSUME IInv, Steady, NEW x \in Pids, NEW r \in Records,
         result[x] = r, neg'[x] = neg[x]
  PROVE  /\ x \in CPids => (ConsumerOutcome(x, neg[x], r))'
         /\ x \in PPids => (ProviderOutcome(x, neg[x], r))'
<1>1. r # Absent /\ Exists(x)
  BY RecordAssumption DEF IInv, OutcomeInv, TypeOK
<1>2. ASSUME x \in CPids PROVE (ConsumerOutcome(x, neg[x], r))'
  <2>1. ConsumerOutcome(x, neg[x], r)
    BY <1>1, <1>2 DEF IInv, OutcomeInv
  <2>2. neg[x].st = "agreed" => neg[x].peer \in PPids /\ Exists(neg[x].peer)
    BY <1>1, <1>2, PeerFacts DEF IInv, ConsumerInv
  <2> QED
    BY <2>1, <2>2 DEF ConsumerOutcome, Steady, Exists, Pids
<1>3. ASSUME x \in PPids PROVE (ProviderOutcome(x, neg[x], r))'
  <2>1. ProviderOutcome(x, neg[x], r)
    BY <1>1, <1>3 DEF IInv, OutcomeInv
  <2>2. neg[x].peer \in Pids /\ Exists(neg[x].peer)
    BY <1>1, <1>3, PeerFacts
  <2> QED
    BY <2>1, <2>2 DEF ProviderOutcome, Steady, Exists
<1> QED
  BY <1>2, <1>3

\* A record that did not exist is nobody's counterpart and sent nothing.
LEMMA NegotiateInv ==
  ASSUME IInv, TypeOK', NEW c \in CPids, Negotiate(c)
  PROVE  IInv'
<1> USE PeerFacts
<1>1. /\ ~Exists(c) /\ neg'[c] = NewConsumer /\ NewConsumer # Absent
      /\ \A x \in Pids : x # c => neg'[x] = neg[x]
      /\ UNCHANGED <<phase, result, net>>
  BY NewType, RecordAssumption DEF Negotiate, IInv, TypeOK
<1>2. /\ NewConsumer.st = "requested" /\ ~NewConsumer.sent /\ NewConsumer.peer = NoPid
  BY DEF NewConsumer
<1>3. phase[c] = "idle" /\ result[c] = Absent
  BY <1>1 DEF IInv, TypeOK, OutcomeInv
<1>4. WaitInv'
  BY <1>1 DEF IInv, WaitInv, Posts, TargetOf
<1>5. OutcomeInv'
  <2>1. Steady
    BY <1>1 DEF Steady, Exists
  <2>2. ASSUME NEW x \in Pids, result[x] # Absent
        PROVE  /\ phase[x] = "done" /\ neg'[x] = neg[x] /\ result[x] \in Records
    BY <1>1, <1>3, <2>2 DEF IInv, OutcomeInv, TypeOK
  <2> QED
    BY <1>1, <2>1, <2>2, OutcomeSteady DEF OutcomeInv
<1>6. MessageInv'
  BY <1>1 DEF IInv, MessageInv
<1>7. ConsumerInv'
  BY <1>1, <1>2 DEF IInv, ConsumerInv, Exists
<1>8. ProviderInv'
  BY <1>1 DEF IInv, ProviderInv, Exists
<1>9. AgreementInv'
  <2>1. ASSUME NEW d \in CPids, Exists(d), neg[d].st \in Signed
        PROVE  /\ d # c /\ neg[d].peer # c /\ neg[d].peer \in Pids
    BY <1>1, <2>1 DEF IInv, ConsumerInv, Signed
  <2> QED
    BY <1>1, <1>2, <2>1 DEF IInv, AgreementInv, Signed, Exists
<1> QED
  BY <1>4, <1>5, <1>6, <1>7, <1>8, <1>9 DEF IInv

\* The same where IInv holds.
LEMMA AnswerFacts ==
  ASSUME IInv, NEW m \in net, NEW r, Answer(m, r)
  PROVE  /\ net' = net \ {m}
         /\ m.live => /\ phase[m.from] = "posting" /\ Posts(m.from, m.kind)
                      /\ phase'[m.from] = "done" /\ result'[m.from] = r
         /\ \A x \in Pids : (m.live => x # m.from) =>
              phase'[x] = phase[x] /\ result'[x] = result[x]
         /\ \A n \in net' : n.live => phase'[n.from] = "posting"
         /\ \A x \in Pids : phase[x] = "posting" => result[x] = Absent
BY AnswerEffect DEF IInv, OutcomeInv

\* A new provider record is the outcome of the request it answers.
LEMMA ContractRequestInv ==
  ASSUME IInv, TypeOK', NEW m \in net, NEW p \in PPids, ContractRequest(m, p)
  PROVE  IInv'
<1> USE PeerFacts
<1>r. PICK r \in Records : r = Acknowledged(neg[m.from], m.kind, p)
  BY MessageType, AcknowledgedType DEF IInv
<1>1. /\ ~Exists(p) /\ m.kind = "request" /\ m.from \in CPids /\ Exists(m.from)
      /\ neg'[p] = NewProvider(m.from) /\ NewProvider(m.from) # Absent
      /\ \A x \in Pids : x # p => neg'[x] = neg[x]
      /\ Answer(m, r)
  <2>1. m.kind = "request" /\ m.from \in CPids
    BY DEF ContractRequest, IInv, MessageInv
  <2> QED
    BY <1>r, <2>1, NewType, RecordAssumption DEF ContractRequest, IInv, TypeOK
<1>2. /\ NewProvider(m.from).st = "requested" /\ NewProvider(m.from).peer = m.from
  BY DEF NewProvider
<1>3. phase[p] = "idle" /\ result[p] = Absent /\ m.from # p
  BY <1>1 DEF IInv, TypeOK, OutcomeInv
<1>4. r.st = "requested" /\ r.sent /\ r.peer = p
  BY <1>r, <1>1 DEF Acknowledged, Reached, Records
<1>5. WaitInv'
  BY <1>1, AnswerFacts DEF IInv, WaitInv, Posts, TargetOf
<1>6. OutcomeInv'
  <2>1. Steady
    BY <1>1 DEF Steady, Exists
  <2>2. ASSUME NEW x \in Pids, result'[x] # Absent, m.live => x # m.from
        PROVE  /\ phase'[x] = "done" /\ result'[x] = result[x]
               /\ neg'[x] = neg[x] /\ result[x] \in Records
    BY <1>1, <1>3, <2>2, AnswerFacts DEF IInv, OutcomeInv, TypeOK
  <2>3. ASSUME m.live
        PROVE  /\ phase'[m.from] = "done" /\ result'[m.from] = r
               /\ (ConsumerOutcome(m.from, neg[m.from], r))'
    <3>1. neg[m.from].st = "requested" /\ ~neg[m.from].sent
      BY <1>1, <2>3, AnswerFacts DEF Posts, ConsumerPosts
    <3>2. neg'[m.from] = neg[m.from] /\ neg'[p] # Absent /\ neg'[p].peer = m.from
      BY <1>1, <1>2, <1>3
    <3> QED
      BY <1>1, <1>4, <2>3, <3>1, <3>2, AnswerFacts DEF ConsumerOutcome, Exists
  <2>4. ASSUME NEW x \in Pids, result'[x] # Absent
        PROVE  /\ phase'[x] = "done"
               /\ x \in CPids => (ConsumerOutcome(x, neg[x], result[x]))'
               /\ x \in PPids => (ProviderOutcome(x, neg[x], result[x]))'
    <3>1. CASE m.live /\ x = m.from
      BY <1>1, <2>3, <3>1
    <3>2. CASE m.live => x # m.from
      BY <2>1, <2>2, <2>4, <3>2, OutcomeSteady
    <3> QED
      BY <3>1, <3>2
  <2> QED
    BY <2>4 DEF OutcomeInv
<1>7. MessageInv'
  BY <1>1, AnswerFacts DEF IInv, MessageInv
<1>8. ConsumerInv'
  BY <1>1 DEF IInv, ConsumerInv, Exists
<1>9. ProviderInv'
  BY <1>1, <1>2 DEF IInv, ProviderInv, Signed, Exists
<1>10. AgreementInv'
  BY <1>1 DEF IInv, AgreementInv, Exists, Signed, ConsumerInv
<1> QED
  BY <1>5, <1>6, <1>7, <1>8, <1>9, <1>10 DEF IInv

\* The events a record accepts, and what is then known of both ends.
LEMMA AcceptCases ==
  ASSUME IInv, NEW m \in net, AcceptEvent(m)
  PROVE  LET f == neg[m.from]  t == neg[m.to]
         IN  \/ /\ m.kind = "offer" /\ m.from \in PPids /\ m.to \in CPids
                /\ t.st = "requested" /\ t.sent
             \/ /\ m.kind = "accepted" /\ m.from \in CPids /\ m.to \in PPids
                /\ t.st = "offered" /\ f.peer = m.to /\ t.peer = m.from
                /\ f.st \in {"accepted", "terminated"} \cup Signed
             \/ /\ m.kind = "agreement" /\ m.from \in PPids /\ m.to \in CPids
                /\ t.st \in {"accepted", "requested"} /\ f.peer = m.to
                /\ t.peer = m.from /\ f.st \in Signed /\ m.agr = f.agr
             \/ /\ m.kind = "verification" /\ m.from \in CPids /\ m.to \in PPids
                /\ t.st = "agreed" /\ f.peer = m.to /\ t.peer = m.from
             \/ /\ m.kind = "finalized" /\ m.from \in PPids /\ m.to \in CPids
                /\ t.st = "verified" /\ f.peer = m.to /\ t.peer = m.from
             \/ /\ m.kind = "termination" /\ m.from \in PPids /\ m.to \in CPids
                /\ t.st \notin {"finalized", "terminated"}
<1> USE PeerFacts
<1>1. /\ m.kind \in Kinds /\ m.kind \notin {"request", "counter"}
      /\ m.kind \in {"accepted", "verification"} <=> m.from \in CPids
      /\ m.to = neg[m.from].peer
      /\ Exists(m.from) /\ Exists(m.to) /\ m.from \in Pids /\ m.to \in Pids
  BY MessageType DEF AcceptEvent, IInv, MessageInv
<1>2. CASE m.from \in CPids
  <2>1. m.to \in PPids /\ neg[m.to].peer = m.from
    BY <1>1, <1>2 DEF IInv, ConsumerInv, TypeOK
  <2>2. m.kind \in {"accepted", "verification"}
    BY <1>1, <1>2
  <2> QED
    BY <1>1, <1>2, <2>1, <2>2
    DEF AcceptEvent, Accepts, ProviderAccepts, IInv, MessageInv
<1>3. CASE m.from \in PPids
  <2>1. m.to \in CPids /\ neg[m.from].peer = m.to
    BY <1>1, <1>3
  <2>2. ConsumerAccepts(neg[m.to], m.kind, m.agr # NoAgr => Home[m.agr.by] = Home[m.from])
    BY <2>1 DEF AcceptEvent, Accepts
  <2>3. m.kind = "agreement" =>
          neg[m.from].st \in Signed /\ m.agr = neg[m.from].agr
    BY DEF IInv, MessageInv
  <2>4. neg[m.from].st \in Signed => neg[m.to].peer = m.from
    BY <1>1, <1>3, <2>1 DEF IInv, ProviderInv
  <2>5. m.kind = "finalized" => neg[m.from].st \in Signed
    BY DEF IInv, MessageInv, Signed
  <2> QED
    BY <1>1, <1>3, <2>1, <2>2, <2>3, <2>4, <2>5 DEF ConsumerAccepts, Kinds
<1> QED
  BY <1>1, <1>2, <1>3 DEF Pids

\* An event changes a record whose connector is not in a round: no outcome and
\* no wait is about it.
LEMMA AcceptEventInv ==
  ASSUME IInv, TypeOK', NEW m \in net, AcceptEvent(m)
  PROVE  IInv'
<1> USE PeerFacts, ReachedFacts
<1>r. PICK r \in Records : r = Acknowledged(neg[m.from], m.kind, m.to)
  BY MessageType, AcknowledgedType DEF AcceptEvent, IInv
<1>a. PICK a \in Records : a = Accepted(neg[m.to], m.kind, m.agr)
  BY MessageType, AcceptedType DEF AcceptEvent, IInv
<1>1. /\ m.kind \in Kinds /\ m.from \in Pids /\ m.to \in Pids
      /\ neg[m.from] \in Records /\ neg[m.to] \in Records
      /\ m.agr \in Agreements \cup {NoAgr} /\ m.kind \notin {"request", "counter"}
  BY MessageType DEF AcceptEvent, IInv, MessageInv
<1>2. /\ neg'[m.to] = a /\ a # Absent
      /\ \A x \in Pids : x # m.to => neg'[x] = neg[x]
      /\ Answer(m, r)
  BY <1>1, <1>r, <1>a, RecordAssumption DEF AcceptEvent, IInv, TypeOK
<1>3. /\ a.st = Reached(m.kind) /\ a.sent /\ a.peer = neg[m.to].peer
      /\ m.kind = "agreement" => a.agr = m.agr
      /\ m.kind \notin {"agreement", "termination"} => a.agr = neg[m.to].agr
  BY <1>1, <1>a, AcceptedFacts
<1>4. /\ r.st = Reached(m.kind) /\ r.sent /\ r.peer = neg[m.from].peer
      /\ r.agr = neg[m.from].agr
  BY <1>1, <1>r, AcknowledgedFacts
<1>5. /\ phase[m.to] = "idle" /\ result[m.to] = Absent
      /\ m.live => m.from # m.to
  <2>1. phase[m.to] = "idle"
    BY <1>1 DEF AcceptEvent, Busy, Dest
  <2> QED
    BY <1>1, <2>1 DEF IInv, OutcomeInv, WaitInv
<1>6. Steady
  BY <1>1, <1>2, <1>3, AcceptCases DEF Steady, Exists
<1>7. WaitInv'
  <2>1. \A n \in net' : n \in net /\ (n.live => n.from # m.to /\ phase'[n.from] = "posting")
    BY <1>2, <1>5, AnswerFacts DEF IInv, WaitInv
  <2>2. \A n \in net' : n.live => Posts(n.from, n.kind)'
    BY <1>2, <2>1 DEF IInv, WaitInv, Posts, TargetOf
  <2> QED
    BY <2>1, <2>2 DEF IInv, WaitInv
<1>8. OutcomeInv'
  <2>1. ASSUME NEW x \in Pids, result'[x] # Absent, m.live => x # m.from
        PROVE  /\ phase'[x] = "done" /\ result'[x] = result[x]
               /\ neg'[x] = neg[x] /\ result[x] \in Records
    BY <1>2, <1>5, <2>1, AnswerFacts DEF IInv, OutcomeInv, TypeOK
  <2>2. ASSUME m.live
        PROVE  /\ phase'[m.from] = "done" /\ result'[m.from] = r
               /\ m.from \in CPids => (ConsumerOutcome(m.from, neg[m.from], r))'
               /\ m.from \in PPids => (ProviderOutcome(m.from, neg[m.from], r))'
    <3>1. /\ phase'[m.from] = "done" /\ result'[m.from] = r
          /\ Posts(m.from, m.kind)
      BY <1>2, <2>2, AnswerFacts
    <3>2. neg'[m.from] = neg[m.from]
      BY <1>1, <1>2, <1>5, <2>2
    <3>3. ASSUME m.from \in CPids PROVE (ConsumerOutcome(m.from, neg[m.from], r))'
      BY <1>1, <1>2, <1>3, <1>4, <3>1, <3>2, <3>3, AcceptCases, DefaultPosts
      DEF ConsumerOutcome
    <3>4. ASSUME m.from \in PPids PROVE (ProviderOutcome(m.from, neg[m.from], r))'
      BY <1>1, <1>2, <1>3, <1>4, <3>1, <3>2, <3>4, AcceptCases, DefaultPosts
      DEF ProviderOutcome
    <3> QED
      BY <3>1, <3>3, <3>4
  <2>3. ASSUME NEW x \in Pids, result'[x] # Absent
        PROVE  /\ phase'[x] = "done"
               /\ x \in CPids => (ConsumerOutcome(x, neg[x], result[x]))'
               /\ x \in PPids => (ProviderOutcome(x, neg[x], result[x]))'
    <3>1. CASE m.live /\ x = m.from
      BY <2>2, <3>1
    <3>2. CASE m.live => x # m.from
      BY <1>6, <2>1, <2>3, <3>2, OutcomeSteady
    <3> QED
      BY <3>1, <3>2
  <2> QED
    BY <2>3 DEF OutcomeInv
<1>9. MessageInv'
  BY <1>1, <1>2, <1>3, AcceptCases, AnswerFacts DEF IInv, MessageInv, Signed
<1>10. ConsumerInv'
  <2>1. \A y \in Pids : Exists(y) =>
          neg'[y] # Absent /\ neg'[y].peer = neg[y].peer
    BY <1>1, <1>2, <1>3 DEF Exists
  <2>2. ASSUME m.to \in CPids
        PROVE  /\ a.st \in {"offered", "agreed", "finalized", "terminated"}
               /\ a.st # "terminated" => a.peer # NoPid
    <3>1. /\ m.kind \in {"offer", "agreement", "finalized", "termination"}
          /\ m.kind # "termination" =>
               \/ neg[m.to].st = "requested" /\ neg[m.to].sent
               \/ neg[m.to].peer = m.from
               \/ neg[m.to].st \in {"accepted", "verified"}
      BY <2>2, AcceptCases
    <3>2. Exists(m.to) /\ m.from # NoPid
      BY <1>1, RecordAssumption DEF AcceptEvent
    <3> QED
      BY <1>2, <1>3, <2>2, <3>1, <3>2 DEF IInv, ConsumerInv
  <2>3. ASSUME NEW c \in CPids, neg'[c] # Absent
        PROVE  /\ neg'[c].st \in {"requested", "terminated"} \/ neg'[c].peer # NoPid
               /\ neg'[c].st = "requested" => (neg'[c].sent <=> neg'[c].peer # NoPid)
               /\ neg'[c].st = "terminated" => neg'[c].sent
    BY <1>1, <1>2, <1>3, <2>2, <2>3 DEF IInv, ConsumerInv, Exists
  <2>4. ASSUME NEW c \in CPids, neg'[c] # Absent, neg'[c].peer # NoPid
        PROVE  neg'[neg'[c].peer] # Absent /\ neg'[neg'[c].peer].peer = c
    <3>1. Exists(c) /\ neg'[c].peer = neg[c].peer
      BY <1>1, <1>2, <2>1, <2>4 DEF Exists
    <3> QED
      BY <2>1, <2>4, <3>1 DEF IInv, ConsumerInv, Exists
  <2> QED
    BY <2>3, <2>4 DEF ConsumerInv, Exists
<1>11. ProviderInv'
  BY <1>1, <1>2, <1>3, AcceptCases DEF IInv, ProviderInv, Signed, Exists
<1>12. AgreementInv'
  BY <1>1, <1>2, <1>3, AcceptCases DEF IInv, AgreementInv, ConsumerInv, Signed, Exists
<1> QED
  BY <1>7, <1>8, <1>9, <1>10, <1>11, <1>12 DEF IInv

\* Saving an outcome takes nothing back, and makes nothing said untrue.
LEMMA SaveCases ==
  ASSUME IInv, NEW x \in Pids, Save(x), result[x] # Absent
  PROVE  LET n == neg[x]  r == result[x]
         IN  \/ /\ x \in CPids /\ n.st = "requested" /\ r.st = "requested"
                /\ ~n.sent /\ r.sent /\ r.peer \in PPids
                /\ Exists(r.peer) /\ neg[r.peer].peer = x
             \/ x \in CPids /\ n.st = "offered" /\ r.st = "accepted" /\ r.peer = n.peer
             \/ /\ x \in CPids /\ n.st = "accepted" /\ r.st = "accepted"
                /\ r.sent /\ r.peer = n.peer
             \/ /\ x \in CPids /\ n.st = "agreed" /\ r.st = "verified"
                /\ r.peer = n.peer /\ r.agr = n.agr
                /\ neg[n.peer].st \in {"verified", "finalized"}
             \/ /\ x \in PPids /\ n.st = "requested" /\ r.peer = n.peer
                /\ r.st \in {"offered", "terminated"}
             \/ /\ x \in PPids /\ n.st = "accepted" /\ r.peer = n.peer
                /\ r.st = "agreed" /\ r.agr \in Agreements /\ r.agr.by = x
             \/ /\ x \in PPids /\ n.st \in {"offered", "agreed", "terminated"}
                /\ r.peer = n.peer /\ r.st = n.st /\ r.sent /\ r.agr = n.agr
             \/ /\ x \in PPids /\ n.st = "verified" /\ r.st = "finalized"
                /\ r.peer = n.peer /\ r.agr = n.agr /\ neg[n.peer].st = "finalized"
BY DEF IInv, OutcomeInv, ConsumerOutcome, ProviderOutcome, Pids

\* Saving a round's outcome keeps the invariant.
LEMMA SaveInv ==
  ASSUME IInv, TypeOK', NEW x \in Pids, Save(x)
  PROVE  IInv'
<1> USE PeerFacts
<1>1. CASE result[x] = Absent
  <2>1. \A y \in Pids : result'[y] # Absent => result'[y] = result[y] /\ phase'[y] = "done"
    BY <1>1 DEF Save, IInv, OutcomeInv, TypeOK
  <2>2. \A m \in net : m.live => phase'[m.from] = "posting"
    BY DEF Save, IInv, WaitInv, TypeOK
  <2>3. UNCHANGED neg
    BY <1>1 DEF Save, IInv, TypeOK
  <2> QED
    BY <2>1, <2>2, <2>3, QuietStep DEF Save
<1>2. CASE result[x] # Absent
  <2>r. PICK r \in Records : r = result[x]
    BY <1>2 DEF IInv, TypeOK
  <2>1. /\ neg'[x] = r /\ r # Absent /\ Exists(x) /\ phase[x] = "done"
        /\ \A y \in Pids : y # x =>
             neg'[y] = neg[y] /\ phase'[y] = phase[y] /\ result'[y] = result[y]
        /\ result'[x] = Absent /\ UNCHANGED net
    BY <1>2, <2>r DEF Save, IInv, TypeOK
  <2>2. Steady
    BY <1>2, <2>r, <2>1, SaveCases DEF Steady, Exists
  <2>3. WaitInv'
    BY <2>1 DEF IInv, WaitInv, Posts, TargetOf
  <2>4. OutcomeInv'
    <3>1. ASSUME NEW y \in Pids, result'[y] # Absent
          PROVE  /\ phase'[y] = "done" /\ result'[y] = result[y]
                 /\ neg'[y] = neg[y] /\ result[y] \in Records
      BY <2>1, <3>1 DEF IInv, OutcomeInv, TypeOK
    <3> QED
      BY <2>2, <3>1, OutcomeSteady DEF OutcomeInv
  <2>5. MessageInv'
    BY <1>2, <2>r, <2>1, SaveCases DEF IInv, MessageInv, Signed
  <2>6. ConsumerInv'
    <3>1. ASSUME x \in CPids
          PROVE  /\ r.st \in {"requested", "accepted", "verified"} /\ r.peer # NoPid
                 /\ r.st = "requested" => r.sent
                 /\ r.peer \in PPids /\ Exists(r.peer) /\ neg[r.peer].peer = x
      <4>1. NoPid \notin PPids
        BY RecordAssumption DEF Pids
      <4>2. neg[x].st # "requested" /\ neg[x].st # "terminated" =>
              neg[x].peer \in PPids /\ neg[neg[x].peer].peer = x /\ Exists(neg[x].peer)
        BY <2>1, <3>1 DEF IInv, ConsumerInv
      <4> QED
        BY <1>2, <2>r, <3>1, <4>1, <4>2, SaveCases
    <3>2. ASSUME NEW c \in CPids, neg'[c] # Absent, c # x
          PROVE  neg'[c] = neg[c] /\ Exists(c)
      BY <2>1, <3>2 DEF Exists
    <3> QED
      BY <2>1, <2>2, <3>1, <3>2 DEF IInv, ConsumerInv, Exists, Steady
  <2>7. ProviderInv'
    BY <1>2, <2>r, <2>1, SaveCases DEF IInv, ProviderInv, Signed, Exists
  <2>8. AgreementInv'
    BY <1>2, <2>r, <2>1, SaveCases DEF IInv, AgreementInv, ConsumerInv, Signed, Exists
  <2> QED
    BY <2>3, <2>4, <2>5, <2>6, <2>7, <2>8 DEF IInv
<1> QED
  BY <1>1, <1>2

(***************************************************************************)
(* The invariant holds.                                                    *)
(***************************************************************************)
\* The initial state satisfies the invariant.
LEMMA InitInv == Init => IInv
BY InitType DEF Init, IInv, WaitInv, OutcomeInv, ConsumerInv, MessageInv,
   ProviderInv, AgreementInv, Exists, Pids

\* Every step keeps the invariant.
LEMMA NextInv == DefaultBuild /\ IInv /\ [Next]_vars => IInv'
<1> SUFFICES ASSUME DefaultBuild, IInv, [Next]_vars PROVE IInv'
  OBVIOUS
<1>1. TypeOK' /\ Orderly
  BY NextType DEF IInv, OutcomeInv, Orderly
<1>2. CASE Quiet
  BY <1>1, <1>2, QuietStep DEF Quiet
<1>3. CASE Stir
  BY <1>1, <1>3, NegotiateInv, DecideInv, PostInv, SaveInv, ContractRequestInv, AcceptEventInv
  DEF Stir
<1> QED
  BY <1>1, <1>2, <1>3, StepCases

\* In the default build every reachable state satisfies IInv, for any number of
\* connectors and negotiations, and any number of lost requests, lost answers
\* and crashes.
THEOREM Invariance == ASSUME DefaultBuild PROVE Spec => []IInv
<1>1. DefaultBuild
  OBVIOUS
<1> QED
  BY <1>1, InitInv, NextInv, PTL DEF Spec

\* The two sides never hold different agreements.
THEOREM Agreement == ASSUME DefaultBuild PROVE Spec => []AgreementShared
<1>1. IInv => AgreementShared
  <2> SUFFICES ASSUME IInv, NEW c \in CPids, Exists(c), HoldsAgreement(neg[c])
               PROVE  LET p == neg[c].peer
                      IN  /\ p \in Answers(c) /\ HoldsAgreement(neg[p])
                          /\ neg[p].agr = neg[c].agr /\ neg[p].agr.by = p
    BY DEF AgreementShared
  <2>1. neg[c].st \in Signed
    BY DEF HoldsAgreement, Signed
  <2>2. /\ neg[c].peer \in PPids /\ Exists(neg[c].peer)
        /\ neg[neg[c].peer].peer = c
    BY <2>1, PeerFacts DEF IInv, ConsumerInv, Signed
  <2> QED
    BY <2>1, <2>2 DEF IInv, AgreementInv, ProviderInv, HoldsAgreement, Signed, Answers
<1> QED
  BY <1>1, Invariance, PTL

\* The provider's finalization, which opens transfers, implies the consumer's,
\* of the same agreement.
THEOREM Finalization == ASSUME DefaultBuild PROVE Spec => []FinalizedTogether
<1>1. IInv => FinalizedTogether
  <2> SUFFICES ASSUME IInv, NEW p \in PPids, Exists(p), neg[p].st = "finalized"
               PROVE  LET c == neg[p].peer
                      IN  /\ neg[c].st = "finalized" /\ neg[c].peer = p
                          /\ neg[c].agr = neg[p].agr
    BY DEF FinalizedTogether
  <2>1. /\ neg[p].peer \in CPids /\ Exists(neg[p].peer)
        /\ neg[neg[p].peer].st = "finalized" /\ neg[neg[p].peer].peer = p
    BY PeerFacts DEF IInv, ProviderInv, Signed
  <2> QED
    BY <2>1 DEF IInv, AgreementInv, Signed
<1> QED
  BY <1>1, Invariance, PTL

\* However often a request is repeated, one provider record at most issues an
\* agreement for it.
THEOREM OneAgreement == ASSUME DefaultBuild PROVE Spec => []OneAgreementEach
<1>1. IInv => OneAgreementEach
  BY DEF IInv, ProviderInv, OneAgreementEach, HoldsAgreement, Signed
<1> QED
  BY <1>1, Invariance, PTL

\* The order of the states.
LEMMA RankFacts ==
  /\ Rank("requested") = 1 /\ Rank("offered") = 2 /\ Rank("accepted") = 3
  /\ Rank("agreed") = 4 /\ Rank("verified") = 5 /\ Rank("finalized") = 6
  /\ Rank("terminated") = 7
  /\ \A st \in States : Rank(st) \in 1..7 /\ (st \notin {"terminated"} => Rank(st) < 7)
BY DEF Rank, States

\* An event moves its record to a later state.
LEMMA AcceptForward ==
  ASSUME IInv, TypeOK', NEW m \in net, AcceptEvent(m)
  PROVE  /\ neg'[m.to] # Absent /\ Forward(neg[m.to], neg'[m.to])
         /\ \A x \in Pids : x # m.to => neg'[x] = neg[x]
<1>1. /\ m.kind \in Kinds /\ m.to \in Pids /\ neg[m.to] \in Records
      /\ m.agr \in Agreements \cup {NoAgr}
  BY MessageType, PeerFacts DEF AcceptEvent, IInv
<1>a. PICK a \in Records : a = Accepted(neg[m.to], m.kind, m.agr)
  BY <1>1, AcceptedType
<1>2. /\ neg'[m.to] = a /\ a # Absent
      /\ \A x \in Pids : x # m.to => neg'[x] = neg[x]
  BY <1>1, <1>a, RecordAssumption DEF AcceptEvent, IInv, TypeOK
<1>3. a.st = Reached(m.kind) /\ neg[m.to].st \in States
  BY <1>1, <1>a, AcceptedFacts DEF Records
<1>4. Rank(neg[m.to].st) < Rank(a.st)
  <2>1. \/ m.kind = "offer" /\ neg[m.to].st = "requested"
        \/ m.kind = "accepted" /\ neg[m.to].st = "offered"
        \/ m.kind = "agreement" /\ neg[m.to].st \in {"requested", "accepted"}
        \/ m.kind = "verification" /\ neg[m.to].st = "agreed"
        \/ m.kind = "finalized" /\ neg[m.to].st = "verified"
        \/ m.kind = "termination" /\ neg[m.to].st # "terminated"
    BY AcceptCases
  <2> QED
    BY <1>3, <2>1, ReachedFacts, RankFacts
<1> QED
  BY <1>2, <1>4 DEF Forward

\* So does a saved outcome, or the record keeps its state and has now told the
\* counterpart of it.
LEMMA SaveForward ==
  ASSUME IInv, TypeOK', NEW x \in Pids, Save(x)
  PROVE  /\ Exists(x) /\ neg'[x] # Absent /\ Forward(neg[x], neg'[x])
         /\ \A y \in Pids : y # x => neg'[y] = neg[y]
<1>1. /\ neg'[x] = IF result[x] = Absent THEN neg[x] ELSE result[x]
      /\ \A y \in Pids : y # x => neg'[y] = neg[y]
      /\ Exists(x)
  BY DEF Save, IInv, TypeOK
<1>2. CASE result[x] = Absent
  BY <1>1, <1>2 DEF Forward, Exists
<1>3. CASE result[x] # Absent
  <2>1. /\ neg'[x] = result[x]
        /\ \/ neg[x].st = result[x].st /\ result[x].sent
           \/ /\ neg[x].st = "requested"
              /\ result[x].st \in {"offered", "terminated"}
           \/ neg[x].st = "offered" /\ result[x].st = "accepted"
           \/ neg[x].st = "accepted" /\ result[x].st = "agreed"
           \/ neg[x].st = "agreed" /\ result[x].st = "verified"
           \/ neg[x].st = "verified" /\ result[x].st = "finalized"
    BY <1>1, <1>3, SaveCases
  <2> QED
    BY <1>1, <1>3, <2>1, RankFacts DEF Forward
<1> QED
  BY <1>2, <1>3

\* No record vanishes or goes back, although outcomes are computed from copies
\* and saved a whole round later.
THEOREM Progress == ASSUME DefaultBuild PROVE Spec => NoRegress
<1>1. IInv /\ [Next]_vars =>
        [\A x \in Pids : Exists(x) => neg'[x] # Absent /\ Forward(neg[x], neg'[x])]_vars
  <2> SUFFICES ASSUME IInv, Next
               PROVE  \A x \in Pids : Exists(x) =>
                        neg'[x] # Absent /\ Forward(neg[x], neg'[x])
    OBVIOUS
  <2> DEFINE OnlyForward == \A x \in Pids : Exists(x) =>
                              neg'[x] # Absent /\ Forward(neg[x], neg'[x])
  <2>0. TypeOK'
    BY NextType DEF IInv
  <2>1. ASSUME UNCHANGED neg PROVE OnlyForward
    BY <2>1 DEF Forward, Exists
  <2>2. ASSUME NEW y \in Pids, ~Exists(y), \A x \in Pids : x # y => neg'[x] = neg[x]
        PROVE  OnlyForward
    BY <2>2 DEF Forward, Exists
  <2>3. ASSUME NEW c \in CPids, Negotiate(c) PROVE OnlyForward
    <3>1. ~Exists(c) /\ c \in Pids /\ \A x \in Pids : x # c => neg'[x] = neg[x]
      BY <2>3 DEF Negotiate, IInv, TypeOK, Pids
    <3> QED
      BY <2>2, <3>1
  <2>4. ASSUME NEW k \in Connectors, Loop(k) PROVE OnlyForward
    <3>1. ASSUME NEW x \in Pids, Save(x) PROVE OnlyForward
      BY <2>0, <3>1, SaveForward DEF Forward, Exists
    <3>2. (\E x \in Pids : Save(x)) \/ UNCHANGED neg
      BY <2>4 DEF Loop, StartTick, Decide, Post, PostNowhere
    <3> QED
      BY <2>1, <3>1, <3>2
  <2>5. ASSUME NEW m \in net, Deliver(m) PROVE OnlyForward
    <3>1. ASSUME NEW p \in PPids, ContractRequest(m, p) PROVE OnlyForward
      <4>1. ~Exists(p) /\ p \in Pids /\ \A x \in Pids : x # p => neg'[x] = neg[x]
        BY <3>1 DEF ContractRequest, IInv, TypeOK, Pids
      <4> QED
        BY <2>2, <4>1
    <3>2. CASE AcceptEvent(m)
      BY <2>0, <3>2, AcceptForward DEF Forward, Exists
    <3>3. CASE RejectEvent(m)
      BY <2>1, <3>3 DEF RejectEvent
    <3> QED
      BY <2>5, <3>1, <3>2, <3>3 DEF Deliver
  <2>6. CASE Fault
    BY <2>1, <2>6 DEF Fault, LoseRequest, LoseAnswer, Crash, Restart
  <2> QED
    BY <2>3, <2>4, <2>5, <2>6 DEF Next
<1>2. DefaultBuild
  OBVIOUS
<1> QED
  BY <1>1, <1>2, Invariance, PTL DEF Spec, NoRegress

(***************************************************************************)
(* What a transfer relies on.                                              *)
(***************************************************************************)

\* No record vanishes, no provider record changes sides, nothing happens to a
\* finalized record.
Keeps(x) ==
  Exists(x) => /\ Exists(x)'
               /\ x \in PPids => neg'[x].peer = neg[x].peer
               /\ neg[x].st = "finalized" => neg'[x] = neg[x]

\* A save keeps records, and so does an event.
LEMMA SaveKeeps ==
  ASSUME IInv, NEW x \in Pids, Save(x)
  PROVE  \A y \in Pids : Keeps(y)
<1>1. /\ neg'[x] = IF result[x] = Absent THEN neg[x] ELSE result[x]
      /\ \A y \in Pids : y # x => neg'[y] = neg[y]
      /\ Exists(x)
  BY DEF Save, IInv, TypeOK
<1>2. Keeps(x)
  BY <1>1, SaveCases, PeerFacts DEF Keeps, Exists
<1> QED
  BY <1>1, <1>2 DEF Keeps, Exists

LEMMA AcceptEventKeeps ==
  ASSUME IInv, NEW m \in net, AcceptEvent(m)
  PROVE  \A y \in Pids : Keeps(y)
<1>1. /\ m.kind \in Kinds /\ m.to \in Pids /\ neg[m.to] \in Records
      /\ m.agr \in Agreements \cup {NoAgr}
  BY MessageType, PeerFacts DEF AcceptEvent, IInv
<1>2. PICK a \in Records : a = Accepted(neg[m.to], m.kind, m.agr)
  BY <1>1, AcceptedType
<1>3. /\ neg'[m.to] = a /\ a # Absent /\ a.peer = neg[m.to].peer
      /\ \A y \in Pids : y # m.to => neg'[y] = neg[y]
  BY <1>1, <1>2, AcceptedFacts, RecordAssumption DEF AcceptEvent, IInv, TypeOK
<1>4. neg[m.to].st # "finalized"
  BY AcceptCases
<1> QED
  BY <1>1, <1>3, <1>4 DEF Keeps, Exists

\* A provider record that is new is where its consumer asked.
LEMMA StepKeeps ==
  DefaultBuild /\ IInv /\ [Next]_vars =>
    /\ \A x \in Pids : Keeps(x)
    /\ \A p \in PPids : ~Exists(p) /\ Exists(p)' => Home[p] = Provider[neg'[p].peer]
<1> SUFFICES ASSUME DefaultBuild, IInv, [Next]_vars
             PROVE  /\ \A x \in Pids : Keeps(x)
                    /\ \A p \in PPids : ~Exists(p) /\ Exists(p)' =>
                         Home[p] = Provider[neg'[p].peer]
  OBVIOUS
<1> DEFINE Goal == /\ \A x \in Pids : Keeps(x)
                   /\ \A p \in PPids : ~Exists(p) /\ Exists(p)' =>
                        Home[p] = Provider[neg'[p].peer]
<1>1. ASSUME UNCHANGED neg PROVE Goal
  BY <1>1 DEF Keeps, Exists
<1>2. ASSUME NEW c \in CPids, Negotiate(c) PROVE Goal
  <2>1. ~Exists(c) /\ \A x \in Pids : x # c => neg'[x] = neg[x]
    BY <1>2 DEF Negotiate, IInv, TypeOK
  <2> QED
    BY <2>1, PeerFacts DEF Keeps, Exists
<1>3. ASSUME NEW x \in Pids, Save(x) PROVE Goal
  <2>1. Exists(x) /\ \A y \in Pids : y # x => neg'[y] = neg[y]
    BY <1>3 DEF Save, IInv, TypeOK
  <2> QED
    BY <1>3, <2>1, SaveKeeps, PeerFacts DEF Exists
<1>4. ASSUME NEW m \in net, NEW p \in PPids, ContractRequest(m, p) PROVE Goal
  <2>1. /\ ~Exists(p) /\ \A x \in Pids : x # p => neg'[x] = neg[x]
        /\ p \in Pids /\ neg'[p] = NewProvider(m.from) /\ Home[p] = Provider[m.from]
    BY <1>4 DEF ContractRequest, Dest, IInv, TypeOK, Pids
  <2>2. NewProvider(m.from).peer = m.from
    BY DEF NewProvider
  <2> QED
    BY <2>1, <2>2, PeerFacts DEF Keeps, Exists
<1>5. ASSUME NEW m \in net, AcceptEvent(m) PROVE Goal
  <2>1. m.to \in Pids /\ Exists(m.to) /\ \A y \in Pids : y # m.to => neg'[y] = neg[y]
    BY <1>5, PeerFacts DEF AcceptEvent, IInv, TypeOK
  <2> QED
    BY <1>5, <2>1, AcceptEventKeeps, PeerFacts DEF Exists
<1>6. \/ \E c \in CPids : Negotiate(c)
      \/ \E x \in Pids : Save(x)
      \/ \E m \in net : AcceptEvent(m) \/ \E p \in PPids : ContractRequest(m, p)
      \/ UNCHANGED neg
  BY DEF Next, Loop, Deliver, Fault, StartTick, Decide, Post, PostNowhere,
         RejectEvent, LoseRequest, LoseAnswer, Crash, vars
<1> QED
  BY <1>1, <1>2, <1>3, <1>4, <1>5, <1>6

-----------------------------------------------------------------------------
(***************************************************************************)
(* In the default build NegotiationProtocol implements ContractSigning:    *)
(* every step is one of the signing of one contract, or none.              *)
(***************************************************************************)
\* Provider record p has issued an agreement to consumer record c.
HoldsFor(p, c) == Exists(p) /\ neg[p].peer = c /\ neg[p].st \in Signed

\* The stages of the contracts, read off the records.
View ==
  \A c \in CPids :
    /\ ~Exists(c) => SigningStage(c) = "none" /\ SignedAgreement(c) = NoAgr
    /\ Exists(c) /\ neg[c].st = "terminated" =>
         SigningStage(c) = "void" /\ SignedAgreement(c) = NoAgr
    /\ Exists(c) /\ neg[c].st # "terminated" /\ (\A p \in PPids : ~HoldsFor(p, c)) =>
         SigningStage(c) = "open" /\ SignedAgreement(c) = NoAgr
    /\ \A p \in PPids : HoldsFor(p, c) =>
         /\ Exists(c)
         /\ neg[c].peer = p
         /\ neg[c].st # "terminated" =>
              /\ SignedAgreement(c) = neg[p].agr
              /\ SigningStage(c) =
                   IF neg[p].st = "finalized" THEN "closed"
                   ELSE IF neg[c].st = "finalized" THEN "concluded"
                   ELSE IF neg[p].st = "verified" THEN "countersigned"
                   ELSE "issued"

LEMMA ViewInv == IInv => View
<1> SUFFICES ASSUME IInv, NEW c \in CPids
             PROVE  /\ ~Exists(c) => SigningStage(c) = "none" /\ SignedAgreement(c) = NoAgr
                    /\ Exists(c) /\ neg[c].st = "terminated" =>
                         SigningStage(c) = "void" /\ SignedAgreement(c) = NoAgr
                    /\ Exists(c) /\ neg[c].st # "terminated" /\ (\A p \in PPids : ~HoldsFor(p, c)) =>
                         SigningStage(c) = "open" /\ SignedAgreement(c) = NoAgr
                    /\ \A p \in PPids : HoldsFor(p, c) =>
                         /\ Exists(c)
                         /\ neg[c].peer = p
                         /\ neg[c].st # "terminated" =>
                              /\ SignedAgreement(c) = neg[p].agr
                              /\ SigningStage(c) =
                                   IF neg[p].st = "finalized" THEN "closed"
                                   ELSE IF neg[c].st = "finalized" THEN "concluded"
                                   ELSE IF neg[p].st = "verified" THEN "countersigned"
                                   ELSE "issued"
  BY DEF View
<1>1. Issued(c) <=> \E p \in PPids : HoldsFor(p, c)
  BY DEF Issued, Answers, HoldsFor, HoldsAgreement, Signed
<1>2. ASSUME NEW p \in PPids, HoldsFor(p, c)
      PROVE  Exists(c) /\ neg[c].peer = p /\ Holder(c) = p
  <2>1. \A q \in PPids : HoldsFor(q, c) => Exists(c) /\ neg[c].peer = q
    BY DEF IInv, ProviderInv, HoldsFor
  <2>2. p \in Answers(c) /\ HoldsAgreement(neg[p])
    BY <1>2 DEF Answers, HoldsFor, HoldsAgreement, Signed
  <2>3. Holder(c) \in Answers(c) /\ HoldsAgreement(neg[Holder(c)])
    BY <2>2 DEF Holder
  <2>4. Holder(c) \in PPids /\ HoldsFor(Holder(c), c)
    BY <2>3 DEF Answers, HoldsFor, HoldsAgreement, Signed
  <2> QED
    BY <1>2, <2>1, <2>4
<1>3. ASSUME NEW p \in PPids, HoldsFor(p, c), neg[c].st # "terminated"
      PROVE  /\ SignedAgreement(c) = neg[p].agr
             /\ SigningStage(c) =
                  IF neg[p].st = "finalized" THEN "closed"
                  ELSE IF neg[c].st = "finalized" THEN "concluded"
                  ELSE IF neg[p].st = "verified" THEN "countersigned"
                  ELSE "issued"
  <2>1. Exists(c) /\ neg[c].peer = p /\ Holder(c) = p /\ Issued(c)
    BY <1>1, <1>2, <1>3
  <2>2. SigningStage(c) =
          IF neg[p].st = "finalized" THEN "closed"
          ELSE IF neg[c].st = "finalized" THEN "concluded"
          ELSE IF neg[p].st = "verified" THEN "countersigned"
          ELSE "issued"
    BY <1>3, <2>1 DEF SigningStage
  <2>3. HoldsAgreement(neg[c]) => neg[c].agr = neg[p].agr
    BY <2>1 DEF IInv, AgreementInv, HoldsAgreement, Signed
  <2> QED
    BY <2>1, <2>2, <2>3 DEF SignedAgreement
<1>4. ~Exists(c) => SigningStage(c) = "none"
  BY DEF SigningStage
<1>5. Exists(c) /\ neg[c].st = "terminated" => SigningStage(c) = "void"
  BY DEF SigningStage
<1>6. Exists(c) /\ neg[c].st # "terminated" /\ ~Issued(c) => SigningStage(c) = "open"
  BY DEF SigningStage
<1>7. SigningStage(c) \in {"none", "void", "open"} => SignedAgreement(c) = NoAgr
  BY DEF SignedAgreement
<1> QED
  BY <1>1, <1>2, <1>3, <1>4, <1>5, <1>6, <1>7

\* A step that changes neither what the provider side holds for d, nor whether d
\* exists, is terminated or is finalized, is none of the signing of d.
LEMMA StageSteady ==
  ASSUME View, View', NEW d \in CPids, Exists(d)' <=> Exists(d),
         Exists(d) => \/ neg'[d].st = neg[d].st
                      \/ /\ neg[d].st \notin {"terminated", "finalized"}
                         /\ neg'[d].st \notin {"terminated", "finalized"},
         \A p \in PPids :
           /\ HoldsFor(p, d)' <=> HoldsFor(p, d)
           /\ HoldsFor(p, d) => neg'[p].st = neg[p].st /\ neg'[p].agr = neg[p].agr
  PROVE  SigningStage(d)' = SigningStage(d) /\ SignedAgreement(d)' = SignedAgreement(d)
<1>1. CASE ~Exists(d)
  BY <1>1 DEF View
<1>2. CASE Exists(d) /\ neg[d].st = "terminated"
  BY <1>2 DEF View
<1>3. CASE Exists(d) /\ neg[d].st # "terminated" /\ \A p \in PPids : ~HoldsFor(p, d)
  BY <1>3 DEF View
<1>4. ASSUME Exists(d), neg[d].st # "terminated", NEW p \in PPids, HoldsFor(p, d)
      PROVE  SigningStage(d)' = SigningStage(d) /\ SignedAgreement(d)' = SignedAgreement(d)
  <2>1. HoldsFor(p, d)' /\ neg'[d].st # "terminated" /\ neg'[p].st = neg[p].st
        /\ neg'[p].agr = neg[p].agr /\ (neg[d].st = "finalized" <=> neg'[d].st = "finalized")
    BY <1>4
  <2> QED
    BY <1>4, <2>1 DEF View
<1> QED
  BY <1>1, <1>2, <1>3, <1>4

\* One contract moves, or none does.
LEMMA OneMoves ==
  ASSUME NEW c \in CPids,
         \A d \in CPids \ {c} : /\ SigningStage(d)' = SigningStage(d)
                              /\ SignedAgreement(d)' = SignedAgreement(d),
         \/ /\ SignedAgreement(c)' = SignedAgreement(c)
            /\ \/ SigningStage(c)' = SigningStage(c)
               \/ SigningStage(c) = "none" /\ SigningStage(c)' = "open"
               \/ SigningStage(c) = "issued" /\ SigningStage(c)' = "countersigned"
               \/ SigningStage(c) = "countersigned" /\ SigningStage(c)' = "concluded"
               \/ SigningStage(c) = "concluded" /\ SigningStage(c)' = "closed"
         \/ /\ SigningStage(c) \in {"open", "issued", "countersigned"}
            /\ SigningStage(c)' = "void" /\ SignedAgreement(c)' = NoAgr
         \/ /\ SigningStage(c) = "open" /\ SigningStage(c)' = "issued"
            /\ SignedAgreement(c)' \in Agreements
            /\ \A d \in CPids : SignedAgreement(d) # SignedAgreement(c)'
  PROVE  [Signing!Next]_Signing!vars
<1> DEFINE stage == [d \in CPids |-> SigningStage(d)]
           signed == [d \in CPids |-> SignedAgreement(d)]
<1>1. ASSUME NEW from, NEW to, SigningStage(c) \in from, SigningStage(c)' = to
      PROVE  Signing!Move(c, from, to)
  BY <1>1 DEF Signing!Move
<1>2. ASSUME SignedAgreement(c)' = SignedAgreement(c) PROVE UNCHANGED signed
  BY <1>2
<1>3. CASE /\ SigningStage(c)' = SigningStage(c)
           /\ SignedAgreement(c)' = SignedAgreement(c)
  BY <1>3 DEF Signing!vars
<1>4. CASE /\ SigningStage(c) = "none" /\ SigningStage(c)' = "open"
           /\ SignedAgreement(c)' = SignedAgreement(c)
  <2>1. Signing!Open(c)
    BY <1>1, <1>2, <1>4 DEF Signing!Open
  <2> QED
    BY <2>1 DEF Signing!Next
<1>5. CASE /\ SigningStage(c) = "issued" /\ SigningStage(c)' = "countersigned"
           /\ SignedAgreement(c)' = SignedAgreement(c)
  <2>1. Signing!Countersign(c)
    BY <1>1, <1>2, <1>5 DEF Signing!Countersign
  <2> QED
    BY <2>1 DEF Signing!Next
<1>6. CASE /\ SigningStage(c) = "countersigned" /\ SigningStage(c)' = "concluded"
           /\ SignedAgreement(c)' = SignedAgreement(c)
  <2>1. Signing!Conclude(c)
    BY <1>1, <1>2, <1>6 DEF Signing!Conclude
  <2> QED
    BY <2>1 DEF Signing!Next
<1>7. CASE /\ SigningStage(c) = "concluded" /\ SigningStage(c)' = "closed"
           /\ SignedAgreement(c)' = SignedAgreement(c)
  <2>1. Signing!Close(c)
    BY <1>1, <1>2, <1>7 DEF Signing!Close
  <2> QED
    BY <2>1 DEF Signing!Next
<1>8. CASE /\ SigningStage(c) \in {"open", "issued", "countersigned"}
           /\ SigningStage(c)' = "void" /\ SignedAgreement(c)' = NoAgr
  <2>1. signed' = [signed EXCEPT ![c] = NoAgr]
    BY <1>8
  <2>2. Signing!Void(c)
    BY <1>1, <1>8, <2>1 DEF Signing!Void
  <2> QED
    BY <2>2 DEF Signing!Next
<1>9. CASE /\ SigningStage(c) = "open" /\ SigningStage(c)' = "issued"
           /\ SignedAgreement(c)' \in Agreements
           /\ \A d \in CPids : SignedAgreement(d) # SignedAgreement(c)'
  <2> DEFINE a == SignedAgreement(c)'
  <2>1. signed' = [signed EXCEPT ![c] = a] /\ \A d \in CPids : signed[d] # a
    BY <1>9
  <2>2. Signing!Issue(c, a)
    BY <1>1, <1>9, <2>1 DEF Signing!Issue
  <2> QED
    BY <1>9, <2>2 DEF Signing!Next
<1> QED
  BY <1>3, <1>4, <1>5, <1>6, <1>7, <1>8, <1>9

\* A step that changes the record of consumer c alone is at most one of c's.
LEMMA ConsumerAlone ==
  ASSUME IInv, View, View', NEW c \in CPids, \A x \in Pids : x # c => neg'[x] = neg[x]
  PROVE  /\ \A d \in CPids \ {c} : /\ SigningStage(d)' = SigningStage(d)
                                   /\ SignedAgreement(d)' = SignedAgreement(d)
         /\ \A p \in PPids, d \in CPids : HoldsFor(p, d)' <=> HoldsFor(p, d)
         /\ \A p \in PPids : neg'[p] = neg[p]
<1>1. \A p \in PPids : neg'[p] = neg[p]
  BY PeerFacts
<1>2. \A p \in PPids, d \in CPids : HoldsFor(p, d)' <=> HoldsFor(p, d)
  BY <1>1 DEF HoldsFor, Exists
<1>3. \A d \in CPids \ {c} : d \in Pids /\ neg'[d] = neg[d] /\ (Exists(d)' <=> Exists(d))
  BY DEF Exists, Pids
<1> QED
  BY <1>1, <1>2, <1>3, StageSteady

\* A step that changes a provider record of c alone is at most one of c's, and
\* none if the record holds as much of an agreement as before.
LEMMA ProviderAlone ==
  ASSUME IInv, View, View', NEW p \in PPids, NEW c \in CPids,
         \A x \in Pids : x # p => neg'[x] = neg[x],
         Exists(p) => neg[p].peer = c, Exists(p)', neg'[p].peer = c
  PROVE  /\ \A d \in CPids \ {c} : /\ SigningStage(d)' = SigningStage(d)
                                   /\ SignedAgreement(d)' = SignedAgreement(d)
         /\ \A q \in PPids : q # p => (HoldsFor(q, c)' <=> HoldsFor(q, c)) /\ neg'[q] = neg[q]
         /\ neg'[c] = neg[c] /\ (Exists(c)' <=> Exists(c))
         /\ \/ ~HoldsFor(p, c) /\ ~HoldsFor(p, c)'
            \/ Exists(p) /\ neg'[p].st = neg[p].st /\ neg'[p].agr = neg[p].agr
            => /\ SigningStage(c)' = SigningStage(c)
               /\ SignedAgreement(c)' = SignedAgreement(c)
<1>1. \A d \in CPids : d \in Pids /\ neg'[d] = neg[d] /\ (Exists(d)' <=> Exists(d))
  BY PeerFacts DEF Exists
<1>2. \A q \in PPids, d \in CPids : q # p => (HoldsFor(q, d)' <=> HoldsFor(q, d)) /\ neg'[q] = neg[q]
  BY PeerFacts DEF HoldsFor, Exists
<1>3. \A d \in CPids \ {c} : ~HoldsFor(p, d) /\ ~HoldsFor(p, d)'
  BY DEF HoldsFor
<1>4. \A d \in CPids \ {c} : /\ SigningStage(d)' = SigningStage(d)
                             /\ SignedAgreement(d)' = SignedAgreement(d)
  BY <1>1, <1>2, <1>3, StageSteady
<1>5. ASSUME \/ ~HoldsFor(p, c) /\ ~HoldsFor(p, c)'
             \/ Exists(p) /\ neg'[p].st = neg[p].st /\ neg'[p].agr = neg[p].agr
      PROVE  /\ SigningStage(c)' = SigningStage(c)
             /\ SignedAgreement(c)' = SignedAgreement(c)
  <2>1. /\ HoldsFor(p, c)' <=> HoldsFor(p, c)
        /\ HoldsFor(p, c) => neg'[p].st = neg[p].st /\ neg'[p].agr = neg[p].agr
    BY <1>5 DEF HoldsFor
  <2> QED
    BY <1>1, <1>2, <2>1, StageSteady
<1> QED
  BY <1>1, <1>2, <1>4, <1>5

-----------------------------------------------------------------------------
(***************************************************************************)
(* The steps that change a record.                                         *)
(***************************************************************************)
\* A new negotiation opens.
LEMMA NegotiateSigns ==
  ASSUME IInv, View, View', NEW c \in CPids, Negotiate(c)
  PROVE  [Signing!Next]_Signing!vars
<1>1. /\ ~Exists(c) /\ neg'[c] = NewConsumer /\ NewConsumer # Absent
      /\ \A x \in Pids : x # c => neg'[x] = neg[x]
  BY NewType, PeerFacts, RecordAssumption DEF Negotiate, IInv, TypeOK
<1>2. Exists(c)' /\ neg'[c].st = "requested"
  BY <1>1 DEF NewConsumer, Exists
<1>3. \A p \in PPids : ~HoldsFor(p, c) /\ ~HoldsFor(p, c)'
  BY <1>1, ConsumerAlone DEF View
<1>4. /\ SigningStage(c) = "none" /\ SignedAgreement(c) = NoAgr
      /\ SigningStage(c)' = "open" /\ SignedAgreement(c)' = NoAgr
  BY <1>1, <1>2, <1>3 DEF View
<1> QED
  BY <1>1, <1>4, ConsumerAlone, OneMoves

\* An answered request is none of the signing's steps.
LEMMA ContractRequestSigns ==
  ASSUME IInv, View, View', NEW m \in net, NEW p \in PPids, ContractRequest(m, p)
  PROVE  [Signing!Next]_Signing!vars
<1>1. m.kind = "request" /\ m.from \in CPids
  BY DEF ContractRequest, IInv, MessageInv
<1>2. /\ ~Exists(p) /\ neg'[p] = NewProvider(m.from) /\ NewProvider(m.from) # Absent
      /\ \A x \in Pids : x # p => neg'[x] = neg[x]
  BY <1>1, NewType, PeerFacts, RecordAssumption DEF ContractRequest, IInv, TypeOK
<1>3. Exists(p)' /\ neg'[p].peer = m.from /\ neg'[p].st = "requested"
  BY <1>2 DEF NewProvider, Exists
<1>4. ~HoldsFor(p, m.from) /\ ~HoldsFor(p, m.from)'
  BY <1>2, <1>3 DEF HoldsFor, Signed
<1> QED
  BY <1>1, <1>2, <1>3, <1>4, ProviderAlone, OneMoves

\* A verification countersigns, a finalization concludes, a termination voids;
\* other events are none of the signing's steps.
LEMMA AcceptEventSigns ==
  ASSUME IInv, IInv', View, View', NEW m \in net, AcceptEvent(m)
  PROVE  [Signing!Next]_Signing!vars
<1> DEFINE n == neg[m.to]  a == neg'[m.to]
<1>1. /\ m.kind \in Kinds /\ m.to \in Pids /\ n \in Records /\ Exists(m.to) /\ m.from \in Pids
      /\ m.agr \in Agreements \cup {NoAgr}
  BY MessageType, PeerFacts DEF AcceptEvent, IInv
<1>2. PICK r \in Records : r = Accepted(n, m.kind, m.agr)
  BY <1>1, AcceptedType
<1>3. /\ a = r /\ Exists(m.to)' /\ \A x \in Pids : x # m.to => neg'[x] = neg[x]
  BY <1>1, <1>2, RecordAssumption DEF AcceptEvent, IInv, TypeOK, Exists
<1>4. /\ a.st = Reached(m.kind) /\ a.peer = n.peer
      /\ m.kind = "agreement" => a.agr = m.agr
      /\ m.kind \notin {"agreement", "termination"} => a.agr = n.agr
  BY <1>1, <1>2, <1>3, AcceptedFacts
<1> HIDE DEF n, a
<1>5. CASE m.kind = "accepted"
  <2>1. m.to \in PPids /\ n.peer = m.from /\ m.from \in CPids /\ n.st = "offered" /\ a.st = "accepted"
    BY <1>4, <1>5, AcceptCases, ReachedFacts DEF n
  <2>2. ~HoldsFor(m.to, m.from) /\ ~HoldsFor(m.to, m.from)'
    BY <2>1 DEF HoldsFor, Signed, n, a
  <2> QED
    BY <1>3, <1>4, <2>1, <2>2, ProviderAlone, OneMoves DEF n, a
<1>6. CASE m.kind = "verification"
  <2>1. /\ m.to \in PPids /\ m.from \in CPids /\ n.peer = m.from /\ n.st = "agreed"
        /\ a.st = "verified" /\ a.agr = n.agr
    BY <1>4, <1>6, AcceptCases, ReachedFacts DEF n
  <2>2. HoldsFor(m.to, m.from) /\ HoldsFor(m.to, m.from)'
    BY <1>1, <1>3, <1>4, <2>1 DEF HoldsFor, Signed, n, a
  <2>3. /\ neg[m.from].st \in Signed => neg[m.from].st = "agreed"
        /\ neg'[m.from] = neg[m.from] /\ (Exists(m.from)' <=> Exists(m.from))
    BY <1>1, <1>3, <2>1, <2>2, PeerFacts DEF IInv, AgreementInv, Signed, View, Exists, n
  <2>4. CASE neg[m.from].st = "terminated"
    BY <1>3, <1>4, <2>1, <2>2, <2>3, <2>4, ProviderAlone, OneMoves DEF View, n, a
  <2>5. CASE neg[m.from].st # "terminated"
    <3>1. /\ SigningStage(m.from) = "issued" /\ SigningStage(m.from)' = "countersigned"
          /\ SignedAgreement(m.from)' = SignedAgreement(m.from)
      BY <2>1, <2>2, <2>3, <2>5 DEF View, Signed, n, a
    <3> QED
      BY <1>3, <1>4, <2>1, <3>1, ProviderAlone, OneMoves DEF n, a
  <2> QED
    BY <2>4, <2>5
<1>7. CASE m.to \in CPids
  <2>1. /\ \A d \in CPids \ {m.to} : /\ SigningStage(d)' = SigningStage(d)
                                    /\ SignedAgreement(d)' = SignedAgreement(d)
        /\ \A p \in PPids, d \in CPids : HoldsFor(p, d)' <=> HoldsFor(p, d)
        /\ \A p \in PPids : neg'[p] = neg[p]
    BY <1>3, <1>7, ConsumerAlone
  <2>2. CASE m.kind \in {"offer", "agreement"}
    <3>1. /\ n.st \notin {"terminated", "finalized"}
          /\ a.st \notin {"terminated", "finalized"}
      BY <1>4, <1>7, <2>2, AcceptCases, PeerFacts, ReachedFacts DEF n
    <3>2. SigningStage(m.to)' = SigningStage(m.to) /\ SignedAgreement(m.to)' = SignedAgreement(m.to)
      BY <1>1, <1>3, <1>7, <2>1, <3>1, StageSteady DEF n, a
    <3> QED
      BY <1>7, <2>1, <3>2, OneMoves
  <2>3. CASE m.kind = "finalized"
    <3>1. /\ m.from \in PPids /\ n.st = "verified" /\ a.st = "finalized"
          /\ neg[m.from].peer = m.to /\ n.peer = m.from
      BY <1>4, <2>3, AcceptCases, ReachedFacts DEF n
    <3>2. HoldsFor(m.from, m.to) /\ HoldsFor(m.from, m.to)' /\ neg[m.from].st = "verified"
      BY <1>1, <1>7, <2>1, <3>1, PeerFacts DEF IInv, AgreementInv, ProviderInv, HoldsFor, Signed, n
    <3>3. /\ SigningStage(m.to) = "countersigned" /\ SigningStage(m.to)' = "concluded"
          /\ SignedAgreement(m.to)' = SignedAgreement(m.to)
      BY <1>7, <2>1, <3>1, <3>2 DEF View, n, a
    <3> QED
      BY <1>7, <2>1, <3>3, OneMoves
  <2>4. CASE m.kind = "termination"
    <3>1. n.st \notin {"terminated", "finalized"} /\ a.st = "terminated"
      BY <1>4, <2>4, AcceptCases, ReachedFacts DEF n
    <3>2. \A p \in PPids : HoldsFor(p, m.to) => neg[p].st # "finalized"
      BY <1>7, <3>1 DEF IInv, ProviderInv, HoldsFor, n
    <3>3. SigningStage(m.to) \in {"open", "issued", "countersigned"}
      BY <1>1, <1>7, <3>1, <3>2 DEF View, n
    <3>4. SigningStage(m.to)' = "void" /\ SignedAgreement(m.to)' = NoAgr
      BY <1>3, <1>7, <3>1 DEF View, a
    <3> QED
      BY <1>7, <2>1, <3>3, <3>4, OneMoves
  <2> QED
    BY <1>7, <2>2, <2>3, <2>4, AcceptCases, PeerFacts
<1> QED
  BY <1>1, <1>5, <1>6, <1>7, AcceptCases, PeerFacts DEF Pids

\* A provider's saved agreement issues, its finalization closes; other outcomes
\* are none of the signing's steps.
LEMMA SaveSigns ==
  ASSUME IInv, IInv', View, View', NEW x \in Pids, Save(x)
  PROVE  [Signing!Next]_Signing!vars
<1> DEFINE n == neg[x]  a == neg'[x]
<1>1. /\ Exists(x) /\ \A y \in Pids : y # x => neg'[y] = neg[y]
      /\ a = IF result[x] = Absent THEN n ELSE result[x]
      /\ Exists(x)'
  BY RecordAssumption DEF Save, IInv, TypeOK, Exists
<1>2. CASE result[x] = Absent
  <2>1. \A y \in Pids : neg'[y] = neg[y]
    BY <1>1, <1>2
  <2>2. \A d \in CPids : /\ SigningStage(d)' = SigningStage(d)
                        /\ SignedAgreement(d)' = SignedAgreement(d)
    <3> SUFFICES ASSUME NEW d \in CPids
                 PROVE  /\ SigningStage(d)' = SigningStage(d)
                        /\ SignedAgreement(d)' = SignedAgreement(d)
      OBVIOUS
    <3>1. neg'[d] = neg[d] /\ \A p \in PPids : neg'[p] = neg[p]
      BY <2>1, PeerFacts
    <3>2. (Exists(d)' <=> Exists(d)) /\ \A p \in PPids : HoldsFor(p, d)' <=> HoldsFor(p, d)
      BY <3>1 DEF Exists, HoldsFor
    <3> QED
      BY <3>1, <3>2, StageSteady
  <2> QED
    BY <2>2 DEF Signing!vars
<1>3. CASE result[x] # Absent /\ x \in CPids
  <2>1. /\ \A d \in CPids \ {x} : /\ SigningStage(d)' = SigningStage(d)
                                 /\ SignedAgreement(d)' = SignedAgreement(d)
        /\ \A p \in PPids, d \in CPids : HoldsFor(p, d)' <=> HoldsFor(p, d)
        /\ \A p \in PPids : neg'[p] = neg[p]
    BY <1>1, <1>3, ConsumerAlone
  <2>2. /\ n.st \notin {"terminated", "finalized"}
        /\ a.st \notin {"terminated", "finalized"}
    BY <1>1, <1>3, SaveCases, PeerFacts
  <2>3. SigningStage(x)' = SigningStage(x) /\ SignedAgreement(x)' = SignedAgreement(x)
    BY <1>1, <1>3, <2>1, <2>2, StageSteady
  <2> QED
    BY <1>3, <2>1, <2>3, OneMoves
<1>4. CASE result[x] # Absent /\ x \in PPids
  <2>0. PICK c \in CPids : c = n.peer
    BY <1>1, <1>4, PeerFacts
  <2>1. /\ n.peer = c /\ Exists(c) /\ x \notin CPids
        /\ a.peer = c
        /\ \/ n.st = "requested" /\ a.st \in {"offered", "terminated"}
           \/ n.st = "accepted" /\ a.st = "agreed" /\ a.agr \in Agreements /\ a.agr.by = x
           \/ /\ n.st \in {"offered", "agreed", "terminated"}
              /\ a.st = n.st /\ a.agr = n.agr
           \/ /\ n.st = "verified" /\ a.st = "finalized"
              /\ a.agr = n.agr /\ neg[c].st = "finalized"
    BY <1>1, <1>4, <2>0, SaveCases, PeerFacts
  <2> HIDE DEF n, a
  <2>2. /\ \A d \in CPids \ {c} : /\ SigningStage(d)' = SigningStage(d)
                                 /\ SignedAgreement(d)' = SignedAgreement(d)
        /\ \A q \in PPids : q # x => (HoldsFor(q, c)' <=> HoldsFor(q, c)) /\ neg'[q] = neg[q]
        /\ neg'[c] = neg[c] /\ (Exists(c)' <=> Exists(c))
        /\ \/ ~HoldsFor(x, c) /\ ~HoldsFor(x, c)'
           \/ a.st = n.st /\ a.agr = n.agr
           => /\ SigningStage(c)' = SigningStage(c)
              /\ SignedAgreement(c)' = SignedAgreement(c)
    BY <1>1, <1>4, <2>1, ProviderAlone DEF n, a
  <2>3. CASE n.st = "requested" \/ a.st = n.st
    <3>1. \/ ~HoldsFor(x, c) /\ ~HoldsFor(x, c)'
          \/ a.st = n.st /\ a.agr = n.agr
      BY <2>1, <2>3 DEF HoldsFor, Signed, n, a
    <3>2. SigningStage(c)' = SigningStage(c) /\ SignedAgreement(c)' = SignedAgreement(c)
      BY <2>2, <3>1
    <3> QED
      BY <2>1, <2>2, <3>2, OneMoves
  <2>4. CASE n.st = "accepted"
    <3>1. /\ ~HoldsFor(x, c) /\ HoldsFor(x, c)'
          /\ a.st = "agreed" /\ a.agr \in Agreements /\ a.agr.by = x
      BY <1>1, <2>1, <2>4 DEF HoldsFor, Signed, n, a
    <3>2. \A q \in PPids : ~HoldsFor(q, c)
      <4>1. neg[c].peer = x
        BY <1>1, <1>4, <2>1, <2>4 DEF IInv, ProviderInv, n
      <4> QED
        BY <2>1, <3>1, <4>1 DEF View
    <3>3. CASE neg[c].st = "terminated"
      <4>1. SigningStage(c)' = SigningStage(c) /\ SignedAgreement(c)' = SignedAgreement(c)
        BY <2>1, <2>2, <3>3 DEF View
      <4> QED
        BY <2>1, <2>2, <4>1, OneMoves
    <3>4. CASE neg[c].st # "terminated"
      <4>1. neg[c].st # "finalized"
        <5>1. neg[c].peer = x
          BY <1>1, <1>4, <2>1, <2>4 DEF IInv, ProviderInv, n
        <5> QED
          BY <2>1, <2>4, <5>1 DEF IInv, AgreementInv, Signed, n
      <4>2. /\ SigningStage(c) = "open" /\ SigningStage(c)' = "issued"
            /\ SignedAgreement(c)' = a.agr
        BY <1>4, <2>1, <2>2, <3>1, <3>2, <3>4, <4>1 DEF View, a
      <4>3. \A d \in CPids : SignedAgreement(d) # a.agr
        <5> SUFFICES ASSUME NEW d \in CPids, SignedAgreement(d) = a.agr PROVE FALSE
          OBVIOUS
        <5>1. a.agr # NoAgr
          BY <3>1, RecordAssumption
        <5>2. Exists(d) /\ neg[d].st # "terminated"
          BY <5>1 DEF View
        <5>3. PICK q \in PPids : HoldsFor(q, d)
          BY <5>1, <5>2 DEF View
        <5>4. neg[q].agr = a.agr
          BY <5>2, <5>3 DEF View
        <5>5. neg[q].agr.by = q /\ neg[q].st \in Signed
          BY <5>3 DEF IInv, ProviderInv, HoldsFor
        <5>6. q = x
          BY <3>1, <5>4, <5>5
        <5> QED
          BY <2>4, <5>5, <5>6 DEF Signed, n
      <4> QED
        BY <2>1, <2>2, <3>1, <4>2, <4>3, OneMoves
    <3> QED
      BY <3>3, <3>4
  <2>5. CASE n.st = "verified"
    <3>1. /\ HoldsFor(x, c) /\ HoldsFor(x, c)' /\ a.st = "finalized" /\ a.agr = n.agr
          /\ neg[c].st = "finalized" /\ neg'[c].st = "finalized"
      BY <1>1, <2>1, <2>2, <2>5 DEF HoldsFor, Signed, n, a
    <3>2. /\ SigningStage(c) = "concluded" /\ SigningStage(c)' = "closed"
          /\ SignedAgreement(c)' = SignedAgreement(c)
      BY <1>4, <2>1, <2>5, <3>1 DEF View, n, a
    <3> QED
      BY <2>1, <2>2, <3>2, OneMoves
  <2> QED
    BY <2>1, <2>3, <2>4, <2>5
<1> QED
  BY <1>2, <1>3, <1>4 DEF Pids

\* Steps that change no record are none of the signing's steps.
LEMMA QuietSigns ==
  ASSUME UNCHANGED neg
  PROVE  [Signing!Next]_Signing!vars
<1>1. \A d \in CPids : /\ SigningStage(d)' = SigningStage(d)
                      /\ SignedAgreement(d)' = SignedAgreement(d)
  BY DEF SigningStage, SignedAgreement, Issued, Holder, Answers, HoldsAgreement, Exists
<1> QED
  BY <1>1 DEF Signing!vars

-----------------------------------------------------------------------------
\* With no record every contract is still to be opened.
LEMMA InitSigns == Init => Signing!Init
BY DEF Init, Signing!Init, SigningStage, SignedAgreement, Exists, Pids

LEMMA NextSigns == IInv /\ IInv' /\ View /\ View' /\ [Next]_vars => [Signing!Next]_Signing!vars
<1> SUFFICES ASSUME IInv, IInv', View, View', [Next]_vars
             PROVE  [Signing!Next]_Signing!vars
  OBVIOUS
<1>1. ASSUME NEW k \in Connectors, Loop(k) PROVE [Signing!Next]_Signing!vars
  <2>1. (\E x \in Pids : Save(x)) \/ UNCHANGED neg
    BY <1>1 DEF Loop, StartTick, Decide, Post, PostNowhere
  <2> QED
    BY <2>1, SaveSigns, QuietSigns
<1>2. ASSUME NEW m \in net, Deliver(m) PROVE [Signing!Next]_Signing!vars
  <2>1. CASE RejectEvent(m)
    BY <2>1, QuietSigns DEF RejectEvent
  <2> QED
    BY <1>2, <2>1, ContractRequestSigns, AcceptEventSigns DEF Deliver
<1>3. CASE Fault
  BY <1>3, QuietSigns DEF Fault, LoseRequest, LoseAnswer, Crash, Restart
<1>4. CASE UNCHANGED vars
  BY <1>4, QuietSigns DEF vars
<1> QED
  BY <1>1, <1>2, <1>3, <1>4, NegotiateSigns DEF Next

\* The connectors implement the signing of contracts: whatever is lost, repeated
\* or interrupted, an agreement is issued, countersigned, concluded and closed
\* in this order, or void before it is concluded, and is never replaced.
THEOREM Signs == ASSUME DefaultBuild PROVE Spec => ImplementsSigning
<1>1. DefaultBuild
  OBVIOUS
<1> QED
  BY <1>1, Invariance, ViewInv, InitSigns, NextSigns, PTL DEF Spec, ImplementsSigning, Signing!Spec
==============================================================================
