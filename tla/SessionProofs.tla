---------------------------- MODULE SessionProofs ----------------------------
(***************************************************************************)
(* A session is good for one token, and for one more at most per request   *)
(* that was given up; and a client that loses nothing gives up late.  For  *)
(* any number of sessions, lost answers and restarts, and any times.       *)
(***************************************************************************)
EXTENDS AuthSession, FiniteSetTheorems, TLAPS

TypeInv ==
  /\ client \in Clients
  /\ sessions \subseteq Opened
  /\ verifier \in [Sessions -> Progress]
  /\ requests \subseteq Requests
  /\ lost \in 0..MaxLost
  /\ issued \in [Sessions -> Nat]

\* Sessions are opened one after the other, and an attempt is about one of them.
OpenedInv ==
  /\ \E k \in 0..MaxSessions : Opened = 1..k
  /\ client.step # "idle" => client.session \in Opened

\* A client waits for one request at most, the one since the latest loss.
RequestInv ==
  /\ \A r \in requests : /\ r.id <= lost
                         /\ r.id = lost <=> r.live
                         /\ r.live => client.step = "asking"
  /\ \A q, r \in requests : q.id = r.id => q = r

\* The requests that have looked s up.
Finders(s) == {r.id : r \in {q \in requests : q.step = "found" /\ q.session = s}}

\* A session that a token was made out for is not found any more, but by those
\* that have found it before.
IssuedInv ==
  \A s \in Sessions : issued[s] > 0 =>
    /\ s \in Opened \ sessions
    /\ issued[s] + Cardinality(Finders(s)) <= 1 + lost

\* As long as nothing is lost: the session is there while the client works on
\* it, and is verified no earlier than what the client was last told of it, and
\* what it is being told, allow.
Active == {"presenting", "polling", "asking", "sleeping"}

Unfinished == client.step \in Active /\ verifier[client.session] \in {"unused", "processing"}

TimeInv ==
  /\ client.step \in Active => client.session \in sessions
  /\ client.step = "presenting" => verifier[client.session] = "unused"
  /\ Unfinished => verified = MaxDuration
  /\ client.step = "asking" => client.timer <= MaxLatency
  /\ client.step = "sleeping" => client.timer <= PollInterval
  /\ client.step = "sleeping" =>
       verified + MaxLatency + PollInterval >= client.elapsed + client.timer
  /\ client.step = "polling" => verified + MaxLatency + PollInterval >= client.elapsed
  /\ \A r \in requests :
       /\ r.session = client.session
       /\ r.step = "pending" => verified + MaxLatency >= client.elapsed + client.timer

LateInv == verified \in 0..MaxDuration /\ (lost = 0 => TimeInv)

IInv == TypeInv /\ OpenedInv /\ RequestInv /\ IssuedInv /\ LateInv

-----------------------------------------------------------------------------
(***************************************************************************)
(* Types.                                                                  *)
(***************************************************************************)
LEMMA SleepType ==
  ASSUME TypeInv
  PROVE  Sleeps \in Clients /\ Sleeps.step = "sleeping" /\ Sleeps.session = client.session
<1>1. Least(PollInterval, MaxDuration - client.elapsed) \in Nat
  BY SessionAssumption DEF Least, TypeInv, Clients
<1> QED
  BY <1>1 DEF Sleeps, TypeInv, Clients

LEMMA IdleType == Idle \in Clients /\ Idle.step = "idle"
BY SessionAssumption DEF Idle, Clients

\* A session that is opened was not open before.
LEMMA OpenFacts ==
  ASSUME TypeInv, OpenedInv, NEW s \in Sessions, OpenSession(s)
  PROVE  /\ s \notin Opened
         /\ Opened' = Opened \cup {s}
         /\ \E k \in 0..MaxSessions : Opened' = 1..k
         /\ sessions' = sessions \cup {s}
         /\ verifier' \in [Sessions -> Progress]
         /\ client.step \in {"idle", "authenticated"}
<1>1. PICK k \in 0..MaxSessions : Opened = 1..k
  BY DEF OpenedInv
<1>2. s = k + 1 /\ s \notin Opened
  <2>1. 1 \in Int /\ k \in Int /\ k >= 0
    BY SessionAssumption
  <2>2. Cardinality(1..k) = IF 1 > k THEN 0 ELSE k - 1 + 1
    BY <2>1, FS_Interval
  <2>3. Cardinality(Opened) = k
    BY <1>1, <2>1, <2>2
  <2> QED
    BY <1>1, <2>1, <2>3 DEF OpenSession
<1>3. Opened' = Opened \cup {s} /\ verifier' \in [Sessions -> Progress]
  BY DEF OpenSession, Opened, TypeInv, Progress
<1>4. Opened' = 1..s /\ s \in 0..MaxSessions
  BY <1>1, <1>2, <1>3 DEF Sessions
<1> QED
  BY <1>2, <1>3, <1>4 DEF OpenSession

\* All other steps leave the sessions that have been opened.
LEMMA OpenedRest ==
  ASSUME TypeInv, OpenedInv, [Next]_vars, ~\E s \in Sessions : VerifyMe(s) \/ LoseSession(s)
  PROVE  Opened' = Opened /\ verifier' \in [Sessions -> Progress]
<1>1. CASE UNCHANGED verifier
  BY <1>1 DEF Opened, TypeInv
<1>2. CASE Present \/ PresentFails
  <2>1. client.session \in Opened
    BY <1>2 DEF Present, PresentFails, OpenedInv
  <2>2. \E p \in Progress \ {"none"} : verifier' = [verifier EXCEPT ![client.session] = p]
    BY <1>2 DEF Present, PresentFails, Progress
  <2> QED
    BY <2>1, <2>2 DEF Opened, TypeInv
<1>3. ASSUME NEW s \in Sessions, NEW outcome \in {"successful", "rejected"}, Verify(s, outcome)
      PROVE  Opened' = Opened /\ verifier' \in [Sessions -> Progress]
  BY <1>3 DEF Verify, Opened, TypeInv, Progress
<1> QED
  BY <1>1, <1>2, <1>3 DEF Next, vars, Ask, GiveUp, Wake, Pass, Serve,
       Found, NotFound, Pending, AnswerPending, GoesOn, Refuse, Succeed, Unusable, LoseStatus,
       RestartServer, RestartClient

LEMMA AnswerType ==
  ASSUME TypeInv, NEW r \in requests, NEW after \in Clients, Answer(r, after)
  PROVE  client' \in Clients /\ requests' \subseteq requests
BY DEF Answer, TypeInv

LEMMA StepType ==
  ASSUME TypeInv, OpenedInv, [Next]_vars
  PROVE  TypeInv'
<1>1. CASE UNCHANGED vars
  BY <1>1 DEF vars, TypeInv, Opened
<1>2. ASSUME NEW s \in Sessions, VerifyMe(s) \/ LoseSession(s) PROVE TypeInv'
  <2>1. client' \in Clients
    <3>1. [Idle EXCEPT !.step = "presenting", !.session = s] \in Clients
      BY IdleType DEF Clients
    <3> QED
      BY <1>2, <3>1, IdleType DEF VerifyMe, LoseSession
  <2>2. requests' = requests /\ issued' = issued /\ lost' \in 0..MaxLost
    BY <1>2, SessionAssumption DEF VerifyMe, LoseSession, Lose, TypeInv
  <2> QED
    BY <1>2, <2>1, <2>2, OpenFacts DEF TypeInv, VerifyMe, LoseSession
<1>3. ASSUME ~\E s \in Sessions : VerifyMe(s) \/ LoseSession(s), Next PROVE TypeInv'
  <2>1. Opened' = Opened /\ verifier' \in [Sessions -> Progress]
    BY <1>3, OpenedRest
  <2>2. CASE \E s \in Sessions, outcome \in {"successful", "rejected"} : Verify(s, outcome)
    BY <2>1, <2>2 DEF Verify, TypeInv
  <2>3. CASE Present \/ PresentFails \/ GiveUp \/ Wake
    BY <2>1, <2>3, IdleType DEF Present, PresentFails, GiveUp, Wake, TypeInv, Clients
  <2>4. CASE Pass
    <3>1. client.elapsed \in 0..MaxDuration /\ client.timer \in Nat /\ client.timer > 0
      BY <2>4 DEF Pass, TypeInv, Clients
    <3>2. client.timer - 1 \in Nat /\ Least(client.elapsed + 1, MaxDuration) \in 0..MaxDuration
      BY <3>1, SessionAssumption DEF Least
    <3>3. client' \in Clients
      BY <2>4, <3>2 DEF Pass, TypeInv, Clients
    <3> QED
      BY <2>1, <2>4, <3>3 DEF Pass, TypeInv
  <2>5. CASE Ask
    <3>1. client' \in Clients
      BY <2>5, SessionAssumption DEF Ask, TypeInv, Clients
    <3>2. client.session \in Sessions
      BY <2>5 DEF Ask, OpenedInv, Opened
    <3>3. requests' \subseteq Requests
      <4>1. [id |-> lost, session |-> client.session, step |-> "arrived", live |-> TRUE] \in Requests
        BY <3>2 DEF TypeInv, Requests
      <4> QED
        BY <2>5, <4>1 DEF Ask, TypeInv
    <3> QED
      BY <2>1, <2>5, <3>1, <3>3 DEF Ask, TypeInv
  <2>6. ASSUME NEW r \in requests, Serve(r) PROVE TypeInv'
    <3>1. [client EXCEPT !.step = "authenticated"] \in Clients
      BY DEF TypeInv, Clients
    <3>2. CASE Found(r) \/ Pending(r)
      <4>1. requests' \subseteq Requests
        BY <3>2 DEF Found, Pending, GoesOn, TypeInv, Requests
      <4> QED
        BY <2>1, <3>2, <4>1 DEF Found, Pending, GoesOn, TypeInv
    <3>3. CASE NotFound(r) \/ AnswerPending(r) \/ Refuse(r) \/ Unusable(r)
      <4>1. client' \in Clients /\ requests' \subseteq requests
        BY <3>3, AnswerType, SleepType, IdleType DEF NotFound, AnswerPending, Refuse, Unusable
      <4> QED
        BY <2>1, <3>3, <4>1 DEF NotFound, AnswerPending, Refuse, Unusable, TypeInv
    <3>4. CASE Succeed(r)
      <4>1. client' \in Clients /\ requests' \subseteq requests
        BY <3>1, <3>4, AnswerType DEF Succeed
      <4>2. issued' \in [Sessions -> Nat]
        <5>1. r.session \in Sessions /\ issued' = [issued EXCEPT ![r.session] = issued[r.session] + 1]
          BY <3>4 DEF Succeed, TypeInv, Requests
        <5> QED
          BY <5>1 DEF TypeInv
      <4> QED
        BY <2>1, <3>4, <4>1, <4>2 DEF Succeed, TypeInv
    <3> QED
      BY <2>6, <3>2, <3>3, <3>4 DEF Serve
  <2>7. ASSUME NEW r \in requests, LoseStatus(r) PROVE TypeInv'
    <3>1. requests' \subseteq Requests /\ client' \in Clients
      BY <2>7, SleepType DEF LoseStatus, TypeInv, Requests
    <3> QED
      BY <2>1, <2>7, <3>1, SessionAssumption DEF LoseStatus, Lose, TypeInv
  <2>8. CASE RestartServer \/ RestartClient
    <3>1. requests' \subseteq Requests
      <4>1. \A r \in requests : [r EXCEPT !.live = FALSE] \in Requests
        BY DEF TypeInv, Requests
      <4>2. requests' = {} \/ requests' = {[r EXCEPT !.live = FALSE] : r \in requests}
        BY <2>8 DEF RestartServer, RestartClient
      <4> QED
        BY <4>1, <4>2
    <3>2. client' \in Clients
      BY <2>8, SleepType, IdleType DEF RestartServer, RestartClient, TypeInv
    <3> QED
      BY <2>1, <2>8, <3>1, <3>2, SessionAssumption DEF RestartServer, RestartClient, Lose, TypeInv
  <2> QED
    BY <1>3, <2>2, <2>3, <2>4, <2>5, <2>6, <2>7, <2>8 DEF Next
<1> QED
  BY <1>1, <1>2, <1>3

-----------------------------------------------------------------------------
(***************************************************************************)
(* The client's session, and its requests.                                 *)
(***************************************************************************)
\* What the answer to a request does to the client.
LEMMA AnswerFacts ==
  ASSUME TypeInv, RequestInv, UNCHANGED lost, NEW r \in requests,
         NEW after, after.step # "asking", Answer(r, after)
  PROVE  RequestInv'
<1>1. requests' = requests \ {r} /\ client' = (IF r.live THEN after ELSE client)
  BY DEF Answer
<1>2. ASSUME NEW q \in requests, q # r, q.live PROVE ~r.live
  BY <1>2 DEF RequestInv
<1> QED
  BY <1>1, <1>2 DEF RequestInv

LEMMA StepOpened ==
  ASSUME TypeInv, TypeInv', OpenedInv, RequestInv, [Next]_vars
  PROVE  OpenedInv'
<1>1. ASSUME NEW s \in Sessions, VerifyMe(s) \/ LoseSession(s) PROVE OpenedInv'
  <2>1. (\E k \in 0..MaxSessions : Opened' = 1..k) /\ s \in Opened'
    BY <1>1, OpenFacts DEF VerifyMe, LoseSession
  <2>2. client'.step = "idle" \/ client'.session = s
    BY <1>1, IdleType DEF VerifyMe, LoseSession, Idle
  <2> QED
    BY <2>1, <2>2 DEF OpenedInv
<1>2. ASSUME ~\E s \in Sessions : VerifyMe(s) \/ LoseSession(s) PROVE OpenedInv'
  <2>1. Opened' = Opened
    BY <1>2, OpenedRest
  <2>2. client'.step = "idle" \/ (client'.session = client.session /\ client.step # "idle")
          \/ client' = client
    <3>1. CASE Present \/ Ask \/ Wake \/ Pass
      BY <3>1 DEF Present, Ask, Wake, Pass, TypeInv, Clients
    <3>2. CASE PresentFails \/ GiveUp \/ RestartClient
      BY <3>2, IdleType DEF PresentFails, GiveUp, RestartClient
    <3>3. ASSUME NEW r \in requests, Serve(r)
          PROVE  \/ client'.step = "idle" \/ client' = client
                 \/ client'.session = client.session /\ client.step # "idle"
      <4>1. r.live => client.step # "idle"
        BY DEF RequestInv
      <4>2. [client EXCEPT !.step = "authenticated"].session = client.session
        BY DEF TypeInv, Clients
      <4> QED
        BY <3>3, <4>1, <4>2, SleepType, IdleType
           DEF Serve, Found, NotFound, Pending, AnswerPending, GoesOn, Refuse, Succeed,
               Unusable, Answer
    <3>4. ASSUME NEW r \in requests, LoseStatus(r)
          PROVE  client'.session = client.session /\ client.step # "idle"
      BY <3>4, SleepType DEF LoseStatus, RequestInv
    <3>5. CASE RestartServer
      BY <3>5, SleepType DEF RestartServer
    <3>6. CASE UNCHANGED client
      BY <3>6
    <3> QED
      BY <1>2, <3>1, <3>2, <3>3, <3>4, <3>5, <3>6 DEF Next, vars, Verify
  <2> QED
    BY <2>1, <2>2 DEF OpenedInv
<1> QED
  BY <1>1, <1>2

LEMMA StepRequests ==
  ASSUME TypeInv, RequestInv, [Next]_vars
  PROVE  RequestInv'
<1>1. CASE /\ UNCHANGED <<requests, lost>>
           /\ client' = client \/ client.step # "asking" \/ client'.step = "asking"
  BY <1>1 DEF RequestInv
<1>2. CASE Present \/ PresentFails \/ GiveUp \/ Wake \/ Pass
  <2>1. client.step # "asking" \/ client'.step = "asking"
    BY <1>2 DEF Present, PresentFails, GiveUp, Wake, Pass, TypeInv, Clients
  <2> QED
    BY <1>1, <1>2, <2>1 DEF Present, PresentFails, GiveUp, Wake, Pass
<1>3. ASSUME NEW s \in Sessions, VerifyMe(s) PROVE RequestInv'
  BY <1>1, <1>3 DEF VerifyMe, OpenSession
<1>4. ASSUME NEW s \in Sessions, LoseSession(s) PROVE RequestInv'
  <2>1. \A r \in requests : ~r.live
    BY <1>4 DEF LoseSession, OpenSession, RequestInv
  <2> QED
    BY <1>4, <2>1 DEF LoseSession, Lose, RequestInv, TypeInv, Requests
<1>5. CASE Ask
  <2> DEFINE new == [id |-> lost, session |-> client.session, step |-> "arrived", live |-> TRUE]
  <2>1. \A r \in requests : ~r.live /\ r.id # lost
    BY <1>5 DEF Ask, RequestInv
  <2>2. requests' = requests \cup {new} /\ lost' = lost /\ client'.step = "asking"
    BY <1>5 DEF Ask, TypeInv, Clients
  <2>3. new.id = lost /\ new.live /\ lost \in Nat
    BY DEF TypeInv
  <2> HIDE DEF new
  <2> QED
    BY <2>1, <2>2, <2>3 DEF RequestInv
<1>6. ASSUME NEW r \in requests, NEW step, GoesOn(r, step) PROVE RequestInv'
  <2> DEFINE next == [r EXCEPT !.step = step]
  <2>1. requests' = (requests \ {r}) \cup {next} /\ UNCHANGED <<client, lost>>
    BY <1>6 DEF GoesOn
  <2>2. next.id = r.id /\ next.live = r.live
    BY DEF TypeInv, Requests
  <2> HIDE DEF next
  <2> QED
    BY <2>1, <2>2 DEF RequestInv
<1>7. ASSUME NEW r \in requests, Serve(r), ~Found(r), ~Pending(r) PROVE RequestInv'
  <2>1. [client EXCEPT !.step = "authenticated"].step = "authenticated"
    BY DEF TypeInv, Clients
  <2> QED
    BY <1>7, <2>1, AnswerFacts, SleepType, IdleType
       DEF Serve, NotFound, AnswerPending, Refuse, Succeed, Unusable
<1>8. ASSUME NEW r \in requests, LoseStatus(r) PROVE RequestInv'
  <2> DEFINE alone == [r EXCEPT !.live = FALSE]
  <2>1. requests' = (requests \ {r}) \cup {alone} /\ lost' = lost + 1 /\ r.live
    BY <1>8 DEF LoseStatus, Lose
  <2>2. alone.id = r.id /\ ~alone.live
    BY DEF TypeInv, Requests
  <2>3. \A q \in requests \ {r} : ~q.live
    BY <2>1 DEF RequestInv
  <2> HIDE DEF alone
  <2>4. \A q \in requests' : q.id \in Nat /\ q.id <= lost /\ ~q.live
    BY <2>1, <2>2, <2>3 DEF RequestInv, TypeInv, Requests
  <2>5. \A q \in requests' : q.id <= lost' /\ q.id # lost'
    BY <2>1, <2>4 DEF TypeInv
  <2>6. \A p, q \in requests' : p.id = q.id => p = q
    BY <2>1, <2>2 DEF RequestInv
  <2> QED
    BY <2>4, <2>5, <2>6 DEF RequestInv
<1>9. CASE RestartServer
  BY <1>9 DEF RestartServer, RequestInv
<1>10. CASE RestartClient
  <2>1. requests' = {[r EXCEPT !.live = FALSE] : r \in requests} /\ lost' = lost + 1
    BY <1>10 DEF RestartClient, Lose
  <2>2. \A r \in requests : [r EXCEPT !.live = FALSE].id = r.id /\ ~[r EXCEPT !.live = FALSE].live
    BY DEF TypeInv, Requests
  <2>3. \A q \in requests' : q.id <= lost /\ ~q.live
    BY <2>1, <2>2 DEF RequestInv
  <2>4. ASSUME NEW p \in requests', NEW q \in requests', p.id = q.id PROVE p = q
    <3>1. PICK r \in requests : p = [r EXCEPT !.live = FALSE]
      BY <2>1
    <3>2. PICK s \in requests : q = [s EXCEPT !.live = FALSE]
      BY <2>1
    <3>3. r.id = s.id
      BY <2>2, <2>4, <3>1, <3>2
    <3> QED
      BY <3>1, <3>2, <3>3 DEF RequestInv
  <2>5. \A q \in requests' : q.id <= lost' /\ q.id # lost'
    <3> SUFFICES ASSUME NEW q \in requests' PROVE q.id <= lost' /\ q.id # lost'
      OBVIOUS
    <3>1. q.id \in Nat
      BY <2>1, <2>2 DEF TypeInv, Requests
    <3> QED
      BY <2>1, <2>3, <3>1 DEF TypeInv
  <2> QED
    BY <2>3, <2>4, <2>5 DEF RequestInv
<1> QED
  BY <1>1, <1>2, <1>3, <1>4, <1>5, <1>6, <1>7, <1>8, <1>9, <1>10
     DEF Next, vars, Verify, Found, Pending

-----------------------------------------------------------------------------
(***************************************************************************)
(* The tokens of a session.                                                *)
(***************************************************************************)
LEMMA FinderFacts ==
  ASSUME TypeInv, RequestInv, NEW s \in Sessions
  PROVE  /\ IsFiniteSet(Finders(s))
         /\ Cardinality(Finders(s)) \in Nat
         /\ Cardinality(Finders(s)) <= lost + 1
<1>1. Finders(s) \in SUBSET Nat /\ lost \in Nat /\ \A i \in Finders(s) : i <= lost
  BY DEF Finders, RequestInv, TypeInv, Requests
<1> QED
  BY <1>1, FS_BoundedSetOfNaturals, FS_CardinalityType

\* Fewer requests that have found a session, and no fewer losses, do no harm.
LEMMA FewerFinders ==
  ASSUME TypeInv, RequestInv, IssuedInv, NEW s \in Sessions,
         issued'[s] = issued[s], issued[s] > 0,
         Finders(s)' \subseteq Finders(s), lost' \in Nat, lost <= lost'
  PROVE  issued'[s] + Cardinality(Finders(s)') <= 1 + lost'
<1>1. issued[s] \in Nat /\ lost \in Nat /\ issued[s] + Cardinality(Finders(s)) <= 1 + lost
  BY DEF TypeInv, IssuedInv
<1>2. IsFiniteSet(Finders(s)) /\ Cardinality(Finders(s)) \in Nat
  BY FinderFacts
<1> HIDE DEF Finders
<1>3. /\ IsFiniteSet(Finders(s)') /\ Cardinality(Finders(s)') <= Cardinality(Finders(s))
      /\ Cardinality(Finders(s)') \in Nat
  BY <1>2, FS_Subset, FS_CardinalityType
<1> QED
  BY <1>1, <1>2, <1>3

LEMMA SucceedIssued ==
  ASSUME TypeInv, TypeInv', OpenedInv, RequestInv, IssuedInv, NEW r \in requests, Succeed(r)
  PROVE  IssuedInv'
<1> DEFINE t == r.session
<1>1. /\ t \in Sessions /\ issued[t] \in Nat /\ lost \in Nat
      /\ sessions' = sessions \ {t} /\ requests' = requests \ {r}
      /\ issued' = [issued EXCEPT ![t] = issued[t] + 1] /\ UNCHANGED <<verifier, lost>>
  BY DEF Succeed, Answer, TypeInv, Requests
<1>2. t \in Opened /\ Opened' = Opened
  BY <1>1 DEF Succeed, Opened
<1>3. ASSUME NEW s \in Sessions, s # t, issued'[s] > 0
      PROVE  s \in Opened' \ sessions' /\ issued'[s] + Cardinality(Finders(s)') <= 1 + lost'
  <2>1. issued'[s] = issued[s]
    BY <1>1, <1>3 DEF TypeInv
  <2>2. Finders(s)' \subseteq Finders(s)
    BY <1>1 DEF Finders
  <2>3. s \in Opened \ sessions
    BY <1>3, <2>1 DEF IssuedInv
  <2> QED
    BY <1>1, <1>2, <1>3, <2>1, <2>2, <2>3, FewerFinders
<1>4. issued'[t] + Cardinality(Finders(t)') <= 1 + lost'
  <2>1. r.id \in Finders(t)
    BY DEF Succeed, Finders
  <2>2. Finders(t)' = Finders(t) \ {r.id}
    BY <1>1 DEF Finders, RequestInv
  <2>3. /\ IsFiniteSet(Finders(t)) /\ Cardinality(Finders(t)) \in Nat
        /\ Cardinality(Finders(t)) <= lost + 1
    BY <1>1, FinderFacts
  <2>4. Cardinality(Finders(t) \ {r.id}) = Cardinality(Finders(t)) - 1
    BY <2>1, <2>3, FS_RemoveElement
  <2>5. issued'[t] = issued[t] + 1
    BY <1>1 DEF TypeInv
  <2>6. issued[t] > 0 => issued[t] + Cardinality(Finders(t)) <= 1 + lost
    BY <1>1 DEF IssuedInv
  <2> HIDE DEF Finders, t
  <2> QED
    BY <1>1, <2>2, <2>3, <2>4, <2>5, <2>6
<1> HIDE DEF t
<1> QED
  BY <1>1, <1>2, <1>3, <1>4 DEF IssuedInv

\* All other steps issue nothing, and do not let anybody find a session that has
\* been used.
LEMMA RestIssued ==
  ASSUME TypeInv, TypeInv', RequestInv, IssuedInv, UNCHANGED issued, Opened \subseteq Opened',
         lost <= lost',
         \A s \in Opened \ sessions : s \notin sessions' /\ Finders(s)' \subseteq Finders(s)
  PROVE  IssuedInv'
<1> SUFFICES ASSUME NEW s \in Sessions, issued[s] > 0
             PROVE  s \in Opened' \ sessions' /\ issued'[s] + Cardinality(Finders(s)') <= 1 + lost'
  BY DEF IssuedInv
<1>1. s \in Opened \ sessions /\ lost' \in Nat
  BY DEF IssuedInv, TypeInv
<1> QED
  BY <1>1, FewerFinders

LEMMA StepIssued ==
  ASSUME TypeInv, TypeInv', OpenedInv, RequestInv, IssuedInv, [Next]_vars
  PROVE  IssuedInv'
<1>1. ASSUME NEW r \in requests, Succeed(r) PROVE IssuedInv'
  BY <1>1, SucceedIssued
<1>2. ASSUME NEW s \in Sessions, VerifyMe(s) \/ LoseSession(s) PROVE IssuedInv'
  <2>1. s \notin Opened /\ Opened' = Opened \cup {s} /\ sessions' = sessions \cup {s}
    BY <1>2, OpenFacts DEF VerifyMe, LoseSession
  <2>2. UNCHANGED <<issued, requests>> /\ lost <= lost'
    BY <1>2 DEF VerifyMe, LoseSession, Lose, TypeInv
  <2> QED
    BY <2>1, <2>2, RestIssued DEF Finders
<1>3. ASSUME ~\E s \in Sessions : VerifyMe(s) \/ LoseSession(s),
             ~\E r \in requests : Succeed(r)
      PROVE  IssuedInv'
  <2>1. Opened' = Opened
    BY <1>3, OpenedRest
  <2>2. issued' = issued /\ lost <= lost' /\ sessions' \subseteq sessions
    BY <1>3 DEF Next, vars, Verify, Present, PresentFails, Ask, GiveUp, Wake, Pass, Serve,
         Found, NotFound, Pending, AnswerPending, GoesOn, Refuse, Unusable, LoseStatus,
         RestartServer, RestartClient, Lose, TypeInv
  <2>3. ASSUME NEW s \in Opened \ sessions PROVE Finders(s)' \subseteq Finders(s)
    <3>1. CASE requests' \subseteq requests
      BY <3>1 DEF Finders
    <3>2. CASE Ask
      BY <3>2 DEF Ask, Finders
    <3>3. ASSUME NEW r \in requests, Found(r) PROVE Finders(s)' \subseteq Finders(s)
      <4>1. /\ r.session # s /\ [r EXCEPT !.step = "found"].session = r.session
            /\ requests' = (requests \ {r}) \cup {[r EXCEPT !.step = "found"]}
        BY <3>3 DEF Found, GoesOn, TypeInv, Requests
      <4> QED
        BY <4>1 DEF Finders
    <3>6. ASSUME NEW r \in requests, Pending(r) PROVE Finders(s)' \subseteq Finders(s)
      <4>1. /\ [r EXCEPT !.step = "pending"].step = "pending"
            /\ requests' = (requests \ {r}) \cup {[r EXCEPT !.step = "pending"]}
        BY <3>6 DEF Pending, GoesOn, TypeInv, Requests
      <4> QED
        BY <4>1 DEF Finders
    <3>4. ASSUME NEW r \in requests, LoseStatus(r) PROVE Finders(s)' \subseteq Finders(s)
      <4> DEFINE alone == [r EXCEPT !.live = FALSE]
      <4>1. /\ alone.session = r.session /\ alone.id = r.id /\ alone.step = r.step
            /\ requests' = (requests \ {r}) \cup {alone}
        BY <3>4 DEF LoseStatus, TypeInv, Requests
      <4> HIDE DEF alone
      <4> QED
        BY <4>1 DEF Finders
    <3>5. CASE RestartClient
      <4>1. requests' = {[r EXCEPT !.live = FALSE] : r \in requests}
        BY <3>5 DEF RestartClient
      <4>2. \A r \in requests : /\ [r EXCEPT !.live = FALSE].session = r.session
                                /\ [r EXCEPT !.live = FALSE].id = r.id
                                /\ [r EXCEPT !.live = FALSE].step = r.step
        BY DEF TypeInv, Requests
      <4> SUFFICES ASSUME NEW q \in requests', q.step = "found", q.session = s
                   PROVE  \E r \in requests : r.step = "found" /\ r.session = s /\ r.id = q.id
        BY DEF Finders
      <4>3. PICK r \in requests : q = [r EXCEPT !.live = FALSE]
        BY <4>1
      <4> QED
        BY <4>2, <4>3
    <3> QED
      BY <1>3, <3>1, <3>2, <3>3, <3>4, <3>5, <3>6
         DEF Next, vars, Verify, Present, PresentFails, GiveUp, Wake, Pass, Serve, Answer,
             NotFound, AnswerPending, Refuse, Unusable, RestartServer
  <2> QED
    BY <2>1, <2>2, <2>3, RestIssued
<1> QED
  BY <1>1, <1>2, <1>3

-----------------------------------------------------------------------------
(***************************************************************************)
(* How late the client gives up.                                           *)
(***************************************************************************)
\* As long as nothing is lost there is one request at most, and it is waited for.
LEMMA OnlyRequest ==
  ASSUME TypeInv, RequestInv, lost = 0, NEW r \in requests
  PROVE  r.live /\ client.step = "asking" /\ requests = {r}
<1>1. \A q \in requests : q.id = lost
  BY DEF RequestInv, TypeInv, Requests
<1> QED
  BY <1>1 DEF RequestInv

LEMMA TimeFacts ==
  ASSUME TypeInv
  PROVE  /\ client.elapsed \in 0..MaxDuration /\ client.timer \in Nat
         /\ Sleeps.timer \in Nat /\ Sleeps.timer <= PollInterval
         /\ Sleeps.elapsed = client.elapsed /\ Sleeps.session = client.session
<1>1. client.elapsed \in 0..MaxDuration /\ client.timer \in Nat
  BY DEF TypeInv, Clients
<1>2. /\ Least(PollInterval, MaxDuration - client.elapsed) \in Nat
      /\ Least(PollInterval, MaxDuration - client.elapsed) <= PollInterval
  BY <1>1, SessionAssumption DEF Least
<1> QED
  BY <1>1, <1>2 DEF Sleeps, TypeInv, Clients

\* A client that does not work on a session waits for nothing.
LEMMA RestsInTime ==
  ASSUME TypeInv', RequestInv', lost' = 0, client'.step \notin Active
  PROVE  TimeInv'
<1>1. requests' = {}
  BY DEF RequestInv, TypeInv, Requests, Active
<1> QED
  BY <1>1 DEF TimeInv, Unfinished, Active

\* The client's own steps.
LEMMA ClientInTime ==
  ASSUME TypeInv, TypeInv', OpenedInv, RequestInv, RequestInv', LateInv, lost = 0, lost' = 0,
         Present \/ Ask \/ Wake \/ Pass
  PROVE  TimeInv'
<1> USE SessionAssumption
<1>1. TimeInv /\ verified \in 0..MaxDuration /\ UNCHANGED <<sessions, verified>>
  BY DEF LateInv, Present, Ask, Wake, Pass
<1>2. client.elapsed \in 0..MaxDuration /\ client.timer \in Nat
  BY TimeFacts
<1>3. CASE Present
  <2>1. requests = {} /\ client.session \in Sessions
    BY <1>3 DEF Present, RequestInv, TypeInv, Requests, OpenedInv, Opened
  <2>2. /\ client'.step = "polling" /\ client'.session = client.session
        /\ client'.elapsed = client.elapsed /\ requests' = {}
    BY <1>3, <2>1 DEF Present, TypeInv, Clients
  <2>3. verified = MaxDuration /\ client.session \in sessions
    BY <1>1, <1>3 DEF TimeInv, Unfinished, Active, Present
  <2> QED
    BY <1>1, <1>2, <2>2, <2>3 DEF TimeInv
<1>4. CASE Ask
  <2> DEFINE new == [id |-> lost, session |-> client.session, step |-> "arrived", live |-> TRUE]
  <2>1. requests = {} /\ requests' = {new} /\ UNCHANGED verifier
    BY <1>4 DEF Ask, RequestInv, TypeInv, Requests
  <2>2. /\ client'.step = "asking" /\ client'.session = client.session
        /\ client'.elapsed = client.elapsed /\ client'.timer = MaxLatency
        /\ client.step = "polling"
    BY <1>4 DEF Ask, TypeInv, Clients
  <2>3. new.session = client.session /\ new.step = "arrived"
    OBVIOUS
  <2> HIDE DEF new
  <2> QED
    BY <1>1, <2>1, <2>2, <2>3 DEF TimeInv, Unfinished, Active
<1>5. CASE Wake
  <2>1. /\ client'.step = "polling" /\ client'.session = client.session
        /\ client'.elapsed = client.elapsed /\ client.step = "sleeping" /\ client.timer = 0
        /\ UNCHANGED <<requests, verifier>>
    BY <1>5 DEF Wake, TypeInv, Clients
  <2>2. verified + MaxLatency + PollInterval >= client.elapsed
    BY <1>1, <1>2, <2>1 DEF TimeInv
  <2>3. requests' = {}
    BY <2>1, OnlyRequest
  <2> QED
    BY <1>1, <2>1, <2>2, <2>3 DEF TimeInv, Unfinished, Active
<1>6. CASE Pass
  <2>1. /\ client'.step = client.step /\ client'.session = client.session
        /\ client.step \in {"asking", "sleeping"}
        /\ client'.timer = client.timer - 1
        /\ client'.elapsed = Least(client.elapsed + 1, MaxDuration)
        /\ UNCHANGED <<requests, verifier>>
    BY <1>6 DEF Pass, TypeInv, Clients
  <2>2. /\ client'.elapsed \in Nat /\ client'.timer \in Int
        /\ client'.elapsed + client'.timer <= client.elapsed + client.timer
        /\ client'.timer <= client.timer
    BY <1>2, <2>1 DEF Least
  <2>3. client.step = "asking" => client'.timer <= MaxLatency
    BY <1>1, <1>2, <2>2 DEF TimeInv
  <2>4. client.step = "sleeping" =>
          /\ client'.timer <= PollInterval
          /\ verified + MaxLatency + PollInterval >= client'.elapsed + client'.timer
    BY <1>1, <1>2, <2>2 DEF TimeInv
  <2>5. \A r \in requests : r.step = "pending" =>
          verified + MaxLatency >= client'.elapsed + client'.timer
    BY <1>1, <1>2, <2>2 DEF TimeInv
  <2> QED
    BY <1>1, <2>1, <2>3, <2>4, <2>5 DEF TimeInv, Unfinished, Active
<1> QED
  BY <1>3, <1>4, <1>5, <1>6

\* The verifier's, which set the time.
LEMMA VerifierInTime ==
  ASSUME TypeInv, RequestInv, LateInv, lost = 0, NEW s \in Sessions,
         NEW outcome \in {"successful", "rejected"}, Verify(s, outcome)
  PROVE  TimeInv' /\ verified' \in 0..MaxDuration
<1> USE SessionAssumption
<1>1. /\ TimeInv /\ verified \in 0..MaxDuration /\ UNCHANGED <<client, sessions, requests>>
      /\ verifier' = [verifier EXCEPT ![s] = outcome] /\ verifier[s] = "processing"
      /\ verified' = verified \/ (verified' = client.elapsed /\ s = client.session)
  BY DEF LateInv, Verify
<1>2. client.elapsed \in 0..MaxDuration /\ client.timer \in Nat
  BY TimeFacts
<1>3. \A t \in Sessions : verifier'[t] = IF t = s THEN outcome ELSE verifier[t]
  BY <1>1 DEF TypeInv
<1>4. client.step \in Active => client.session \in Sessions \cup {0}
  BY DEF TypeInv, Clients
<1>5. client.session # s => verifier'[client.session] = verifier[client.session]
  BY <1>1 DEF TypeInv
<1>6. client.session = s => verifier'[client.session] = outcome /\ client.step # "presenting"
  BY <1>1, <1>3 DEF TimeInv
<1>7. Unfinished' => verified' = MaxDuration
  BY <1>1, <1>5, <1>6 DEF TimeInv, Unfinished
<1>8. client.step = "presenting" => verifier'[client.session] = "unused"
  BY <1>1, <1>5, <1>6 DEF TimeInv
<1>9. /\ client.step = "sleeping" =>
           verified' + MaxLatency + PollInterval >= client.elapsed + client.timer
      /\ client.step = "polling" => verified' + MaxLatency + PollInterval >= client.elapsed
  BY <1>1, <1>2 DEF TimeInv
<1>10. ASSUME NEW r \in requests, r.step = "pending"
       PROVE  verified' + MaxLatency >= client.elapsed + client.timer
  <2>1. client.step = "asking"
    BY OnlyRequest
  <2> QED
    BY <1>1, <1>2, <1>10, <2>1 DEF TimeInv
<1> QED
  BY <1>1, <1>2, <1>7, <1>8, <1>9, <1>10 DEF TimeInv

\* The server's steps that leave the client waiting, or make it sleep.
LEMMA ServerInTime ==
  ASSUME TypeInv, TypeInv', RequestInv, RequestInv', LateInv, lost = 0, lost' = 0,
         NEW r \in requests, Found(r) \/ Pending(r) \/ AnswerPending(r)
  PROVE  TimeInv'
<1> USE SessionAssumption
<1>1. /\ TimeInv /\ verified \in 0..MaxDuration
      /\ UNCHANGED <<sessions, verifier, verified>>
      /\ client.step = "asking" /\ requests = {r} /\ r.live
  BY OnlyRequest DEF LateInv, Found, Pending, AnswerPending, GoesOn
<1>2. client.elapsed \in 0..MaxDuration /\ client.timer \in Nat
  BY TimeFacts
<1>3. CASE Found(r) \/ Pending(r)
  <2>1. PICK step \in {"found", "pending"} :
          /\ GoesOn(r, step)
          /\ step = "pending" => verifier[r.session] \in {"unused", "processing"}
    BY <1>3 DEF Found, Pending
  <2> DEFINE next == [r EXCEPT !.step = step]
  <2>2. requests' = {next} /\ client' = client
    BY <1>1, <2>1 DEF GoesOn
  <2>3. next.session = r.session /\ next.step = step
    BY DEF TypeInv, Requests
  <2>4. step = "pending" => verified = MaxDuration
    BY <1>1, <2>1 DEF TimeInv, Unfinished, Active
  <2>5. step = "pending" => verified + MaxLatency >= client.elapsed + client.timer
    BY <1>1, <1>2, <2>4 DEF TimeInv
  <2> HIDE DEF next
  <2> QED
    BY <1>1, <2>2, <2>3, <2>5 DEF TimeInv, Unfinished
<1>4. CASE AnswerPending(r)
  <2>1. requests' = {} /\ client' = Sleeps
    BY <1>1, <1>4 DEF AnswerPending, Answer
  <2>2. /\ Sleeps.step = "sleeping" /\ Sleeps.session = client.session
        /\ Sleeps.timer \in Nat /\ Sleeps.timer <= PollInterval
        /\ Sleeps.elapsed = client.elapsed
    BY SleepType, TimeFacts
  <2>3. verified + MaxLatency >= client.elapsed + client.timer
    BY <1>1, <1>4 DEF TimeInv, AnswerPending
  <2>4. verified + MaxLatency + PollInterval >= Sleeps.elapsed + Sleeps.timer
    BY <1>1, <1>2, <2>2, <2>3
  <2> QED
    BY <1>1, <2>1, <2>2, <2>4 DEF TimeInv, Unfinished, Active
<1> QED
  BY <1>3, <1>4

LEMMA StepLate ==
  ASSUME TypeInv, TypeInv', OpenedInv, RequestInv, RequestInv', LateInv, [Next]_vars
  PROVE  LateInv'
<1> USE SessionAssumption
<1>1. verified' \in 0..MaxDuration
  <2>1. ASSUME NEW s \in Sessions, NEW outcome \in {"successful", "rejected"}, Verify(s, outcome)
        PROVE  verified' \in 0..MaxDuration
    BY <2>1, TimeFacts DEF Verify, LateInv
  <2>2. ASSUME NEW s \in Sessions, VerifyMe(s) PROVE verified' \in 0..MaxDuration
    BY <2>2 DEF VerifyMe
  <2>3. ASSUME NEW r \in requests, Serve(r) \/ LoseStatus(r) PROVE UNCHANGED verified
    BY <2>3 DEF Serve, Found, NotFound, Pending, AnswerPending, GoesOn, Refuse, Succeed, Unusable,
         LoseStatus
  <2>4. ASSUME NEW s \in Sessions, LoseSession(s) PROVE UNCHANGED verified
    BY <2>4 DEF LoseSession
  <2>5. CASE Present \/ PresentFails \/ Ask \/ GiveUp \/ Wake \/ Pass
             \/ RestartServer \/ RestartClient \/ UNCHANGED vars
    BY <2>5 DEF Present, PresentFails, Ask, GiveUp, Wake, Pass, RestartServer, RestartClient, vars,
         LateInv
  <2> QED
    BY <2>1, <2>2, <2>3, <2>4, <2>5 DEF Next, LateInv
<1> SUFFICES ASSUME lost' = 0 PROVE TimeInv'
  BY <1>1 DEF LateInv
<1>2. lost = 0 /\ ~Lose
  <2>1. lost \in Nat
    BY DEF TypeInv
  <2>2. ~Lose
    BY <2>1 DEF Lose
  <2>3. UNCHANGED lost
    BY <2>2 DEF Next, vars, Verify, VerifyMe, LoseSession, Present, PresentFails, Ask, GiveUp, Wake,
         Pass, Serve, Found, NotFound, Pending, AnswerPending, GoesOn, Refuse, Succeed, Unusable,
         LoseStatus, RestartServer, RestartClient
  <2> QED
    BY <2>2, <2>3
<1>3. ASSUME NEW s \in Sessions, VerifyMe(s) PROVE TimeInv'
  <2>1. requests' = {}
    BY <1>2, <1>3, OnlyRequest DEF VerifyMe, OpenSession
  <2>2. client'.step = "presenting" /\ client'.session = s
    BY <1>3 DEF VerifyMe, Idle
  <2>3. s \in sessions' /\ verifier'[s] = "unused" /\ verified' = MaxDuration
    BY <1>3, OpenFacts DEF VerifyMe, OpenSession, TypeInv
  <2> QED
    BY <2>1, <2>2, <2>3 DEF TimeInv
<1>4. CASE PresentFails \/ GiveUp
  BY <1>2, <1>4, RestsInTime, IdleType DEF PresentFails, GiveUp, Active
<1>5. CASE Present \/ Ask \/ Wake \/ Pass
  BY <1>2, <1>5, ClientInTime
<1>6. ASSUME NEW s \in Sessions, NEW outcome \in {"successful", "rejected"}, Verify(s, outcome)
      PROVE  TimeInv'
  BY <1>2, <1>6, VerifierInTime
<1>7. ASSUME NEW r \in requests, Serve(r) PROVE TimeInv'
  <2>1. r.live /\ client.step = "asking"
    BY <1>2, OnlyRequest
  <2>2. ~NotFound(r)
    BY <1>2, <2>1 DEF NotFound, LateInv, TimeInv, Active
  <2>3. CASE Refuse(r) \/ Succeed(r) \/ Unusable(r)
    <3>1. client'.step \in {"idle", "authenticated"}
      BY <2>1, <2>3, IdleType DEF Refuse, Succeed, Unusable, Answer, TypeInv, Clients
    <3> QED
      BY <3>1, RestsInTime DEF Active
  <2> QED
    BY <1>2, <1>7, <2>2, <2>3, ServerInTime DEF Serve
<1>8. CASE UNCHANGED vars
  BY <1>2, <1>8 DEF LateInv, TimeInv, Unfinished, vars
<1> QED
  BY <1>2, <1>3, <1>4, <1>5, <1>6, <1>7, <1>8
     DEF Next, LoseSession, LoseStatus, RestartServer, RestartClient

-----------------------------------------------------------------------------
LEMMA InitInv == Init => IInv
<1> SUFFICES ASSUME Init PROVE IInv
  OBVIOUS
<1>1. Opened = {} /\ Opened = 1..0
  BY DEF Init, Opened
<1>2. TypeInv
  BY <1>1, SessionAssumption, IdleType DEF Init, TypeInv, Progress
<1>3. OpenedInv
  BY <1>1, SessionAssumption, IdleType DEF Init, OpenedInv
<1>4. LateInv
  BY SessionAssumption, IdleType DEF Init, LateInv, TimeInv, Unfinished, Active
<1> QED
  BY <1>2, <1>3, <1>4 DEF Init, IInv, RequestInv, IssuedInv

LEMMA NextInv == IInv /\ [Next]_vars => IInv'
BY StepType, StepOpened, StepRequests, StepIssued, StepLate DEF IInv

\* Every reachable state of the client, the server and the verifier satisfies
\* IInv, for any numbers of sessions and losses, and any intervals.
THEOREM SessionInvariance == Spec => []IInv
BY InitInv, NextInv, PTL DEF Spec

\* A session is good for one token, and for one more at most per answer lost or
\* restart, however its status requests overlap.
THEOREM OneToken == Spec => []OneTokenPerSession
<1>1. IInv => OneTokenPerSession
  <2> SUFFICES ASSUME IInv, NEW s \in Sessions, issued[s] > 0
               PROVE  s \notin sessions /\ issued[s] <= 1 + lost
    BY DEF OneTokenPerSession
  <2>1. Cardinality(Finders(s)) \in Nat /\ issued[s] \in Nat /\ lost \in Nat
    BY FinderFacts DEF IInv, TypeInv
  <2> QED
    BY <2>1 DEF IInv, IssuedInv
<1> QED
  BY <1>1, SessionInvariance, PTL

\* A client that loses nothing gives up on a session only if it was verified
\* late, for any interval, limit and latency.
THEOREM GiveUpIsLate == Spec => GivesUpLate
<1>1. IInv /\ [Next]_vars =>
        [client.step = "polling" /\ client'.step = "idle" /\ lost' = 0 =>
           verified + MaxLatency + PollInterval >= MaxDuration]_vars
  <2> SUFFICES ASSUME IInv, Next, client.step = "polling", client'.step = "idle", lost' = 0
               PROVE  verified + MaxLatency + PollInterval >= MaxDuration
    OBVIOUS
  <2>1. lost \in Nat /\ ~Lose
    BY DEF IInv, TypeInv, Lose
  <2>2. \A r \in requests : ~r.live
    BY DEF IInv, RequestInv
  <2>3. ASSUME NEW r \in requests PROVE ~Serve(r)
    BY <2>2 DEF Serve, Found, NotFound, Pending, AnswerPending, GoesOn, Answer, Refuse, Succeed,
         Unusable
  <2>4. \A s \in Sessions : /\ ~VerifyMe(s)
                            /\ \A outcome \in {"successful", "rejected"} : ~Verify(s, outcome)
    BY DEF VerifyMe, OpenSession, Verify
  <2>5. ~Present /\ ~PresentFails /\ ~Wake /\ ~Pass
    BY DEF Present, PresentFails, Wake, Pass
  <2>6. ~Ask
    BY DEF Ask, IInv, TypeInv, Clients
  <2>7. GiveUp
    BY <2>1, <2>3, <2>4, <2>5, <2>6 DEF Next, LoseSession, LoseStatus, RestartServer, RestartClient
  <2>8. lost = 0 /\ client.elapsed >= MaxDuration
    BY <2>7 DEF GiveUp
  <2>9. verified + MaxLatency + PollInterval >= client.elapsed
    BY <2>8 DEF IInv, LateInv, TimeInv
  <2>10. client.elapsed \in Nat /\ verified \in Nat
    BY TimeFacts DEF IInv, LateInv
  <2> QED
    BY <2>8, <2>9, <2>10, SessionAssumption
<1> QED
  BY <1>1, SessionInvariance, PTL DEF Spec, GivesUpLate
==============================================================================
