----------------------------- MODULE AuthSession -----------------------------
(***************************************************************************)
(* How a connector, the client, gets a token from another one, the server. *)
(* The server has a verifier open a session; the client's wallet presents  *)
(* its credentials to the verifier, and the client polls the server for    *)
(* the outcome.  The server's HTTP task looks the session up, asks the     *)
(* verifier, and removes the session if it was successful; a task whose    *)
(* client has given up goes on alone.                                      *)
(***************************************************************************)
EXTENDS Integers, FiniteSets

CONSTANTS
  MaxSessions,   \* bound: sessions
  MaxLost,       \* bound: lost answers and restarts
  MaxLatency,    \* how long a status request may take, in seconds
  PollInterval,  \* seconds between two polls
  MaxDuration    \* seconds after which the client gives up

ASSUME SessionAssumption ==
  /\ MaxSessions \in Nat \ {0}
  /\ MaxLost \in Nat
  /\ MaxLatency \in Nat
  /\ PollInterval \in Nat \ {0}
  /\ MaxDuration \in Nat \ {0}

Sessions == 1..MaxSessions

VARIABLES
  client,    \* the client's attempt, as below
  sessions,  \* the sessions the server knows of
  verifier,  \* verifier[s]: how far the verifier is with session s
  requests,  \* the status requests the server is working on
  lost,      \* the number of lost answers and restarts
  issued,    \* history: issued[s] tokens were made out for session s
  verified   \* history: when the client's session was verified

vars == <<client, sessions, verifier, requests, lost, issued, verified>>

Progress == {"none", "unused", "processing", "successful", "rejected"}

\* elapsed: the seconds since polling began; timer: the seconds the client sleeps,
\* or may have to wait for its answer.
Clients ==
  [step : {"idle", "presenting", "polling", "asking", "sleeping", "authenticated"},
   session : Sessions \cup {0}, elapsed : 0..MaxDuration, timer : Nat]

\* step: whether the session has been looked up, and found to be pending; live:
\* whether the client waits for the answer.  A request is identified by what was
\* lost before it.
Requests ==
  [id : 0..MaxLost, session : Sessions, step : {"arrived", "found", "pending"}, live : BOOLEAN]

Idle == [step |-> "idle", session |-> 0, elapsed |-> 0, timer |-> 0]

Init ==
  /\ client = Idle
  /\ sessions = {}
  /\ verifier = [s \in Sessions |-> "none"]
  /\ requests = {}
  /\ lost = 0
  /\ issued = [s \in Sessions |-> 0]
  /\ verified = MaxDuration

Least(a, b) == IF a < b THEN a ELSE b

Opened == {s \in Sessions : verifier[s] # "none"}

-----------------------------------------------------------------------------
(***************************************************************************)
(* The client.                                                             *)
(***************************************************************************)
OpenSession(s) ==
  /\ client.step \in {"idle", "authenticated"}
  /\ s = Cardinality(Opened) + 1
  /\ verifier' = [verifier EXCEPT ![s] = "unused"]
  /\ sessions' = sessions \cup {s}

VerifyMe(s) ==
  /\ OpenSession(s)
  /\ client' = [Idle EXCEPT !.step = "presenting", !.session = s]
  /\ verified' = MaxDuration
  /\ UNCHANGED <<requests, lost, issued>>

Present ==
  /\ client.step = "presenting"
  /\ client' = [client EXCEPT !.step = "polling"]
  /\ verifier' = [verifier EXCEPT ![client.session] = "processing"]
  /\ UNCHANGED <<sessions, requests, lost, issued, verified>>

\* The wallet answers with an error, or has nothing to present; the verifier may
\* have got the presentation nevertheless.
PresentFails ==
  /\ client.step = "presenting"
  /\ client' = Idle
  /\ \E p \in {"unused", "processing"} :
       verifier' = [verifier EXCEPT ![client.session] = p]
  /\ UNCHANGED <<sessions, requests, lost, issued, verified>>

Ask ==
  /\ client.step = "polling"
  /\ client.elapsed < MaxDuration
  /\ client' = [client EXCEPT !.step = "asking", !.timer = MaxLatency]
  /\ requests' = requests \cup
       {[id |-> lost, session |-> client.session, step |-> "arrived", live |-> TRUE]}
  /\ UNCHANGED <<sessions, verifier, lost, issued, verified>>

GiveUp ==
  /\ client.step = "polling"
  /\ client.elapsed >= MaxDuration
  /\ client' = Idle
  /\ UNCHANGED <<sessions, verifier, requests, lost, issued, verified>>

\* Mutant: the longer of the two instead of the shorter.
SleepsToTheEnd ==
  [client EXCEPT !.step = "sleeping",
                 !.timer = IF PollInterval < MaxDuration - client.elapsed
                           THEN MaxDuration - client.elapsed ELSE PollInterval]

\* After a pending answer, or an error, the client sleeps, not longer than there
\* is time left.
Sleeps ==
  [client EXCEPT !.step = "sleeping",
                 !.timer = Least(PollInterval, MaxDuration - client.elapsed)]

Wake ==
  /\ client.step = "sleeping"
  /\ client.timer = 0
  /\ client' = [client EXCEPT !.step = "polling"]
  /\ UNCHANGED <<sessions, verifier, requests, lost, issued, verified>>

\* A second passes; what the client does between its waits takes no time.
Pass ==
  /\ client.step \in {"asking", "sleeping"}
  /\ client.timer > 0
  /\ client' = [client EXCEPT !.timer = @ - 1, !.elapsed = Least(@ + 1, MaxDuration)]
  /\ UNCHANGED <<sessions, verifier, requests, lost, issued, verified>>

-----------------------------------------------------------------------------
(***************************************************************************)
(* The verifier.                                                           *)
(***************************************************************************)
Verify(s, outcome) ==
  /\ verifier[s] = "processing"
  /\ verifier' = [verifier EXCEPT ![s] = outcome]
  /\ verified' = IF outcome = "successful" /\ s = client.session
                 THEN client.elapsed ELSE verified
  /\ UNCHANGED <<client, sessions, requests, lost, issued>>

-----------------------------------------------------------------------------
(***************************************************************************)
(* The server's HTTP tasks.                                                *)
(***************************************************************************)
Answer(r, after) ==
  /\ requests' = requests \ {r}
  /\ client' = IF r.live THEN after ELSE client

GoesOn(r, step) ==
  /\ requests' = (requests \ {r}) \cup {[r EXCEPT !.step = step]}
  /\ UNCHANGED <<client, sessions, verifier, lost, issued, verified>>

Found(r) ==
  /\ r.step = "arrived"
  /\ r.session \in sessions
  /\ GoesOn(r, "found")

NotFound(r) ==
  /\ r.step = "arrived"
  /\ r.session \notin sessions
  /\ Answer(r, Sleeps)
  /\ UNCHANGED <<sessions, verifier, lost, issued, verified>>

Pending(r) ==
  /\ r.step = "found"
  /\ verifier[r.session] \in {"unused", "processing"}
  /\ GoesOn(r, "pending")

\* The session may have been verified meanwhile.
AnswerPending(r) ==
  /\ r.step = "pending"
  /\ Answer(r, Sleeps)
  /\ UNCHANGED <<sessions, verifier, lost, issued, verified>>

\* The session stays in the map.
Refuse(r) ==
  /\ r.step = "found"
  /\ verifier[r.session] = "rejected"
  /\ Answer(r, Idle)
  /\ UNCHANGED <<sessions, verifier, lost, issued, verified>>

\* Mutant: the session is not removed.
SucceedAgain(r) ==
  /\ r.step = "found"
  /\ verifier[r.session] = "successful"
  /\ issued' = [issued EXCEPT ![r.session] = @ + 1]
  /\ Answer(r, [client EXCEPT !.step = "authenticated"])
  /\ UNCHANGED <<sessions, verifier, lost, verified>>

\* The session was looked up before the verifier was asked; whether it is still
\* in the map is not checked.
Succeed(r) ==
  /\ r.step = "found"
  /\ verifier[r.session] = "successful"
  /\ sessions' = sessions \ {r.session}
  /\ issued' = [issued EXCEPT ![r.session] = @ + 1]
  /\ Answer(r, [client EXCEPT !.step = "authenticated"])
  /\ UNCHANGED <<verifier, lost, verified>>

\* The credentials make no claims: the session is removed all the same.
Unusable(r) ==
  /\ r.step = "found"
  /\ verifier[r.session] = "successful"
  /\ sessions' = sessions \ {r.session}
  /\ Answer(r, Idle)
  /\ UNCHANGED <<verifier, lost, issued, verified>>

-----------------------------------------------------------------------------
(***************************************************************************)
(* Faults.                                                                 *)
(***************************************************************************)
Lose == lost < MaxLost /\ lost' = lost + 1

\* The client gets an error: its attempt ends at the first request, and goes on
\* at a status request.
LoseSession(s) ==
  /\ Lose
  /\ OpenSession(s)
  /\ client' = Idle
  /\ UNCHANGED <<requests, issued, verified>>

LoseStatus(r) ==
  /\ Lose
  /\ r.live
  /\ requests' = (requests \ {r}) \cup {[r EXCEPT !.live = FALSE]}
  /\ client' = Sleeps
  /\ UNCHANGED <<sessions, verifier, issued, verified>>

\* Sessions are kept in memory only.
RestartServer ==
  /\ Lose
  /\ sessions # {}
  /\ sessions' = {}
  /\ requests' = {}
  /\ client' = IF client.step = "asking" THEN Sleeps ELSE client
  /\ UNCHANGED <<verifier, issued, verified>>

RestartClient ==
  /\ Lose
  /\ client # Idle
  /\ client' = Idle
  /\ requests' = {[r EXCEPT !.live = FALSE] : r \in requests}
  /\ UNCHANGED <<sessions, verifier, issued, verified>>

-----------------------------------------------------------------------------
Serve(r) ==
  \/ Found(r) \/ NotFound(r)
  \/ Pending(r) \/ AnswerPending(r)
  \/ Refuse(r) \/ Succeed(r) \/ Unusable(r)

Next ==
  \/ \E s \in Sessions :
       \/ VerifyMe(s) \/ LoseSession(s)
       \/ \E outcome \in {"successful", "rejected"} : Verify(s, outcome)
  \/ Present \/ PresentFails \/ Ask \/ GiveUp \/ Wake \/ Pass
  \/ \E r \in requests : Serve(r) \/ LoseStatus(r)
  \/ RestartServer \/ RestartClient

Spec == Init /\ [][Next]_vars

-----------------------------------------------------------------------------
(***************************************************************************)
(* Properties.                                                             *)
(***************************************************************************)

\* A session yields one token: once it is made out no request finds the session
\* any more, so that another one takes a request that was given up, and had
\* looked the session up before.
OneTokenPerSession ==
  \A s \in Sessions : issued[s] > 0 =>
    /\ s \notin sessions
    /\ issued[s] <= 1 + lost

\* If nothing is lost the client gives up on a session only if it was not
\* verified until shortly before the end: from any earlier moment there is
\* another poll before the time is up.
GivesUpLate ==
  [][client.step = "polling" /\ client'.step = "idle" /\ lost' = 0 =>
       verified + MaxLatency + PollInterval >= MaxDuration]_vars
=============================================================================
