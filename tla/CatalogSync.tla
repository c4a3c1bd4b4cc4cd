---------------------------- MODULE CatalogSync ----------------------------
(***************************************************************************)
(* The task that copies the catalogue of one remote connector into the     *)
(* store, and the other tasks of the connector that want tokens for the    *)
(* same remote (TokenCache).  The task selects a protocol version, and     *)
(* with it the path it will use, once; then, again and again, it gets a    *)
(* token, asks for the catalogue, saves each dataset, and sleeps: for the  *)
(* interval of the configuration if the catalogue was received, for the    *)
(* escalated one if anything failed before.  Users negotiate about copies. *)
(*                                                                         *)
(* The remote publishes new editions of datasets, withdraws them, and      *)
(* moves its API to another path.  Failures (of requests, fetches, saves,  *)
(* and restarts of this connector) are bounded by MaxTroubles.             *)
(***************************************************************************)
EXTENDS TokenCache, Functions

CONSTANTS
  Sync,         \* the synchronisation, one of the tasks
  Datasets,
  MaxEditions,  \* bound: editions published, of all datasets
  MaxPath,      \* bound: moves of the remote's API
  Normal,       \* seconds between two catalogues
  Escalated,    \* seconds until the next attempt after a failure
  MaxTroubles   \* bound: failures and restarts

ASSUME SyncAssumption ==
  /\ Sync \in Tasks
  /\ MaxEditions \in Nat
  /\ MaxPath \in Nat
  /\ Normal \in Nat \ {0}
  /\ Escalated \in Nat \ {0}
  /\ MaxTroubles \in Nat

VARIABLES
  listed,   \* the datasets in the remote's catalogue
  edition,  \* edition[d]: the last edition of d the remote published
  path,     \* where the remote's API is
  step,     \* what the synchronisation is doing
  ticker,   \* seconds until it is due again
  version,  \* the path it has selected, or NoVersion
  answer,   \* datasets received and not saved yet, with their editions
  copy,     \* copy[d]: the edition in the store, 0 if there is none
  troubles  \* number of failures and restarts so far

remoteVars == <<listed, edition, path>>

syncVars == <<step, ticker, version, answer, copy>>

vars == <<cacheVars, remoteVars, syncVars, troubles>>

NoVersion == -1

Init ==
  /\ CacheInit
  /\ listed = {}
  /\ edition = [d \in Datasets |-> 0]
  /\ path = 0
  /\ step = "sleeping"
  /\ ticker = 0
  /\ version = NoVersion
  /\ answer = {}
  /\ copy = [d \in Datasets |-> 0]
  /\ troubles = 0

Trouble == troubles < MaxTroubles /\ troubles' = troubles + 1

NoTrouble == UNCHANGED troubles

Sleep(seconds) == step' = "sleeping" /\ ticker' = seconds

-----------------------------------------------------------------------------
(***************************************************************************)
(* The remote connector.                                                   *)
(***************************************************************************)
Publish(d) ==
  /\ FoldFunction(+, 0, edition) < MaxEditions
  /\ edition' = [edition EXCEPT ![d] = @ + 1]
  /\ listed' = listed \cup {d}
  /\ UNCHANGED <<cacheVars, path, syncVars, troubles>>

Withdraw(d) ==
  /\ d \in listed
  /\ listed' = listed \ {d}
  /\ UNCHANGED <<cacheVars, edition, path, syncVars, troubles>>

Move ==
  /\ path < MaxPath
  /\ path' = path + 1
  /\ UNCHANGED <<cacheVars, listed, edition, syncVars, troubles>>

(***************************************************************************)
(* The synchronisation.                                                    *)
(***************************************************************************)
\* Mutant: a tick does not wait for the synchronisation before.
DueAnytime ==
  /\ step \in {"sleeping", "saving"}
  /\ step' = IF version = NoVersion THEN "selecting" ELSE "asking"
  /\ NoTrouble
  /\ UNCHANGED <<cacheVars, remoteVars, ticker, version, answer, copy>>

Due ==
  /\ step = "sleeping"
  /\ ticker = 0
  /\ step' = IF version = NoVersion THEN "selecting" ELSE "asking"
  /\ NoTrouble
  /\ UNCHANGED <<cacheVars, remoteVars, ticker, version, answer, copy>>

SelectVersion ==
  /\ step = "selecting"
  /\ version' = path
  /\ step' = "asking"
  /\ NoTrouble
  /\ UNCHANGED <<cacheVars, remoteVars, ticker, answer, copy>>

\* No answer, an answer the schema does not allow, or no version supported.
SelectFails ==
  /\ step = "selecting"
  /\ Trouble
  /\ Sleep(Escalated)
  /\ UNCHANGED <<cacheVars, remoteVars, version, answer, copy>>

AskToken ==
  /\ step = "asking"
  /\ GetToken(Sync)
  /\ step' = "token"
  /\ NoTrouble
  /\ UNCHANGED <<remoteVars, ticker, version, answer, copy>>

TokenGiven ==
  /\ step = "token"
  /\ FromCache(Sync) \/ \E life \in Lifetimes : Fetched(Sync, life)
  /\ step' = "requesting"
  /\ NoTrouble
  /\ UNCHANGED <<remoteVars, ticker, version, answer, copy>>

TokenFetched ==
  /\ step = "token"
  /\ FetchExpired(Sync) \/ Fetch(Sync)
  /\ NoTrouble
  /\ UNCHANGED <<remoteVars, syncVars>>

TokenTooMany ==
  /\ step = "token"
  /\ TooMany(Sync)
  /\ NoTrouble
  /\ Sleep(Escalated)
  /\ UNCHANGED <<remoteVars, version, answer, copy>>

TokenFails ==
  /\ step = "token"
  /\ Failed(Sync)
  /\ Trouble
  /\ Sleep(Escalated)
  /\ UNCHANGED <<remoteVars, version, answer, copy>>

Catalogue == {[dataset |-> d, edition |-> edition[d]] : d \in listed}

RequestCatalog ==
  /\ step = "requesting"
  /\ version = path
  /\ answer' = answer \cup Catalogue
  /\ step' = "saving"
  /\ NoTrouble
  /\ UNCHANGED <<cacheVars, remoteVars, ticker, version, copy>>

\* Nothing is served at a path the remote has left; the version is kept.
RequestFails ==
  /\ step = "requesting"
  /\ IF version = path THEN Trouble ELSE NoTrouble
  /\ Sleep(Escalated)
  /\ UNCHANGED <<cacheVars, remoteVars, version, answer, copy>>

\* Mutant: a copy there is is left alone.
SaveOnlyNew(a) ==
  /\ step = "saving"
  /\ a \in answer
  /\ answer' = answer \ {a}
  /\ copy' = [copy EXCEPT ![a.dataset] = IF @ = 0 THEN a.edition ELSE @]
  /\ NoTrouble
  /\ UNCHANGED <<cacheVars, remoteVars, step, ticker, version>>

SaveDataset(a) ==
  /\ step = "saving"
  /\ a \in answer
  /\ answer' = answer \ {a}
  /\ copy' = [copy EXCEPT ![a.dataset] = a.edition]
  /\ NoTrouble
  /\ UNCHANGED <<cacheVars, remoteVars, step, ticker, version>>

\* A failed save is only logged.
SaveFails(a) ==
  /\ step = "saving"
  /\ a \in answer
  /\ answer' = answer \ {a}
  /\ Trouble
  /\ UNCHANGED <<cacheVars, remoteVars, step, ticker, version, copy>>

\* The datasets that are not in the catalogue any more stay in the store.
Finish ==
  /\ step = "saving"
  /\ answer = {}
  /\ NoTrouble
  /\ Sleep(Normal)
  /\ UNCHANGED <<cacheVars, remoteVars, version, answer, copy>>

(***************************************************************************)
(* Everything else in the connector.                                       *)
(***************************************************************************)
OtherTask(t) ==
  /\ t # Sync
  /\ \/ NoTrouble /\ (GetToken(t) \/ FromCache(t) \/ TooMany(t) \/ FetchExpired(t) \/ Fetch(t))
     \/ NoTrouble /\ \E life \in Lifetimes : Fetched(t, life)
     \/ Trouble /\ Failed(t)
  /\ UNCHANGED <<remoteVars, syncVars>>

\* A restart keeps the copies only.
Restart ==
  /\ Trouble
  /\ cache' = Backoff
  /\ pc' = [t \in Tasks |-> "idle"]
  /\ row' = 0
  /\ since' = MaxDelay
  /\ Sleep(0)
  /\ version' = NoVersion
  /\ answer' = {}
  /\ UNCHANGED <<remoteVars, copy>>

Second ==
  /\ Pass
  /\ ticker' = Earlier(ticker)
  /\ NoTrouble
  /\ UNCHANGED <<remoteVars, step, version, answer, copy>>

-----------------------------------------------------------------------------
Remote == Move \/ \E d \in Datasets : Publish(d) \/ Withdraw(d)

Synchronise ==
  \/ Due
  \/ SelectVersion \/ SelectFails
  \/ AskToken \/ TokenGiven \/ TokenFetched \/ TokenTooMany \/ TokenFails
  \/ RequestCatalog \/ RequestFails
  \/ \E a \in answer : SaveDataset(a) \/ SaveFails(a)
  \/ Finish

Next ==
  \/ Remote
  \/ Synchronise
  \/ \E t \in Tasks : OtherTask(t)
  \/ Restart
  \/ Second

Spec == Init /\ [][Next]_vars

\* Time passes, tasks that can run run (a tick that needs a token asks again a
\* second later), and the mutex is given to those who wait in turn.  Nothing is
\* assumed of the remote.
Fairness ==
  /\ WF_vars(Second)
  /\ WF_vars(Synchronise)
  /\ SF_vars(TokenGiven \/ TokenFetched \/ TokenTooMany)
  /\ \A t \in Tasks \ {Sync} : SF_vars(OtherTask(t))

FairSpec == Spec /\ Fairness

-----------------------------------------------------------------------------
(***************************************************************************)
(* Properties.                                                             *)
(***************************************************************************)

\* A remote that recovers is found again, although tasks keep asking during the
\* pauses between fetches.
RemoteFoundAgain == []<>cache.token

\* A copy never goes back to an earlier edition, as each catalogue is saved, or
\* given up, before the next is asked for.
NeverOlder == [][\A d \in Datasets : copy'[d] >= copy[d]]_vars

StalePath == version \notin {NoVersion, path}

\* What the remote has published last arrives in the store, whatever failed and
\* was refused before, unless the remote has moved since the version was
\* selected: the version is kept until a restart, and users go on with the
\* copies there are.
CopiesCatchUp ==
  <>[](StalePath \/ \A d \in listed : copy[d] = edition[d])
=============================================================================
