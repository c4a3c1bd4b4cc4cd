----------------------------- MODULE TokenCache -----------------------------
(***************************************************************************)
(* The cache entry of one remote address, and the tasks that want a token  *)
(* for it: ticks of the two loops and the catalog synchronisation.  A task *)
(* holds the entry's mutex from its look at the entry until its fetch has  *)
(* ended; while fetches fail, they are spaced by an exponential backoff.   *)
(* Entries of different addresses share nothing but the map.  CatalogSync  *)
(* has the behaviours of these actions.                                    *)
(***************************************************************************)
EXTENDS Integers

CONSTANTS
  Tasks,
  Width,         \* the bits of the multiplier, 32 in the code
  InitialDelay,  \* seconds
  MaxDelay,      \* seconds
  Lifetimes,     \* how long the remote's tokens are valid, in seconds
  Margin         \* a token counts as expired this long before it is

ASSUME CacheAssumption ==
  /\ Width \in Nat \ {0}
  /\ InitialDelay \in Nat \ {0}
  /\ MaxDelay \in Nat \ {0}
  /\ Lifetimes \subseteq Nat
  /\ Lifetimes # {}
  /\ Margin \in Nat

VARIABLES
  cache,  \* the entry: a token, or the state of the backoff
  pc,     \* what each task is doing: "fetching" is the one with the mutex
  row,    \* history: fetches since one last succeeded
  since   \* history: seconds since the last fetch began

cacheVars == <<cache, pc, row, since>>

Least(a, b) == IF a < b THEN a ELSE b

\* 2u32.pow(exponent) wraps in a release build.
Multiplier(exponent) == IF exponent >= Width THEN 0 ELSE 2 ^ exponent

Delay(attempt) == Least(InitialDelay * Multiplier(attempt - 1), MaxDelay)

\* Every further attempt's delay is that of attempt Width + 1, which is none.
Attempts == 0..Width + 1

Counted(n) == Least(n + 1, Width + 1)

\* token: there is one, valid for another life seconds; otherwise the number of
\* attempts, and the seconds until the next is allowed.
Entries == [token : BOOLEAN, life : Nat, attempt : Attempts, wait : 0..MaxDelay]

Backoff == [token |-> FALSE, life |-> 0, attempt |-> 0, wait |-> 0]

CacheInit ==
  /\ cache = Backoff
  /\ pc = [t \in Tasks |-> "idle"]
  /\ row = 0
  /\ since = MaxDelay

-----------------------------------------------------------------------------
GetToken(t) ==
  /\ pc[t] = "idle"
  /\ pc' = [pc EXCEPT ![t] = "waiting"]
  /\ UNCHANGED <<cache, row, since>>

\* The task has got the mutex.
Locked(t) == pc[t] = "waiting" /\ \A u \in Tasks : pc[u] # "fetching"

Returns(t) == pc' = [pc EXCEPT ![t] = "idle"]

FromCache(t) ==
  /\ Locked(t)
  /\ cache.token
  /\ cache.life >= Margin
  /\ Returns(t)
  /\ UNCHANGED <<cache, row, since>>

\* Mutant: each refusal starts the pause anew.
TooManyAnew(t) ==
  /\ Locked(t)
  /\ ~cache.token
  /\ cache.wait > 0
  /\ Returns(t)
  /\ cache' = [cache EXCEPT !.wait = Delay(cache.attempt)]
  /\ UNCHANGED <<row, since>>

TooMany(t) ==
  /\ Locked(t)
  /\ ~cache.token
  /\ cache.wait > 0
  /\ Returns(t)
  /\ UNCHANGED <<cache, row, since>>

BeginsFetch(t) ==
  /\ pc' = [pc EXCEPT ![t] = "fetching"]
  /\ row' = Counted(row)
  /\ since' = 0

\* The state is reset, and the first fetch is not counted as an attempt.
FetchExpired(t) ==
  /\ Locked(t)
  /\ cache.token
  /\ cache.life < Margin
  /\ cache' = Backoff
  /\ BeginsFetch(t)

\* Mutant: attempts are not counted.
FetchUncounted(t) ==
  /\ Locked(t)
  /\ ~cache.token
  /\ cache.wait = 0
  /\ cache' = [cache EXCEPT !.attempt = 1, !.wait = Delay(1)]
  /\ BeginsFetch(t)

Fetch(t) ==
  /\ Locked(t)
  /\ ~cache.token
  /\ cache.wait = 0
  /\ cache' = [cache EXCEPT !.attempt = Counted(@), !.wait = Delay(Counted(cache.attempt))]
  /\ BeginsFetch(t)

\* The remote's token has been received, decoded and verified; how long it is
\* still valid is not compared with the margin.
Fetched(t, life) ==
  /\ pc[t] = "fetching"
  /\ cache' = [Backoff EXCEPT !.token = TRUE, !.life = life]
  /\ Returns(t)
  /\ row' = 0
  /\ UNCHANGED since

Failed(t) ==
  /\ pc[t] = "fetching"
  /\ Returns(t)
  /\ UNCHANGED <<cache, row, since>>

Earlier(n) == IF n = 0 THEN 0 ELSE n - 1

\* A second passes.
Pass ==
  /\ cache' = [cache EXCEPT !.life = Earlier(@), !.wait = Earlier(@)]
  /\ since' = Least(since + 1, MaxDelay)
  /\ UNCHANGED <<pc, row>>

-----------------------------------------------------------------------------
(***************************************************************************)
(* Properties.                                                             *)
(***************************************************************************)

Fetching == {t \in Tasks : pc[t] = "fetching"}

\* Whatever the tasks do, the pauses between the beginnings of fetches that fail
\* in a row double until they are at their maximum.  An expired token has a
\* first fetch for free.  After Width fetches in a row the multiplier wraps, and
\* there are no pauses any more.
PausesGrow ==
  [][Fetching' \ Fetching # {} /\ row \in 2..Width =>
       since >= Least(InitialDelay * 2 ^ (row - 2), MaxDelay)]_cacheVars
=============================================================================
