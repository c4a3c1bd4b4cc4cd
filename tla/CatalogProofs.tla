---------------------------- MODULE CatalogProofs ----------------------------
(***************************************************************************)
(* The copies of a remote's datasets never grow older, and the pauses      *)
(* between fetches that fail grow, for any number of datasets, editions,   *)
(* tasks, failures and restarts, and any delays.                           *)
(***************************************************************************)
EXTENDS CatalogSync, FiniteSetTheorems, TLAPS

\* A catalogue being saved is the only one, and is between the copies and what
\* the remote has published.
CopyInv ==
  /\ listed \subseteq Datasets
  /\ edition \in [Datasets -> Nat]
  /\ copy \in [Datasets -> Nat]
  /\ answer \subseteq [dataset : Datasets, edition : Nat]
  /\ \A d \in Datasets : copy[d] <= edition[d]
  /\ \A a \in answer : copy[a.dataset] <= a.edition /\ a.edition <= edition[a.dataset]
  /\ \A a, b \in answer : a.dataset = b.dataset => a = b
  /\ answer # {} => step = "saving"

LEMMA InitCopies == Init => CopyInv
BY DEF Init, CopyInv

\* The remote's steps touch neither the copies nor the answer.
LEMMA RemoteCopies ==
  ASSUME CopyInv, Remote
  PROVE  CopyInv' /\ copy' = copy
<1>1. UNCHANGED <<copy, answer, step>>
  BY DEF Remote, Move, Publish, Withdraw, syncVars
<1>2. CASE Move
  BY <1>1, <1>2 DEF Move, CopyInv
<1>3. ASSUME NEW d \in Datasets, Publish(d) PROVE CopyInv'
  <2>1. edition' = [edition EXCEPT ![d] = edition[d] + 1] /\ listed' \subseteq Datasets
    BY <1>3 DEF Publish, CopyInv
  <2>2. edition' \in [Datasets -> Nat] /\ \A e \in Datasets : edition[e] <= edition'[e]
    BY <2>1 DEF CopyInv
  <2> QED
    BY <1>1, <2>1, <2>2 DEF CopyInv
<1>4. ASSUME NEW d \in Datasets, Withdraw(d) PROVE CopyInv'
  BY <1>1, <1>4 DEF Withdraw, CopyInv
<1> QED
  BY <1>1, <1>2, <1>3, <1>4 DEF Remote

\* A catalogue is asked for when the one before has been dealt with.
LEMMA RequestCopies ==
  ASSUME CopyInv, RequestCatalog
  PROVE  CopyInv' /\ copy' = copy
<1>1. answer = {} /\ answer' = Catalogue /\ step' = "saving" /\ UNCHANGED <<listed, edition, copy>>
  BY DEF RequestCatalog, CopyInv, remoteVars
<1>2. \A a \in Catalogue : /\ a \in [dataset : Datasets, edition : Nat]
                           /\ a.edition = edition[a.dataset]
  BY DEF Catalogue, CopyInv
<1>3. \A a, b \in Catalogue : a.dataset = b.dataset => a = b
  BY DEF Catalogue
<1> QED
  BY <1>1, <1>2, <1>3 DEF CopyInv

\* A save replaces a copy by an edition that is no older.
LEMMA SaveCopies ==
  ASSUME CopyInv, NEW a \in answer, SaveDataset(a)
  PROVE  CopyInv' /\ \A d \in Datasets : copy'[d] >= copy[d]
<1>1. /\ answer' = answer \ {a} /\ copy' = [copy EXCEPT ![a.dataset] = a.edition]
      /\ UNCHANGED <<listed, edition, step>>
  BY DEF SaveDataset, remoteVars
<1>2. /\ a.dataset \in Datasets /\ a.edition \in Nat
      /\ copy[a.dataset] <= a.edition /\ a.edition <= edition[a.dataset]
  BY DEF CopyInv
<1>3. \A b \in answer' : b \in answer /\ b.dataset # a.dataset
  BY <1>1 DEF CopyInv
<1>4. /\ copy' \in [Datasets -> Nat]
      /\ \A d \in Datasets : copy'[d] = IF d = a.dataset THEN a.edition ELSE copy[d]
  BY <1>1, <1>2 DEF CopyInv
<1>5. \A d \in Datasets : copy'[d] >= copy[d] /\ copy'[d] <= edition[d]
  BY <1>2, <1>4 DEF CopyInv
<1> QED
  BY <1>1, <1>3, <1>4, <1>5 DEF CopyInv

\* A restart forgets the answer; all other steps leave it, or take from it.
LEMMA OtherCopies ==
  ASSUME CopyInv, UNCHANGED <<listed, edition, copy>>, answer' \subseteq answer,
         answer' # {} => step' = "saving"
  PROVE  CopyInv'
BY DEF CopyInv

LEMMA NextCopies ==
  CopyInv /\ [Next]_vars => CopyInv' /\ [\A d \in Datasets : copy'[d] >= copy[d]]_vars
<1> SUFFICES ASSUME CopyInv, [Next]_vars
             PROVE  CopyInv' /\ \A d \in Datasets : copy'[d] >= copy[d]
  OBVIOUS
<1>1. copy' = copy => \A d \in Datasets : copy'[d] >= copy[d]
  BY DEF CopyInv
<1>2. CASE Remote
  BY <1>1, <1>2, RemoteCopies
<1>3. CASE Synchronise
  <2>1. \/ RequestCatalog
        \/ \E a \in answer : SaveDataset(a)
        \/ /\ UNCHANGED <<listed, edition, copy>> /\ answer' \subseteq answer
           /\ answer' # {} => step' = "saving"
    BY <1>3 DEF Synchronise, Due, SelectVersion, SelectFails, AskToken, TokenGiven,
         TokenFetched, TokenTooMany, TokenFails, RequestFails, SaveFails, Finish,
         Sleep, remoteVars, syncVars, CopyInv
  <2> QED
    BY <1>1, <2>1, RequestCopies, SaveCopies, OtherCopies
<1>4. CASE (\E t \in Tasks : OtherTask(t)) \/ Restart \/ Second \/ UNCHANGED vars
  <2>1. /\ UNCHANGED <<listed, edition, copy>> /\ answer' \subseteq answer
        /\ answer' # {} => step' = "saving"
    BY <1>4 DEF OtherTask, Restart, Second, vars, remoteVars, syncVars, CopyInv
  <2> QED
    BY <1>1, <2>1, OtherCopies
<1> QED
  BY <1>2, <1>3, <1>4 DEF Next

\* No save, failure or restart of the synchronisation replaces a copy by an
\* earlier edition.
THEOREM CopiesNeverOlder == Spec => NeverOlder
<1>1. CopyInv /\ [Next]_vars => [\A d \in Datasets : copy'[d] >= copy[d]]_vars
  BY NextCopies
<1>2. CopyInv /\ [Next]_vars => CopyInv'
  BY NextCopies
<1> QED
  BY <1>1, <1>2, InitCopies, PTL DEF Spec, NeverOlder

-----------------------------------------------------------------------------
(***************************************************************************)
(* The pauses between fetches that fail.                                   *)
(***************************************************************************)

\* Fetches in a row are counted as attempts, but for the free one after a token
\* has expired; what has passed of a pause, and what is left, make it up.
PauseInv ==
  /\ pc \in [Tasks -> {"idle", "waiting", "fetching"}]
  /\ cache \in Entries
  /\ row \in Attempts
  /\ since \in 0..MaxDelay
  /\ cache.token => row = 0
  /\ ~cache.token => row = cache.attempt \/ row = Counted(cache.attempt)
  /\ ~cache.token /\ cache.attempt # 0 => since + cache.wait >= Delay(cache.attempt)

\* What a step that begins a fetch must have waited for.
Paused ==
  Fetching' \ Fetching # {} /\ row \in 2..Width =>
    since >= Least(InitialDelay * 2 ^ (row - 2), MaxDelay)

LEMMA PowersGrow ==
  ASSUME NEW n \in Nat
  PROVE  2 ^ n \in Nat /\ 2 ^ n <= 2 ^ (n + 1)
<1>1. /\ IsFiniteSet(1..n) /\ Cardinality(1..n) = n
      /\ IsFiniteSet(1..(n + 1)) /\ Cardinality(1..(n + 1)) = n + 1
  BY FS_Interval
<1>2. /\ IsFiniteSet(SUBSET (1..n)) /\ Cardinality(SUBSET (1..n)) = 2 ^ n
      /\ IsFiniteSet(SUBSET (1..(n + 1))) /\ Cardinality(SUBSET (1..(n + 1))) = 2 ^ (n + 1)
  BY <1>1, FS_SUBSET
<1>3. SUBSET (1..n) \in SUBSET (SUBSET (1..(n + 1)))
  OBVIOUS
<1>4. Cardinality(SUBSET (1..n)) \in Nat
  BY <1>2, FS_CardinalityType
<1>5. Cardinality(SUBSET (1..n)) <= Cardinality(SUBSET (1..(n + 1)))
  BY <1>2, <1>3, FS_Subset
<1> QED
  BY <1>2, <1>4, <1>5

LEMMA DelayType ==
  ASSUME NEW n \in Attempts, n # 0
  PROVE  Delay(n) \in 0..MaxDelay
<1>1. n - 1 \in Nat
  BY CacheAssumption DEF Attempts
<1>2. Multiplier(n - 1) \in Nat
  BY <1>1, PowersGrow DEF Multiplier
<1>3. InitialDelay * Multiplier(n - 1) \in Nat
  BY <1>2, CacheAssumption
<1> QED
  BY <1>3, CacheAssumption DEF Delay, Least

\* The delay before the next of so many fetches in a row.
LEMMA DelayOf ==
  ASSUME NEW n \in 1..Width
  PROVE  /\ Delay(n) = Least(InitialDelay * 2 ^ (n - 1), MaxDelay)
         /\ n > 1 => Delay(n) >= Least(InitialDelay * 2 ^ (n - 2), MaxDelay)
<1>1. Multiplier(n - 1) = 2 ^ (n - 1)
  BY CacheAssumption DEF Multiplier
<1>2. ASSUME n > 1
      PROVE  Least(InitialDelay * 2 ^ (n - 1), MaxDelay) >= Least(InitialDelay * 2 ^ (n - 2), MaxDelay)
  <2>1. PICK m \in Nat : m = n - 2
    BY <1>2, CacheAssumption
  <2>2. PICK a \in Nat, b \in Nat : a = 2 ^ m /\ b = 2 ^ (m + 1) /\ a <= b
    BY <2>1, PowersGrow
  <2>3. InitialDelay * a <= InitialDelay * b /\ InitialDelay * a \in Nat /\ InitialDelay * b \in Nat
    BY <2>2, CacheAssumption
  <2>4. n - 1 = m + 1 /\ n - 2 = m
    BY <2>1, CacheAssumption
  <2> QED
    BY <2>2, <2>3, <2>4, CacheAssumption DEF Least
<1> QED
  BY <1>1, <1>2 DEF Delay

LEMMA InitPauses == Init => PauseInv
BY CacheAssumption DEF Init, CacheInit, PauseInv, Backoff, Entries, Attempts

\* A fetch begins when its pause is over.
LEMMA FetchPauses ==
  ASSUME PauseInv, NEW t \in Tasks, Fetch(t)
  PROVE  PauseInv' /\ Paused
<1>1. /\ ~cache.token /\ cache.wait = 0
      /\ cache' = [cache EXCEPT !.attempt = Counted(cache.attempt),
                                !.wait = Delay(Counted(cache.attempt))]
      /\ pc' = [pc EXCEPT ![t] = "fetching"] /\ row' = Counted(row) /\ since' = 0
  BY DEF Fetch, BeginsFetch
<1>2. \A n \in Attempts : Counted(n) \in Attempts /\ Counted(n) # 0
  BY CacheAssumption DEF Counted, Attempts, Least
<1>3. cache.attempt \in Attempts /\ Delay(Counted(cache.attempt)) \in 0..MaxDelay
  BY <1>2, DelayType DEF PauseInv, Entries
<1>4. /\ cache' \in Entries /\ ~cache'.token
      /\ cache'.attempt = Counted(cache.attempt)
      /\ cache'.wait = Delay(Counted(cache.attempt))
  BY <1>1, <1>2, <1>3 DEF PauseInv, Entries
<1>5. PauseInv'
  BY <1>1, <1>2, <1>3, <1>4, CacheAssumption DEF PauseInv
<1>6. ASSUME row \in 2..Width
      PROVE  since >= Least(InitialDelay * 2 ^ (row - 2), MaxDelay)
  <2>1. cache.attempt \in 1..Width /\ (cache.attempt = row \/ cache.attempt = row - 1)
    BY <1>1, <1>3, <1>6, CacheAssumption DEF PauseInv, Counted, Least, Attempts
  <2>2. since >= Delay(cache.attempt)
    BY <1>1, <2>1, CacheAssumption DEF PauseInv
  <2>3. Delay(cache.attempt) \in Int
    BY <1>3, <2>1, DelayType, CacheAssumption
  <2>4. CASE cache.attempt = row - 1
    <3>1. row - 2 = cache.attempt - 1
      BY <1>6, <2>4, CacheAssumption
    <3>2. Delay(cache.attempt) = Least(InitialDelay * 2 ^ (cache.attempt - 1), MaxDelay)
      BY <2>1, DelayOf
    <3> QED
      BY <2>2, <3>1, <3>2
  <2>5. CASE cache.attempt = row
    <3>1. Delay(row) >= Least(InitialDelay * 2 ^ (row - 2), MaxDelay)
      BY <1>6, <2>1, <2>5, DelayOf
    <3>2. PICK a \in Nat : a = 2 ^ (row - 2)
      BY <1>6, PowersGrow, CacheAssumption
    <3>3. Least(InitialDelay * 2 ^ (row - 2), MaxDelay) \in Int
      BY <3>2, CacheAssumption DEF Least
    <3> QED
      BY <2>2, <2>3, <2>5, <3>1, <3>3 DEF PauseInv
  <2> QED
    BY <2>1, <2>4, <2>5
<1> QED
  BY <1>5, <1>6 DEF Paused

\* The free fetch after a token is the first in its row.
LEMMA ExpiredPauses ==
  ASSUME PauseInv, NEW t \in Tasks, FetchExpired(t)
  PROVE  PauseInv' /\ Paused
<1>1. /\ row = 0 /\ cache' = Backoff /\ row' = Counted(0) /\ since' = 0
      /\ pc' = [pc EXCEPT ![t] = "fetching"]
  BY DEF FetchExpired, BeginsFetch, PauseInv
<1> QED
  BY <1>1, CacheAssumption DEF PauseInv, Paused, Backoff, Entries, Attempts, Counted, Least

\* A step that begins no fetch.
LEMMA NoFetchPauses ==
  ASSUME \A t \in Tasks : pc'[t] = "fetching" => pc[t] = "fetching"
  PROVE  Paused
BY DEF Paused, Fetching

LEMMA FetchedPauses ==
  ASSUME PauseInv, NEW t \in Tasks, NEW life \in Lifetimes, Fetched(t, life)
  PROVE  PauseInv' /\ Paused
<1>1. /\ cache' = [Backoff EXCEPT !.token = TRUE, !.life = life]
      /\ pc' = [pc EXCEPT ![t] = "idle"] /\ row' = 0 /\ since' = since
  BY DEF Fetched, Returns
<1>2. cache' \in Entries /\ cache'.token
  <2>1. cache' = [token |-> TRUE, life |-> life, attempt |-> 0, wait |-> 0]
    BY <1>1 DEF Backoff
  <2>2. life \in Nat /\ 0 \in Attempts /\ 0 \in 0..MaxDelay
    BY CacheAssumption DEF Attempts
  <2> QED
    BY <2>1, <2>2 DEF Entries
<1>3. row' \in Attempts
  BY <1>1, CacheAssumption DEF Attempts
<1>4. PauseInv'
  BY <1>1, <1>2, <1>3 DEF PauseInv
<1> QED
  BY <1>1, <1>4, NoFetchPauses DEF PauseInv

\* A second is counted on both sides, until the maximum is reached.
LEMMA PassPauses ==
  ASSUME PauseInv, Pass
  PROVE  PauseInv' /\ Paused
<1>1. /\ cache' = [cache EXCEPT !.life = Earlier(cache.life), !.wait = Earlier(cache.wait)]
      /\ since' = Least(since + 1, MaxDelay) /\ UNCHANGED <<pc, row>>
  BY DEF Pass
<1>2. /\ Earlier(cache.life) \in Nat
      /\ Earlier(cache.wait) \in 0..MaxDelay
      /\ Earlier(cache.wait) >= cache.wait - 1
  BY CacheAssumption DEF PauseInv, Entries, Earlier
<1>3. /\ cache' \in Entries /\ cache'.token = cache.token /\ cache'.attempt = cache.attempt
      /\ cache'.wait = Earlier(cache.wait)
  BY <1>1, <1>2 DEF PauseInv, Entries
<1>4. since' \in 0..MaxDelay /\ (since' = since + 1 \/ since' = MaxDelay)
  BY <1>1, CacheAssumption DEF PauseInv, Least
<1>5. ASSUME ~cache.token, cache.attempt # 0
      PROVE  since' + Earlier(cache.wait) >= Delay(cache.attempt)
  <2>1. cache.wait \in Nat /\ cache.attempt \in Attempts
    BY CacheAssumption DEF PauseInv, Entries
  <2>2. Delay(cache.attempt) \in 0..MaxDelay
    BY <1>5, <2>1, DelayType
  <2>3. since + cache.wait >= Delay(cache.attempt)
    BY <1>5 DEF PauseInv
  <2> QED
    BY <1>2, <1>4, <2>1, <2>2, <2>3, CacheAssumption DEF PauseInv
<1>6. PauseInv'
  BY <1>1, <1>3, <1>4, <1>5 DEF PauseInv
<1> QED
  BY <1>1, <1>6, NoFetchPauses

LEMMA RestartPauses ==
  ASSUME PauseInv, Restart
  PROVE  PauseInv' /\ Paused
<1>1. /\ cache' = Backoff /\ pc' = [t \in Tasks |-> "idle"] /\ row' = 0 /\ since' = MaxDelay
  BY DEF Restart
<1>2. PauseInv'
  BY <1>1, CacheAssumption DEF PauseInv, Backoff, Entries, Attempts
<1> QED
  BY <1>1, <1>2, NoFetchPauses

\* A task that asks, is given a token, is refused or has failed.
LEMMA QuietPauses ==
  ASSUME PauseInv, UNCHANGED <<cache, row, since>>,
         \/ UNCHANGED pc
         \/ \E t \in Tasks, s \in {"idle", "waiting"} : pc' = [pc EXCEPT ![t] = s]
  PROVE  PauseInv' /\ Paused
<1>1. /\ pc' \in [Tasks -> {"idle", "waiting", "fetching"}]
      /\ \A t \in Tasks : pc'[t] = "fetching" => pc[t] = "fetching"
  BY DEF PauseInv
<1> QED
  BY <1>1, NoFetchPauses DEF PauseInv

TaskStep(t) ==
  \/ GetToken(t) \/ FromCache(t) \/ TooMany(t) \/ Failed(t)
  \/ FetchExpired(t) \/ Fetch(t)
  \/ \E life \in Lifetimes : Fetched(t, life)

LEMMA TaskPauses ==
  ASSUME PauseInv, NEW t \in Tasks, TaskStep(t)
  PROVE  PauseInv' /\ Paused
<1>1. CASE GetToken(t) \/ FromCache(t) \/ TooMany(t) \/ Failed(t)
  BY <1>1, QuietPauses DEF GetToken, FromCache, TooMany, Failed, Returns
<1> QED
  BY <1>1, FetchPauses, ExpiredPauses, FetchedPauses DEF TaskStep

LEMMA NextPauses == PauseInv /\ [Next]_vars => PauseInv' /\ [Paused]_cacheVars
<1> SUFFICES ASSUME PauseInv, [Next]_vars PROVE PauseInv' /\ Paused
  BY DEF cacheVars
<1>1. \/ \E t \in Tasks : TaskStep(t)
      \/ Pass
      \/ Restart
      \/ UNCHANGED cacheVars
  <2>1. CASE Remote
    BY <2>1 DEF Remote, Move, Publish, Withdraw
  <2>2. CASE Synchronise
    <3>1. \/ AskToken \/ TokenGiven \/ TokenFetched \/ TokenTooMany \/ TokenFails => TaskStep(Sync)
      BY DEF AskToken, TokenGiven, TokenFetched, TokenTooMany, TokenFails, TaskStep
    <3> QED
      BY <2>2, <3>1, SyncAssumption DEF Synchronise, Due, SelectVersion, SelectFails,
         RequestCatalog, RequestFails, SaveDataset, SaveFails, Finish
  <2>3. CASE \E t \in Tasks : OtherTask(t)
    BY <2>3 DEF OtherTask, TaskStep
  <2>4. CASE Restart \/ Second \/ UNCHANGED vars
    BY <2>4 DEF Second, vars
  <2> QED
    BY <2>1, <2>2, <2>3, <2>4 DEF Next
<1>2. CASE UNCHANGED cacheVars
  BY <1>2, QuietPauses DEF cacheVars
<1> QED
  BY <1>1, <1>2, TaskPauses, PassPauses, RestartPauses

\* The pauses between fetches that fail in a row double until they are at their
\* maximum, whichever tasks ask, for any delays and any width of the multiplier.
THEOREM PausesDouble == Spec => PausesGrow
<1>1. PauseInv /\ [Next]_vars => PauseInv' /\ [Paused]_cacheVars
  BY NextPauses
<1> QED
  BY <1>1, InitPauses, PTL DEF Spec, PausesGrow, Paused
==============================================================================
