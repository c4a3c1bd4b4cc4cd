# Verification of dsp-rs

dsp-rs is a connector for data spaces: it negotiates contracts with other
connectors (the Dataspace Protocol, version 2025-1), transfers data under them,
and keeps its state in JSON files. This directory models it in TLA+, checks the
models with TLC and proves what matters most with TLAPS. File names
below are relative to the repository's root; `[name]` is a run of
`PROJECT.json`.

## 1. Inventory

A connector is one process (`src/src/main.rs`, `connector::start`) with five
kinds of tasks: the web server's HTTP tasks, the negotiation loop, the transfer
loop, one catalog synchronisation per federated connector, and, in a demo
build, an echo server.

| Component | State | Operations |
|---|---|---|
| contract negotiation (`negotiation/`) | one record per negotiation and side: state, `sent`, counterpart, agreement | `negotiate`, `contract_request`, loop: tick (decide or post) and events |
| transfer process (`transfer/`) | one record per transfer and side: state, `sent`, counterpart, agreement, data address | `transfer`, `transfer_request`, loop: tick and events |
| file store (`store/file_store.rs`) | one JSON file per record, named `<pid>_<state>.json` | `get`, `save`, `get_with_state` |
| reverse proxy (`reverse_proxy/`) | none | looks at the transfer a token is for, forwards |
| authentication (`auth/`) | token cache per remote address, verification sessions | `get_token`, `verify_me`, `status` |
| policy engine (`policy_engine/`) | none | `negotiate_policy` on an offer, `check_transfer_policy` on a request for a transfer |
| catalog synchronisation (`catalog/sync.rs`) | per remote connector the selected version and the interval; copies of datasets in the store | periodic request and save of datasets |
| internal API (`connector/internal_api.rs`) | none | `api_negotiate`, `api_transfer` and two queries |
| data model, application state, validation, tools | none or fixed | - |

How they interact:

- The API task saves a new consumer record. The loop finds it by polling the
  store once a second, so there is no call between them.
- A tick posts a message to the counterpart's web server. All messages but the
  two initial requests go through a channel to the counterpart's loop, which
  reads the record, changes it, saves it and lets the HTTP task answer. An
  initial request is answered by the HTTP task itself.
- `select!` in the loop handles an event or a whole round of ticks, never both.
  A round reads the pending records, ticks them concurrently, waits for *all* of
  them, and only then saves the outcomes.
- `transfer_request` and `api_transfer` read the negotiations: a transfer needs
  a finalized negotiation of the agreement on the side that is asked. The
  reverse proxy reads the transfers: it serves a token if the transfer is
  `started` and its start was acknowledged.

What is hard here:

- *interleaving*: outcomes computed from copies; a save that consists of a
  rename and a removal while other tasks list the directory;
- *waiting*: no HTTP timeout, so two loops that post to each other's loop wait
  for each other until one is restarted;
- *delivery*: a message that arrived but whose answer did not is posted again;
- *crashes*: between a message and the save of its outcome, and between the
  rename and the removal; a power cut may leave a file without its content;
- *ordering*: consumer and provider finalize one after the other, and transfers
  may be asked for in between;
- *staleness*: a path that was selected once, a policy that was checked once, a
  session that was looked up before the verifier was asked;
- *boundaries*: poll limit, equal modification times, exponential backoff, strict
  and inclusive bounds in policies.

`PROJECT.json` lists each of these hazards at its line with the properties that
would catch it, or the reason why none does.

What makes the components correct:

| Component | Correctness |
|---|---|
| negotiation | the two sides never hold different agreements; finalized at the provider implies finalized at the consumer; one agreement per request; nothing goes back; it ends |
| transfer | data is served only to the holder of the token, only under a contract finalized on both sides, and not after the end; it starts |
| store | a record behaves like one register, whoever reads it; a crash loses nothing; whatever a poll comes upon, it does not starve the other records |
| authentication | a valid token is reused, a failed fetch is retried with growing pauses, a session succeeds once |
| policy engine | an agreement lets nobody in whom the dataset would not; a consumer that offers the dataset's own policy is not refused |
| synchronisation | copies never grow older, and catch up after failures |

## 2. Modules

    Negotiation            one record: decisions, posts, acceptances
      NegotiationProtocol  connectors, loops, messages, faults
        NegotiationInvariant      the inductive invariants
        NegotiationSafety         invariants, safety, refinement (TLAPS)
        MCNegotiation, MCNegotiationTck   instances for TLC
        NegotiationStore          the same over the store as it is
          NegotiationStoreInvariant   the inductive invariant
          NegotiationStoreProofs      invariant and safety (TLAPS)
          MCNegotiationStore
    ContractSigning        what a negotiation promises (abstract)
    Transfer               one record
      TransferProtocol     connectors, loops, messages, faults, the proxy's gate
        TransferInvariant         the inductive invariants
        TransferProofs            invariant and safety    (TLAPS)
        MCTransfer, MCTransferTck
    DataSpace              NegotiationProtocol and TransferProtocol composed
        DataSpaceProofs           invariant and safety    (TLAPS)
        MCDataSpace
    FileStore              the file steps of one record
        StoreProofs               invariant, safety, refinement (TLAPS)
        MCFileStore
    AtomicRecord           what the store promises (abstract)
    PendingPoll            a loop's polls over several records
    PolicyEngine           the two decisions about policies
      PolicyContract       a policy from the dataset to the data
        PolicyProofs              the functions, invariant and safety (TLAPS)
        MCPolicy
    TokenCache             the tokens for one remote: mutex, expiry, backoff
      CatalogSync          the synchronisation with one remote, and its tokens
        CatalogProofs             copies and pauses       (TLAPS)
    AuthSession            how one token is obtained: sessions, polls, lost answers
        SessionProofs             invariant and safety    (TLAPS)

Where a module holds a definition that only a mutated form of an action needs,
its comment begins with "Mutant".

### Negotiation, NegotiationProtocol

`neg[x]` is the saved record with process id `x`, on whichever connector
`Home[x]` keeps it. `phase[x]` and `result[x]` are the local variables of
`process_negotiations` for that record: *due* to be ticked, *posting* (waiting
for an HTTP answer), *done* with an outcome to save. `net` holds the messages
whose handling has not ended; `live` says that the sender still waits.

| Action | Code |
|---|---|
| `Negotiate` | `negotiate`, called by the API |
| `StartTick`, `Decide`, `Post`, `PostNowhere`, `Save` | `process_negotiations` and both `tick`s |
| `ContractRequest` | `provider::contract_request` |
| `AcceptEvent`, `RejectEvent` | `handle_event` of the loop and of both sides |
| `LoseRequest`, `LoseAnswer`, `Crash` | errors of `send_request`, restart of the process |

The record operators (`ProviderDecides`, `ConsumerPosts`, ...) are the arms of the
`match`es in `provider.rs` and `consumer.rs`. The result of the policy engine and
of the dataset lookup is a free choice between an offer and a refusal. In the
`tck` build the scripts of both sides (`ProviderScript`, `ConsumerScript`) come
first. Authentication is reduced to the question whether the caller is the party
of the record. Requests that fail before they are sent (no token) are
`LoseRequest`.

`ContractSigning` forgets messages, loops and faults: an agreement is issued,
countersigned, concluded by the consumer and closed by the provider, or void
before it is concluded. `ImplementsSigning` maps the records to these stages.

### NegotiationStore

The same protocol over files: `left[x]` are the records in the files beside the
newest one, `kept[x]` is the newest while the loop has an older one in its hands
(then `neg[x]` is that older one). `PollTick` may find any file of a record that
its filter lets through; `Event` and `Get` read the newest and remove the others;
a save removes one other file. `CrashInSave` and `CrashInEvent` stop a connector
between the rename and the removal. A save that nothing interrupts is one step:
its steps, and what overlaps them, are in FileStore.

### Transfer, TransferProtocol

The same structure with the transfer's states. A consumer's record also has the
provider record its token is for: whichever start it took, which after a lost
answer need not be the one its own record names. `finalized` is what
`get_finalized_negotiation` finds; it grows at any time. `Serves(p)` is
`find_data_asset_target`. Suspensions, resumptions, completions and terminations
are only ever started by the TCK scripts: the default build has no operation for
them, but it accepts them.

### DataSpace

The two protocols on the same connectors, instantiated with `finalized` replaced
by what the negotiation records say. The loops are independent; a crash stops
both. This is where a transfer can be asked for between the two finalizations.
It instantiates the modules that hold the protocols' proofs, so that their lemmas
can be used for the composition.

### FileStore

One record and its files: `file[n]` is the version in the file of state `n`,
`time[n]` its modification time. A save is `Rename`, then a listing that removes
one other file (`FindOther`, `RemoveOther`) or finds none. A get is a listing
(`Begin`, `Visit`), the read of the newest file found and the removal of the
others (`Tidy`); a poll reads the first path it came to. Listings are not
atomic: each name is visited at some time of its own. A scenario selects how many
readers, states and saves there are and what may go wrong: a crash, equal
modification times, a creating task that still cleans up while the loop saves.

### PendingPoll

Several records, each with the states of its files. A poll lists one file per
record that its filter lets through (`List`), then reads in the random order of a
`HashMap` until it has `Limit` records (`Read`), or nothing if one file is gone or
cannot be parsed (`ReadFails`); then it ticks and saves (`Advance`, `Rest`). A
state is the number of saves until the record is settled. `Stays` are the records
that are listed even then: transfers, and negotiations that will be terminated.
`CrashInSave` leaves older files, or a file without its content.

### PolicyEngine, PolicyContract

`NegotiatePolicy` is `negotiate_policy`: which permissions, prohibitions and
obligations of the offer meet the required ones, and the policy the agreement
gets. `CheckTransferPolicy` is `check_transfer_policy`: permissions and
prohibitions against claims and the time, with the error of a missing claim as a
third outcome. Constraints are trees: `Compatible`, `Identical` and `Satisfied` are
functions defined by recursion on their nesting, over the constants `Constraints`
(what policies are made of) and `Depth`. `PolicyContract` has
them where the connector calls them: the provider's tick of a request takes the
first policy of the dataset the offer meets (`Negotiate`), and a request for a
transfer is checked against the agreement's (`TransferRequest`).

### TokenCache, CatalogSync

`TokenCache` is `get_token` for one remote address: `cache` is its `TokenState`,
and the task in step `fetching` has its mutex. Time is discrete: `wait` and `life`
are the seconds left until `next_allowed_attempt_at` and `exp`. A fetch takes any
time and ends with a token or an error. The model's multiplier has a width: a
release build (`build.sh`) wraps, a debug build would panic at that point.
`TokenCache` has no next-state relation of its own: its actions occur in those of
`CatalogSync`, which is the task of one remote connector (`step`, `version`,
`answer`, `copy`) next to the other tasks that want tokens for that remote. The
remote publishes, withdraws and moves.

### AuthSession

A fetch of a token seen from both sides: `do_get_token` of the client, and
`verify_me` and `status` of the server, whose task looks a session up, asks the
verifier and only then removes it. An answer takes up to `MaxLatency` seconds
to arrive, whatever it says; a request or its answer may be lost.

## 3. Runs

All bounds are constants of the `.cfg` files. Provider records are drawn from a
pool of one more than the faults, which suffices as every further record takes a
lost answer or a restart. `MaxMinted` is as large as the pool. `CHECK_DEADLOCK` is
off: a negotiation that has ended, or a store that has used up its saves, really
stops.

| Run | What it shows |
|---|---|
| `[negotiation]` | one negotiation, two faults: type correctness, the safety properties, refinement of `ContractSigning`; with fair loops it ends alike on both sides, or in a shape a lost answer leaves for good: agreed/verified, finalized/verified, a consumer terminated by the orphan of its first request, or two loops waiting for each other |
| `[negotiation_tck]` | every TCK script, one fault: whose agreement a consumer holds, that a record keeps its counterpart, what makes loops wait for each other; where each script ends without a fault |
| `[negotiation_store]` | one negotiation over real files, two faults: the two sides may hold different agreements, but both are their provider's, and nobody is finalized alone |
| `[store]` | one record's files: undisturbed a register (refinement of `AtomicRecord`), with crashes lossless and repaired, and with everything at once only a crash makes the loop read an old version |
| `[poll]` | four records, a limit of two, two crashes: intact records settle |
| `[transfer_crossed]` | transfers in both directions, two faults: the token served is the consumer's, and loops wait for each other only when two starts cross |
| `[transfer_tck]` | every TCK script, an agreement that is finalized late and one that policy forbids, two faults: ended transfers stay ended and closed, what makes loops wait; where each script ends without faults; an ordinary transfer starts |
| `[data_space]` | one negotiation and a transfer of its agreement, one fault: no data without a contract on both sides, and, fair, from the request for a contract to the data |
| `[catalog_sync]` | one remote, two datasets, two tasks: pauses grow, the token is found again, copies never grow older and catch up |
| `[auth_session]` | two sessions, two losses: one token per session, and when a client gives up |
| `[policy]` | ten thousand pairs of policy and offer: whom the agreement lets in, whom it refuses, what is confirmed |
| `[policy_atoms]` | every pair of single constraints; its property is **violated**, see below |

Safety properties are checked under the fair specification where a run has both;
fairness excludes no finite prefix of a behaviour. In a run with TCK scripts one
fairness condition stands for those of all consumers, as only one exists.

Why the bounds are enough:

- Two faults let a negotiation have two orphans, or a lost request answer followed
  by a lost agreement, verification or finalization; each shape of
  `EveryNegotiationSettles` takes one. What different agreements take in
  `[negotiation_store]` is a single crash in a save.
- `[store]` has three scenarios: two readers, three states and four saves without
  mishaps; five states, seven saves and three crashes without readers, so that
  leftovers of several crashes meet; one reader, three states and one crash with
  every mishap. Three states suffice for a leftover, a newer file and the next
  save. The proofs drop these bounds.
- `[poll]` has twice as many records as a poll may read, of which half stay listed
  for ever; one save of work suffices for an older and a newest file.
- In `[catalog_sync]` a multiplier of 3 bits, a longest pause of 3 seconds and
  lifetimes on both sides of the margin reach the cap, the wrap and a token that
  expires while it is refreshed. Attempts beyond the wrap behave alike and are not
  told apart. Two editions and one move let a copy be older than a later one and
  a path be stale; four troubles reach the wrap.
- `[auth_session]` has the code's interval (3 s) and limit (10 s).
- `[policy]` has single constraints on countries (two, and the union of which one is
  a member), dates (1, 2 and one that cannot be parsed, at times 0 to 3) and words,
  with every operator; pairs and nestings of all logical operators; empty and
  missing lists; prohibitions, obligations, and datasets with two policies.

What the runs showed about the code, and the properties therefore say:

- Two connectors that negotiate with each other in both directions, or transfer
  in both directions, can stop each other's loops for good without any fault.
  Within one negotiation or transfer this takes a fault or a termination.
- A consumer that terminates its transfer at once (ATPC0205) and a provider that
  starts it can do so too.
- A lost answer to a verification or finalization is never made up for; a lost
  answer to a transfer start leaves the provider repeating it and the token
  unserved.
- A crash between rename and removal may let a poll tick an old version of the
  record. An event's get would have repaired it. If a get by another task tidies
  up at the wrong moment, the record can even be lost.
- A provider that agreed, crashed in that save and then ticks the accepted record
  again issues a second agreement. Both sides can end finalized, each with another
  agreement; a transfer of the consumer's is then refused.
- A get during a save may find no record although there is one.
- A file that lost its content in a power cut fails every poll that comes upon it:
  the loop's other records wait, unless there are so many that the poll is
  full without it.
- After 32 failed fetches in a row the backoff's multiplier wraps to zero in a
  release build: from then on there are no pauses. Before, they double.
- A remote that moves its API is never found again by the synchronisation until a
  restart, as the version it selected is kept; datasets that the remote has
  withdrawn stay in the store.
- Two tokens are made out for one session if a status request is given up by the
  client after it has looked the session up, and repeated.
- The negotiation of policies takes an inclusive bound for as specific as the strict
  one, and "part of" or "has part" for as specific as "equals", and puts the weaker one
  into the agreement. The comment at `src/src/policy_engine/negotiation.rs:166` says
  that the offered constraint has to be more specific. `[policy_atoms]` is this
  disagreement, and a finding of `PROJECT.json`; `NeverWidened` is what holds, of
  permissions without such constraints and without alternatives.

### Fairness

`WF` of each loop: its task is scheduled, its timer ticks, its saves end. `SF` of
each sender's delivery: the message sits in the counterpart's channel, and
`select!` picks at random among ready branches, so it is taken although ticks
compete with it; the HTTP tasks have nobody to compete with. Nothing is assumed
of users and faults. `FairSpec` of TransferProtocol also assumes that a
negotiation is finalized in the end; DataSpace does not, it has the negotiation.

`FairSpec` of PendingPoll assumes that the loop goes on, that a record which can
come up in a poll again and again does (the order is random and drawn anew each
time), and that ticks of one record do not fail for ever. `FairSpec` of CatalogSync
assumes that time passes, tasks run and ask again, and the mutex (which is first
come, first served) is given to each that waits. It assumes nothing of the remote:
failures are bounded by `MaxTroubles` instead, so that from some moment on they
have ended.

## 4. Proofs

TLAPS proves for all values of the constants:

| Module | Theorems |
|---|---|
| `NegotiationSafety` | whatever the scripts, `Typing`, `PeerStays`, `AgreementOrWithdrawn`, `MutualWaits`: `TypeOK`, `PeerFixed`, `AgreementSharedOrWithdrawn`, `MutualWaitHasCause`; `Invariance` (of `IInv`), from it `Agreement`, `Finalization`, `OneAgreement`, `Progress`: `AgreementShared`, `FinalizedTogether`, `OneAgreementEach`, `NoRegress`, and `Signs`: the protocol implements `ContractSigning` |
| `NegotiationStoreProofs` | `StoreTyping`: `TypeOK`; `StoreInvariance` (of `StoreInv`), from it `BothOwn`, `NotAlone`, `Regress`: `BothItsOwn`, `NeverFinalizedAlone`, `RegressNeedsOlderFile` |
| `TransferProofs` | whatever the scripts, `TransferTyping`, `FinalStays`, `EndedClosed`, `MutualWaits`: `TypeOK`, `FinalForever`, `EndedIsClosed`, `MutualWaitHasCause`; `TransferInvariance` (of `IInv`), from it `Served` (`ServedToHolder`) and `WaitOfStarts` (`MutualWaitOfStarts`) |
| `DataSpaceProofs` | `Contracted`: `ServedUnderContract` of the composition |
| `PolicyProofs` | `PolicyInvariance`, from it `NegotiationWidensNothing`, `OwnPoliciesAreAccepted`, `KeepingClaimsBackIsNoHelp`, `ObligationsAreConfirmed`: the four invariants of `[policy]` |
| `CatalogProofs` | `CopiesNeverOlder`: `NeverOlder`; `PausesDouble`: `PausesGrow` |
| `StoreProofs` | `StoreInvariance`, from it `NoOldGets`, `MissesOverlap`, `Lossless`, `EventsRepair`, `CrashesAlone`, and `FilesAreARegister` (refinement of `AtomicRecord`) |
| `SessionProofs` | `SessionInvariance`, from it `OneToken` and `GiveUpIsLate` |

From which assumptions: those that the modules state of their constants
(`RecordAssumption`, `ProtocolAssumption`, `DataSpaceAssumption`, `EngineAssumption`,
`ContractAssumption`, `CacheAssumption`, `SyncAssumption`, `StoreAssumption`,
`SessionAssumption`): ids of consumers and providers differ, every record has a home,
constraints are finite trees, claims have a value, or none, for each property, bounds
are numbers. They do not bound connectors, records, faults or the size of policies. The first four theorems of
`NegotiationSafety` and of `TransferProofs` hold under any TCK scripts; the
others about protocols are of the default build (`DefaultBuild`: no dataset, or
agreement, is a script). `MutualWaits` and `WaitOfStarts` need that no connector
asks itself: its loop would wait for itself, whatever happens.

### Why the invariants are needed

*Negotiation, whatever the scripts.* `RoundsInv` is about rounds, not about what is
decided or posted in them: a message that is waited for is what its sender's
unchanged record has to post (`WaitInv`), an outcome continues the record as it still
is (`RoundInv`), and a record names one of its own counterpart's (`PartnerInv`,
`KnowsInv`); `PeerFixed` follows. `AgreementSharedOrWithdrawn` needs what messages say
and stay right about, however late they are handled (`SaidInv`), and that a provider
that did not agree at once has its consumer's acceptance (`BoundInv`), so that the
agreement a consumer takes is from the record it knows (`SharedInv`). The steps are
looked at from the records alone: no record goes back on what it has told (`AllGo`),
hence what was said goes on being true (`SidesKept`).

`MutualWaitHasCause` is about a history, that of no fault yet: `TurnInv` says that
then two records take turns, as a record that still has to tell what the
counterpart's record shows it was told has its answer already. So both can be
posting only if one of them posts a termination (`SidesTakeTurns`). That is
so under the scripts too, as a request is answered once and a counter-request
follows an offer.

*Negotiation in the default build.* `AgreementShared` is about two records, but is
kept by what waits in between: `WaitInv` as above. `OutcomeInv`: an outcome not saved yet continues its record,
and what the counterpart acknowledged has happened there. `MessageInv`: what a
message says is still true when it is handled late, after its sender has given up,
restarted and moved on; this carries lost answers. `ConsumerInv`, `ProviderInv` and
`AgreementInv` relate the two records. The proof of `NextInv` has a lemma per
action; for the ones that touch no record, `QuietStep` does it at once. TypeOK is
inductive as it stands, because it says that whatever sends, or is worked on,
exists and names a counterpart of the right side.

*Negotiation over files.* The theorems above rest on saves that are not interrupted;
otherwise `AgreementShared` fails. `StoreInv` says what is left of it, of all that
is stored of a record: its newest version and the older ones that a crash left
(`Old`). What the newest says bounds how far back the older ones reach, and so
what the loop can make of one it comes upon, for any number of crashes. Once a
consumer has accepted an offer no version of it leads to another provider record
(`Bound`), and once it has verified an agreement none makes it accept another one
(`Committed`): that is what a late verification, and the provider's finalization,
rest on.

*Signing.* `View` reads the stage of a contract off the records, which under `IInv`
no two provider records can contradict. Then a step that changes no stage stutters
(`StageSteady`), and one that changes one record's stage takes one step of the signing
(`OneMoves`); each action is one of these.

*Transfers, whatever the scripts.* `RoundsInv` is about rounds, and not about what is
posted in them: a request is asked once (`AskInv`), whom a record is about never
changes (`PartnerInv`), an outcome comes from the record as it still is
(`RoundInv`), a message that is waited for is what its sender has to post
(`WaitInv`). This suffices for `FinalForever` and `EndedIsClosed`. For mutual waits
`ScriptInv` says that only the side whose script it is tells more than a request or
a start, and `TurnInv` is as in the negotiation.

*Transfers of the default build.* `ServedToHolder` needs to know that a provider record
whose start was acknowledged is the one whose token the consumer took, though the
start may have been handled long before its answer arrived, or by an earlier
incarnation of the loop (`StartInv`).

*Composition.* `DataSpaceProofs` uses `NextInv` of the negotiation and `NextRounds` of the
transfer, each for the steps of its own, and `QuietStep` and `QuietRounds` for the
steps of the other. So transfers may follow any script here. Three parts are its own:
a provider's negotiation is kept where its consumer asked (`HomeInv`), a transfer is
asked for under an agreement its connector has finalized (`AskedInv`), and answered
only under one that both have (`AnsweredInv`). The second becomes the third because
an agreement is of one contract (`OneContract`) and finalized records stay
(`StepKeeps`).

*Policies.* The invariant (`PolicyInvariant`) is small: the agreement's policy covers one
of the dataset's, rule by rule. What that is worth is a matter of the recursive
functions. `Recursion` gives each its defining equation, and `DepthInduction` carries
a statement from the lists of constraints to all constraints; both come from the
library's theorem that a set of natural numbers has a least element, which takes a
set, not an operator. So: what is compatible with an exact constraint is at least as
strict (`NotWeakened`); a constraint that can be compared meets itself (`MeetsItself`);
what is decided without a claim is decided the same with it (`DecidedStays`); and what
is identical to a list without repetitions is a permutation of it
(`IdenticalMeansTheSame`), since as many constraints that each mean a different one of
them leave none over (`OneToOneIsOnto`).

*Copies.* A catalogue that is being saved is the only one, and lies between the copies
and what the remote has published (`CopyInv`).

*Pauses.* The time since the last fetch and what is left of its pause make up the delay
of the attempt, and attempts are the fetches in a row, or one fewer if the first was
for free (`PauseInv`). That powers of two grow is read off the sets of subsets, whose
sizes they are (`PowersGrow`).

*Store.* The invariant has a part per kind of disturbance. Undisturbed: a file is what its
save wrote, there are at most two, and what a listing has noted or has still to visit
includes the latest version or a save overlaps it (`QuietInv`). With crashes only: the order
of times is the order of saves, and the loop's finished listing has all files
(`CrashInv`). Without a crash, whatever else happens: there is one file but during a
save by the loop (`UncrashedInv`).

*Sessions.* The tokens a session can still be good for are counted by the requests that
have found it and not been answered; of these all but one were given up, so that the
losses bound them. `TimeInv` and `LateInv` bound how late a session can have been
verified, given what the client was told last.

### Only model-checked

Liveness, which needs fairness and `ENABLED`, both out of the prover's reach:
`EveryNegotiationSettles`, `ScriptsSettle`, `EveryRecordSettles`, `ScriptsEnd`,
`EveryTransferStarts`, `ContractIsServed`, `RemoteFoundAgain` and `CopiesCatchUp`.
Every other property of a passing run is stated by a theorem above.

## 5. Not modelled

- Data types and their serialisation, JSON schemas, configuration, request logging,
  the key generator and the deployment: no state of the protocols.
- Keys, signatures, DID documents and credentials; the forwarding of data and
  of websocket frames, and the demo's echo server. A stream that is open when a
  transfer ends goes on (`reverse_proxy/mod.rs:225`): no property, as the gate is
  only asked when a request begins.
- Sessions that are never removed (`auth/mod.rs:300`), policies that are not looked
  at again while data is served (`transfer/provider.rs:254`) and copies of withdrawn
  datasets (`catalog/sync.rs:184`): the models have them, but the code
  promises nothing to be checked.
- Right operands of constraints that are objects or arrays: no comparison accepts
  them, they behave like an operator that is not comparable.
- Configured local datasets, which are only read, and the API's checks of catalog
  entries.
- A counterpart that takes a request and never answers: there is no HTTP timeout,
  so the loop waits for good, with all its other records, as in a mutual wait.
- Several consumers in one `[negotiation]`: negotiations share a loop, so they
  delay each other and can make loops wait for each other, which
  `MutualWaitHasCause` names as a cause; `[transfer_crossed]` has the two directions.
- The capacity of the channels (10): a full channel delays an HTTP task, which
  delays its sender, which waits anyway.
- A connector that negotiates with itself waits for itself at its first offer.
- The ACN0102 script of the provider terminates a counter-request; no consumer
  record of this connector sends one under that dataset.

## 6. Plan

Done, in this order: Negotiation, NegotiationProtocol, ContractSigning, their
invariant and proofs; FileStore and AtomicRecord; Transfer, TransferProtocol,
DataSpace; TokenCache, AuthSession; PolicyEngine and PolicyContract; CatalogSync;
PendingPoll; NegotiationStore; then the proofs about transfers, signing, the
composition, copies, the store and sessions; then those about mutual waits, about
the negotiation over files, and about negotiations and transfers under any script;
then those about policies and pauses.

Left:

Transfers over the store as it is, and the composition over it.
