# Specifications of the Infernet node

TLA+ modules of the node in `src/` (the TypeScript port of the Infernet node),
TLC configurations that check them on small instances, and TLAPS proofs of their
main invariants for every instance. `PROJECT.json` maps each definition to the
lines it stands for, and lists the runs, mutants, findings, hazards and theorems.

    tlc -workers 2 -config recurring.cfg MCChainProcessor    # a run
    tlapm ChainProcessorSafety.tla                           # a proof

## The system

The node serves *containers* (HTTP services that compute) to two kinds of
clients: those that ask over HTTP (off-chain jobs) and *subscriptions* registered
in the Coordinator contract, which the node answers with transactions. It is a
single JavaScript thread, so code between two awaits is atomic; everything below
about interleaving is about awaits.

| component | state | operations | interacts with |
|---|---|---|---|
| `ChainListener` | last block and last subscription id synced | `setup`, `run_forever`, snapshot sync in batches | reads the chain through `RPC`, `Coordinator`, `Reader`; asks `Guardian`; calls `ChainProcessor.track` |
| `ChainProcessor` | `#subscriptions`, `#delegate_subscriptions`, `#pending`, `#attempts`, `attempts_lock` | `track`, `run_forever`, `prune_failed_txs`, `process_subscription`, the `stop_tracking...` family | `Orchestrator` for results, `Wallet` for delivery, `WalletChecker`, `PaymentWallet`, `Coordinator` |
| `Subscription` | its parameters, caches of responses | interval arithmetic, `completed`, (de)serialisation | clock, `ContainerLookup` |
| `Wallet` | `tx_lock` | `deliver_compute`, simulation with retries, `writeContract` | `Coordinator`, `RPC` |
| `Coordinator`, `Reader`, `RPC`, `Registry`, `PaymentWallet` | none to speak of | one contract or RPC call each | the chain |
| `WalletChecker` | accepted payments per container | payment requirements, balances | `Guardian`, `ChainProcessor` |
| `Guardian` | restrictions per container, caches of addresses | `process_message` for three message types | `WalletChecker`, `ContainerLookup` |
| `ContainerLookup` | table from hashes to container lists | `get_containers` | `Subscription` |
| `Orchestrator` | none; one promise per job | `run_job`, its off-chain, on-chain and streaming callers | containers over HTTP, `DataStore` |
| `DataStore` | two Redis databases (pending with expiry, completed), on-chain counter, job counters | `set_running`, `set_success`, `set_failed`, `get`, `get_job_ids`, `setup` | `Orchestrator`, `RESTServer` |
| `RESTServer` | none | submit, batch, stream, query and list jobs, status | `Guardian`, `Orchestrator`, `ChainProcessor`, `DataStore` |
| `ContainerManager` | ports, the containers it recorded | `setup` (pulls, concurrent bring-up), `run_forever` (monitoring), `stop` | Docker daemon |
| `NodeLifecycle`, `AsyncTask` | the tasks, a shutdown flag each | `on_startup`, concurrent setup and run, `#shutdown`, exit | all tasks |

What is hard in it:

* `process_subscription` is launched without being awaited and takes as long as
  the containers do. The loop comes back every 100 ms, `prune_failed_txs` works
  from a copy of a table made before its awaits, and a subscription can be stopped
  while it is being processed. All of them share four tables with one lock that
  guards only one table, and only in part.
* Every error path of a run has to undo what the run did to those tables. A
  callback subscription stays in interval 1 for ever, so a marker left behind
  blocks it for ever.
* A transaction may fail, be lost or never be mined; it is retried, at most three
  times. The process may be restarted while transactions are in flight.
* The listener reads the chain at two blocks while both the chain and its
  reorganisations go on, cuts ids into half-open batches, and moves on by windows.
* A job's entry moves between two databases in two awaits while clients ask for it
  and the process may end. Entries end on many paths, some of them unusual.
* The guardian remembers verdicts in a bounded cache.
* Requests for delegated subscriptions establish several facts about the chain in
  several reads while the chain moves on.
* All tasks are set up and run concurrently. The first failure and every signal begin
  a shutdown of their own, while other tasks, stop requests and promises that nobody
  awaits go on; any of them may end the process.

What makes each correct is stated as the properties below; `PROJECT.json`
lists the hazards by line, with the properties that would catch them.

## Modules

| module | models | state and actions |
|---|---|---|
| `Subscription` | interval arithmetic and getters of `subscription.ts` | operators over a record of parameters and the time |
| `ChainProcessor` | `processor.ts` for on-chain subscriptions, `deliver_compute` of `wallet.ts`, and what they see of the chain | the tables `tracked`, `pending`, `attempts`; `loop_pc`, `prune_pc`, `p_pc` name the await that the loop, the running prune and each `process_subscription` call is suspended in. One action per stretch between awaits: `LoopTop` ... `LoopCheckResponded`, `PruneFound` and `PruneNotFound`, `PruneFinish`, `ProcSimulated` ... `ProcWrite`, `ProcDeliverFailed`; the chain mines, fails, is answered by others; owners cancel. `sent` is a history variable: the transactions sent since the process started |
| `DeliveryCycle` | abstract: what each life of the node promises about a run | per subscription `new`, `open`, `closed`; per run `idle`, `working`, `sent`, `answered`; `Restart` begins a new life |
| `ChainProcessorInv` | inductive invariants `IInv`, `CountInv`, `RetryInv`, together `LifeInv` | |
| `ChainListener` | `listener.ts`, with the shutdown flag of `service.ts` | `last_block`, `last_id`, the pass in progress, the batches of the sync; one action per await; the chain grows and is reorganised |
| `ChainListenerInv` | inductive invariant `ListenerInv` | |
| `DataStore` | `store.ts` | the two databases as `pending` and `completed`, indexed by keys of an address and an id; what `get_id` makes of a key; the counters; operators that `Orchestrator` composes into actions |
| `Orchestrator` | `orchestrator.ts`; submission, batches, queries and lists of `rest.ts`; ends and restarts of the process; EXTENDS `DataStore` | `j_pc` names the await each job is in, or that its stream is suspended at a `yield`; `j_key` is the key it was submitted under, its own or not; one client reads the two databases one after the other, for one key or for the list of its jobs |
| `JobRecord` | abstract: what the node promises a client about its job | one record per key that only moves forward until the client uses the key again, and answers about the key asked for |
| `Guardian` | `guardian.ts`, payment requirements of `walletChecker.ts`, the table of `containerLookup.ts` | `caches`; one action per filter, the callers put a message and take the verdict |
| `ContainerManager` | `docker.ts`, `container.ts` | the ports given out; `m_pc` for `setup`, `c_pc` for the request to Docker each bring-up is suspended in; what Docker knows, what was `recorded` and `started` |
| `DelegatedSubscriptions` | `track_delegated_message` and the delegated pass of `processor.ts`, the reads of `coordinator.ts` | `d_pc` names the read each call is suspended in, `d_head` the block it read first; the table `delegated` |
| `NodeLifecycle` | `main.ts`, `service.ts`; EXTENDS the two modules before it | the phase of `lifecycle_main`, setup and loop of each task, shutdowns in progress, how the process ended: with code 0 (`ok`), with 1 because a loop rejected (`failed`) or because a promise that nobody awaits did (`unhandled`), or by a signal before its handler was there (`killed`) |
| `MC...` | values of the constants for TLC | |
| `...Proofs`, `ChainProcessorSafety` | proofs | |

How they are composed: `ChainProcessor` and `Orchestrator` are shown to implement
`DeliveryCycle` and `JobRecord` (INSTANCE ... WITH a mapping, a PROPERTY of the runs
and a theorem). `NodeLifecycle` composes the container manager, the delegated
subscriptions and the loops; there the listener and the on-chain part of the
processor are a loop that may fail at any time, which is all the node's life sees
of them.

Abstractions, all in the open:

* *One clock* for the node and for the chain. A subscription is a record with
  the fields that decide (`active_at`, `period`, `frequency`, whether it pays and
  requires a proof). The redundancy is abstracted to "the interval is full"
  (`full`), which another response may or may not cause.
* `attempts` saturates at 3, since the code only asks whether it is below 3.
* The memo `node_replied` and the response counts kept in a `Subscription` only
  repeat what the chain said and stays true; the model asks the chain.
* The for-in order of ids is arbitrary.
* `tx_lock` is `TxLockFree`: one call at a time is between the second simulation
  and the answer of `writeContract`.
* Outcomes of simulations, containers, escrow and balances are free choices.
  An `execute_on_containers` that returns no results at all is not a choice: it
  needs an empty container list, and `AcceptedIsRunnable` of `Guardian` says that
  such a subscription is never handed on.
* The listener's guardian is not composed in: what it filters out counts as
  handed on in `ChainListener`.
* A job is piped through `Length[j]` containers; payloads and the counters per
  container are left out.
* A job's key is fixed, but arbitrary: `filterCreateJob` and the batch endpoint spread the
  body after the `id` and `ip` they fill in (`rest.ts:184`, `rest.ts:325`), so two jobs may
  have one key. Ids and addresses are taken to hold no colon beyond those an IPv6 address
  has, and no address to begin another; `get_id` then gives the id for an IPv4 address and
  a piece of the address (`Piece`) for an IPv6 one.
* In `NodeLifecycle` reading the configuration, connecting to Redis and constructing
  the components come before `Init`: if they fail, nothing was begun. A request to
  Docker may fail before or after it took effect. A container that the node finds or
  creates is `absent`, `exited` or `running`; the monitoring loop only logs what it
  sees, so the model has its failures alone.
* What the chain holds about a delegated subscription is a parameter: the block that
  creates it and the block in which the owner registers the key.
* Guardian messages carry the truth of "expired" and "completed" instead of the
  times they are computed from. Tokens are compared as the code does, by equality: letter case is not modelled.

## Runs

| run | instance and question |
|---|---|
| `recurring` | one subscription of two intervals, two concurrent processes, two transactions: `EvictionIsJustified`, the refinement `ImplementsDeliveryCycle`, and `IInv`, of which `AtMostOneLiveTx` is a part, before its proof |
| `callback_retries` | one callback with one transaction more than it may use, receipts that may be asked for in vain, and a restart at any moment: in each life of the node `AtMostOneLiveTx`, `RetryBound`, `AttemptsAreFailures`, `LifeInv` (`IInv`, `CountInv` and `RetryInv` before their proofs), `ImplementsDeliveryCycle`; `NoStuckCallback` and, under fairness, `CallbackSettles` |
| `restarts` | a restart and a second relay with transactions in flight: `BlockedIsTracked`, and `ExpiredIsDropped` under fairness |
| `listener` | windows of 1, batches of 2, 5 ids, reorganisations as deep as the trail: `NoGap`, `SyncedIsFinal`, `ListenerInv`; that the counters never decrease and nothing up to the last id is handed on again (`NeverBack`), what is handed on twice (`AheadOnlyWhenLagging`); `EventuallyRelayed` |
| `jobs` | a piped and a streamed job, under one key or two, for an IPv4 and an IPv6 address, and an on-chain job, submitted alone or in a batch; a client that asks, lists, does not read or goes away, a kill, a restart: `Accounting`, `GetNeverContradicts`, `RunningIsRun`, `StoreInv`, `ResultIsFinal`, `ListingMissesNone`, the refinement `ImplementsJobRecord`, `JobsEnd` |
| `guardian` | every message against two containers, five clients, two of them with one number and different versions, and caches of two: `CacheFaithful`, `FreshVerdict`, `AcceptedIsRunnable`, `AcceptedPays` |
| `node` | two containers that are absent, left behind or running, managed or not, chain enabled or not, one delegated subscription registered and created meanwhile, one signal: `PortsDistinct`, `FailureStopsStarted`, `ExitTellsWhy`, `TrackedIsConsistent` and, under fairness, `TroubleEndsNode` |
| `delegated`, `late_delivery`, `no_requirements`, `not_json`, `stalled_body` | the findings below, each expected to be violated |

Why the bounds are enough:

* Two process slots suffice for two calls to overlap, two transactions for a retry
  during which an old and a new transaction coexist, four for one beyond the
  allowed three. In `callback_retries` one restart may come at every step, with up to three of the four
  transactions sent before it. When all slots or transactions are used the loop waits, so a
  larger bound adds longer histories, not new kinds of steps; the safety theorems
  are proved for any number of each.
* `MaxClock` reaches past the last interval, so deadlines are missed.
  `MaxQueue = 1`: one prune waits while one runs; the lock is first come first
  served, so more of them repeat the same.
* `listener` has more ids than two batches and more blocks than a window, so it both
  lags and keeps up, and starts at an id other than 0.
* A pipeline of two containers has a first, a last and a following call.
* The guardian's cache holds fewer entries than there are clients, so it evicts. Its
  clients are one for each standing with the two containers, one of the other IP version,
  and one of the other version with the number of a client that both containers accept:
  asked after that client it is accepted, asked first it throws.
* `jobs` has one id and two addresses, hence two keys for two off-chain jobs: in half of the
  initial states they share one. More jobs under a key write no other entries than two do;
  `StoreInv` and the refinement are proved for any number.
* In `node` the second container asks for the port that the first one asks for or is
  given; one bring-up can end while the other goes on, fails or is never started.
  The three blocks are one before the key is registered, one in which the call can
  succeed, and one that creates the subscription, so that reads of two blocks tell
  different things. One signal beside the failure makes two shutdowns that overlap.

`CHECK_DEADLOCK FALSE` is set where the system may stop: a listener that was shut
down, jobs that are all over with the process ended, and a node process that ended.
The others never stop, since the loop or the callers always go on.

Fairness: requests to the chain, to Redis and to Docker are answered or time out, timers
fire, promises that resolved are resumed (`WF` of the loop, the prune and each process, of
the listener, and of each job's own steps), and in `callback_retries` transactions are
mined. A request for a receipt may be answered "not found" at any time (`rpc.ts:238`); that it is
not so for ever is `SF` of `PruneFound`. The abort of a streaming job is `SF`, since the
generator leaves and enters the wait it applies to with each chunk, while the timer of 60
seconds goes on. Nothing is assumed of listeners, other nodes, owners, clients, or of
containers: `CallbackSettles` excepts a call that waits for its containers for ever
(`ProcProceeds` leaves that await out), and `JobsEnd` a container that stalls in the middle of its
body and a client that does not read its stream.
`Tick` is fair up to `MaxClock`. In `node` each loop looks at its flag again (its
delays are timers, its requests have timeouts), each stop request is answered or
aborted after a minute, and the code after a shutdown runs; setup, failures, signals
and requests are not assumed to happen. That a listener retrying a batch comes back to
its flag is part of that: `sync_batch_subscriptions_creation` returns at once when the
flag is set (`listener.ts:142`).

Each property of a passing run has a mutant in `PROJECT.json`: an operator next to
the one it replaces, marked `Mutant`, with the change a bug would make.

## Findings

* `late_delivery` - `wallet.ts:188` reads the interval when delivery begins. A run
  whose containers took until the next interval delivers for that one under the
  key of its own, and the next interval is then processed once more;
  `processor.ts:1157` says that a pending or confirmed response excludes this.
* `no_requirements` - `accepted_payments` defaults to `{}`, so "No payment
  requirements for this container, it allows everything" (`walletChecker.ts:125`)
  never applies: such a container turns every on-chain subscription away.
* `not_json` - "Handle non-JSON response as error" (`orchestrator.ts:178`): the
  body was consumed by `response.json()`, so `response.text()` rejects, the job
  is not marked failed and the rejection is unhandled, which ends the process.
* `stalled_body` - "Abort request after 180 seconds" (`orchestrator.ts:136`): the
  timer is cleared when the headers are there. `fetch` itself ends a body that stays silent
  for minutes; one that keeps dripping holds the job for ever.
* `delegated` - "Make deep copy to avoid mutation during iteration"
  (`processor.ts:1173`): `cloneDeep` copies own properties, and the private fields of a
  `Subscription` are native ones (`tsconfig.json` targets es2022), so the first getter
  called on the copy, `active`, throws. As soon as one delegated subscription is
  tracked, `run_forever` rejects and the node shuts down with exit code 1.

Met on the way, and not stated as properties:

* "Concatenates address and message id to obtain unique key" (`store.ts:30`): the key is
  unique if ids are, which holds for the ids the server draws and not for ids in a body.
  What is promised of a shared key is stated in `StoreInv` and `ResultIsFinal`;
* the ids listed for an IPv6 client are pieces of its address (`store.ts:37`), so
  `ListingMissesNone` is about IPv4 clients;
* the guardian's caches are keyed by the number of an address without its version
  (`guardian.ts:239`). `FreshVerdict` says what may come of it: an address is answered as the
  one of the other version with its number, where it would throw otherwise;
* the attempts of a run are cleared before the lock is awaited (`processor.ts:782`);
* the rejection of an unsupported container throws (`guardian.ts:313`);
* a failed pull never ends `setup`: `find` returns the first element that is false, which
  is false (`docker.ts:363`). `PullEnds` models what happens;
* a container found on another port than the one configured keeps it, while the node goes
  on using the configured one (`docker.ts:420`);
* the monitoring loop compares numbers of containers, so it does not see one that stops
  while another one starts (`docker.ts:250`);
* after SIGTERM the process exits with 0 as soon as all loops returned, whether or not
  Docker answered the stop requests: `FailureStopsStarted` is about failures only;
* if a setup fails the process goes on with whatever was set up, the REST server included:
  `lifecycle_main` rejects and that is only logged (`main.ts:288`). `TroubleEndsNode` is
  therefore about what happens once all tasks run;
* an error in `prune_failed_txs`, `process_subscription` or `track_delegated_message` is an
  unhandled rejection, which ends the process with exit code 1 and without stopping anything
  (`Unhandled`, `DelegatedStep`); the exit code does not tell it from a failed loop;
* `PUT /api/status` answers 500 to every request: the message it parses has no type
  (`rest.ts:472`).

## Proofs

TLAPS checks, for every value of the constants:

* `TypeCorrect`, `BlockedTracked`, `CallbackNotStuck` (`ChainProcessorProofs`): `TypeOK`
  with `ActivityInv`, since an interval is a natural number only once the subscription
  is active; that a BLOCKED entry is of a tracked subscription is then inductive, and so
  is, with it, that the marker of a callback is backed by a call in flight. All hold with
  restarts and any number of relays.
* `AttemptsCount` (same module, no hypothesis either): `AttemptsAreFailures` is not
  inductive, because `prune_failed_txs` adds one to the attempts without looking at the
  transaction again. `CountInv` says which failures that one may be of: the attempts leave
  out the failed transactions that the entry of the run or the copy of the running prune
  still hold, so evicting one leaves room to count it. The way out, that the run has
  failed three times already, is needed for the attempts saturate at 3.
* `ProcessorInvariant`, `OneLiveTx`, `EvictionJustified` (`ChainProcessorSafety`):
  `AtMostOneLiveTx` is not inductive. What keeps it is `IInv`: a run being processed is
  processed once, stands BLOCKED as long as it is tracked, and all its transactions failed
  (`ProcessInv`); the pending entry is the one transaction that may be alive, and a
  tracked run without an entry is neither processed nor in the chain's hands
  (`PendingInv`); what the running prune copied still stands, and what it is about
  to evict failed (`PruneInv`); nothing is known of runs not reached yet
  (`FutureInv`) or never relayed (`RelayInv`).
* `RetriesBounded` (same module): `LifeInv`, and `RetryBound` from `RetryInv`, which relates how often a
  run was sent to its attempts. A run that may be sent again was sent at most as often as
  was counted, and less than three times; one with an entry at most once more, unless
  that transaction succeeded or the attempts are used up. The exception is a subscription
  the loop has given up: its attempts are cleared before the lock is there
  (`processor.ts:782`), a prune that holds the lock may then evict its entry, and only the
  loop itself, which waits for that lock, could send the run once more; when it has it,
  the subscription goes.
* `OneCyclePerRun` (`DeliveryCycleProofs`): every step of `ChainProcessor` moves one run or
  one subscription of `DeliveryCycle` on, is a stutter, or begins a new life (`Restart`).
  The mapping reads the phase of a run off the transactions of this life first and off the
  calls in flight second; that `Begin` starts from `idle` is where `IInv` is needed. A
  transaction of an earlier life that is mined is a stutter.

  The results of `ChainProcessorSafety` and `DeliveryCycleProofs` assume `OneRelay`,
  `MaxRelays = 1`: in each life of the process the listener hands a subscription on once.
  After a second relay the table is empty while transactions of the first may be alive, and
  the properties do not hold; `AheadOnlyWhenLagging` says when a listener may relay twice.
  Restarts are not restricted: the properties are about the transactions in `sent`, those
  of the present life, because the code keeps nothing across a restart that could tell it
  of others.
* `ListenerTypeCorrect`, `ListenerInvariant`, `ListenerSafe` (`ChainListenerProofs`): `NoGap`
  and `SyncedIsFinal` from `ListenerInv`, for `MaxReorg \leq Trail`. The lemma that
  matters is `BatchCut`: the batches of `getBatches` cut `start .. end` into
  ranges that join, for every batch size. The invariant says what was handed on
  up to the batch being read, and ties `last_id` and `head_id` to their blocks.
  `ListenerForward` is `NeverBack`: a pass ends at its target, which is no earlier than the
  block it began at, and ids grow with blocks, so neither counter decreases; and nothing up
  to the last id is handed on. `ListenerAhead` says what is handed on twice: only what lies
  between the target of a pass and its head (`AheadInv`).
* `StoreInvariant`, `StoreConsistent`, `ResultsAreFinal`, `ListsMissNone`
  (`OrchestratorProofs`): from `StoreInv`, for any assignment of keys to jobs. Every entry is
  that of some job under its key, whichever wrote last; while the key is that of one job
  (`Sole`) it is in one database at most, so whichever database a client reads first it
  cannot be told two things. What leaves the pending database between the two scans of a
  list is found by the second one, shared key or not.
* `OneRecordPerJob`: every step is one of `JobRecord` or a stutter; a process that ends
  loses all jobs in its hands in one step, and submitting a second job under a key makes
  its record `shared`.
* `JobsAccounted`: `TypeOK` and `Accounting`, by counting the sets of jobs in progress and
  ended: each action adds or removes one job in at most one of them.
* `GuardianSafe` (`GuardianProofs`): the caches hold what a scan would answer an address of
  the number (`ScanFinds`, `RememberedKeeps`), each number once and at most `CacheSize` of
  them; with it `TypeOK` and `CacheFaithful`. `FreshVerdict` follows container by container:
  the first network of a list throws at every address of the other version, so of two
  addresses with one number at most one has a scan that ends (`ScansOneVersion`). What is
  remembered of a number is therefore the answer a scan gives (`AnswerFromScratch`), or the
  scan would throw and the entry is the other address's (`AnswerForOther`);
  `VerdictFromScratch` puts the containers of a job together. For `AcceptedPays` the minimum payment is a fold over a set of
  containers. `SumExists` and `SumUnique` show that the function behind that fold exists and
  is unique, each from a smallest counterexample among the cardinalities of its subsets
  (`Least`, `SubsetInduction`); then the prices themselves are the shares (`PriceSum`,
  `PaymentShared`).
* `NodeSafe` (`NodeProofs`): the shape of each part and of the shutdowns is inductive
  (`PortShape`, `CallShape`, `ManagerShape`, `LifeShape`). That a search for an open port
  ends is a pigeonhole (`PortLeft`). For `FailureStopsStarted` the manager keeps that what
  was started is recorded unless its bring-up failed, and then setup failed and no loop
  ever ran; for `ExitTellsWhy`, that a call that has thrown has ended the process
  (`ThrownEnds`) and that a loop that rejected has begun a shutdown that ends in 1.
* `SubscriptionProofs`: intervals are positive and grow with time.

The assumptions on constants are the named `ASSUME`s of the modules, which TLC
evaluates in every run.

Only model-checked: liveness (`CallbackSettles`, `ExpiredIsDropped`, `EventuallyRelayed`,
`JobsEnd`, `TroubleEndsNode`), which is out of the prover's reach here. Every safety
property of a passing run is the statement of a theorem.

## Not modelled

* The retries inside `simulate_transaction`: they are one step with a free outcome.
* The checks of the delegated pass after its first getter, `deliver_compute_delegatee`
  and what `process_subscription` does with a delegated subscription: no execution gets
  there, see `delegated`.
* `PUT /api/status`, which fails before it changes anything; the counters per container,
  which nothing reads; pruning of containers, which the node never asks for.
* A listener that relays an id again to a processor that has dropped it: the two are not
  composed. `restarts` has a second relay at any time, so `BlockedIsTracked`,
  `NoStuckCallback` and `TypeOK` do not depend on it; nor does
  `AttemptsAreFailures`; `AtMostOneLiveTx`, `EvictionIsJustified`, `RetryBound` and
  `ImplementsDeliveryCycle` are for one relay in each life of the node (`OneRelay`). `AheadOnlyWhenLagging` says when
  the listener can relay twice.
* Registry, payment wallet, error tables, schemas, configuration, constants and helpers:
  they have no behaviour over time.

## Plan

Done: the processor with its refinement and proofs; the listener; the store and the
orchestrator with their refinement; the guardian; the container manager, delegated
subscriptions and the node's life.

Left, in order of importance:

1. The composition of listener and processor, to replace the free second relay of
   `restarts` by the one a lagging listener makes.
2. The remaining steps of the delegated pass, should the copy keep its private fields.
