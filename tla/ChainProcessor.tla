---------------------------- MODULE ChainProcessor ----------------------------
(***************************************************************************)
(* The chain processor (src/chain/processor.ts) and the part of the chain  *)
(* it talks to.                                                            *)
(*                                                                         *)
(* The node is one JavaScript thread, so code between two awaits of I/O is *)
(* one action, and three kinds of asynchronous activity interleave:        *)
(*   - the event loop run_forever, which visits every tracked subscription *)
(*   - prune_failed_txs, launched by every pass without being awaited,     *)
(*     serialised by attempts_lock                                         *)
(*   - any number of process_subscription calls, also launched without     *)
(*     being awaited, which meet only at the wallet's tx_lock.             *)
(* All of them read and write the same four in-memory tables.  The chain   *)
(* mines, fails and refuses transactions independently of the node.        *)
(*                                                                         *)
(* A run of a subscription is the pair <<subscription, interval>>, the key *)
(* of the pending and attempts tables (makePendingOrAttemptsKey).          *)
(***************************************************************************)
EXTENDS Integers, FiniteSets, Subscription

CONSTANTS
    Subs,         \* on-chain subscription ids
    Param,        \* Param[s]: the SubscriptionRecord of s
    MaxFrequency, \* upper bound of the frequencies
    Procs,        \* slots for concurrent process_subscription calls
    Txs,          \* transaction hashes
    None,         \* no entry
    Blocked,      \* the BLOCKED marker of the pending table
    MaxClock,     \* bound: the last second of a behaviour
    MaxQueue,     \* bound: prunes that may wait for attempts_lock
    MaxRelays,    \* bound: times the listener may relay one subscription
    MaxRestarts   \* bound: crashes of the node process

ASSUME ProcessorAssumption ==
    /\ Param \in [Subs -> SubscriptionRecord]
    /\ MaxFrequency \in Nat
    /\ \A s \in Subs : Param[s].frequency \leq MaxFrequency
    /\ None \notin Subs \cup Txs \cup (Subs \X (1 .. MaxFrequency))
    /\ Blocked \notin Txs \cup {None}
    /\ {MaxClock, MaxQueue, MaxRelays, MaxRestarts} \subseteq Nat

Intervals == 1 .. MaxFrequency

Keys == Subs \X Intervals

\* "Subscription has exceeded the maximum number of attempts"
MaxAttempts == 3

VARIABLES
    \* the node's in-memory tables
    tracked,      \* ids in #subscriptions
    pending,      \* #pending: None, Blocked or a transaction, per run
    attempts,     \* #attempts per run, with 3 standing for 3 or more
    relays,       \* how often the listener relayed a subscription
    \* run_forever
    loop_pc, loop_sub, loop_seen, loop_todo,
    \* prune_failed_txs: the call holding attempts_lock and those waiting for it
    prune_pc, prune_snap, prune_todo, prune_failed, prune_queue,
    \* process_subscription calls
    p_pc, p_key, p_interval,
    \* chain and clock
    clock, tx_key, tx_interval, tx_status, responded, full, cancelled, restarts,
    \* history: the transactions sent since the process started
    sent

tables == <<tracked, pending, attempts>>
loop == <<loop_pc, loop_sub, loop_seen, loop_todo>>
prune == <<prune_pc, prune_snap, prune_todo, prune_failed, prune_queue>>
procs == <<p_pc, p_key, p_interval>>
txs == <<tx_key, tx_interval, tx_status, sent>>
settled == <<responded, full, cancelled>>
chain == <<clock, txs, settled>>

vars == <<tables, relays, loop, prune, procs, chain, restarts>>

LoopPcs == {"top", "next", "wallet", "cancelled", "completed", "responded", "lock"}
ProcPcs == {"idle", "simulate", "execute", "escrow", "deliver", "submit", "write"}
TxStatus == {"unsent", "mempool", "success", "failed"}

\* The type invariant: no call works on an interval past the last one, although the
\* interval a call begins with is read after an await of the loop.
TypeOK ==
    /\ tracked \subseteq Subs
    /\ pending \in [Keys -> {None, Blocked} \cup Txs]
    /\ attempts \in [Keys -> 0 .. MaxAttempts]
    /\ relays \in [Subs -> 0 .. MaxRelays]
    /\ loop_pc \in LoopPcs
    /\ loop_sub \in Subs \cup {None}
    /\ loop_pc \notin {"top", "next"} => loop_sub \in Subs
    /\ loop_seen \in Nat
    /\ loop_pc = "lock" => loop_seen \in Intervals
    /\ loop_todo \subseteq Subs
    /\ prune_pc \in {"idle", "receipts"}
    /\ prune_snap \in [Keys -> {None} \cup Txs]
    /\ prune_todo \subseteq Keys
    /\ prune_failed \subseteq Keys
    /\ prune_queue \in 0 .. MaxQueue
    /\ p_pc \in [Procs -> ProcPcs]
    /\ p_key \in [Procs -> Keys \cup {None}]
    /\ \A p \in Procs : p_pc[p] = "idle" <=> p_key[p] = None
    /\ p_interval \in [Procs -> Nat]
    /\ clock \in 0 .. MaxClock
    /\ tx_key \in [Txs -> Keys \cup {None}]
    /\ tx_interval \in [Txs -> Nat]
    /\ tx_status \in [Txs -> TxStatus]
    /\ \A t \in Txs : tx_status[t] = "unsent" <=> tx_key[t] = None
    /\ responded \subseteq Keys
    /\ full \subseteq Keys
    /\ cancelled \subseteq Subs
    /\ restarts \in 0 .. MaxRestarts
    /\ sent \subseteq {t \in Txs : tx_status[t] # "unsent"}
-------------------------------------------------------------------------------
(* Readings of the clock and of the chain.                                 *)

IsActive(s) == Active(Param[s], clock)
CurrentInterval(s) == Interval(Param[s], clock)
IsPastLast(s) == PastLastInterval(Param[s], clock)
Callback(s) == IsCallback(Param[s])

\* What the Coordinator contract requires of a delivery for interval i of s.
ChainAccepts(s, i) ==
    /\ s \notin cancelled
    /\ IsActive(s)
    /\ i = CurrentInterval(s)
    /\ i \leq Param[s].frequency
    /\ <<s, i>> \notin responded \cup full

\* What the node asks the Coordinator for: get_subscription_by_id for the
\* activation time, which a cancellation replaces; get_subscription_response_count,
\* compared with the redundancy; get_node_has_delivered_response.
IsCancelled(s) == s \in cancelled
IsFull(run) == run \in full
NodeResponded(run) == run \in responded

Live(t) == tx_status[t] \in {"mempool", "success"}

\* A process_subscription call works on the run.
InFlight(k) == \E p \in Procs : p_key[p] = k
-------------------------------------------------------------------------------
(* The tables.                                                             *)

\* Mutant: the pending entries stay.
KeepPending(s) == pending

DropPending(s) == [k \in Keys |-> IF k[1] = s THEN None ELSE pending[k]]

\* stop_tracking: the subscription and its pending entries go, its attempts stay.
StopTracking(s) ==
    /\ tracked' = tracked \ {s}
    /\ pending' = DropPending(s)

\* track_created_message, called by the listener.  The object of an id already
\* tracked is replaced by an equal one.
Track(s) ==
    /\ relays[s] < MaxRelays
    /\ relays' = [relays EXCEPT ![s] = @ + 1]
    /\ tracked' = tracked \cup {s}
    /\ UNCHANGED <<pending, attempts, loop, prune, procs, chain, restarts>>
-------------------------------------------------------------------------------
(* prune_failed_txs.                                                       *)

\* The body begins, once it holds the lock, by copying the pending table.
BeginPrune(table) ==
    /\ prune_pc' = "receipts"
    /\ prune_snap' = [k \in Keys |-> IF table[k] \in Txs THEN table[k] ELSE None]
    /\ prune_todo' = {k \in Keys : table[k] \in Txs}
    /\ prune_failed' = {}

\* Mutant: a transaction without a receipt counts as failed.
ReceiptOrFailed(t) == IF tx_status[t] = "success" THEN "success" ELSE "failed"

\* A transaction that is not mined has no receipt.
Receipt(t) == IF tx_status[t] \in {"success", "failed"} THEN tx_status[t] ELSE "missing"

\* get_tx_success for one copied transaction: the receipt arrives...
PruneFound(k) ==
    /\ prune_pc = "receipts" /\ k \in prune_todo
    /\ prune_todo' = prune_todo \ {k}
    /\ \/ /\ Receipt(prune_snap[k]) = "success"
          /\ attempts' = [attempts EXCEPT ![k] = 0]
          /\ UNCHANGED prune_failed
       \/ /\ Receipt(prune_snap[k]) = "failed"
          /\ prune_failed' = prune_failed \cup {k}
          /\ UNCHANGED attempts
    /\ UNCHANGED <<tracked, pending, relays, loop, prune_pc, prune_snap,
                   prune_queue, procs, chain, restarts>>

\* ... or the request fails, for want of a receipt or of an answer: not found.
PruneNotFound(k) ==
    /\ prune_pc = "receipts" /\ k \in prune_todo
    /\ prune_todo' = prune_todo \ {k}
    /\ UNCHANGED <<tables, relays, loop, prune_pc, prune_snap, prune_failed,
                   prune_queue, procs, chain, restarts>>

PruneCheck(k) == PruneFound(k) \/ PruneNotFound(k)

\* Mutant: the count so far is not read.
CountedAnew(k) == 1

Counted(k) == IF attempts[k] < MaxAttempts THEN attempts[k] + 1 ELSE MaxAttempts

\* Mutant: the comparison turned round.
EvictableAfterThird(n) == n \geq MaxAttempts

\* A failed transaction is evicted, so that the run can be processed again,
\* unless it was the third.
Evictable(n) == n < MaxAttempts

\* All receipts seen: count and evict the failed ones, release the lock.  The
\* next waiting prune gets the lock and copies the table at once.
PruneFinish ==
    /\ prune_pc = "receipts" /\ prune_todo = {}
    /\ attempts' = [k \in Keys |->
                      IF k \in prune_failed THEN Counted(k) ELSE attempts[k]]
    /\ pending' = [k \in Keys |->
                      IF k \in prune_failed /\ Evictable(Counted(k))
                        THEN None ELSE pending[k]]
    /\ \/ /\ prune_queue > 0
          /\ prune_queue' = prune_queue - 1
          /\ BeginPrune(pending')
       \/ /\ prune_queue = 0
          /\ prune_pc' = "idle"
          /\ prune_snap' = [k \in Keys |-> None]
          /\ prune_failed' = {}
          /\ UNCHANGED <<prune_todo, prune_queue>>
    /\ UNCHANGED <<tracked, relays, loop, procs, chain, restarts>>
-------------------------------------------------------------------------------
(* run_forever.  loop_pc names the await the loop is suspended in.         *)

\* A new pass: launch a prune, enumerate the tracked ids.
LoopTop ==
    /\ loop_pc = "top"
    /\ \/ /\ prune_pc = "receipts"
          /\ prune_queue < MaxQueue
          /\ prune_queue' = prune_queue + 1
          /\ UNCHANGED <<prune_pc, prune_snap, prune_todo, prune_failed>>
       \/ /\ prune_pc = "idle"
          /\ BeginPrune(pending)
          /\ UNCHANGED prune_queue
    /\ loop_todo' = tracked
    /\ loop_pc' = "next"
    /\ UNCHANGED <<tables, relays, loop_sub, loop_seen, procs, chain, restarts>>

\* Goes on with the rest of the pass.
Continue ==
    /\ loop_pc' = "next"
    /\ loop_sub' = None
    /\ loop_seen' = 0

\* The ids are visited that are still tracked when their turn comes.
LoopNext(s) ==
    /\ loop_pc = "next"
    /\ s \in loop_todo \cap tracked
    /\ loop_todo' = loop_todo \ {s}
    /\ loop_sub' = s
    /\ loop_pc' = IF ProvidesPayment(Param[s]) THEN "wallet" ELSE "cancelled"
    /\ UNCHANGED <<tables, relays, loop_seen, prune, procs, chain, restarts>>

\* The pass over the delegated subscriptions is empty here; delay(100).
LoopEndPass ==
    /\ loop_pc = "next"
    /\ loop_todo \cap tracked = {}
    /\ loop_pc' = "top"
    /\ loop_todo' = {}
    /\ UNCHANGED <<tables, relays, loop_sub, loop_seen, prune, procs, chain, restarts>>

\* stop_tracking_if_sub_owner_cant_pay: what the wallet holds is up to its owner.
LoopCheckWallet ==
    /\ loop_pc = "wallet"
    /\ \/ StopTracking(loop_sub) /\ Continue
       \/ loop_pc' = "cancelled" /\ UNCHANGED <<tracked, pending, loop_sub, loop_seen>>
    /\ UNCHANGED <<attempts, relays, loop_todo, prune, procs, chain, restarts>>

\* Mutant: an expired subscription is skipped like an inactive one.
IgnoredOrExpired(s) == ~IsActive(s) \/ IsPastLast(s)

\* "Ignored inactive subscription".
Ignored(s) == ~IsActive(s)

\* stop_tracking_if_cancelled, then the activity test; the interval is read
\* before the response count is asked for.
LoopCheckCancelled ==
    /\ loop_pc = "cancelled"
    /\ \/ /\ IsCancelled(loop_sub)
          /\ StopTracking(loop_sub) /\ Continue
       \/ /\ ~IsCancelled(loop_sub)
          /\ Ignored(loop_sub)
          /\ Continue /\ UNCHANGED <<tracked, pending>>
       \/ /\ ~IsCancelled(loop_sub)
          /\ ~Ignored(loop_sub)
          /\ loop_pc' = "completed"
          /\ loop_seen' = CurrentInterval(loop_sub)
          /\ UNCHANGED <<tracked, pending, loop_sub>>
    /\ UNCHANGED <<attempts, relays, loop_todo, prune, procs, chain, restarts>>

\* The response count of the interval read before is the redundancy, and that
\* interval is the last one.
Completed ==
    /\ loop_seen = Param[loop_sub].frequency
    /\ IsFull(<<loop_sub, loop_seen>>)

\* stop_tracking_sub_if_missed_deadline.
MissedDeadline(s) == IsPastLast(s)

Gone(s) == s \notin tracked

Run(s) == <<s, CurrentInterval(s)>>

RetriesExhausted(s) == attempts[Run(s)] = MaxAttempts

\* Mutant: the BLOCKED marker does not count as pending.
TxSent(s) == pending[Run(s)] \in Txs

TxPending(s) == pending[Run(s)] # None

\* The response count arrives; everything up to the next await is one step:
\* completed, missed deadline (or already gone), retries, pending.
LoopCheckCompleted ==
    /\ loop_pc = "completed"
    /\ \/ /\ Completed \/ (~Gone(loop_sub) /\ MissedDeadline(loop_sub))
          /\ StopTracking(loop_sub) /\ Continue /\ UNCHANGED attempts
       \/ /\ ~Completed /\ Gone(loop_sub)
          /\ Continue /\ UNCHANGED tables
       \/ /\ ~Completed /\ ~Gone(loop_sub) /\ ~MissedDeadline(loop_sub)
          /\ \/ /\ RetriesExhausted(loop_sub)
                /\ attempts' = [attempts EXCEPT ![Run(loop_sub)] = 0]
                /\ loop_pc' = "lock"
                /\ loop_seen' = CurrentInterval(loop_sub)
                /\ UNCHANGED <<tracked, pending, loop_sub>>
             \/ /\ ~RetriesExhausted(loop_sub) /\ TxPending(loop_sub)
                /\ Continue /\ UNCHANGED tables
             \/ /\ ~RetriesExhausted(loop_sub) /\ ~TxPending(loop_sub)
                /\ loop_pc' = "responded"
                /\ loop_seen' = CurrentInterval(loop_sub)
                /\ UNCHANGED <<tables, loop_sub>>
    /\ UNCHANGED <<relays, loop_todo, prune, procs, chain, restarts>>

\* attempts_lock is granted in the order it was asked for, and only the loop
\* launches prunes: the loop gets it when all prunes launched before are done.
LoopStopUnderLock ==
    /\ loop_pc = "lock"
    /\ prune_pc = "idle"
    /\ StopTracking(loop_sub) /\ Continue
    /\ UNCHANGED <<attempts, relays, loop_todo, prune, procs, chain, restarts>>

\* Mutant: the run is not marked.
MarkNothing(k) == pending

MarkBlocked(k) == [pending EXCEPT ![k] = Blocked]

\* process_subscription up to its first await: it reads the interval anew.
StartProcess(p, s) ==
    /\ p_pc[p] = "idle"
    /\ pending' = MarkBlocked(Run(s))
    /\ p_key' = [p_key EXCEPT ![p] = Run(s)]
    /\ p_pc' = [p_pc EXCEPT ![p] =
                  IF RequiresProof(Param[s]) THEN "execute" ELSE "simulate"]
    /\ UNCHANGED <<tracked, p_interval>>

\* Mutant: the deadline is not checked again.
NotChecked(s) == FALSE

\* process_subscription checks the deadline once more.
MissedMeanwhile(s) == MissedDeadline(s)

\* has_responded_onchain_in_interval answers for the interval it was asked for.
\* The memo node_replied is left out: it remembers only what stays true.
LoopCheckResponded ==
    /\ loop_pc = "responded"
    /\ \/ /\ NodeResponded(<<loop_sub, loop_seen>>)
          /\ UNCHANGED <<tracked, pending, procs>>
       \/ /\ ~NodeResponded(<<loop_sub, loop_seen>>)
          /\ \/ Gone(loop_sub) /\ UNCHANGED <<tracked, pending, procs>>
             \/ /\ ~Gone(loop_sub) /\ MissedMeanwhile(loop_sub)
                /\ StopTracking(loop_sub) /\ UNCHANGED procs
             \/ /\ ~Gone(loop_sub) /\ ~MissedMeanwhile(loop_sub)
                /\ \E p \in Procs : StartProcess(p, loop_sub)
    /\ Continue
    /\ UNCHANGED <<attempts, relays, loop_todo, prune, chain, restarts>>

LoopStep ==
    \/ LoopTop \/ LoopEndPass \/ (\E s \in Subs : LoopNext(s))
    \/ LoopCheckWallet \/ LoopCheckCancelled \/ LoopCheckCompleted
    \/ LoopStopUnderLock \/ LoopCheckResponded
-------------------------------------------------------------------------------
(* process_subscription.  p_pc names the await the call is suspended in.   *)

SubOf(p) == p_key[p][1]

Advance(p, pc) == p_pc' = [p_pc EXCEPT ![p] = pc]

EndProcess(p) ==
    /\ Advance(p, "idle")
    /\ p_key' = [p_key EXCEPT ![p] = None]
    /\ p_interval' = [p_interval EXCEPT ![p] = 0]

\* Mutant: every subscription is left to expire.
StopNothing(s) == UNCHANGED <<tracked, pending>>

\* What the error paths share: a callback is not tried again.
StopIfCallback(s) ==
    IF Callback(s) THEN StopTracking(s) ELSE UNCHANGED <<tracked, pending>>

\* Any outcome of the early simulation but an InfernetError of a callback.
ProcSimulated(p) ==
    /\ p_pc[p] = "simulate"
    /\ Advance(p, "execute")
    /\ UNCHANGED <<tables, relays, loop, prune, p_key, p_interval, chain, restarts>>

ProcSimulationRejected(p) ==
    /\ p_pc[p] = "simulate"
    /\ Callback(SubOf(p))
    /\ StopTracking(SubOf(p))
    /\ EndProcess(p)
    /\ UNCHANGED <<attempts, relays, loop, prune, chain, restarts>>

\* deliver_compute reads the interval when it is called, not when the run began.
BeginDeliver(p) ==
    /\ Advance(p, "deliver")
    /\ p_interval' = [p_interval EXCEPT ![p] = CurrentInterval(SubOf(p))]

ProcExecuted(p) ==
    /\ p_pc[p] = "execute"
    /\ \/ /\ RequiresProof(Param[SubOf(p)])
          /\ Advance(p, "escrow") /\ UNCHANGED p_interval
       \/ ~RequiresProof(Param[SubOf(p)]) /\ BeginDeliver(p)
    /\ UNCHANGED <<tables, relays, loop, prune, p_key, chain, restarts>>

\* The container failed: the run may be processed again, a callback is dropped.
ProcContainerFailed(p) ==
    /\ p_pc[p] = "execute"
    /\ \/ /\ Callback(SubOf(p))
          /\ StopTracking(SubOf(p))
       \/ /\ ~Callback(SubOf(p))
          /\ pending' = [pending EXCEPT ![p_key[p]] = None]
          /\ UNCHANGED tracked
    /\ EndProcess(p)
    /\ UNCHANGED <<attempts, relays, loop, prune, chain, restarts>>

ProcEscrowed(p) ==
    /\ p_pc[p] = "escrow"
    /\ BeginDeliver(p)
    /\ UNCHANGED <<tables, relays, loop, prune, p_key, chain, restarts>>

\* The wallet's simulation passes, or fails with an allowed simulation error.
ProcDeliverSimulated(p) ==
    /\ p_pc[p] = "deliver"
    /\ Advance(p, "submit")
    /\ UNCHANGED <<tables, relays, loop, prune, p_key, p_interval, chain, restarts>>

TxLockFree == \A q \in Procs : p_pc[q] # "write"

\* Under tx_lock the call is simulated once more, then the transaction is sent.
ProcSubmit(p) ==
    /\ p_pc[p] = "submit"
    /\ TxLockFree
    /\ ChainAccepts(SubOf(p), p_interval[p])
    /\ Advance(p, "write")
    /\ UNCHANGED <<tables, relays, loop, prune, p_key, p_interval, chain, restarts>>

Broadcast(t, p) ==
    /\ tx_status[t] = "unsent"
    /\ tx_status' = [tx_status EXCEPT ![t] = "mempool"]
    /\ tx_key' = [tx_key EXCEPT ![t] = p_key[p]]
    /\ tx_interval' = [tx_interval EXCEPT ![t] = p_interval[p]]
    /\ sent' = sent \cup {t}

\* The hash replaces whatever the run's entry is by now, if there is one at all.
ProcWrite(p) ==
    /\ p_pc[p] = "write"
    /\ \E t \in Txs :
         /\ Broadcast(t, p)
         /\ pending' = [pending EXCEPT ![p_key[p]] = t]
    /\ EndProcess(p)
    /\ UNCHANGED <<tracked, attempts, relays, loop, prune, clock, settled, restarts>>

\* deliver throws: a simulation failed, or sending did.  In the latter case the
\* transaction may have been broadcast all the same, the answer being lost.
ProcDeliverFailed(p) ==
    /\ \/ p_pc[p] = "deliver" /\ UNCHANGED txs
       \/ p_pc[p] = "submit" /\ TxLockFree /\ UNCHANGED txs
       \/ p_pc[p] = "write" /\ (UNCHANGED txs \/ \E t \in Txs : Broadcast(t, p))
    /\ StopIfCallback(SubOf(p))
    /\ EndProcess(p)
    /\ UNCHANGED <<attempts, relays, loop, prune, clock, settled, restarts>>

ProcStep(p) ==
    \/ ProcSimulated(p) \/ ProcSimulationRejected(p)
    \/ ProcExecuted(p) \/ ProcContainerFailed(p) \/ ProcEscrowed(p)
    \/ ProcDeliverSimulated(p) \/ ProcSubmit(p) \/ ProcWrite(p)
    \/ ProcDeliverFailed(p)
-------------------------------------------------------------------------------
(* The chain, the clock and the process itself.                            *)

Tick ==
    /\ clock < MaxClock
    /\ clock' = clock + 1
    /\ UNCHANGED <<tables, relays, loop, prune, procs, txs, settled, restarts>>

\* A transaction is mined and accepted; its response may be the last one the
\* redundancy asks for.
MineSuccess(t) ==
    LET key == <<tx_key[t][1], tx_interval[t]>> IN
    /\ tx_status[t] = "mempool"
    /\ ChainAccepts(key[1], key[2])
    /\ tx_status' = [tx_status EXCEPT ![t] = "success"]
    /\ responded' = responded \cup {key}
    /\ full' \in {full, full \cup {key}}
    /\ UNCHANGED <<tables, relays, loop, prune, procs, clock, tx_key, tx_interval, sent,
                   cancelled, restarts>>

\* A transaction is mined and reverts: what it called may fail for reasons of its own.
MineFailure(t) ==
    /\ tx_status[t] = "mempool"
    /\ tx_status' = [tx_status EXCEPT ![t] = "failed"]
    /\ UNCHANGED <<tables, relays, loop, prune, procs, clock, tx_key, tx_interval, sent,
                   settled, restarts>>

\* Other nodes give the remaining responses of the current interval.
OthersRespond(s) ==
    /\ IsActive(s) /\ ~IsPastLast(s) /\ s \notin cancelled
    /\ full' = full \cup {Run(s)}
    /\ UNCHANGED <<tables, relays, loop, prune, procs, clock, txs, responded,
                   cancelled, restarts>>

Cancel(s) ==
    /\ cancelled' = cancelled \cup {s}
    /\ UNCHANGED <<tables, relays, loop, prune, procs, clock, txs, responded,
                   full, restarts>>

\* The node exits and is started again with empty tables: the process is killed,
\* an RPC error rejects run_forever, or an error of process_subscription outside
\* its try block is an unhandled rejection.
CrashRestart ==
    /\ restarts < MaxRestarts
    /\ restarts' = restarts + 1
    /\ tracked' = {}
    /\ pending' = [k \in Keys |-> None]
    /\ attempts' = [k \in Keys |-> 0]
    /\ relays' = [s \in Subs |-> 0]
    /\ loop_pc' = "top" /\ loop_sub' = None /\ loop_seen' = 0 /\ loop_todo' = {}
    /\ prune_pc' = "idle" /\ prune_snap' = [k \in Keys |-> None]
    /\ prune_todo' = {} /\ prune_failed' = {} /\ prune_queue' = 0
    /\ p_pc' = [p \in Procs |-> "idle"]
    /\ p_key' = [p \in Procs |-> None]
    /\ p_interval' = [p \in Procs |-> 0]
    /\ sent' = {}
    /\ UNCHANGED <<clock, tx_key, tx_interval, tx_status, settled>>
-------------------------------------------------------------------------------
Init ==
    /\ tracked = {}
    /\ pending = [k \in Keys |-> None]
    /\ attempts = [k \in Keys |-> 0]
    /\ relays = [s \in Subs |-> 0]
    /\ loop_pc = "top" /\ loop_sub = None /\ loop_seen = 0 /\ loop_todo = {}
    /\ prune_pc = "idle" /\ prune_snap = [k \in Keys |-> None]
    /\ prune_todo = {} /\ prune_failed = {} /\ prune_queue = 0
    /\ p_pc = [p \in Procs |-> "idle"]
    /\ p_key = [p \in Procs |-> None]
    /\ p_interval = [p \in Procs |-> 0]
    /\ clock = 0
    /\ tx_key = [t \in Txs |-> None]
    /\ tx_interval = [t \in Txs |-> 0]
    /\ tx_status = [t \in Txs |-> "unsent"]
    /\ responded = {} /\ full = {} /\ cancelled = {}
    /\ restarts = 0 /\ sent = {}

PruneStep == PruneFinish \/ \E k \in Keys : PruneCheck(k)

Mine(t) == MineSuccess(t) \/ MineFailure(t)

Next ==
    \/ LoopStep
    \/ PruneStep
    \/ \E p \in Procs : ProcStep(p)
    \/ \E t \in Txs : Mine(t)
    \/ \E s \in Subs : Track(s) \/ OthersRespond(s) \/ Cancel(s)
    \/ Tick
    \/ CrashRestart

Spec == Init /\ [][Next]_vars

\* A call goes on, unless it is the containers it waits for.
ProcProceeds(p) == p_pc[p] # "execute" /\ ProcStep(p)

\* Timers fire, requests to the RPC node are answered or time out, and one for a
\* receipt that is made again and again gets it in the end; transactions are mined
\* and time passes.  Nothing obliges a container to answer, nor the listener, the
\* other nodes or an owner to act.
FairSpec ==
    /\ Spec
    /\ WF_vars(LoopStep)
    /\ WF_vars(PruneStep)
    /\ \A k \in Keys : SF_vars(PruneFound(k))
    /\ \A p \in Procs : WF_vars(ProcProceeds(p))
    /\ \A t \in Txs : WF_vars(Mine(t))
    /\ WF_vars(Tick)
-------------------------------------------------------------------------------
(* Properties.                                                             *)

\* In one life of the process a run has at most one transaction that is waiting
\* to be mined or was accepted: the pending table keeps process_subscription from
\* starting again and prune_failed_txs frees a run only after its transaction failed.
AtMostOneLiveTx ==
    \A t, u \in sent :
        t # u /\ Live(t) /\ Live(u) => tx_key[t] # tx_key[u]

FailedTxs(k) == {t \in sent : tx_key[t] = k /\ tx_status[t] = "failed"}

\* No run is tried more than three times in one life of the process,
\* however the prunes, the loop and the processing of the run interleave.
RetryBound ==
    \A k \in Keys : Cardinality(FailedTxs(k)) \leq MaxAttempts

\* No failure is counted twice: prune_failed_txs runs from a copy of the table,
\* but under attempts_lock, so two prunes never count the same transaction as
\* two of the first three failures.
AttemptsAreFailures ==
    \A k \in Keys : attempts[k] \leq Cardinality(FailedTxs(k))

\* A run is marked BLOCKED only while its subscription is tracked: no entry that
\* nothing would ever remove outlives stop_tracking.
BlockedIsTracked ==
    \A k \in Keys : pending[k] = Blocked => k[1] \in tracked

\* The marker of a callback is backed by a process_subscription call in flight,
\* on every error path too: otherwise the callback would never be answered, its
\* interval being 1 for ever.
NoStuckCallback ==
    \A k \in Keys :
        Callback(k[1]) /\ pending[k] = Blocked => InFlight(k)

\* The transaction of a tracked run is forgotten only if that transaction failed,
\* although prune_failed_txs decides from a copy of the table made before its awaits.
EvictionIsJustified ==
    [][\A k \in Keys :
         /\ pending[k] \in Txs /\ pending'[k] = None
         /\ k[1] \in tracked'
         => tx_status[pending[k]] = "failed"]_vars

WaitsForContainers(p, k) == p_pc[p] = "execute" /\ p_key[p] = k

\* Every tracked callback is answered by this node or no longer tracked in the end,
\* unless its call waits for ever for containers that do not answer.
CallbackSettles ==
    \A s \in Subs :
        Callback(s) /\ s \in tracked ~>
            \/ s \notin tracked
            \/ <<s, 1>> \in responded
            \/ \E p \in Procs : []WaitsForContainers(p, <<s, 1>>)

\* The loop gets to every subscription that is past its last interval and drops
\* it: neither a prune holding attempts_lock nor a process keeps it from doing so.
ExpiredIsDropped ==
    \A s \in Subs :
        s \in tracked /\ IsPastLast(s) ~> s \notin tracked

\* The promise of DeliveryCycle in the processor's terms: a subscription is open
\* while it is tracked, and the chain tells more about a run than the tables do.
WindowOf(s) ==
    IF relays[s] = 0 THEN "new" ELSE IF s \in tracked THEN "open" ELSE "closed"

HasTx(k, status) == \E t \in sent : tx_key[t] = k /\ tx_status[t] = status

PhaseOf(k) ==
    IF HasTx(k, "success") THEN "answered"
    ELSE IF HasTx(k, "mempool") THEN "sent"
    ELSE IF InFlight(k) THEN "working" ELSE "idle"

Cycle == INSTANCE DeliveryCycle WITH
            window <- [s \in Subs |-> WindowOf(s)],
            phase <- [k \in Keys |-> PhaseOf(k)]

\* The loop, the prunes, the calls and the chain together keep the promise of one
\* delivery cycle per run (DeliveryCycle): no run is begun while a response of it
\* is computed, waits to be mined or was accepted, whatever the tables hold.  Each
\* life of the process begins anew.
ImplementsDeliveryCycle == Cycle!Spec

\* "Response for current interval must not be in pending queue", "must not have
\* already been confirmed on-chain" (processor.ts:1157): one response per interval.
OneTxPerInterval ==
    \A t, u \in Txs :
        t # u /\ Live(t) /\ Live(u) /\ tx_key[t][1] = tx_key[u][1]
        => tx_interval[t] # tx_interval[u]
===============================================================================
