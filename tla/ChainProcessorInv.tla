-------------------------- MODULE ChainProcessorInv ---------------------------
(***************************************************************************)
(* The inductive strengthening of AtMostOneLiveTx, for a listener that     *)
(* relays each subscription once in each life of the process.              *)
(***************************************************************************)
EXTENDS ChainProcessor

AllFailed(k) == \A t \in sent : tx_key[t] = k => tx_status[t] = "failed"

Reached(s) == IntervalOrZero(Param[s], clock)

\* The loop asks about, and processes work on, active subscriptions only.
ActivityInv ==
    /\ loop_pc \in {"completed", "responded"} => IsActive(loop_sub)
    /\ \A p \in Procs : p_key[p] # None => IsActive(p_key[p][1])

\* Nothing is known of a subscription that was not relayed yet.
RelayInv ==
    /\ \A s \in Subs : relays[s] = 0 =>
         /\ s \notin tracked
         /\ s # loop_sub
         /\ \A p \in Procs : p_key[p] # None => p_key[p][1] # s
         /\ \A t \in sent : tx_key[t][1] # s
    /\ \A k \in Keys : relays[k[1]] = 0 =>
         pending[k] = None /\ prune_snap[k] = None

\* Nor of a run of an interval that has not begun.
FutureInv ==
    \A k \in Keys : k[2] > Reached(k[1]) =>
        /\ pending[k] = None
        /\ ~InFlight(k)
        /\ \A t \in Txs : tx_key[t] # k

\* A run being processed is processed once, is marked BLOCKED as long as its
\* subscription is tracked, and has no transaction of this life that could still count.
ProcessInv ==
    /\ \A p, q \in Procs : p_key[p] = p_key[q] /\ p_key[p] # None => p = q
    /\ \A p \in Procs : p_key[p] # None =>
         /\ pending[p_key[p]] \in {None, Blocked}
         /\ p_key[p][1] \in tracked => pending[p_key[p]] = Blocked
         /\ AllFailed(p_key[p])

\* The pending entry of a run is its only transaction that has not failed; a
\* tracked run without an entry is neither processed nor waiting for the chain.
PendingInv ==
    \A k \in Keys :
        /\ pending[k] \in Txs =>
             /\ pending[k] \in sent /\ tx_key[pending[k]] = k
             /\ \A u \in sent : tx_key[u] = k /\ u # pending[k] => tx_status[u] = "failed"
        /\ k[1] \in tracked /\ pending[k] = None => ~InFlight(k) /\ AllFailed(k)

\* What the running prune copied of a tracked run still stands in the table, and
\* what it is about to evict has failed.
PruneInv ==
    /\ \A k \in Keys :
         prune_snap[k] \in Txs /\ k[1] \in tracked => pending[k] = prune_snap[k]
    /\ \A k \in prune_todo : prune_snap[k] \in Txs
    /\ \A k \in prune_failed :
         prune_snap[k] \in Txs /\ tx_status[prune_snap[k]] = "failed"

\* When the loop has asked whether the node responded, the interval it asked for
\* and all later ones are still free.
AskedInv ==
    loop_pc = "responded" =>
        /\ loop_seen \leq Reached(loop_sub)
        /\ loop_sub \in tracked =>
             \A i \in Intervals : i \geq loop_seen => pending[<<loop_sub, i>>] = None

IInv ==
    /\ ActivityInv /\ RelayInv /\ FutureInv /\ ProcessInv
    /\ PendingInv /\ PruneInv /\ AskedInv
    /\ AtMostOneLiveTx
-------------------------------------------------------------------------------
(* The strengthenings of AttemptsAreFailures and of RetryBound.            *)

\* Where the failures are counted, whatever the listener relays: entries and copies
\* are of the run's own transactions, and unless the run has failed for good, the
\* attempts leave out those the table or the running prune still hold.
CountInv ==
    /\ IsFiniteSet(sent)
    /\ \A k \in Keys :
         /\ pending[k] \in Txs => pending[k] \in sent /\ tx_key[pending[k]] = k
         /\ prune_snap[k] \in Txs => prune_snap[k] \in sent /\ tx_key[prune_snap[k]] = k
    /\ \A k \in prune_todo : prune_snap[k] \in Txs
    /\ \A k \in prune_failed :
         prune_snap[k] \in Txs /\ tx_status[prune_snap[k]] = "failed"
    /\ \A k \in Keys :
         \/ attempts[k] \leq Cardinality(FailedTxs(k) \ {pending[k], prune_snap[k]})
         \/ Cardinality(FailedTxs(k)) \geq MaxAttempts

SentFor(k) == {t \in sent : tx_key[t] = k}

\* The loop gave the subscription up and waits for the lock to stop tracking it: its
\* attempts are gone, and a prune may evict its entries meanwhile.
BeingStopped(s) == loop_pc = "lock" /\ loop_sub = s

\* A run that may be sent once more was sent less than three times, and each time
\* before was counted; of a run with an entry all but that one were.
RetryOf(k) ==
    /\ Cardinality(SentFor(k)) \leq MaxAttempts
    /\ InFlight(k) => Cardinality(SentFor(k)) < MaxAttempts
    /\ k[1] \in tracked /\ ~BeingStopped(k[1]) =>
         /\ pending[k] = None \/ InFlight(k) =>
              Cardinality(SentFor(k)) \leq attempts[k] /\ attempts[k] < MaxAttempts
         /\ pending[k] \in Txs =>
              \/ tx_status[pending[k]] = "success"
              \/ attempts[k] = MaxAttempts
              \/ Cardinality(SentFor(k)) \leq attempts[k] + 1

\* No run is sent a fourth time, and where the next sending stands is kept in the
\* attempts, however prunes, the loop and the processing of the run interleave.
RetryInv == \A k \in Keys : RetryOf(k)

\* The three together: what holds in each life of the node.
LifeInv == IInv /\ CountInv /\ RetryInv
===============================================================================
