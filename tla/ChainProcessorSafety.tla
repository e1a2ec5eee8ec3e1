------------------------- MODULE ChainProcessorSafety -------------------------
(***************************************************************************)
(* The proof that a run has at most one live transaction, from the         *)
(* inductive invariant IInv, and that no run is tried more than three      *)
(* times, from RetryInv, for a listener that relays each subscription once *)
(* in each life of the process, however often the node restarts.           *)
(***************************************************************************)
EXTENDS ChainProcessorProofs

OneRelay == MaxRelays = 1

\* A step that at most forgets: subscriptions are untracked and their entries
\* dropped, calls end, the loop goes on to something else.
LEMMA Forgetting ==
    ASSUME TypeOK, TypeOK', ActivityInv', IInv,
           UNCHANGED <<relays, clock, tx_key, tx_status, sent, prune_snap,
                       prune_todo, prune_failed>>,
           tracked' \subseteq tracked,
           \A k \in Keys : pending'[k] = pending[k]
                             \/ (pending'[k] = None /\ k[1] \notin tracked'),
           \A q \in Procs : p_key'[q] \in {p_key[q], None},
           loop_pc' = "responded" => UNCHANGED loop,
           loop_sub' \in {loop_sub, None} \cup tracked
    PROVE  IInv'
<1> USE KeyFacts
<1>1. RelayInv'
  BY DEF IInv, RelayInv, TypeOK
<1>2. FutureInv'
  BY DEF IInv, FutureInv, InFlight, Reached, TypeOK
<1>3. ProcessInv'
  BY DEF IInv, ProcessInv, AllFailed, TypeOK
<1>4. PendingInv'
  BY DEF IInv, PendingInv, AllFailed, InFlight, TypeOK
<1>5. PruneInv'
  BY DEF IInv, PruneInv, TypeOK
<1>6. AskedInv'
  BY DEF IInv, AskedInv, Reached, loop, TypeOK, Keys
<1>7. AtMostOneLiveTx'
  BY DEF IInv, AtMostOneLiveTx, Live
<1>. QED
  BY <1>1, <1>2, <1>3, <1>4, <1>5, <1>6, <1>7 DEF IInv

\* The first relay of a subscription finds no trace of it.
LEMMA TrackSafe ==
    ASSUME TypeOK, TypeOK', ActivityInv', IInv, OneRelay, NEW s \in Subs, Track(s)
    PROVE  IInv'
<1> USE KeyFacts
<1>1. /\ relays[s] = 0 /\ relays' = [relays EXCEPT ![s] = 1]
      /\ tracked' = tracked \cup {s}
  <2>1. relays \in [Subs -> 0 .. 1] /\ relays[s] < 1
    BY DEF Track, OneRelay, TypeOK
  <2>2. relays[s] = 0
    BY <2>1
  <2>. QED
    BY <2>1, <2>2 DEF Track
<1>2. UNCHANGED <<pending, attempts, loop_pc, loop_sub, loop_seen, prune_snap,
                  prune_todo, prune_failed, p_key, clock, tx_key, tx_status, sent>>
  BY DEF Track, loop, prune, procs, chain, txs
<1>3. /\ s # loop_sub
      /\ \A k \in Keys : k[1] = s => /\ pending[k] = None /\ prune_snap[k] = None
                                     /\ ~InFlight(k) /\ \A t \in sent : tx_key[t] # k
  <2>1. /\ s # loop_sub
        /\ \A p \in Procs : p_key[p] # None => p_key[p][1] # s
        /\ \A t \in sent : tx_key[t][1] # s
    BY <1>1 DEF IInv, RelayInv
  <2>2. \A k \in Keys : k[1] = s => pending[k] = None /\ prune_snap[k] = None
    BY <1>1 DEF IInv, RelayInv
  <2>. QED
    BY <2>1, <2>2 DEF InFlight
<1>4. RelayInv'
  BY <1>1, <1>2 DEF IInv, RelayInv, TypeOK
<1>5. FutureInv'
  BY <1>2 DEF IInv, FutureInv, InFlight, Reached
<1>6. ProcessInv'
  BY <1>1, <1>2, <1>3 DEF IInv, ProcessInv, AllFailed, InFlight, TypeOK
<1>7. PendingInv'
  BY <1>1, <1>2, <1>3 DEF IInv, PendingInv, AllFailed, InFlight, TypeOK
<1>8. PruneInv'
  BY <1>1, <1>2, <1>3 DEF IInv, PruneInv, TypeOK
<1>9. AskedInv'
  BY <1>1, <1>2, <1>3 DEF IInv, AskedInv, Reached, TypeOK
<1>10. AtMostOneLiveTx'
  BY <1>2 DEF IInv, AtMostOneLiveTx, Live
<1>. QED
  BY <1>4, <1>5, <1>6, <1>7, <1>8, <1>9, <1>10 DEF IInv

\* A receipt adds to what is to be evicted only a transaction that failed.
LEMMA PruneCheckSafe ==
    ASSUME TypeOK, TypeOK', ActivityInv', IInv, NEW k \in Keys, PruneCheck(k)
    PROVE  IInv'
<1> USE KeyFacts
<1>1. UNCHANGED <<tracked, pending, relays, loop, prune_snap, p_key, clock,
                  tx_key, tx_status, sent>>
  BY DEF PruneCheck, PruneFound, PruneNotFound, tables, procs, chain, txs
<1>2. PruneInv'
  BY <1>1 DEF IInv, PruneInv, PruneCheck, PruneFound, PruneNotFound, Receipt, TypeOK
<1>3. RelayInv' /\ FutureInv' /\ AskedInv'
  BY <1>1 DEF IInv, RelayInv, FutureInv, AskedInv, InFlight, Reached, loop
<1>4. ProcessInv' /\ PendingInv' /\ AtMostOneLiveTx'
  BY <1>1 DEF IInv, ProcessInv, PendingInv, AtMostOneLiveTx, AllFailed, InFlight, Live
<1>. QED
  BY <1>2, <1>3, <1>4 DEF IInv

\* The copy a prune begins with agrees with the table it is made of.
LEMMA BeginPruneSafe ==
    ASSUME BeginPrune(pending'), pending' \in [Keys -> {None, Blocked} \cup Txs]
    PROVE  PruneInv' /\ \A k \in Keys : pending'[k] = None => prune_snap'[k] = None
BY KeyFacts DEF BeginPrune, PruneInv

\* Evicting what failed frees runs of which nothing is live.
LEMMA PruneFinishSafe ==
    ASSUME TypeOK, TypeOK', ActivityInv', IInv, PruneFinish
    PROVE  IInv'
<1> USE KeyFacts
<1>1. UNCHANGED <<tracked, relays, loop, p_key, clock, tx_key, tx_status, sent>>
  BY DEF PruneFinish, procs, chain, txs
<1>2. \A k \in Keys : pending'[k] = pending[k]
                        \/ (k \in prune_failed /\ pending'[k] = None)
  BY DEF PruneFinish
<1>3. ASSUME NEW k \in Keys, k \in prune_failed, k[1] \in tracked
      PROVE  ~InFlight(k) /\ AllFailed(k)
  <2>1. /\ prune_snap[k] \in Txs /\ tx_status[prune_snap[k]] = "failed"
        /\ pending[k] = prune_snap[k]
    BY <1>3 DEF IInv, PruneInv
  <2>2. ~InFlight(k)
    BY <1>3, <2>1 DEF IInv, ProcessInv, InFlight
  <2>3. AllFailed(k)
    BY <1>3, <2>1 DEF IInv, PendingInv, AllFailed
  <2>. QED
    BY <2>2, <2>3
<1>4. PruneInv' /\ \A k \in Keys : pending'[k] = None => prune_snap'[k] = None
  <2>1. CASE BeginPrune(pending')
    BY <2>1, BeginPruneSafe DEF TypeOK
  <2>2. CASE ~BeginPrune(pending')
    BY <2>2 DEF PruneFinish, PruneInv
  <2>. QED
    BY <2>1, <2>2
<1>5. RelayInv'
  BY <1>1, <1>2, <1>4 DEF IInv, RelayInv, loop
<1>6. FutureInv' /\ AskedInv'
  BY <1>1, <1>2 DEF IInv, FutureInv, AskedInv, InFlight, Reached, loop, TypeOK, Keys
<1>7. ProcessInv'
  <2>1. ASSUME NEW p \in Procs, p_key[p] # None, p_key[p][1] \in tracked
        PROVE  pending'[p_key[p]] = Blocked
    BY <1>2, <1>3, <2>1 DEF IInv, ProcessInv, InFlight, TypeOK
  <2>. QED
    BY <1>1, <1>2, <2>1 DEF IInv, ProcessInv, AllFailed, TypeOK
<1>8. PendingInv'
  BY <1>1, <1>2, <1>3 DEF IInv, PendingInv, AllFailed, InFlight, TypeOK
<1>9. AtMostOneLiveTx'
  BY <1>1 DEF IInv, AtMostOneLiveTx, Live
<1>. QED
  BY <1>4, <1>5, <1>6, <1>7, <1>8, <1>9 DEF IInv

\* Evicting nothing: what the loop does to one subscription before it asks.
LEMMA LoopSafe ==
    ASSUME TypeOK, TypeOK', ActivityInv, ActivityInv', IInv, LoopStep,
           ~LoopTop, ~LoopCheckResponded
    PROVE  IInv'
<1> USE KeyFacts
<1>1. CASE LoopEndPass
  BY <1>1, Forgetting
     DEF LoopEndPass, tables, loop, prune, procs, chain, txs, TypeOK
<1>2. CASE \E s \in Subs : LoopNext(s)
  BY <1>2, Forgetting
     DEF LoopNext, tables, loop, prune, procs, chain, txs, TypeOK
<1>3. CASE LoopCheckWallet
  BY <1>3, Forgetting
     DEF LoopCheckWallet, StopTracking, DropPending, Continue, loop, prune, procs,
         chain, txs, TypeOK
<1>4. CASE LoopCheckCancelled
  BY <1>4, Forgetting
     DEF LoopCheckCancelled, StopTracking, DropPending, Continue, loop, prune, procs,
         chain, txs, TypeOK
<1>5. CASE LoopCheckCompleted /\ loop_pc' # "responded"
  BY <1>5, Forgetting
     DEF LoopCheckCompleted, StopTracking, DropPending, Continue, tables, loop, prune,
         procs, chain, txs, TypeOK
<1>6. CASE LoopCheckCompleted /\ loop_pc' = "responded"
  <2>1. /\ UNCHANGED <<tracked, pending, relays, loop_sub, prune_snap, prune_todo,
                       prune_failed, p_key, clock, tx_key, tx_status, sent>>
        /\ loop_sub \in Subs /\ IsActive(loop_sub) /\ ~MissedDeadline(loop_sub)
        /\ pending[Run(loop_sub)] = None
        /\ loop_seen' = CurrentInterval(loop_sub)
    BY <1>6 DEF LoopCheckCompleted, Continue, tables, loop, prune, procs, chain, txs,
                TypeOK, ActivityInv, TxPending
  <2>2. CurrentInterval(loop_sub) \in Nat /\ CurrentInterval(loop_sub) = Reached(loop_sub)
    BY <2>1, CurrentRun
  <2>3. ASSUME NEW i \in Intervals, i \geq CurrentInterval(loop_sub)
        PROVE  pending[<<loop_sub, i>>] = None
    <3>1. CASE i = CurrentInterval(loop_sub)
      BY <2>1, <3>1 DEF Run
    <3>2. CASE i > CurrentInterval(loop_sub)
      <4>1. <<loop_sub, i>> \in Keys
        BY <2>1 DEF Keys
      <4>. QED
        BY <2>2, <3>2, <4>1 DEF IInv, FutureInv
    <3>. QED
      BY <2>2, <2>3, <3>1, <3>2 DEF Intervals
  <2>4. AskedInv'
    BY <2>1, <2>2, <2>3 DEF AskedInv, Reached
  <2>5. RelayInv' /\ FutureInv' /\ PruneInv'
    BY <2>1 DEF IInv, RelayInv, FutureInv, PruneInv, InFlight, Reached
  <2>6. ProcessInv' /\ PendingInv' /\ AtMostOneLiveTx'
    BY <2>1 DEF IInv, ProcessInv, PendingInv, AtMostOneLiveTx, AllFailed, InFlight, Live
  <2>. QED
    BY <2>4, <2>5, <2>6 DEF IInv
<1>7. CASE LoopStopUnderLock
  BY <1>7, Forgetting
     DEF LoopStopUnderLock, StopTracking, DropPending, Continue, loop, prune, procs,
         chain, txs, TypeOK
<1>. QED
  BY <1>1, <1>2, <1>3, <1>4, <1>5, <1>6, <1>7 DEF LoopStep

\* A pass begins with a copy of the table, or with a prune that waits.
LEMMA LoopTopSafe ==
    ASSUME TypeOK, TypeOK', ActivityInv', IInv, LoopTop
    PROVE  IInv'
<1> USE KeyFacts
<1>1. UNCHANGED <<tracked, pending, relays, loop_sub, p_key, clock, tx_key, tx_status, sent>>
      /\ loop_pc' = "next"
  BY DEF LoopTop, tables, procs, chain, txs
<1>2. PruneInv' /\ \A k \in Keys : pending'[k] = None => prune_snap'[k] = None
                                   \/ UNCHANGED prune_snap
  <2>1. CASE BeginPrune(pending)
    <3>1. BeginPrune(pending')
      BY <1>1, <2>1
    <3>. QED
      BY <3>1, BeginPruneSafe DEF TypeOK
  <2>2. CASE ~BeginPrune(pending)
    BY <1>1, <2>2 DEF LoopTop, PruneInv, IInv
  <2>. QED
    BY <2>1, <2>2
<1>3. RelayInv'
  BY <1>1, <1>2 DEF IInv, RelayInv
<1>4. FutureInv' /\ AskedInv'
  BY <1>1 DEF IInv, FutureInv, AskedInv, InFlight, Reached
<1>5. ProcessInv' /\ PendingInv' /\ AtMostOneLiveTx'
  BY <1>1 DEF IInv, ProcessInv, PendingInv, AtMostOneLiveTx, AllFailed, InFlight, Live
<1>. QED
  BY <1>2, <1>3, <1>4, <1>5 DEF IInv

\* A call starts on a run that was free when the loop asked, of the interval
\* asked for or of a later one, which has just begun.
LEMMA StartProcessSafe ==
    ASSUME TypeOK, TypeOK', ActivityInv, ActivityInv', IInv, LoopCheckResponded,
           NEW p \in Procs, ~Gone(loop_sub), ~MissedDeadline(loop_sub),
           StartProcess(p, loop_sub)
    PROVE  IInv'
<1> USE KeyFacts
<1> DEFINE k == Run(loop_sub)
<1>1. /\ UNCHANGED <<tracked, relays, prune_snap, prune_todo, prune_failed, clock,
                     tx_key, tx_status, sent>>
      /\ loop_pc' = "next" /\ loop_sub' = None
      /\ loop_sub \in Subs /\ loop_sub \in tracked /\ IsActive(loop_sub)
  BY DEF LoopCheckResponded, Continue, StartProcess, prune, chain, txs, TypeOK,
         ActivityInv, Gone
<1>2. /\ k \in Keys /\ k[1] = loop_sub /\ k[2] = Reached(loop_sub)
      /\ k[2] \in Intervals /\ k[1] \in tracked
  BY <1>1, CurrentRun DEF Run
<1>3. pending[k] = None
  BY <1>1, <1>2 DEF IInv, AskedInv, LoopCheckResponded, Run
<1>4. ~InFlight(k) /\ AllFailed(k)
  BY <1>2, <1>3 DEF IInv, PendingInv
<1>5. relays[k[1]] # 0
  BY <1>1, <1>2 DEF IInv, RelayInv
<1>6. p_key[p] = None
  BY DEF StartProcess, TypeOK
<1>7. pending' = [pending EXCEPT ![k] = Blocked] /\ p_key' = [p_key EXCEPT ![p] = k]
  BY DEF StartProcess, MarkBlocked
<1> HIDE DEF k
<1>8. \A l \in Keys : l # k => pending'[l] = pending[l] /\ (InFlight(l)' => InFlight(l))
  BY <1>7 DEF InFlight, TypeOK
<1>9. pending'[k] = Blocked /\ k # None
  BY <1>2, <1>7 DEF TypeOK
<1>10. RelayInv'
  BY <1>1, <1>2, <1>5, <1>7, <1>8, <1>9 DEF IInv, RelayInv, TypeOK
<1>11. FutureInv'
  <2>1. \A l \in Keys : l[2] > Reached(l[1]) => l # k
    BY <1>2 DEF Reached, Intervals
  <2>. QED
    BY <1>1, <1>8, <2>1 DEF IInv, FutureInv, Reached
<1>12. ProcessInv'
  <2>1. \A q \in Procs : q # p => p_key'[q] = p_key[q] /\ p_key[q] # k
    BY <1>4, <1>7 DEF InFlight, TypeOK
  <2>2. p_key'[p] = k
    BY <1>7 DEF TypeOK
  <2>3. \A q, r \in Procs : p_key'[q] = p_key'[r] /\ p_key'[q] # None => q = r
    BY <2>1, <2>2 DEF IInv, ProcessInv
  <2>4. ASSUME NEW q \in Procs, p_key'[q] # None
        PROVE  /\ pending'[p_key'[q]] \in {None, Blocked}
               /\ p_key'[q][1] \in tracked' => pending'[p_key'[q]] = Blocked
               /\ \A t \in sent' : tx_key'[t] = p_key'[q] => tx_status'[t] = "failed"
    <3>1. CASE q = p
      BY <1>1, <1>4, <1>9, <2>2, <3>1 DEF AllFailed
    <3>2. CASE q # p
      <4>1. p_key'[q] = p_key[q] /\ p_key[q] \in Keys /\ p_key[q] # k
        BY <2>1, <2>4, <3>2 DEF TypeOK
      <4>. QED
        BY <1>1, <1>8, <2>4, <4>1 DEF IInv, ProcessInv, AllFailed
    <3>. QED
      BY <3>1, <3>2
  <2>. QED
    BY <2>3, <2>4 DEF ProcessInv, AllFailed
<1>13. PendingInv'
  <2>1. ASSUME NEW l \in Keys, l # k
        PROVE  /\ pending'[l] \in Txs =>
                    /\ pending'[l] \in sent' /\ tx_key'[pending'[l]] = l
                    /\ \A u \in sent' : tx_key'[u] = l /\ u # pending'[l]
                                        => tx_status'[u] = "failed"
               /\ l[1] \in tracked' /\ pending'[l] = None => ~InFlight(l)' /\ AllFailed(l)'
    BY <1>1, <1>8, <2>1 DEF IInv, PendingInv, AllFailed
  <2>. QED
    BY <1>9, <2>1 DEF PendingInv
<1>14. PruneInv'
  BY <1>1, <1>2, <1>3, <1>8 DEF IInv, PruneInv, TypeOK
<1>15. AskedInv' /\ AtMostOneLiveTx'
  BY <1>1 DEF IInv, AskedInv, AtMostOneLiveTx, Live
<1>. QED
  BY <1>10, <1>11, <1>12, <1>13, <1>14, <1>15 DEF IInv

LEMMA LoopCheckRespondedSafe ==
    ASSUME TypeOK, TypeOK', ActivityInv, ActivityInv', IInv, LoopCheckResponded
    PROVE  IInv'
<1>1. CASE UNCHANGED procs
  BY <1>1, Forgetting
     DEF LoopCheckResponded, StopTracking, DropPending, Continue, loop, prune, procs,
         chain, txs, TypeOK, StartProcess
<1>2. CASE ~UNCHANGED procs
  BY <1>2, StartProcessSafe DEF LoopCheckResponded, MissedMeanwhile
<1>. QED
  BY <1>1, <1>2

\* A container error frees the run of a call that ends.
LEMMA ContainerFailedSafe ==
    ASSUME TypeOK, TypeOK', ActivityInv, ActivityInv', IInv, NEW p \in Procs,
           ProcContainerFailed(p)
    PROVE  IInv'
<1> USE KeyFacts, ProcTypes
<1>1. CASE Callback(SubOf(p))
  BY <1>1, Forgetting
     DEF ProcContainerFailed, EndProcess, StopTracking, DropPending, loop, prune,
         chain, txs, TypeOK
<1>2. CASE ~Callback(SubOf(p))
  <2> DEFINE k == p_key[p]
  <2>1. /\ UNCHANGED <<tracked, relays, loop, prune_snap, prune_todo, prune_failed, clock,
                       tx_key, tx_status, sent>>
        /\ pending' = [pending EXCEPT ![k] = None]
        /\ p_key' = [p_key EXCEPT ![p] = None]
        /\ k \in Keys
    BY <1>2 DEF ProcContainerFailed, EndProcess, prune, chain, txs
  <2>2. /\ \A q \in Procs : q # p => p_key'[q] = p_key[q] /\ p_key[q] # k
        /\ p_key'[p] = None /\ pending'[k] = None
        /\ \A l \in Keys : l # k => pending'[l] = pending[l]
        /\ AllFailed(k)
        /\ pending[k] \in {None, Blocked}
        /\ k[1] \in tracked => pending[k] = Blocked
    BY <2>1 DEF IInv, ProcessInv, TypeOK
  <2> HIDE DEF k
  <2>3. /\ \A l \in Keys : InFlight(l)' => InFlight(l) /\ l # k
    BY <2>1, <2>2 DEF InFlight
  <2>4. RelayInv'
    BY <2>1, <2>2 DEF IInv, RelayInv, loop, TypeOK
  <2>5. FutureInv' /\ AskedInv'
    BY <2>1, <2>2, <2>3 DEF IInv, FutureInv, AskedInv, Reached, loop, TypeOK, Keys
  <2>6. ProcessInv'
    BY <2>1, <2>2 DEF IInv, ProcessInv, AllFailed, TypeOK
  <2>7. PendingInv'
    BY <2>1, <2>2, <2>3 DEF IInv, PendingInv, AllFailed, TypeOK
  <2>8. PruneInv'
    BY <2>1, <2>2 DEF IInv, PruneInv, TypeOK
  <2>9. AtMostOneLiveTx'
    BY <2>1 DEF IInv, AtMostOneLiveTx, Live
  <2>. QED
    BY <2>4, <2>5, <2>6, <2>7, <2>8, <2>9 DEF IInv
<1>. QED
  BY <1>1, <1>2

\* A broadcast for a run of which nothing is live, by a call that ends: every
\* other run keeps what it has, and the entry of this one cannot mislead.
LEMMA BroadcastSafe ==
    ASSUME TypeOK, TypeOK', ActivityInv, ActivityInv', IInv, NEW p \in Procs,
           NEW t \in Txs, p_key[p] \in Keys, Broadcast(t, p), EndProcess(p),
           UNCHANGED <<relays, loop, prune, clock>>,
           tracked' \subseteq tracked,
           \A l \in Keys : l # p_key[p] =>
               pending'[l] = pending[l] \/ (pending'[l] = None /\ l[1] \notin tracked'),
           \/ pending'[p_key[p]] = t
           \/ pending'[p_key[p]] = Blocked
           \/ pending'[p_key[p]] = None /\ p_key[p][1] \notin tracked'
    PROVE  IInv'
<1> USE KeyFacts
<1> DEFINE k == p_key[p]
<1>1. /\ \A u \in Txs : u # t => tx_key'[u] = tx_key[u] /\ tx_status'[u] = tx_status[u]
      /\ tx_key'[t] = k /\ tx_status'[t] = "mempool" /\ tx_key[t] = None
      /\ sent' = sent \cup {t} /\ t \notin sent /\ sent \subseteq Txs
      /\ k \in Keys /\ k # None /\ k[1] \in Subs
  BY DEF Broadcast, TypeOK
<1>2. /\ \A q \in Procs : q # p => p_key'[q] = p_key[q] /\ p_key[q] # k
      /\ p_key'[p] = None
      /\ AllFailed(k)
      /\ pending[k] \in {None, Blocked}
      /\ k[1] \in tracked => pending[k] = Blocked
  BY <1>1 DEF IInv, ProcessInv, EndProcess, TypeOK
<1>3. relays[k[1]] # 0 /\ k[2] \leq Reached(k[1])
  <2>1. relays[k[1]] # 0
    BY <1>1 DEF IInv, RelayInv
  <2>2. IsActive(k[1]) /\ Reached(k[1]) \in Int /\ k[2] \in Int
    BY <1>1, CurrentRun DEF ActivityInv, Intervals
  <2>3. ~(k[2] > Reached(k[1]))
    BY <1>1 DEF IInv, FutureInv, InFlight
  <2>. QED
    BY <2>1, <2>2, <2>3
<1>4. UNCHANGED <<loop_pc, loop_sub, loop_seen, prune_snap, prune_todo, prune_failed>>
  BY DEF loop, prune
<1>5. /\ pending'[k] = t \/ pending'[k] = Blocked \/ (pending'[k] = None /\ k[1] \notin tracked')
      /\ \A l \in Keys : l # k => pending'[l] = pending[l]
                                     \/ (pending'[l] = None /\ l[1] \notin tracked')
  OBVIOUS
<1> HIDE DEF k
<1>6. \A l \in Keys : InFlight(l)' => InFlight(l) /\ l # k
  BY <1>1, <1>2 DEF InFlight
<1>7. RelayInv'
  <2>1. \A q \in Procs : p_key'[q] # None => p_key'[q] = p_key[q]
    BY <1>2
  <2>2. \A u \in sent' : (u \in sent /\ tx_key'[u] = tx_key[u]) \/ tx_key'[u] = k
    BY <1>1
  <2>3. \A l \in Keys : relays[l[1]] = 0 => pending'[l] = None
    BY <1>3, <1>5 DEF IInv, RelayInv
  <2>. QED
    BY <1>3, <1>4, <2>1, <2>2, <2>3 DEF IInv, RelayInv
<1>8. FutureInv'
  <2>1. ASSUME NEW l \in Keys, l[2] > Reached(l[1])
        PROVE  l # k
    <3>1. Reached(k[1]) \in Int /\ k[2] \in Int
      BY <1>1, CurrentRun DEF ActivityInv, Intervals, k
    <3>. QED
      BY <1>3, <2>1, <3>1
  <2>2. \A s \in Subs : Reached(s)' = Reached(s)
    BY DEF Reached
  <2>. QED
    BY <1>1, <1>5, <1>6, <2>1, <2>2 DEF IInv, FutureInv
<1>9. ProcessInv'
  <2>1. \A q, r \in Procs : p_key'[q] = p_key'[r] /\ p_key'[q] # None => q = r
    BY <1>2 DEF IInv, ProcessInv
  <2>2. ASSUME NEW q \in Procs, p_key'[q] # None
        PROVE  /\ pending'[p_key'[q]] \in {None, Blocked}
               /\ p_key'[q][1] \in tracked' => pending'[p_key'[q]] = Blocked
               /\ \A u \in sent' : tx_key'[u] = p_key'[q] => tx_status'[u] = "failed"
    <3>1. q # p /\ p_key'[q] = p_key[q] /\ p_key[q] # k /\ p_key[q] \in Keys
      BY <1>2, <2>2 DEF TypeOK
    <3>. QED
      BY <1>1, <1>5, <2>2, <3>1 DEF IInv, ProcessInv, AllFailed
  <2>. QED
    BY <2>1, <2>2 DEF ProcessInv, AllFailed
<1>10. PendingInv'
  <2>1. ASSUME NEW l \in Keys, l # k
        PROVE  /\ pending'[l] \in Txs =>
                    /\ pending'[l] \in sent' /\ tx_key'[pending'[l]] = l
                    /\ \A u \in sent' : tx_key'[u] = l /\ u # pending'[l]
                                        => tx_status'[u] = "failed"
               /\ l[1] \in tracked' /\ pending'[l] = None => ~InFlight(l)' /\ AllFailed(l)'
    <3>1. pending[l] \in Txs => pending[l] # t
      BY <1>1, <2>1 DEF IInv, PendingInv
    <3>. QED
      BY <1>1, <1>5, <1>6, <2>1, <3>1 DEF IInv, PendingInv, AllFailed
  <2>2. /\ pending'[k] \in Txs =>
             /\ pending'[k] \in sent' /\ tx_key'[pending'[k]] = k
             /\ \A u \in sent' : tx_key'[u] = k /\ u # pending'[k] => tx_status'[u] = "failed"
        /\ ~(k[1] \in tracked' /\ pending'[k] = None)
    BY <1>1, <1>2, <1>5 DEF AllFailed
  <2>. QED
    BY <2>1, <2>2 DEF PendingInv
<1>11. PruneInv'
  <2>1. \A l \in Keys : prune_snap[l] \in Txs /\ l[1] \in tracked' =>
                            pending'[l] = prune_snap[l]
    BY <1>2, <1>5 DEF IInv, PruneInv
  <2>2. \A l \in prune_failed : prune_snap[l] \in Txs /\ tx_status'[prune_snap[l]] = "failed"
    <3>1. tx_status[t] # "failed"
      BY DEF Broadcast
    <3>. QED
      BY <1>1, <3>1 DEF IInv, PruneInv
  <2>. QED
    BY <1>4, <2>1, <2>2 DEF IInv, PruneInv
<1>12. AskedInv'
  <2>1. ASSUME loop_pc = "responded", loop_sub \in tracked', NEW i \in Intervals,
               i \geq loop_seen
        PROVE  pending'[<<loop_sub, i>>] = None
    <3>1. /\ <<loop_sub, i>> \in Keys /\ loop_sub \in tracked
          /\ <<loop_sub, i>>[1] = loop_sub
      BY <2>1 DEF TypeOK, Keys
    <3>2. pending[<<loop_sub, i>>] = None
      BY <2>1, <3>1 DEF IInv, AskedInv
    <3>3. <<loop_sub, i>> # k
      BY <1>2, <3>1, <3>2
    <3>. QED
      BY <1>5, <3>1, <3>2, <3>3
  <2>2. Reached(loop_sub)' = Reached(loop_sub)
    BY <1>4 DEF Reached
  <2>. QED
    BY <1>4, <2>1, <2>2 DEF IInv, AskedInv
<1>13. AtMostOneLiveTx'
  <2>1. \A u \in sent : tx_key[u] = k => ~Live(u)
    BY <1>2 DEF AllFailed, Live
  <2>2. \A u \in Txs : u # t => (Live(u)' <=> Live(u))
    BY <1>1 DEF Live
  <2>. QED
    BY <1>1, <2>1, <2>2 DEF IInv, AtMostOneLiveTx
<1>. QED
  BY <1>7, <1>8, <1>9, <1>10, <1>11, <1>12, <1>13 DEF IInv

\* Every step of a process_subscription call keeps the invariant.
LEMMA ProcSafe ==
    ASSUME TypeOK, TypeOK', ActivityInv, ActivityInv', IInv, NEW p \in Procs, ProcStep(p)
    PROVE  IInv'
<1> USE KeyFacts, ProcTypes
<1>1. CASE \/ ProcSimulated(p) \/ ProcExecuted(p) \/ ProcEscrowed(p)
           \/ ProcDeliverSimulated(p) \/ ProcSubmit(p)
  BY <1>1, Forgetting
     DEF ProcSimulated, ProcExecuted, ProcEscrowed, ProcDeliverSimulated, ProcSubmit,
         BeginDeliver, tables, loop, prune, chain, txs, TypeOK
<1>2. CASE ProcSimulationRejected(p)
  BY <1>2, Forgetting
     DEF ProcSimulationRejected, EndProcess, StopTracking, DropPending, loop, prune,
         chain, txs, TypeOK
<1>3. CASE ProcContainerFailed(p)
  BY <1>3, ContainerFailedSafe
<1>4. CASE ProcWrite(p)
  <2>1. PICK t \in Txs : Broadcast(t, p) /\ pending' = [pending EXCEPT ![p_key[p]] = t]
    BY <1>4 DEF ProcWrite
  <2>2. /\ EndProcess(p) /\ UNCHANGED <<tracked, relays, loop, prune, clock>>
        /\ p_key[p] \in Keys
    BY <1>4 DEF ProcWrite
  <2>3. /\ pending'[p_key[p]] = t
        /\ \A l \in Keys : l # p_key[p] => pending'[l] = pending[l]
    BY <2>1, <2>2 DEF TypeOK
  <2>. QED
    BY <2>1, <2>2, <2>3, BroadcastSafe
<1>5. CASE ProcDeliverFailed(p)
  <2>1. /\ EndProcess(p) /\ StopIfCallback(SubOf(p))
        /\ UNCHANGED <<relays, loop, prune, clock>> /\ p_key[p] \in Keys
    BY <1>5 DEF ProcDeliverFailed
  <2>2. /\ tracked' \subseteq tracked
        /\ \A l \in Keys : pending'[l] = pending[l]
                               \/ (pending'[l] = None /\ l[1] \notin tracked')
    BY <2>1 DEF StopIfCallback, StopTracking, DropPending
  <2>3. CASE UNCHANGED txs
    BY <2>1, <2>2, <2>3, Forgetting DEF EndProcess, loop, prune, txs, TypeOK
  <2>4. CASE \E t \in Txs : Broadcast(t, p)
    <3>1. PICK t \in Txs : Broadcast(t, p)
      BY <2>4
    <3>2. /\ pending[p_key[p]] \in {None, Blocked}
          /\ p_key[p][1] \in tracked => pending[p_key[p]] = Blocked
      BY <2>1 DEF IInv, ProcessInv
    <3>3. \/ pending'[p_key[p]] = Blocked
          \/ pending'[p_key[p]] = None /\ p_key[p][1] \notin tracked'
      BY <2>1, <2>2, <3>2
    <3>. QED
      BY <2>1, <2>2, <3>1, <3>3, BroadcastSafe
  <2>. QED
    BY <1>5, <2>3, <2>4 DEF ProcDeliverFailed
<1>. QED
  BY <1>1, <1>2, <1>3, <1>4, <1>5 DEF ProcStep

\* Mining decides a live transaction; it never revives a failed one.
LEMMA MineSafe ==
    ASSUME TypeOK, TypeOK', ActivityInv, ActivityInv', IInv, NEW t \in Txs, Mine(t)
    PROVE  IInv'
<1>1. /\ UNCHANGED <<tracked, pending, relays, loop, prune, p_key, clock, tx_key, sent>>
      /\ \A u \in Txs : tx_status[u] = "failed" => tx_status'[u] = "failed"
      /\ \A u \in Txs : Live(u)' => Live(u)
      /\ sent \subseteq Txs
  BY DEF Mine, MineSuccess, MineFailure, tables, procs, Live, TypeOK
<1>2. RelayInv' /\ FutureInv' /\ AskedInv'
  BY <1>1 DEF IInv, RelayInv, FutureInv, AskedInv, InFlight, Reached, loop, prune
<1>3. ProcessInv' /\ PendingInv'
  BY <1>1 DEF IInv, ProcessInv, PendingInv, AllFailed, InFlight
<1>4. PruneInv'
  BY <1>1 DEF IInv, PruneInv, prune
<1>5. AtMostOneLiveTx'
  BY <1>1 DEF IInv, AtMostOneLiveTx
<1>. QED
  BY <1>2, <1>3, <1>4, <1>5 DEF IInv

\* Time only makes intervals begin.
LEMMA TickSafe ==
    ASSUME TypeOK, TypeOK', ActivityInv', IInv, Tick
    PROVE  IInv'
<1>1. /\ UNCHANGED <<tracked, pending, relays, loop, prune, p_key, tx_key, tx_status, sent>>
      /\ clock \in Nat /\ clock' \in Nat /\ clock \leq clock'
  BY ProcessorAssumption DEF Tick, tables, procs, txs, TypeOK
<1>2. \A s \in Subs : /\ Reached(s) \in Int /\ Reached(s)' \in Int
                       /\ Reached(s) \leq Reached(s)'
  <2>1. ASSUME NEW s \in Subs PROVE Reached(s) \leq Reached(s)'
    BY <1>1, ReachedMonotone
  <2>2. ASSUME NEW s \in Subs PROVE Reached(s) \in Int /\ Reached(s)' \in Int
    <3>1. Param[s] \in SubscriptionRecord
      BY ProcessorAssumption
    <3>2. \A now \in Nat : IntervalOrZero(Param[s], now) \in Int
      BY <3>1, IntervalPositive DEF IntervalOrZero
    <3>3. /\ Reached(s) = IntervalOrZero(Param[s], clock)
          /\ Reached(s)' = IntervalOrZero(Param[s], clock')
      BY DEF Reached
    <3>. QED
      BY <1>1, <3>2, <3>3
  <2>. QED
    BY <2>1, <2>2
<1>3. FutureInv'
  <2>1. ASSUME NEW l \in Keys, l[2] > Reached(l[1])'
        PROVE  l[2] > Reached(l[1])
    BY <1>2, <2>1, KeyFacts DEF Intervals
  <2>. QED
    BY <1>1, <2>1 DEF IInv, FutureInv, InFlight
<1>4. AskedInv'
  <2>1. loop_pc = "responded" => loop_sub \in Subs /\ loop_seen \in Nat
    BY DEF TypeOK
  <2>2. loop_pc = "responded" => loop_seen \leq IntervalOrZero(Param[loop_sub], clock')
    <3>1. \A s \in Subs : /\ Reached(s) = IntervalOrZero(Param[s], clock)
                          /\ Reached(s)' = IntervalOrZero(Param[s], clock')
      BY DEF Reached
    <3>2. loop_pc = "responded" => loop_seen \leq Reached(loop_sub)
      BY DEF IInv, AskedInv
    <3>. QED
      BY <1>2, <2>1, <3>1, <3>2
  <2>. QED
    BY <1>1, <2>2 DEF IInv, AskedInv, loop, Reached
<1>5. RelayInv' /\ PruneInv'
  BY <1>1 DEF IInv, RelayInv, PruneInv, loop, prune
<1>6. ProcessInv' /\ PendingInv' /\ AtMostOneLiveTx'
  BY <1>1 DEF IInv, ProcessInv, PendingInv, AtMostOneLiveTx, AllFailed, InFlight, Live
<1>. QED
  BY <1>3, <1>4, <1>5, <1>6 DEF IInv

\* What the node's memory and the chain's tables say of a subscription does not
\* depend on what others respond or cancel.
LEMMA OthersSafe ==
    ASSUME TypeOK, TypeOK', ActivityInv', IInv, NEW s \in Subs,
           OthersRespond(s) \/ Cancel(s)
    PROVE  IInv'
<1>1. UNCHANGED <<tables, relays, loop, prune, procs, clock, txs>>
  BY DEF OthersRespond, Cancel
<1>. QED
  BY <1>1, Forgetting DEF tables, loop, prune, procs, txs

\* A process that starts knows nothing, and has sent nothing.
LEMMA CrashSafe ==
    ASSUME TypeOK, TypeOK', ActivityInv', IInv, CrashRestart
    PROVE  IInv'
<1> USE KeyFacts
<1>1. /\ tracked' = {} /\ sent' = {} /\ loop_sub' = None /\ loop_pc' = "top"
      /\ prune_todo' = {} /\ prune_failed' = {}
      /\ \A k \in Keys : pending'[k] = None /\ prune_snap'[k] = None
      /\ \A p \in Procs : p_key'[p] = None
      /\ UNCHANGED <<clock, tx_key>>
  BY DEF CrashRestart
<1>2. RelayInv'
  BY <1>1 DEF RelayInv
<1>3. FutureInv'
  BY <1>1 DEF IInv, FutureInv, InFlight, Reached
<1>4. ProcessInv' /\ AskedInv'
  BY <1>1 DEF ProcessInv, AskedInv
<1>5. PendingInv'
  BY <1>1 DEF PendingInv
<1>6. PruneInv'
  BY <1>1 DEF PruneInv
<1>7. AtMostOneLiveTx'
  BY <1>1 DEF AtMostOneLiveTx
<1>. QED
  BY <1>2, <1>3, <1>4, <1>5, <1>6, <1>7 DEF IInv

\* The initial states satisfy the invariant.
LEMMA SafetyInit == Init => IInv
<1> SUFFICES ASSUME Init PROVE IInv
  OBVIOUS
<1>1. RelayInv
  BY KeyFacts DEF Init, RelayInv
<1>2. FutureInv
  BY KeyFacts DEF Init, FutureInv, InFlight
<1>3. ProcessInv /\ AskedInv /\ ActivityInv
  BY DEF Init, ProcessInv, AskedInv, ActivityInv
<1>4. PendingInv
  BY KeyFacts DEF Init, PendingInv, InFlight, AllFailed
<1>5. PruneInv
  BY KeyFacts DEF Init, PruneInv
<1>6. AtMostOneLiveTx
  BY DEF Init, AtMostOneLiveTx, Live
<1>. QED
  BY <1>1, <1>2, <1>3, <1>4, <1>5, <1>6 DEF IInv

\* One step keeps the invariant.
LEMMA SafetyStep ==
    ASSUME OneRelay, TypeOK, ActivityInv, IInv, [Next]_vars
    PROVE  IInv'
<1>1. TypeOK' /\ ActivityInv'
  BY TypeStep
<1>2. CASE LoopStep
  BY <1>1, <1>2, LoopSafe, LoopTopSafe, LoopCheckRespondedSafe
<1>3. CASE PruneStep
  BY <1>1, <1>3, PruneCheckSafe, PruneFinishSafe DEF PruneStep
<1>4. CASE \E p \in Procs : ProcStep(p)
  BY <1>1, <1>4, ProcSafe
<1>5. CASE \E t \in Txs : Mine(t)
  BY <1>1, <1>5, MineSafe
<1>6. CASE \E s \in Subs : Track(s)
  BY <1>1, <1>6, TrackSafe
<1>7. CASE \E s \in Subs : OthersRespond(s) \/ Cancel(s)
  BY <1>1, <1>7, OthersSafe
<1>8. CASE Tick
  BY <1>1, <1>8, TickSafe
<1>9. CASE CrashRestart
  BY <1>1, <1>9, CrashSafe
<1>10. CASE UNCHANGED vars
  BY <1>1, <1>10, Forgetting DEF vars, tables, loop, prune, procs, chain, txs
<1>. QED
  BY <1>2, <1>3, <1>4, <1>5, <1>6, <1>7, <1>8, <1>9, <1>10 DEF Next

\* The inductive invariant itself: what the tables, the copy a prune works from,
\* the calls in flight and the chain have to do with each other.
THEOREM ProcessorInvariant ==
    ASSUME OneRelay
    PROVE  Spec => []IInv
<1>1. Init => IInv
  BY SafetyInit
<1>2. TypeOK /\ ActivityInv /\ IInv /\ [Next]_vars => IInv'
  BY SafetyStep
<1>. QED
  BY <1>1, <1>2, TypeCorrect, PTL DEF Spec

\* Whatever the number of subscriptions, intervals, concurrent calls, transactions
\* and restarts: a run never has two transactions of one life of the process that
\* may both count.
THEOREM OneLiveTx ==
    ASSUME OneRelay
    PROVE  Spec => []AtMostOneLiveTx
<1>1. IInv => AtMostOneLiveTx
  BY DEF IInv
<1>. QED
  BY <1>1, ProcessorInvariant, PTL

\* In one step, the transaction entry of a run whose subscription stays tracked
\* disappears only at the end of a prune, which saw that transaction fail.
LEMMA EvictionStep ==
    ASSUME TypeOK, ActivityInv, IInv, [Next]_vars, NEW k \in Keys,
           pending[k] \in Txs, pending'[k] = None, k[1] \in tracked'
    PROVE  tx_status[pending[k]] = "failed"
<1> USE KeyFacts
<1>1. CASE PruneFinish
  <2>1. k \in prune_failed /\ k[1] \in tracked
    BY <1>1 DEF PruneFinish
  <2>2. /\ prune_snap[k] \in Txs /\ tx_status[prune_snap[k]] = "failed"
        /\ pending[k] = prune_snap[k]
    BY <2>1 DEF IInv, PruneInv
  <2>. QED
    BY <2>2
<1>2. ASSUME NEW s, StopTracking(s)
      PROVE  FALSE
  BY <1>2 DEF StopTracking, DropPending
<1>3. ASSUME pending' = pending
      PROVE  FALSE
  BY <1>3
<1>4. CASE LoopStep
  BY <1>2, <1>3, <1>4
     DEF LoopStep, LoopTop, LoopEndPass, LoopNext, LoopCheckWallet, LoopCheckCancelled,
         LoopCheckCompleted, LoopStopUnderLock, LoopCheckResponded, StartProcess,
         MarkBlocked, tables, TypeOK
<1>5. CASE \E q \in Keys : PruneCheck(q)
  BY <1>3, <1>5 DEF PruneCheck, PruneFound, PruneNotFound, tables
<1>6. CASE \E p \in Procs : ProcStep(p)
  <2>1. PICK p \in Procs : ProcStep(p)
    BY <1>6
  <2>2. CASE \/ ProcSimulated(p) \/ ProcExecuted(p) \/ ProcEscrowed(p)
             \/ ProcDeliverSimulated(p) \/ ProcSubmit(p)
    BY <1>3, <2>2 DEF ProcSimulated, ProcExecuted, ProcEscrowed, ProcDeliverSimulated,
                      ProcSubmit, tables
  <2>3. CASE ProcSimulationRejected(p) \/ ProcDeliverFailed(p)
    BY <1>2, <1>3, <2>3 DEF ProcSimulationRejected, ProcDeliverFailed, StopIfCallback
  <2>4. CASE ProcContainerFailed(p)
    <3>1. CASE Callback(SubOf(p))
      BY <1>2, <2>4, <3>1 DEF ProcContainerFailed
    <3>2. CASE ~Callback(SubOf(p))
      <4>1. pending[p_key[p]] \in {None, Blocked}
        BY <2>4, ProcTypes DEF ProcContainerFailed, IInv, ProcessInv
      <4>2. k # p_key[p]
        BY <4>1
      <4>. QED
        BY <2>4, <3>2, <4>2 DEF ProcContainerFailed, TypeOK
    <3>. QED
      BY <3>1, <3>2
  <2>5. CASE ProcWrite(p)
    BY <2>5 DEF ProcWrite, TypeOK
  <2>. QED
    BY <2>1, <2>2, <2>3, <2>4, <2>5 DEF ProcStep
<1>7. CASE CrashRestart
  BY <1>7 DEF CrashRestart
<1>8. CASE \/ \E t \in Txs : Mine(t)
           \/ \E s \in Subs : Track(s) \/ OthersRespond(s) \/ Cancel(s)
           \/ Tick
           \/ UNCHANGED vars
  BY <1>3, <1>8 DEF Mine, MineSuccess, MineFailure, Track, OthersRespond, Cancel, Tick,
                    vars, tables
<1>. QED
  BY <1>1, <1>4, <1>5, <1>6, <1>7, <1>8 DEF Next, PruneStep

\* The copy of the table a prune decides from is never out of date in a way that
\* matters: no transaction that may still count is forgotten while its
\* subscription is tracked.
THEOREM EvictionJustified ==
    ASSUME OneRelay
    PROVE  Spec => EvictionIsJustified
<1>1. TypeOK /\ ActivityInv /\ IInv /\ [Next]_vars =>
        [\A k \in Keys :
           /\ pending[k] \in Txs /\ pending'[k] = None
           /\ k[1] \in tracked'
           => tx_status[pending[k]] = "failed"]_vars
  BY EvictionStep
<1>. QED
  BY <1>1, ProcessorInvariant, TypeCorrect, PTL DEF Spec, EvictionIsJustified
-------------------------------------------------------------------------------
(* The retries.                                                            *)

\* The transactions sent for a run are finitely many, its failures among them.
LEMMA SentCounted ==
    ASSUME CountInv, NEW k \in Keys
    PROVE  /\ IsFiniteSet(SentFor(k)) /\ Cardinality(SentFor(k)) \in Nat
           /\ Cardinality(FailedTxs(k)) \leq Cardinality(SentFor(k))
<1>1. IsFiniteSet(SentFor(k))
  BY FS_Subset DEF CountInv, SentFor
<1>2. FailedTxs(k) \subseteq SentFor(k)
  BY DEF FailedTxs, SentFor
<1>. QED
  BY <1>1, <1>2, FS_Subset, FS_CardinalityType

\* A run that is not sent, begun or counted, whose entry stays or is dropped with
\* its subscription, or is freed by the call that worked on it.
LEMMA RetrySame ==
    ASSUME NEW k \in Keys, RetryOf(k), pending[k] \in {None, Blocked} \cup Txs,
           UNCHANGED <<SentFor(k), attempts[k]>>, InFlight(k)' => InFlight(k),
           k[1] \in tracked' =>
             /\ k[1] \in tracked
             /\ BeingStopped(k[1]) => BeingStopped(k[1])'
             /\ pending'[k] = pending[k] \/ (pending'[k] = None /\ InFlight(k)),
           \A t \in Txs : tx_status[t] = "success" => tx_status'[t] = "success"
    PROVE  RetryOf(k)'
BY KeyFacts DEF RetryOf

\* Steps that leave every run as it is, but for what is untracked.
LEMMA RetryQuiet ==
    ASSUME TypeOK, RetryInv,
           UNCHANGED <<sent, tx_key, attempts>>,
           \A p \in Procs : p_key'[p] \in {p_key[p], None},
           tracked' \subseteq tracked,
           \A s \in tracked' : BeingStopped(s) => BeingStopped(s)',
           \A k \in Keys : k[1] \in tracked' =>
             pending'[k] = pending[k] \/ (pending'[k] = None /\ InFlight(k)),
           \A t \in Txs : tx_status[t] = "success" => tx_status'[t] = "success"
    PROVE  RetryInv'
<1> SUFFICES ASSUME NEW k \in Keys PROVE RetryOf(k)'
  BY DEF RetryInv
<1>1. RetryOf(k) /\ pending[k] \in {None, Blocked} \cup Txs
  BY DEF RetryInv, TypeOK
<1>2. SentFor(k)' = SentFor(k) /\ attempts'[k] = attempts[k]
  BY DEF SentFor
<1>3. InFlight(k)' => InFlight(k)
  BY KeyFacts DEF InFlight
<1>. QED
  BY <1>1, <1>2, <1>3, RetrySame

\* The loop begins a run only where a fourth sending is out of the question, and
\* clears the attempts only of a subscription it is about to drop.
LEMMA RetryLoop ==
    ASSUME TypeOK, ActivityInv, IInv, CountInv, RetryInv, LoopStep
    PROVE  RetryInv'
<1> USE KeyFacts
<1>0. UNCHANGED <<sent, tx_key, tx_status>>
  BY DEF LoopStep, LoopTop, LoopEndPass, LoopNext, LoopCheckWallet, LoopCheckCancelled,
         LoopCheckCompleted, LoopStopUnderLock, LoopCheckResponded, chain, txs
<1>1. CASE LoopTop \/ LoopEndPass \/ \E s \in Subs : LoopNext(s)
  BY <1>0, <1>1, RetryQuiet
     DEF LoopTop, LoopEndPass, LoopNext, tables, procs, BeingStopped
<1>2. CASE LoopCheckWallet \/ LoopCheckCancelled \/ LoopStopUnderLock
  <2>1. /\ UNCHANGED <<attempts, p_key>>
        /\ UNCHANGED <<tracked, pending>> \/ StopTracking(loop_sub)
        /\ loop_pc = "lock" => tracked' = tracked \ {loop_sub}
    BY <1>2 DEF LoopCheckWallet, LoopCheckCancelled, LoopStopUnderLock, procs,
                StopTracking
  <2>. QED
    BY <1>0, <2>1, RetryQuiet DEF StopTracking, DropPending, BeingStopped
<1>3. CASE LoopCheckCompleted
  <2>1. UNCHANGED p_key /\ loop_pc = "completed"
    BY <1>3 DEF LoopCheckCompleted, procs
  <2>2. CASE UNCHANGED attempts
    <3>1. UNCHANGED <<tracked, pending>> \/ StopTracking(loop_sub)
      BY <1>3 DEF LoopCheckCompleted, tables
    <3>. QED
      BY <1>0, <2>1, <2>2, <3>1, RetryQuiet DEF StopTracking, DropPending, BeingStopped
  <2>3. CASE attempts' # attempts
    <3>1. /\ attempts' = [attempts EXCEPT ![Run(loop_sub)] = 0]
          /\ loop_pc' = "lock" /\ UNCHANGED <<tracked, pending, loop_sub>>
      BY <1>3, <2>3 DEF LoopCheckCompleted, tables
    <3>2. ASSUME NEW k \in Keys PROVE RetryOf(k)'
      <4>1. RetryOf(k) /\ SentFor(k)' = SentFor(k) /\ (InFlight(k)' <=> InFlight(k))
        BY <1>0, <2>1 DEF RetryInv, SentFor, InFlight
      <4>2. CASE k[1] = loop_sub
        <5>1. BeingStopped(k[1])'
          BY <3>1, <4>2 DEF BeingStopped
        <5>. QED
          BY <4>1, <5>1 DEF RetryOf
      <4>3. CASE k[1] # loop_sub
        <5>1. attempts'[k] = attempts[k] /\ ~BeingStopped(k[1])
          BY <3>1, <4>3 DEF Run, TypeOK, BeingStopped
        <5>. QED
          BY <1>0, <3>1, <4>1, <5>1, RetrySame DEF TypeOK
      <4>. QED
        BY <4>2, <4>3
    <3>. QED
      BY <3>2 DEF RetryInv
  <2>. QED
    BY <2>2, <2>3
<1>4. CASE LoopCheckResponded
  <2>1. /\ UNCHANGED attempts /\ loop_pc = "responded" /\ loop_pc' = "next"
        /\ loop_sub \in Subs /\ IsActive(loop_sub)
    BY <1>4 DEF LoopCheckResponded, Continue, TypeOK, ActivityInv
  <2>2. CASE UNCHANGED procs
    <3>1. UNCHANGED <<tracked, pending>> \/ StopTracking(loop_sub)
      BY <1>4, <2>2 DEF LoopCheckResponded, StartProcess, procs, TypeOK
    <3>. QED
      BY <1>0, <2>1, <2>2, <3>1, RetryQuiet
         DEF StopTracking, DropPending, BeingStopped, procs
  <2>3. ASSUME NEW p \in Procs, ~Gone(loop_sub), ~MissedDeadline(loop_sub),
               StartProcess(p, loop_sub)
        PROVE  RetryInv'
    <3>1. PICK k \in Keys : k = Run(loop_sub)
      BY <2>1, <2>3, CurrentRun
    <3>2. /\ k[1] = loop_sub /\ k[1] \in tracked /\ k[2] = Reached(loop_sub)
          /\ k[2] \in Intervals /\ k = <<loop_sub, k[2]>>
      BY <2>1, <2>3, <3>1, CurrentRun DEF Run, Gone
    <3>3. pending[k] = None
      BY <2>1, <3>2 DEF IInv, AskedInv
    <3>4. /\ UNCHANGED tracked
          /\ pending' = [pending EXCEPT ![k] = Blocked]
          /\ p_key' = [p_key EXCEPT ![p] = k]
      BY <2>3, <3>1 DEF StartProcess, MarkBlocked
    <3>5. \A s : ~BeingStopped(s) /\ ~BeingStopped(s)'
      BY <2>1 DEF BeingStopped
    <3>6. ASSUME NEW l \in Keys PROVE RetryOf(l)'
      <4>1. RetryOf(l) /\ SentFor(l)' = SentFor(l)
        BY <1>0 DEF RetryInv, SentFor
      <4>2. CASE l = k
        <5>1. Cardinality(SentFor(k)) \leq attempts[k] /\ attempts[k] < MaxAttempts
          BY <3>2, <3>3, <3>5, <4>1, <4>2 DEF RetryOf
        <5>2. attempts'[k] = attempts[k] /\ pending'[k] = Blocked
          BY <2>1, <3>4 DEF TypeOK
        <5>3. Cardinality(SentFor(k)) < MaxAttempts
          <6>1. attempts[k] \in 0 .. MaxAttempts /\ Cardinality(SentFor(k)) \in Nat
            BY SentCounted DEF TypeOK
          <6>. QED
            BY <5>1, <6>1 DEF MaxAttempts
        <5>. QED
          BY <4>1, <4>2, <5>1, <5>2, <5>3 DEF RetryOf
      <4>3. CASE l # k
        <5>1. pending'[l] = pending[l] /\ (InFlight(l)' => InFlight(l))
          BY <3>4, <4>3 DEF TypeOK, InFlight
        <5>. QED
          BY <1>0, <2>1, <3>4, <3>5, <4>1, <5>1, RetrySame DEF TypeOK
      <4>. QED
        BY <4>2, <4>3
    <3>. QED
      BY <3>6 DEF RetryInv
  <2>. QED
    BY <1>4, <2>2, <2>3 DEF LoopCheckResponded, MissedMeanwhile
<1>. QED
  BY <1>1, <1>2, <1>3, <1>4 DEF LoopStep

\* A receipt clears the attempts only of a run that was answered or is untracked.
LEMMA RetryCheck ==
    ASSUME TypeOK, IInv, RetryInv, NEW q \in Keys, PruneCheck(q)
    PROVE  RetryInv'
<1> USE KeyFacts
<1>1. UNCHANGED <<sent, tx_key, tx_status, p_key, tracked, pending, loop_pc, loop_sub>>
  BY DEF PruneCheck, PruneFound, PruneNotFound, tables, chain, txs, procs, loop
<1>2. CASE UNCHANGED attempts
  BY <1>1, <1>2, RetryQuiet DEF BeingStopped
<1>3. CASE attempts' # attempts
  <2>1. attempts' = [attempts EXCEPT ![q] = 0] /\ Receipt(prune_snap[q]) = "success"
    BY <1>3 DEF PruneCheck, PruneFound, PruneNotFound, tables
  <2>2. prune_snap[q] \in Txs /\ tx_status[prune_snap[q]] = "success"
    BY <2>1 DEF PruneCheck, PruneFound, PruneNotFound, IInv, PruneInv, Receipt
  <2>3. ASSUME NEW k \in Keys PROVE RetryOf(k)'
    <3>1. /\ RetryOf(k) /\ SentFor(k)' = SentFor(k) /\ (InFlight(k)' <=> InFlight(k))
          /\ BeingStopped(k[1])' <=> BeingStopped(k[1])
      BY <1>1 DEF RetryInv, SentFor, InFlight, BeingStopped
    <3>2. CASE k = q /\ k[1] \in tracked
      <4>1. pending[k] = prune_snap[q]
        BY <2>2, <3>2 DEF IInv, PruneInv
      <4>2. pending[k] # None /\ ~InFlight(k)
        BY <2>2, <3>2, <4>1 DEF IInv, ProcessInv, InFlight
      <4>. QED
        BY <1>1, <2>2, <3>1, <4>1, <4>2 DEF RetryOf
    <3>3. CASE k[1] \notin tracked
      BY <1>1, <3>1, <3>3 DEF RetryOf
    <3>4. CASE k # q
      <4>1. attempts'[k] = attempts[k]
        BY <2>1, <3>4 DEF TypeOK
      <4>. QED
        BY <1>1, <3>1, <4>1, RetrySame DEF TypeOK
    <3>. QED
      BY <3>2, <3>3, <3>4
  <2>. QED
    BY <2>3 DEF RetryInv
<1>. QED
  BY <1>2, <1>3

\* The end of a prune counts the failure of the entry before it frees the run.
LEMMA RetryFinish ==
    ASSUME TypeOK, IInv, CountInv, RetryInv, PruneFinish
    PROVE  RetryInv'
<1> USE KeyFacts
<1>1. UNCHANGED <<sent, tx_key, tx_status, p_key, tracked, loop_pc, loop_sub>>
  BY DEF PruneFinish, chain, txs, procs, loop
<1> SUFFICES ASSUME NEW k \in Keys PROVE RetryOf(k)'
  BY DEF RetryInv
<1>2. /\ RetryOf(k) /\ SentFor(k)' = SentFor(k) /\ (InFlight(k)' <=> InFlight(k))
      /\ BeingStopped(k[1])' <=> BeingStopped(k[1])
  BY <1>1 DEF RetryInv, SentFor, InFlight, BeingStopped
<1>3. CASE k \notin prune_failed
  <2>1. pending'[k] = pending[k] /\ attempts'[k] = attempts[k]
    BY <1>3 DEF PruneFinish
  <2>. QED
    BY <1>1, <1>2, <2>1, RetrySame DEF TypeOK
<1>4. CASE k[1] \notin tracked \/ BeingStopped(k[1])
  BY <1>1, <1>2, <1>4 DEF RetryOf
<1>5. CASE k \in prune_failed /\ k[1] \in tracked /\ ~BeingStopped(k[1])
  <2>1. /\ prune_snap[k] \in Txs /\ tx_status[prune_snap[k]] = "failed"
        /\ pending[k] = prune_snap[k]
    BY <1>5 DEF IInv, PruneInv
  <2>2. ~InFlight(k)
    BY <1>5, <2>1 DEF IInv, ProcessInv, InFlight
  <2>3. attempts[k] = MaxAttempts \/ Cardinality(SentFor(k)) \leq attempts[k] + 1
    BY <1>2, <1>5, <2>1 DEF RetryOf
  <2>4. /\ attempts'[k] = Counted(k)
        /\ pending'[k] = IF Counted(k) < MaxAttempts THEN None ELSE pending[k]
    BY <1>5 DEF PruneFinish, Evictable
  <2>5. attempts[k] \in 0 .. MaxAttempts /\ Cardinality(SentFor(k)) \in Nat
    BY SentCounted DEF TypeOK
  <2>6. /\ attempts'[k] = MaxAttempts \/ Cardinality(SentFor(k)) \leq attempts'[k]
        /\ attempts'[k] \in 0 .. MaxAttempts
    BY <2>3, <2>4, <2>5 DEF Counted, MaxAttempts
  <2>7. CASE Counted(k) < MaxAttempts
    <3>1. /\ pending'[k] = None /\ attempts'[k] < MaxAttempts
          /\ Cardinality(SentFor(k)) \leq attempts'[k]
      BY <2>4, <2>6, <2>7 DEF MaxAttempts
    <3>. QED
      BY <1>2, <2>2, <3>1 DEF RetryOf
  <2>8. CASE ~(Counted(k) < MaxAttempts)
    <3>1. pending'[k] = pending[k] /\ attempts'[k] = MaxAttempts
      BY <2>4, <2>6, <2>8 DEF MaxAttempts
    <3>. QED
      BY <1>2, <2>1, <2>2, <3>1 DEF RetryOf
  <2>. QED
    BY <2>7, <2>8
<1>. QED
  BY <1>3, <1>4, <1>5

\* A call sends at most once, for a run that may be sent once more.
LEMMA RetrySend ==
    ASSUME TypeOK, IInv, CountInv, RetryInv, NEW p \in Procs, NEW t \in Txs,
           p_key[p] \in Keys, EndProcess(p), Broadcast(t, p),
           UNCHANGED <<attempts, loop_pc, loop_sub>>, tracked' \subseteq tracked,
           \A l \in Keys : l[1] \in tracked' =>
             \/ pending'[l] = pending[l]
             \/ l = p_key[p] /\ pending'[l] = t
    PROVE  RetryInv'
<1> USE KeyFacts
<1>0. PICK k \in Keys : k = p_key[p]
  OBVIOUS
<1>1. /\ sent' = sent \cup {t} /\ t \notin sent
      /\ tx_key' = [tx_key EXCEPT ![t] = k] /\ tx_key[t] = None
      /\ \A u \in Txs : tx_status[u] = "success" => tx_status'[u] = "success"
  BY <1>0 DEF Broadcast, TypeOK
<1>2. /\ \A q \in Procs : q # p => p_key'[q] = p_key[q] /\ p_key[q] # k
      /\ p_key'[p] = None
  BY <1>0 DEF IInv, ProcessInv, EndProcess, TypeOK
<1>3. InFlight(k) /\ ~InFlight(k)'
  BY <1>0, <1>2 DEF InFlight
<1>4. \A s : BeingStopped(s)' <=> BeingStopped(s)
  BY DEF BeingStopped
<1>5. ASSUME NEW l \in Keys PROVE RetryOf(l)'
  <2>1. RetryOf(l)
    BY DEF RetryInv
  <2>2. CASE l # k
    <3>1. SentFor(l)' = SentFor(l)
      BY <1>1, <2>2 DEF SentFor, TypeOK
    <3>2. InFlight(l)' => InFlight(l)
      BY <1>2 DEF InFlight
    <3>3. l[1] \in tracked' => pending'[l] = pending[l]
      BY <1>0, <2>2
    <3>. QED
      BY <1>1, <1>4, <2>1, <3>1, <3>2, <3>3, RetrySame DEF TypeOK
  <2>3. CASE l = k
    <3>1. SentFor(k)' = SentFor(k) \cup {t} /\ t \notin SentFor(k)
      BY <1>1 DEF SentFor, TypeOK
    <3>2. /\ Cardinality(SentFor(k)) \in Nat
          /\ Cardinality(SentFor(k)') = Cardinality(SentFor(k)) + 1
      BY <3>1, SentCounted, FS_AddElement
    <3>3. Cardinality(SentFor(k)) < MaxAttempts
      BY <1>3, <2>1, <2>3 DEF RetryOf
    <3>5. Cardinality(SentFor(k)') \leq MaxAttempts
      BY <3>2, <3>3 DEF MaxAttempts
    <3>6. ASSUME k[1] \in tracked', ~BeingStopped(k[1])'
          PROVE  pending'[k] # None /\ Cardinality(SentFor(k)') \leq attempts'[k] + 1
      <4>1. k[1] \in tracked /\ ~BeingStopped(k[1])
        BY <1>4, <3>6
      <4>2. Cardinality(SentFor(k)) \leq attempts[k]
        BY <1>3, <2>1, <2>3, <4>1 DEF RetryOf
      <4>3. pending[k] = Blocked
        BY <1>0, <4>1 DEF IInv, ProcessInv
      <4>4. pending'[k] # None
        BY <3>6, <4>3
      <4>5. attempts'[k] = attempts[k] /\ attempts[k] \in 0 .. MaxAttempts
        BY DEF TypeOK
      <4>6. Cardinality(SentFor(k)') \leq attempts'[k] + 1
        BY <3>2, <4>2, <4>5 DEF MaxAttempts
      <4>. QED
        BY <4>4, <4>6
    <3>. QED
      BY <1>3, <2>3, <3>5, <3>6 DEF RetryOf
  <2>. QED
    BY <2>2, <2>3
<1>. QED
  BY <1>5 DEF RetryInv

\* Every other step of a call leaves the runs as they are.
LEMMA RetryProc ==
    ASSUME TypeOK, ActivityInv, IInv, CountInv, RetryInv, NEW p \in Procs, ProcStep(p)
    PROVE  RetryInv'
<1> USE KeyFacts
<1>1. /\ UNCHANGED <<attempts, loop_pc, loop_sub>> /\ p_pc[p] # "idle"
      /\ \A q \in Procs : p_key'[q] \in {p_key[q], None}
  BY DEF ProcStep, ProcSimulated, ProcSimulationRejected, ProcExecuted,
         ProcContainerFailed, ProcEscrowed, ProcDeliverSimulated, ProcSubmit, ProcWrite,
         ProcDeliverFailed, EndProcess, tables, loop, TypeOK
<1>2. p_key[p] \in Keys
  BY <1>1, ProcTypes
<1>3. CASE /\ UNCHANGED <<sent, tx_key, tx_status>>
           /\ \/ UNCHANGED <<tracked, pending>>
              \/ StopTracking(SubOf(p))
              \/ pending' = [pending EXCEPT ![p_key[p]] = None] /\ UNCHANGED tracked
  <2>1. InFlight(p_key[p])
    BY DEF InFlight
  <2>2. /\ tracked' \subseteq tracked
        /\ \A k \in Keys : k[1] \in tracked' =>
             pending'[k] = pending[k] \/ (pending'[k] = None /\ InFlight(k))
    BY <1>2, <1>3, <2>1 DEF StopTracking, DropPending, TypeOK
  <2>. QED
    BY <1>1, <1>3, <2>2, RetryQuiet DEF BeingStopped
<1>4. CASE \/ ProcSimulated(p) \/ ProcExecuted(p) \/ ProcEscrowed(p)
           \/ ProcDeliverSimulated(p) \/ ProcSubmit(p)
           \/ ProcSimulationRejected(p) \/ ProcContainerFailed(p)
  BY <1>3, <1>4 DEF ProcSimulated, ProcSimulationRejected, ProcExecuted,
       ProcContainerFailed, ProcEscrowed, ProcDeliverSimulated, ProcSubmit, tables,
       chain, txs
<1>5. CASE ProcWrite(p)
  <2>1. PICK t \in Txs : Broadcast(t, p) /\ pending' = [pending EXCEPT ![p_key[p]] = t]
    BY <1>5 DEF ProcWrite
  <2>2. EndProcess(p) /\ UNCHANGED tracked
    BY <1>5 DEF ProcWrite
  <2>. QED
    BY <1>1, <1>2, <2>1, <2>2, RetrySend DEF TypeOK
<1>6. CASE ProcDeliverFailed(p)
  <2>1. /\ EndProcess(p)
        /\ UNCHANGED <<tracked, pending>> \/ StopTracking(SubOf(p))
        /\ UNCHANGED txs \/ \E t \in Txs : Broadcast(t, p)
    BY <1>6 DEF ProcDeliverFailed, StopIfCallback
  <2>2. CASE UNCHANGED txs
    BY <1>3, <2>1, <2>2 DEF txs
  <2>3. ASSUME NEW t \in Txs, Broadcast(t, p)
        PROVE  RetryInv'
    BY <1>1, <1>2, <2>1, <2>3, RetrySend DEF StopTracking, DropPending
  <2>. QED
    BY <2>1, <2>2, <2>3
<1>. QED
  BY <1>4, <1>5, <1>6 DEF ProcStep

\* The first relay finds nothing sent and nothing counted; a process that starts
\* has sent nothing; the chain and the clock leave the runs as they are.
LEMMA RetryEnvironment ==
    ASSUME TypeOK, TypeOK', IInv, CountInv, AttemptsAreFailures, RetryInv, OneRelay,
           \/ \E t \in Txs : Mine(t)
           \/ \E s \in Subs : Track(s) \/ OthersRespond(s) \/ Cancel(s)
           \/ Tick
           \/ CrashRestart
           \/ UNCHANGED vars
    PROVE  RetryInv'
<1> USE KeyFacts
<1>1. CASE CrashRestart
  <2>1. ASSUME NEW k \in Keys PROVE RetryOf(k)'
    <3>1. tracked' = {} /\ sent' = {} /\ \A p \in Procs : p_key'[p] = None
      BY <1>1 DEF CrashRestart
    <3>2. ~InFlight(k)' /\ SentFor(k)' = {}
      BY <3>1 DEF InFlight, SentFor
    <3>. QED
      BY <3>1, <3>2, FS_EmptySet DEF RetryOf, MaxAttempts
  <2>. QED
    BY <2>1 DEF RetryInv
<1>2. ASSUME NEW s \in Subs, Track(s)
      PROVE  RetryInv'
  <2>1. /\ UNCHANGED <<pending, attempts, loop_pc, loop_sub, p_key, sent, tx_key, tx_status>>
        /\ relays[s] = 0 /\ tracked' = tracked \cup {s}
    <3>1. relays \in [Subs -> 0 .. 1] /\ relays[s] < 1
      BY <1>2 DEF Track, OneRelay, TypeOK
    <3>2. relays[s] = 0
      BY <3>1
    <3>. QED
      BY <1>2, <3>2 DEF Track, loop, procs, chain, txs
  <2>2. ASSUME NEW k \in Keys PROVE RetryOf(k)'
    <3>1. /\ RetryOf(k) /\ SentFor(k)' = SentFor(k) /\ (InFlight(k)' <=> InFlight(k))
          /\ BeingStopped(k[1])' <=> BeingStopped(k[1])
      BY <2>1 DEF RetryInv, SentFor, InFlight, BeingStopped
    <3>2. CASE k[1] = s
      <4>1. pending[k] = None /\ ~InFlight(k) /\ SentFor(k) = {} /\ FailedTxs(k) = {}
        BY <2>1, <3>2 DEF IInv, RelayInv, InFlight, SentFor, FailedTxs
      <4>2. Cardinality(SentFor(k)) = 0 /\ Cardinality(FailedTxs(k)) = 0
        BY <4>1, FS_EmptySet
      <4>3. attempts[k] \in 0 .. MaxAttempts /\ attempts[k] \leq Cardinality(FailedTxs(k))
        BY DEF AttemptsAreFailures, TypeOK
      <4>4. attempts[k] = 0
        BY <4>2, <4>3 DEF MaxAttempts
      <4>. QED
        BY <2>1, <3>1, <4>1, <4>2, <4>4 DEF RetryOf, MaxAttempts
    <3>3. CASE k[1] # s
      BY <2>1, <3>1, <3>3, RetrySame DEF TypeOK
    <3>. QED
      BY <3>2, <3>3
  <2>. QED
    BY <2>2 DEF RetryInv
<1>3. CASE \/ \E t \in Txs : Mine(t)
           \/ \E s \in Subs : OthersRespond(s) \/ Cancel(s)
           \/ Tick
           \/ UNCHANGED vars
  <2>1. /\ UNCHANGED <<tracked, pending, attempts, loop_pc, loop_sub, p_key, sent, tx_key>>
        /\ \A t \in Txs : tx_status[t] = "success" => tx_status'[t] = "success"
    BY <1>3 DEF Mine, MineSuccess, MineFailure, OthersRespond, Cancel, Tick, vars, tables,
                loop, procs, chain, txs, TypeOK
  <2>. QED
    BY <2>1, RetryQuiet DEF BeingStopped
<1>. QED
  BY <1>1, <1>2, <1>3

LEMMA RetryStep ==
    ASSUME OneRelay, TypeOK, ActivityInv, IInv, CountInv, AttemptsAreFailures, RetryInv,
           [Next]_vars
    PROVE  RetryInv'
<1>1. TypeOK'
  BY TypeStep
<1>. QED
  BY <1>1, RetryLoop, RetryCheck, RetryFinish, RetryProc, RetryEnvironment
     DEF Next, PruneStep

\* In each life of the process no run is sent more than three times, however many
\* prunes are launched, wait and finish while the loop, the calls and the chain go on.
THEOREM RetriesBounded ==
    ASSUME OneRelay
    PROVE  Spec => [](LifeInv /\ RetryBound)
<1>1. Init => RetryInv
  <2> SUFFICES ASSUME Init, NEW k \in Keys PROVE RetryOf(k)
    BY DEF RetryInv
  <2>1. ~InFlight(k) /\ SentFor(k) = {} /\ tracked = {}
    BY KeyFacts DEF Init, InFlight, SentFor
  <2>. QED
    BY <2>1, FS_EmptySet DEF RetryOf, MaxAttempts
<1>2. TypeOK /\ ActivityInv /\ IInv /\ CountInv /\ AttemptsAreFailures /\ RetryInv
        /\ [Next]_vars => RetryInv'
  BY RetryStep
<1>3. TypeOK /\ CountInv /\ RetryInv => RetryBound
  <2> SUFFICES ASSUME TypeOK, CountInv, RetryInv, NEW k \in Keys
               PROVE  Cardinality(FailedTxs(k)) \leq MaxAttempts
    BY DEF RetryBound
  <2>1. /\ Cardinality(SentFor(k)) \leq MaxAttempts /\ Cardinality(SentFor(k)) \in Nat
        /\ Cardinality(FailedTxs(k)) \leq Cardinality(SentFor(k))
        /\ Cardinality(FailedTxs(k)) \in Nat
    BY SentCounted, FailuresCounted DEF RetryInv, RetryOf, CountInv
  <2>. QED
    BY <2>1 DEF MaxAttempts
<1>4. IInv /\ CountInv /\ RetryInv => LifeInv
  BY DEF LifeInv
<1>. QED
  BY <1>1, <1>2, <1>3, <1>4, ProcessorInvariant, AttemptsCount, TypeCorrect, PTL DEF Spec
===============================================================================
