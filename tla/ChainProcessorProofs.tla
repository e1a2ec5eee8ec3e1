------------------------- MODULE ChainProcessorProofs -------------------------
(***************************************************************************)
(* Proofs about the chain processor, for every set of subscriptions, every *)
(* parameter record and every bound, and however often the listener relays *)
(* and the node restarts: the type invariant of Spec, what the markers in  *)
(* the pending table stand for, and what the attempts count.               *)
(***************************************************************************)
EXTENDS ChainProcessorInv, SubscriptionProofs, FiniteSetTheorems

\* A key is a subscription and an interval, and never the empty entry.
LEMMA KeyFacts ==
    /\ None \notin Keys /\ None \notin Txs /\ Blocked \notin Txs /\ None # Blocked
    /\ None \notin Subs
    /\ \A k \in Keys : k[1] \in Subs /\ k[2] \in Intervals /\ k = <<k[1], k[2]>>
BY ProcessorAssumption DEF Keys, Intervals

\* The interval of an active subscription is a positive number, and before the
\* deadline it names one of the subscription's runs.
LEMMA CurrentRun ==
    ASSUME TypeOK, NEW s \in Subs, IsActive(s)
    PROVE  /\ CurrentInterval(s) \in Nat \ {0}
           /\ CurrentInterval(s) = Reached(s)
           /\ ~MissedDeadline(s) => CurrentInterval(s) \in Intervals /\ Run(s) \in Keys
<1>1. Param[s] \in SubscriptionRecord /\ clock \in Nat
  BY ProcessorAssumption DEF TypeOK
<1>2. CurrentInterval(s) \in Nat \ {0}
  BY <1>1, IntervalPositive DEF CurrentInterval, IsActive
<1>3. CurrentInterval(s) = Reached(s)
  BY DEF CurrentInterval, Reached, IntervalOrZero, IsActive
<1>4. ASSUME ~MissedDeadline(s)
      PROVE  CurrentInterval(s) \in Intervals
  <2>1. CurrentInterval(s) \leq Param[s].frequency
    BY <1>1, <1>2, <1>4 DEF MissedDeadline, IsPastLast, PastLastInterval, IsActive,
       CurrentInterval, SubscriptionRecord
  <2>2. Param[s].frequency \in Nat /\ Param[s].frequency \leq MaxFrequency
           /\ MaxFrequency \in Nat
    BY <1>1, ProcessorAssumption DEF SubscriptionRecord
  <2>. QED
    BY <1>2, <2>1, <2>2 DEF Intervals
<1>. QED
  BY <1>2, <1>3, <1>4 DEF Run, Keys

\* Once begun, an interval stays begun, and an active subscription active.
LEMMA ReachedMonotone ==
    ASSUME TypeOK, clock' \in Nat, clock \leq clock', NEW s \in Subs
    PROVE  /\ Reached(s) \leq Reached(s)'
           /\ IsActive(s) => IsActive(s)'
<1>1. Param[s] \in SubscriptionRecord /\ clock \in Nat
  BY ProcessorAssumption DEF TypeOK
<1>2. Reached(s) \leq Reached(s)'
  BY <1>1, IntervalMonotone DEF Reached
<1>. QED
  BY <1>1, <1>2 DEF IsActive, Active, SubscriptionRecord

\* The tables after stop_tracking are well formed.
LEMMA StopTrackingType ==
    ASSUME TypeOK, NEW s, StopTracking(s)
    PROVE  /\ tracked' \subseteq Subs
           /\ pending' \in [Keys -> {None, Blocked} \cup Txs]
BY DEF TypeOK, StopTracking, DropPending

\* So is the copy a prune works from.
LEMMA BeginPruneType ==
    ASSUME NEW table, BeginPrune(table)
    PROVE  /\ prune_pc' \in {"idle", "receipts"}
           /\ prune_snap' \in [Keys -> {None} \cup Txs]
           /\ prune_todo' \subseteq Keys
           /\ prune_failed' \subseteq Keys
BY DEF BeginPrune

\* The initial states are well formed.
LEMMA TypeInit == Init => TypeOK /\ ActivityInv
<1> SUFFICES ASSUME Init PROVE TypeOK /\ ActivityInv
  OBVIOUS
<1>1. /\ tracked \subseteq Subs /\ relays \in [Subs -> 0 .. MaxRelays]
      /\ pending \in [Keys -> {None, Blocked} \cup Txs]
      /\ attempts \in [Keys -> 0 .. MaxAttempts]
  BY ProcessorAssumption DEF Init, MaxAttempts
<1>2. /\ prune_snap \in [Keys -> {None} \cup Txs] /\ prune_todo \subseteq Keys
      /\ prune_failed \subseteq Keys /\ prune_queue \in 0 .. MaxQueue
      /\ prune_pc \in {"idle", "receipts"}
  BY ProcessorAssumption DEF Init
<1>3. /\ clock \in 0 .. MaxClock /\ restarts \in 0 .. MaxRestarts
      /\ responded \subseteq Keys /\ full \subseteq Keys /\ cancelled \subseteq Subs
  BY ProcessorAssumption DEF Init
<1>4. /\ tx_key \in [Txs -> Keys \cup {None}] /\ tx_interval \in [Txs -> Nat]
      /\ tx_status \in [Txs -> TxStatus]
      /\ \A t \in Txs : tx_status[t] = "unsent" <=> tx_key[t] = None
      /\ sent = {}
  BY DEF Init, TxStatus
<1>5. /\ p_pc \in [Procs -> ProcPcs] /\ p_key \in [Procs -> Keys \cup {None}]
      /\ \A p \in Procs : p_pc[p] = "idle" <=> p_key[p] = None
      /\ p_interval \in [Procs -> Nat]
  BY DEF Init, ProcPcs
<1>6. /\ loop_pc \in LoopPcs /\ loop_sub \in Subs \cup {None} /\ loop_seen \in Nat
      /\ loop_todo \subseteq Subs /\ loop_pc = "top"
  BY DEF Init, LoopPcs
<1>7. ActivityInv
  BY DEF Init, ActivityInv
<1>. QED
  BY <1>1, <1>2, <1>3, <1>4, <1>5, <1>6, <1>7 DEF TypeOK

\* Every step of the loop keeps the types.
LEMMA TypeLoop ==
    ASSUME TypeOK, ActivityInv, LoopStep
    PROVE  TypeOK' /\ ActivityInv'
<1> USE DEF tables, loop, prune, procs, txs, settled, chain, Continue, LoopPcs
<1> USE KeyFacts
<1>1. CASE LoopTop
  <2>1. /\ prune_pc' \in {"idle", "receipts"}
        /\ prune_snap' \in [Keys -> {None} \cup Txs]
        /\ prune_todo' \subseteq Keys
        /\ prune_failed' \subseteq Keys
        /\ prune_queue' \in 0 .. MaxQueue
    BY <1>1, BeginPruneType, ProcessorAssumption DEF LoopTop, TypeOK
  <2>. QED
    BY <1>1, <2>1 DEF LoopTop, TypeOK, ActivityInv, IsActive
<1>2. CASE LoopEndPass
  BY <1>2 DEF LoopEndPass, TypeOK, ActivityInv, IsActive
<1>3. CASE \E s \in Subs : LoopNext(s)
  BY <1>3 DEF LoopNext, TypeOK, ActivityInv, IsActive
<1>4. CASE LoopCheckWallet
  BY <1>4, StopTrackingType DEF LoopCheckWallet, TypeOK, ActivityInv, IsActive
<1>5. CASE LoopCheckCancelled
  BY <1>5, StopTrackingType, CurrentRun
     DEF LoopCheckCancelled, Ignored, TypeOK, ActivityInv, IsActive
<1>6. CASE LoopCheckCompleted
  BY <1>6, StopTrackingType, CurrentRun
     DEF LoopCheckCompleted, TypeOK, ActivityInv, IsActive, MaxAttempts
<1>7. CASE LoopStopUnderLock
  BY <1>7, StopTrackingType DEF LoopStopUnderLock, TypeOK, ActivityInv, IsActive
<1>8. CASE LoopCheckResponded
  <2>1. loop_sub \in Subs /\ IsActive(loop_sub)
    BY <1>8 DEF LoopCheckResponded, TypeOK, ActivityInv
  <2>0. /\ loop_pc' = "next" /\ loop_sub' = None /\ loop_seen' = 0
        /\ UNCHANGED <<attempts, relays, loop_todo, prune, chain, restarts>>
    BY <1>8 DEF LoopCheckResponded
  <2>2. CASE \E p \in Procs : ~MissedDeadline(loop_sub) /\ StartProcess(p, loop_sub)
    <3>1. PICK p \in Procs : ~MissedDeadline(loop_sub) /\ StartProcess(p, loop_sub)
      BY <2>2
    <3>2. Run(loop_sub) \in Keys /\ Run(loop_sub)[1] = loop_sub
      BY <2>1, <3>1, CurrentRun DEF Run
    <3>3. /\ tracked' \subseteq Subs
          /\ pending' \in [Keys -> {None, Blocked} \cup Txs]
      BY <3>1, <3>2 DEF StartProcess, MarkBlocked, TypeOK
    <3>4. /\ p_pc' \in [Procs -> ProcPcs]
          /\ p_key' \in [Procs -> Keys \cup {None}]
          /\ p_interval' \in [Procs -> Nat]
          /\ \A q \in Procs : p_pc'[q] = "idle" <=> p_key'[q] = None
      BY <3>1, <3>2 DEF StartProcess, TypeOK, ProcPcs
    <3>5. ASSUME NEW q \in Procs, p_key'[q] # None
          PROVE  IsActive(p_key[q][1])'
      <4>1. clock' = clock
        BY <2>0
      <4>2. CASE q = p
        BY <2>1, <3>1, <3>2, <4>1, <4>2 DEF StartProcess, TypeOK, IsActive
      <4>3. CASE q # p
        BY <3>1, <3>5, <4>1, <4>3 DEF StartProcess, TypeOK, ActivityInv, IsActive
      <4>. QED
        BY <4>2, <4>3
    <3>. QED
      BY <2>0, <3>3, <3>4, <3>5 DEF TypeOK, ActivityInv
  <2>3. CASE UNCHANGED procs
    <3>1. /\ tracked' \subseteq Subs
          /\ pending' \in [Keys -> {None, Blocked} \cup Txs]
      BY <1>8, <2>3, StopTrackingType DEF LoopCheckResponded, TypeOK, StartProcess
    <3>. QED
      BY <2>0, <2>3, <3>1 DEF TypeOK, ActivityInv, IsActive
  <2>. QED
    BY <1>8, <2>2, <2>3 DEF LoopCheckResponded, MissedMeanwhile
<1>. QED
  BY <1>1, <1>2, <1>3, <1>4, <1>5, <1>6, <1>7, <1>8 DEF LoopStep

\* Every step of a prune keeps the types.
LEMMA TypePrune ==
    ASSUME TypeOK, ActivityInv, PruneStep
    PROVE  TypeOK' /\ ActivityInv'
<1> USE DEF tables, loop, prune, procs, txs, settled, chain
<1>1. CASE \E k \in Keys : PruneCheck(k)
  BY <1>1 DEF PruneCheck, PruneFound, PruneNotFound, Receipt, TypeOK, ActivityInv,
              IsActive, MaxAttempts
<1>2. CASE PruneFinish
  <2>1. attempts' \in [Keys -> 0 .. MaxAttempts]
    BY <1>2 DEF PruneFinish, Counted, TypeOK, MaxAttempts
  <2>2. pending' \in [Keys -> {None, Blocked} \cup Txs]
    BY <1>2 DEF PruneFinish, TypeOK
  <2>3. /\ prune_pc' \in {"idle", "receipts"}
        /\ prune_snap' \in [Keys -> {None} \cup Txs]
        /\ prune_todo' \subseteq Keys
        /\ prune_failed' \subseteq Keys
        /\ prune_queue' \in 0 .. MaxQueue
    <3>1. CASE BeginPrune(pending') /\ prune_queue > 0 /\ prune_queue' = prune_queue - 1
      BY <3>1, BeginPruneType, ProcessorAssumption DEF TypeOK
    <3>2. CASE ~(BeginPrune(pending') /\ prune_queue > 0 /\ prune_queue' = prune_queue - 1)
      BY <1>2, <3>2 DEF PruneFinish, TypeOK
    <3>. QED
      BY <3>1, <3>2
  <2>4. UNCHANGED <<tracked, relays, loop, procs, chain, restarts>>
    BY <1>2 DEF PruneFinish
  <2>. QED
    BY <2>1, <2>2, <2>3, <2>4 DEF TypeOK, ActivityInv, IsActive
<1>. QED
  BY <1>1, <1>2 DEF PruneStep

\* Ending or advancing a call keeps the types of the calls.
LEMMA ProcTypes ==
    ASSUME TypeOK, ActivityInv, NEW p \in Procs, p_pc[p] # "idle"
    PROVE  /\ p_key[p] \in Keys /\ SubOf(p) \in Subs /\ IsActive(SubOf(p))
           /\ EndProcess(p) =>
                /\ p_pc' \in [Procs -> ProcPcs]
                /\ p_key' \in [Procs -> Keys \cup {None}]
                /\ \A q \in Procs : p_pc'[q] = "idle" <=> p_key'[q] = None
                /\ \A q \in Procs : p_key'[q] # None => p_key'[q] = p_key[q]
                /\ p_interval' \in [Procs -> Nat]
           /\ \A pc \in ProcPcs \ {"idle"} : Advance(p, pc) =>
                /\ p_pc' \in [Procs -> ProcPcs]
                /\ \A q \in Procs : p_pc'[q] = "idle" <=> p_key[q] = None
           /\ BeginDeliver(p) => p_interval' \in [Procs -> Nat]
<1>1. p_key[p] \in Keys /\ SubOf(p) \in Subs /\ IsActive(SubOf(p))
  BY KeyFacts DEF TypeOK, ActivityInv, SubOf
<1>2. CurrentInterval(SubOf(p)) \in Nat
  BY <1>1, CurrentRun
<1>3. BeginDeliver(p) => p_interval' \in [Procs -> Nat]
  BY <1>2 DEF BeginDeliver, TypeOK
<1>. QED
  BY <1>1, <1>3 DEF EndProcess, Advance, TypeOK, ProcPcs

\* A broadcast transaction is well formed.
LEMMA BroadcastType ==
    ASSUME TypeOK, NEW t \in Txs, NEW p \in Procs, p_key[p] \in Keys, Broadcast(t, p)
    PROVE  /\ tx_key' \in [Txs -> Keys \cup {None}]
           /\ tx_interval' \in [Txs -> Nat]
           /\ tx_status' \in [Txs -> TxStatus]
           /\ \A u \in Txs : tx_status'[u] = "unsent" <=> tx_key'[u] = None
           /\ sent' \subseteq {u \in Txs : tx_status'[u] # "unsent"}
BY KeyFacts DEF Broadcast, TypeOK, TxStatus

\* Every step of a process_subscription call keeps the types.
LEMMA TypeProc ==
    ASSUME TypeOK, ActivityInv, NEW p \in Procs, ProcStep(p)
    PROVE  TypeOK' /\ ActivityInv'
<1> USE DEF tables, loop, prune, procs, txs, settled, chain
<1> USE ProcTypes
<1>1. CASE ProcSimulated(p)
  BY <1>1 DEF ProcSimulated, TypeOK, ActivityInv, IsActive, ProcPcs
<1>2. CASE ProcSimulationRejected(p)
  BY <1>2, StopTrackingType DEF ProcSimulationRejected, TypeOK, ActivityInv, IsActive
<1>3. CASE ProcExecuted(p)
  BY <1>3 DEF ProcExecuted, BeginDeliver, TypeOK, ActivityInv, IsActive, ProcPcs
<1>4. CASE ProcContainerFailed(p)
  BY <1>4, StopTrackingType DEF ProcContainerFailed, TypeOK, ActivityInv, IsActive
<1>5. CASE ProcEscrowed(p)
  BY <1>5 DEF ProcEscrowed, BeginDeliver, TypeOK, ActivityInv, IsActive, ProcPcs
<1>6. CASE ProcDeliverSimulated(p)
  BY <1>6 DEF ProcDeliverSimulated, TypeOK, ActivityInv, IsActive, ProcPcs
<1>7. CASE ProcSubmit(p)
  BY <1>7 DEF ProcSubmit, TypeOK, ActivityInv, IsActive, ProcPcs
<1>8. CASE ProcWrite(p)
  BY <1>8, BroadcastType DEF ProcWrite, TypeOK, ActivityInv, IsActive
<1>9. CASE ProcDeliverFailed(p)
  BY <1>9, BroadcastType, StopTrackingType
     DEF ProcDeliverFailed, StopIfCallback, TypeOK, ActivityInv, IsActive
<1>. QED
  BY <1>1, <1>2, <1>3, <1>4, <1>5, <1>6, <1>7, <1>8, <1>9 DEF ProcStep

\* The listener, the chain, the clock and a crash keep the types.
LEMMA TypeEnvironment ==
    ASSUME TypeOK, ActivityInv,
           \/ \E t \in Txs : Mine(t)
           \/ \E s \in Subs : Track(s) \/ OthersRespond(s) \/ Cancel(s)
           \/ Tick
           \/ CrashRestart
    PROVE  TypeOK' /\ ActivityInv'
<1> USE DEF tables, loop, prune, procs, txs, settled, chain
<1>1. CASE \E t \in Txs : MineSuccess(t)
  <2>1. PICK t \in Txs : MineSuccess(t)
    BY <1>1
  <2>2. tx_key[t] \in Keys
    BY <2>1 DEF MineSuccess, TypeOK
  <2>3. <<tx_key[t][1], tx_interval[t]>> \in Keys
    <3>1. tx_key[t][1] \in Subs /\ tx_interval[t] \in Nat
      BY <2>2, KeyFacts DEF TypeOK
    <3>2. /\ IsActive(tx_key[t][1])
          /\ tx_interval[t] = CurrentInterval(tx_key[t][1])
          /\ tx_interval[t] \leq Param[tx_key[t][1]].frequency
      BY <2>1 DEF MineSuccess, ChainAccepts
    <3>3. /\ Param[tx_key[t][1]].frequency \in Nat /\ MaxFrequency \in Nat
          /\ Param[tx_key[t][1]].frequency \leq MaxFrequency
      BY <3>1, ProcessorAssumption DEF SubscriptionRecord
    <3>. QED
      BY <3>1, <3>2, <3>3, CurrentRun DEF Keys, Intervals
  <2>. QED
    BY <2>1, <2>3 DEF MineSuccess, TypeOK, ActivityInv, IsActive, TxStatus
<1>2. CASE \E t \in Txs : MineFailure(t)
  BY <1>2 DEF MineFailure, TypeOK, ActivityInv, IsActive, TxStatus
<1>3. CASE \E s \in Subs : Track(s)
  BY <1>3, ProcessorAssumption DEF Track, TypeOK, ActivityInv, IsActive
<1>4. CASE \E s \in Subs : OthersRespond(s)
  <2>1. PICK s \in Subs : OthersRespond(s)
    BY <1>4
  <2>2. Run(s) \in Keys
    BY <2>1, CurrentRun DEF OthersRespond, MissedDeadline
  <2>. QED
    BY <2>1, <2>2 DEF OthersRespond, TypeOK, ActivityInv, IsActive
<1>5. CASE \E s \in Subs : Cancel(s)
  BY <1>5 DEF Cancel, TypeOK, ActivityInv, IsActive
<1>6. CASE Tick
  <2>1. clock' \in 0 .. MaxClock /\ clock' \in Nat /\ clock \leq clock'
    BY <1>6, ProcessorAssumption DEF Tick, TypeOK
  <2>2. \A s \in Subs : IsActive(s) => IsActive(s)'
    BY <2>1, ReachedMonotone
  <2>3. UNCHANGED <<tables, relays, loop, prune, procs, txs, settled, restarts>>
    BY <1>6 DEF Tick
  <2>4. TypeOK'
    BY <2>1, <2>3 DEF TypeOK
  <2>5. loop_pc' \in {"completed", "responded"} => IsActive(loop_sub)'
    BY <2>2, <2>3 DEF TypeOK, ActivityInv, IsActive
  <2>6. ASSUME NEW p \in Procs, p_key'[p] # None
        PROVE  IsActive(p_key[p][1])'
    BY <2>2, <2>3, <2>6, KeyFacts DEF TypeOK, ActivityInv, IsActive
  <2>. QED
    BY <2>4, <2>5, <2>6 DEF ActivityInv
<1>7. CASE CrashRestart
  <2>1. /\ tracked' \subseteq Subs /\ relays' \in [Subs -> 0 .. MaxRelays]
        /\ pending' \in [Keys -> {None, Blocked} \cup Txs]
        /\ attempts' \in [Keys -> 0 .. MaxAttempts]
    BY <1>7, ProcessorAssumption DEF CrashRestart, MaxAttempts
  <2>2. /\ prune_snap' \in [Keys -> {None} \cup Txs] /\ prune_todo' \subseteq Keys
        /\ prune_failed' \subseteq Keys /\ prune_queue' \in 0 .. MaxQueue
        /\ prune_pc' \in {"idle", "receipts"}
    BY <1>7, ProcessorAssumption DEF CrashRestart
  <2>3. /\ p_pc' \in [Procs -> ProcPcs] /\ p_key' \in [Procs -> Keys \cup {None}]
        /\ \A p \in Procs : p_pc'[p] = "idle" <=> p_key'[p] = None
        /\ \A p \in Procs : p_key'[p] = None
        /\ p_interval' \in [Procs -> Nat]
    BY <1>7 DEF CrashRestart, ProcPcs
  <2>4. /\ loop_pc' \in LoopPcs /\ loop_sub' \in Subs \cup {None} /\ loop_seen' \in Nat
        /\ loop_todo' \subseteq Subs /\ loop_pc' = "top"
    BY <1>7 DEF CrashRestart, LoopPcs
  <2>5. /\ restarts' \in 0 .. MaxRestarts /\ sent' = {}
        /\ UNCHANGED <<clock, tx_key, tx_interval, tx_status, settled>>
    BY <1>7, ProcessorAssumption DEF CrashRestart, TypeOK
  <2>6. TypeOK'
    BY <2>1, <2>2, <2>3, <2>4, <2>5 DEF TypeOK
  <2>7. ActivityInv'
    BY <2>3, <2>4 DEF ActivityInv
  <2>. QED
    BY <2>6, <2>7
<1>. QED
  BY <1>1, <1>2, <1>3, <1>4, <1>5, <1>6, <1>7 DEF Mine

\* One step keeps the types.
LEMMA TypeStep == TypeOK /\ ActivityInv /\ [Next]_vars => TypeOK' /\ ActivityInv'
<1> SUFFICES ASSUME TypeOK, ActivityInv, [Next]_vars PROVE TypeOK' /\ ActivityInv'
  OBVIOUS
<1>1. CASE LoopStep
  BY <1>1, TypeLoop
<1>2. CASE PruneStep
  BY <1>2, TypePrune
<1>3. CASE \E p \in Procs : ProcStep(p)
  BY <1>3, TypeProc
<1>4. CASE \/ \E t \in Txs : Mine(t)
           \/ \E s \in Subs : Track(s) \/ OthersRespond(s) \/ Cancel(s)
           \/ Tick
           \/ CrashRestart
  BY <1>4, TypeEnvironment
<1>5. CASE UNCHANGED vars
  BY <1>5 DEF vars, tables, loop, prune, procs, txs, settled, chain,
              TypeOK, ActivityInv, IsActive
<1>. QED
  BY <1>1, <1>2, <1>3, <1>4, <1>5 DEF Next

\* Every variable keeps its type, whatever the loop, the prunes, the processes,
\* the chain and crashes do; and only active subscriptions are processed, so the
\* interval getter, which throws for others, is never called in vain.
THEOREM TypeCorrect == Spec => [](TypeOK /\ ActivityInv)
<1>1. Init => TypeOK /\ ActivityInv
  BY TypeInit
<1>2. TypeOK /\ ActivityInv /\ [Next]_vars => (TypeOK /\ ActivityInv)'
  BY TypeStep
<1>. QED
  BY <1>1, <1>2, PTL DEF Spec

\* One step marks no untracked run, and untracks none with its marker left.
LEMMA BlockedStep ==
    ASSUME TypeOK, BlockedIsTracked, [Next]_vars
    PROVE  BlockedIsTracked'
<1> USE KeyFacts DEF BlockedIsTracked
<1> USE DEF tables, loop, prune, procs, txs, settled, chain
<1>1. ASSUME NEW s, StopTracking(s)
      PROVE  BlockedIsTracked'
  BY <1>1 DEF StopTracking, DropPending
<1>2. ASSUME UNCHANGED <<tracked, pending>>
      PROVE  BlockedIsTracked'
  BY <1>2
<1>3. CASE LoopTop \/ LoopEndPass \/ \E s \in Subs : LoopNext(s)
  BY <1>2, <1>3 DEF LoopTop, LoopEndPass, LoopNext
<1>4. CASE LoopCheckWallet \/ LoopCheckCancelled \/ LoopStopUnderLock
  BY <1>1, <1>2, <1>4 DEF LoopCheckWallet, LoopCheckCancelled, LoopStopUnderLock
<1>5. CASE LoopCheckCompleted
  BY <1>1, <1>2, <1>5 DEF LoopCheckCompleted
<1>6. CASE LoopCheckResponded
  <2>1. CASE \E p \in Procs : ~Gone(loop_sub) /\ StartProcess(p, loop_sub)
    BY <2>1 DEF StartProcess, MarkBlocked, Gone, Run, TypeOK
  <2>. QED
    BY <1>1, <1>2, <1>6, <2>1 DEF LoopCheckResponded
<1>7. CASE PruneStep
  BY <1>7 DEF PruneStep, PruneCheck, PruneFound, PruneNotFound, PruneFinish
<1>8. CASE \E p \in Procs : ProcStep(p)
  <2>1. PICK p \in Procs : ProcStep(p)
    BY <1>8
  <2>2. CASE \/ ProcSimulated(p) \/ ProcExecuted(p) \/ ProcEscrowed(p)
             \/ ProcDeliverSimulated(p) \/ ProcSubmit(p)
    BY <1>2, <2>2 DEF ProcSimulated, ProcExecuted, ProcEscrowed, ProcDeliverSimulated,
                      ProcSubmit
  <2>3. CASE ProcSimulationRejected(p) \/ ProcDeliverFailed(p)
    BY <1>1, <1>2, <2>3 DEF ProcSimulationRejected, ProcDeliverFailed, StopIfCallback
  <2>4. CASE ProcContainerFailed(p)
    <3>1. CASE Callback(SubOf(p))
      BY <1>1, <2>4, <3>1 DEF ProcContainerFailed
    <3>2. CASE ~Callback(SubOf(p))
      BY <2>4, <3>2 DEF ProcContainerFailed, TypeOK
    <3>. QED
      BY <3>1, <3>2
  <2>5. CASE ProcWrite(p)
    BY <2>5 DEF ProcWrite, TypeOK
  <2>. QED
    BY <2>1, <2>2, <2>3, <2>4, <2>5 DEF ProcStep
<1>9. CASE \E s \in Subs : Track(s)
  BY <1>9 DEF Track
<1>10. CASE CrashRestart
  BY <1>10 DEF CrashRestart
<1>11. CASE \/ \E t \in Txs : Mine(t)
            \/ \E s \in Subs : OthersRespond(s) \/ Cancel(s)
            \/ Tick
            \/ UNCHANGED vars
  BY <1>2, <1>11 DEF Mine, MineSuccess, MineFailure, OthersRespond, Cancel, Tick, vars
<1>. QED
  BY <1>3, <1>4, <1>5, <1>6, <1>7, <1>8, <1>9, <1>10, <1>11 DEF Next, LoopStep

\* No marker outlives stop_tracking, however often the listener relays and the
\* node restarts: a marker that did would keep its run from ever being processed.
THEOREM BlockedTracked == Spec => []BlockedIsTracked
<1>1. Init => BlockedIsTracked
  BY KeyFacts DEF Init, BlockedIsTracked
<1>2. TypeOK /\ BlockedIsTracked /\ [Next]_vars => BlockedIsTracked'
  BY BlockedStep
<1>. QED
  BY <1>1, <1>2, TypeCorrect, PTL DEF Spec

\* Calls go on as they were and no run is marked.
LEMMA StuckQuiet ==
    ASSUME NoStuckCallback, UNCHANGED p_key,
           \A k \in Keys : pending'[k] = Blocked => pending[k] = Blocked
    PROVE  NoStuckCallback'
BY DEF NoStuckCallback, InFlight, Callback

\* A call that ends leaves no marker of a callback behind.
LEMMA StuckEnd ==
    ASSUME TypeOK, NoStuckCallback, NEW p \in Procs, EndProcess(p), p_key[p] \in Keys,
           Callback(SubOf(p)) => pending'[p_key[p]] # Blocked,
           \A k \in Keys : pending'[k] = Blocked => pending[k] = Blocked
    PROVE  NoStuckCallback'
<1>1. SUFFICES ASSUME NEW k \in Keys, Callback(k[1]), pending'[k] = Blocked
               PROVE  \E q \in Procs : p_key'[q] = k
  BY DEF NoStuckCallback, InFlight, Callback
<1>2. PICK q \in Procs : p_key[q] = k
  BY <1>1 DEF NoStuckCallback, InFlight
<1>3. q # p
  BY <1>1, <1>2 DEF SubOf
<1>. QED
  BY <1>2, <1>3 DEF EndProcess, TypeOK

\* One step keeps every marker of a callback backed by a call.
LEMMA StuckStep ==
    ASSUME TypeOK, ActivityInv, NoStuckCallback, [Next]_vars
    PROVE  NoStuckCallback'
<1> USE KeyFacts
<1>1. ASSUME LoopStep, UNCHANGED procs
      PROVE  NoStuckCallback'
  <2>1. \A k \in Keys : pending'[k] = Blocked => pending[k] = Blocked
    BY <1>1 DEF LoopStep, LoopTop, LoopNext, LoopEndPass, LoopCheckWallet,
                LoopCheckCancelled, LoopCheckCompleted, LoopStopUnderLock,
                LoopCheckResponded, StartProcess, StopTracking, DropPending, tables,
                procs, TypeOK
  <2>. QED
    BY <1>1, <2>1, StuckQuiet DEF procs
<1>2. ASSUME NEW p \in Procs, LoopCheckResponded, StartProcess(p, loop_sub)
      PROVE  NoStuckCallback'
  <2>1. p_key[p] = None /\ p_key' = [p_key EXCEPT ![p] = Run(loop_sub)]
        /\ pending' = [pending EXCEPT ![Run(loop_sub)] = Blocked]
    BY <1>2 DEF StartProcess, MarkBlocked, TypeOK
  <2>2. SUFFICES ASSUME NEW k \in Keys, Callback(k[1]), pending'[k] = Blocked
                 PROVE  \E q \in Procs : p_key'[q] = k
    BY DEF NoStuckCallback, InFlight, Callback
  <2>3. CASE k = Run(loop_sub)
    BY <2>1, <2>3 DEF TypeOK
  <2>4. CASE k # Run(loop_sub)
    <3>1. pending[k] = Blocked
      BY <2>1, <2>2, <2>4 DEF TypeOK
    <3>2. PICK q \in Procs : p_key[q] = k
      BY <2>2, <3>1 DEF NoStuckCallback, InFlight
    <3>. QED
      BY <2>1, <3>2 DEF TypeOK
  <2>. QED
    BY <2>3, <2>4
<1>3. CASE LoopStep
  <2>1. UNCHANGED procs \/ \E p \in Procs : LoopCheckResponded /\ StartProcess(p, loop_sub)
    BY <1>3 DEF LoopStep, LoopTop, LoopNext, LoopEndPass, LoopCheckWallet,
                LoopCheckCancelled, LoopCheckCompleted, LoopStopUnderLock,
                LoopCheckResponded
  <2>. QED
    BY <1>1, <1>2, <1>3, <2>1
<1>4. CASE \E p \in Procs : ProcStep(p)
  <2>1. PICK p \in Procs : ProcStep(p)
    BY <1>4
  <2>2. CASE \/ ProcSimulated(p) \/ ProcExecuted(p) \/ ProcEscrowed(p)
             \/ ProcDeliverSimulated(p) \/ ProcSubmit(p)
    BY <2>2, StuckQuiet DEF ProcSimulated, ProcExecuted, ProcEscrowed,
                            ProcDeliverSimulated, ProcSubmit, BeginDeliver, tables
  <2>3. CASE \/ ProcSimulationRejected(p) \/ ProcContainerFailed(p)
             \/ ProcWrite(p) \/ ProcDeliverFailed(p)
    <3>1. EndProcess(p) /\ p_key[p] \in Keys /\ SubOf(p) = p_key[p][1]
      BY <2>3, ProcTypes DEF ProcSimulationRejected, ProcContainerFailed, ProcWrite,
                             ProcDeliverFailed, SubOf
    <3>2. /\ \A k \in Keys : pending'[k] = Blocked => pending[k] = Blocked
          /\ Callback(SubOf(p)) => pending'[p_key[p]] # Blocked
      BY <2>3, <3>1 DEF ProcSimulationRejected, ProcContainerFailed, ProcWrite,
                  ProcDeliverFailed, StopIfCallback, StopTracking, DropPending, TypeOK
    <3>. QED
      BY <3>1, <3>2, StuckEnd
  <2>. QED
    BY <2>1, <2>2, <2>3 DEF ProcStep
<1>5. CASE CrashRestart
  BY <1>5 DEF CrashRestart, NoStuckCallback
<1>6. CASE \/ PruneStep
           \/ \E t \in Txs : Mine(t)
           \/ \E s \in Subs : Track(s) \/ OthersRespond(s) \/ Cancel(s)
           \/ Tick
           \/ UNCHANGED vars
  <2>1. UNCHANGED p_key /\ \A k \in Keys : pending'[k] \in {pending[k], None}
    BY <1>6 DEF PruneStep, PruneCheck, PruneFound, PruneNotFound, PruneFinish, Mine,
                MineSuccess, MineFailure, Track,
                OthersRespond, Cancel, Tick, vars, tables, procs
  <2>. QED
    BY <2>1, StuckQuiet
<1>. QED
  BY <1>3, <1>4, <1>5, <1>6 DEF Next

\* No callback waits for ever behind its marker, on whatever error path its call
\* ends, however often the listener relays and the node restarts.
THEOREM CallbackNotStuck == Spec => []NoStuckCallback
<1>1. Init => NoStuckCallback
  BY KeyFacts DEF Init, NoStuckCallback
<1>2. TypeOK /\ ActivityInv /\ NoStuckCallback /\ [Next]_vars => NoStuckCallback'
  BY StuckStep
<1>. QED
  BY <1>1, <1>2, TypeCorrect, PTL DEF Spec
-------------------------------------------------------------------------------
(* What the attempts count.                                                *)

\* The failures of a run are a finite set, and so is every part of it.
LEMMA FailuresCounted ==
    ASSUME IsFiniteSet(sent), NEW k, NEW held
    PROVE  /\ IsFiniteSet(FailedTxs(k)) /\ IsFiniteSet(FailedTxs(k) \ held)
           /\ Cardinality(FailedTxs(k)) \in Nat
           /\ Cardinality(FailedTxs(k) \ held) \in Nat
           /\ Cardinality(FailedTxs(k) \ held) \leq Cardinality(FailedTxs(k))
<1>1. FailedTxs(k) \subseteq sent /\ FailedTxs(k) \ held \subseteq FailedTxs(k)
  BY DEF FailedTxs
<1>2. IsFiniteSet(FailedTxs(k))
  BY <1>1, FS_Subset
<1>. QED
  BY <1>1, <1>2, FS_Subset, FS_CardinalityType

\* A step that counts nothing: what failed stays failed, a new entry is of a new
\* transaction, and a new copy is of the table.
LEMMA CountSteady ==
    ASSUME TypeOK, TypeOK', CountInv,
           IsFiniteSet(sent'), sent \subseteq sent',
           \A t \in sent : /\ tx_key'[t] = tx_key[t]
                           /\ tx_status[t] = "failed" => tx_status'[t] = "failed",
           \A k \in Keys :
             /\ attempts'[k] \in {attempts[k], 0}
             /\ pending'[k] \in Txs =>
                  \/ pending'[k] = pending[k]
                  \/ /\ pending'[k] \in sent' /\ tx_key'[pending'[k]] = k
                     /\ tx_status[pending'[k]] # "failed"
             /\ prune_snap'[k] \in Txs => prune_snap'[k] \in {prune_snap[k], pending'[k]},
           \A k \in prune_todo' : prune_snap'[k] \in Txs,
           \A k \in prune_failed' :
             prune_snap'[k] \in Txs /\ tx_status'[prune_snap'[k]] = "failed"
    PROVE  CountInv'
<1> USE KeyFacts
<1>1. ASSUME NEW k \in Keys
      PROVE  /\ pending'[k] \in Txs => pending'[k] \in sent' /\ tx_key'[pending'[k]] = k
             /\ prune_snap'[k] \in Txs =>
                  prune_snap'[k] \in sent' /\ tx_key'[prune_snap'[k]] = k
  BY <1>1 DEF CountInv
<1>2. ASSUME NEW k \in Keys
      PROVE  \/ attempts'[k] \leq
                  Cardinality(FailedTxs(k)' \ {pending'[k], prune_snap'[k]})
             \/ Cardinality(FailedTxs(k)') \geq MaxAttempts
  <2> DEFINE old == FailedTxs(k) \ {pending[k], prune_snap[k]}
             new == FailedTxs(k)' \ {pending'[k], prune_snap'[k]}
  <2>1. IsFiniteSet(FailedTxs(k)') /\ IsFiniteSet(new) /\ Cardinality(new) \in Nat
        /\ Cardinality(FailedTxs(k)') \in Nat
    <3>1. FailedTxs(k)' \subseteq sent' /\ new \subseteq FailedTxs(k)'
      BY DEF FailedTxs
    <3>2. IsFiniteSet(FailedTxs(k)')
      BY <3>1, FS_Subset
    <3>. QED
      BY <3>1, <3>2, FS_Subset, FS_CardinalityType
  <2>2. /\ Cardinality(old) \in Nat /\ Cardinality(FailedTxs(k)) \in Nat
    BY FailuresCounted DEF CountInv
  <2>3. FailedTxs(k) \subseteq FailedTxs(k)' /\ old \subseteq new
    <3>1. FailedTxs(k) \subseteq FailedTxs(k)'
      BY DEF FailedTxs
    <3>2. ASSUME NEW t \in old PROVE t \notin {pending'[k], prune_snap'[k]}
      <4>1. t \in Txs /\ tx_status[t] = "failed" /\ t # pending[k] /\ t # prune_snap[k]
        BY <3>2 DEF FailedTxs, TypeOK
      <4>. QED
        BY <4>1
    <3>. QED
      BY <3>1, <3>2
  <2>4. /\ Cardinality(old) \leq Cardinality(new)
        /\ Cardinality(FailedTxs(k)) \leq Cardinality(FailedTxs(k)')
    BY <2>1, <2>3, FS_Subset
  <2>5. attempts[k] \leq Cardinality(old) \/ Cardinality(FailedTxs(k)) \geq MaxAttempts
    BY DEF CountInv
  <2>6. attempts[k] \in Nat /\ attempts'[k] \in {attempts[k], 0}
    BY DEF TypeOK
  <2> HIDE DEF old, new
  <2>7. \/ attempts'[k] \leq Cardinality(new)
        \/ Cardinality(FailedTxs(k)') \geq MaxAttempts
    BY <2>1, <2>2, <2>4, <2>5, <2>6 DEF MaxAttempts
  <2>. QED
    BY <2>7 DEF new
<1>. QED
  BY <1>1, <1>2 DEF CountInv

\* The end of a prune counts a failure that was not counted before, or one of a run
\* that has failed three times.
LEMMA CountFinish ==
    ASSUME TypeOK, TypeOK', CountInv, PruneFinish
    PROVE  CountInv'
<1> USE KeyFacts
<1>1. UNCHANGED <<sent, tx_key, tx_status>> /\ \A k \in Keys : FailedTxs(k)' = FailedTxs(k)
  BY DEF PruneFinish, chain, txs, FailedTxs
<1>2. /\ \A k \in Keys : prune_snap'[k] \in Txs => prune_snap'[k] = pending'[k]
      /\ \A k \in prune_todo' : prune_snap'[k] \in Txs
      /\ prune_failed' = {}
  BY DEF PruneFinish, BeginPrune, CountInv
<1>3. \A k \in Keys : /\ pending'[k] \in Txs => pending'[k] = pending[k]
                      /\ k \notin prune_failed => UNCHANGED <<pending[k], attempts[k]>>
                      /\ k \in prune_failed =>
                           /\ attempts'[k] = Counted(k)
                           /\ Counted(k) < MaxAttempts => pending'[k] = None
  BY DEF PruneFinish, Evictable
<1>4. ASSUME NEW k \in Keys
      PROVE  \/ attempts'[k] \leq
                  Cardinality(FailedTxs(k)' \ {pending'[k], prune_snap'[k]})
             \/ Cardinality(FailedTxs(k)') \geq MaxAttempts
  <2> DEFINE old == FailedTxs(k) \ {pending[k], prune_snap[k]}
             new == FailedTxs(k) \ {pending'[k], prune_snap'[k]}
  <2>1. /\ IsFiniteSet(FailedTxs(k)) /\ IsFiniteSet(old) /\ IsFiniteSet(new)
        /\ Cardinality(old) \in Nat /\ Cardinality(new) \in Nat
        /\ Cardinality(FailedTxs(k)) \in Nat
    BY FailuresCounted DEF CountInv
  <2>2. old \subseteq new
    BY <1>2, <1>3 DEF FailedTxs, TypeOK
  <2>3. Cardinality(old) \leq Cardinality(new)
    BY <2>1, <2>2, FS_Subset
  <2>4. attempts[k] \leq Cardinality(old) \/ Cardinality(FailedTxs(k)) \geq MaxAttempts
    BY DEF CountInv
  <2>5. attempts[k] \in 0 .. MaxAttempts
    BY DEF TypeOK
  <2>6. CASE k \notin prune_failed
    <3>1. attempts'[k] = attempts[k]
      BY <1>3, <2>6
    <3>2. attempts'[k] \leq Cardinality(new) \/ Cardinality(FailedTxs(k)) \geq MaxAttempts
      BY <2>1, <2>3, <2>4, <2>5, <3>1 DEF MaxAttempts
    <3>. QED
      BY <1>1, <3>2
  <2>7. CASE k \in prune_failed
    <3>1. prune_snap[k] \in FailedTxs(k) /\ prune_snap[k] \notin old
      BY <2>7 DEF CountInv, FailedTxs
    <3>2. /\ Cardinality(old \cup {prune_snap[k]}) = Cardinality(old) + 1
          /\ IsFiniteSet(old \cup {prune_snap[k]})
      BY <2>1, <3>1, FS_AddElement
    <3>3. Cardinality(old) + 1 \leq Cardinality(FailedTxs(k))
      <4>1. old \cup {prune_snap[k]} \subseteq FailedTxs(k)
        BY <3>1
      <4>. QED
        BY <2>1, <3>2, <4>1, FS_Subset
    <3>4. CASE Counted(k) < MaxAttempts
      <4>1. pending'[k] = None /\ prune_snap'[k] \notin Txs
        BY <1>2, <1>3, <2>7, <3>4 DEF TypeOK
      <4>2. new = FailedTxs(k)
        BY <4>1 DEF FailedTxs, TypeOK
      <4>3. attempts'[k] = attempts[k] + 1
        BY <1>3, <2>5, <2>7, <3>4 DEF Counted, MaxAttempts
      <4> HIDE DEF old, new
      <4>4. attempts'[k] \leq Cardinality(new) \/ Cardinality(FailedTxs(k)) \geq MaxAttempts
        BY <2>1, <2>4, <2>5, <3>3, <4>2, <4>3 DEF MaxAttempts
      <4>. QED
        BY <1>1, <4>4 DEF new
    <3>5. CASE ~(Counted(k) < MaxAttempts)
      <4>1. attempts[k] \geq 2
        BY <2>5, <3>5 DEF Counted, MaxAttempts
      <4> HIDE DEF old, new
      <4>2. Cardinality(FailedTxs(k)) \geq MaxAttempts
        BY <2>1, <2>4, <2>5, <3>3, <4>1 DEF MaxAttempts
      <4>. QED
        BY <1>1, <4>2
    <3>. QED
      BY <3>4, <3>5
  <2>. QED
    BY <2>6, <2>7
<1>5. ASSUME NEW k \in Keys
      PROVE  /\ pending'[k] \in Txs => pending'[k] \in sent /\ tx_key[pending'[k]] = k
             /\ prune_snap'[k] \in Txs =>
                  prune_snap'[k] \in sent /\ tx_key[prune_snap'[k]] = k
  BY <1>2, <1>3 DEF CountInv
<1>. QED
  BY <1>1, <1>2, <1>4, <1>5 DEF CountInv

\* A transaction that is sent is new: it has not failed.
LEMMA BroadcastCounted ==
    ASSUME TypeOK, CountInv, NEW p \in Procs, NEW t \in Txs, Broadcast(t, p)
    PROVE  /\ IsFiniteSet(sent') /\ sent \subseteq sent' /\ t \in sent'
           /\ tx_key'[t] = p_key[p] /\ tx_status[t] # "failed"
           /\ \A u \in sent : /\ u # t => tx_key'[u] = tx_key[u]
                              /\ tx_status[u] = "failed" => tx_status'[u] = "failed"
<1>1. IsFiniteSet(sent \cup {t})
  BY FS_AddElement DEF CountInv
<1>. QED
  BY <1>1 DEF Broadcast, TypeOK

\* Every step of the loop leaves the count as it is or clears it.
LEMMA CountLoop ==
    ASSUME TypeOK, TypeOK', CountInv, LoopStep
    PROVE  CountInv'
<1> USE KeyFacts
<1>1. UNCHANGED <<sent, tx_key, tx_status>> /\ IsFiniteSet(sent)
  BY DEF LoopStep, LoopTop, LoopEndPass, LoopNext, LoopCheckWallet, LoopCheckCancelled,
         LoopCheckCompleted, LoopStopUnderLock, LoopCheckResponded, chain, txs, CountInv
<1>2. \A k \in Keys : attempts'[k] \in {attempts[k], 0}
  BY DEF LoopStep, LoopTop, LoopEndPass, LoopNext, LoopCheckWallet, LoopCheckCancelled,
         LoopCheckCompleted, LoopStopUnderLock, LoopCheckResponded, tables, TypeOK
<1>3. \A k \in Keys : pending'[k] \in Txs => pending'[k] = pending[k]
  BY DEF LoopStep, LoopTop, LoopEndPass, LoopNext, LoopCheckWallet, LoopCheckCancelled,
         LoopCheckCompleted, LoopStopUnderLock, LoopCheckResponded, StopTracking,
         DropPending, StartProcess, MarkBlocked, tables, TypeOK
<1>4. CASE LoopTop /\ BeginPrune(pending)
  <2>1. /\ UNCHANGED pending /\ prune_failed' = {}
        /\ \A k \in Keys : prune_snap'[k] \in Txs => prune_snap'[k] = pending'[k]
        /\ \A k \in prune_todo' : prune_snap'[k] \in Txs
    BY <1>4 DEF LoopTop, BeginPrune, tables
  <2>. QED
    BY <1>1, <1>2, <1>3, <2>1, CountSteady
<1>5. CASE UNCHANGED <<prune_snap, prune_todo, prune_failed>>
  BY <1>1, <1>2, <1>3, <1>5, CountSteady DEF CountInv
<1>6. UNCHANGED <<prune_snap, prune_todo, prune_failed>> \/ (LoopTop /\ BeginPrune(pending))
  BY DEF LoopStep, LoopTop, LoopEndPass, LoopNext, LoopCheckWallet, LoopCheckCancelled,
         LoopCheckCompleted, LoopStopUnderLock, LoopCheckResponded, prune
<1>. QED
  BY <1>4, <1>5, <1>6

\* A receipt clears the count, or is noted as a failure to be counted.
LEMMA CountCheck ==
    ASSUME TypeOK, TypeOK', CountInv, NEW q \in Keys, PruneCheck(q)
    PROVE  CountInv'
<1> USE KeyFacts
<1>1. /\ UNCHANGED <<sent, tx_key, tx_status, pending, prune_snap>> /\ IsFiniteSet(sent)
      /\ prune_todo' \subseteq prune_todo
      /\ \A k \in Keys : attempts'[k] \in {attempts[k], 0}
  BY DEF PruneCheck, PruneFound, PruneNotFound, tables, chain, txs, CountInv, TypeOK
<1>2. ASSUME NEW k \in prune_failed'
      PROVE  prune_snap[k] \in Txs /\ tx_status[prune_snap[k]] = "failed"
  <2>1. CASE k \in prune_failed
    BY <2>1 DEF CountInv
  <2>2. CASE k \notin prune_failed
    <3>1. k = q /\ Receipt(prune_snap[q]) = "failed" /\ q \in prune_todo
      BY <1>2, <2>2 DEF PruneCheck, PruneFound, PruneNotFound
    <3>. QED
      BY <3>1 DEF CountInv, Receipt
  <2>. QED
    BY <2>1, <2>2
<1>3. \A k \in prune_todo' : prune_snap'[k] \in Txs
  BY <1>1 DEF CountInv
<1>4. \A k \in prune_failed' :
         prune_snap'[k] \in Txs /\ tx_status'[prune_snap'[k]] = "failed"
  BY <1>1, <1>2
<1>5. \A k \in Keys : /\ pending'[k] \in Txs => pending'[k] = pending[k]
                      /\ prune_snap'[k] \in Txs => prune_snap'[k] = prune_snap[k]
  BY <1>1
<1>6. sent \subseteq sent' /\ IsFiniteSet(sent')
      /\ \A t \in sent : /\ tx_key'[t] = tx_key[t]
                         /\ tx_status[t] = "failed" => tx_status'[t] = "failed"
  BY <1>1
<1>. QED
  BY <1>1, <1>3, <1>4, <1>5, <1>6, CountSteady

\* Every step of a process_subscription call leaves the count as it is.
LEMMA CountProc ==
    ASSUME TypeOK, TypeOK', ActivityInv, CountInv, NEW p \in Procs, ProcStep(p)
    PROVE  CountInv'
<1> USE KeyFacts
<1>1. /\ UNCHANGED <<attempts, prune_snap, prune_todo, prune_failed>>
      /\ IsFiniteSet(sent)
  BY DEF ProcStep, ProcSimulated, ProcSimulationRejected, ProcExecuted,
         ProcContainerFailed, ProcEscrowed, ProcDeliverSimulated, ProcSubmit, ProcWrite,
         ProcDeliverFailed, tables, prune, CountInv
<1>2. \A k \in prune_todo' : prune_snap'[k] \in Txs
  BY <1>1 DEF CountInv
<1>3. CASE /\ UNCHANGED <<sent, tx_key, tx_status>>
           /\ \A k \in Keys : pending'[k] \in Txs => pending'[k] = pending[k]
  BY <1>1, <1>2, <1>3, CountSteady DEF CountInv
<1>4. ASSUME NEW t \in Txs, Broadcast(t, p), p_key[p] \in Keys,
             \A k \in Keys : pending'[k] \in Txs =>
                               pending'[k] = pending[k] \/ (k = p_key[p] /\ pending'[k] = t)
      PROVE  CountInv'
  <2>1. \A k \in prune_failed' :
           prune_snap'[k] \in Txs /\ tx_status'[prune_snap'[k]] = "failed"
    BY <1>1, <1>4 DEF Broadcast, CountInv, TypeOK
  <2>2. /\ IsFiniteSet(sent') /\ sent \subseteq sent' /\ t \in sent' /\ t \notin sent
        /\ tx_key'[t] = p_key[p] /\ tx_status[t] # "failed"
        /\ \A u \in sent : /\ tx_key'[u] = tx_key[u]
                           /\ tx_status[u] = "failed" => tx_status'[u] = "failed"
    <3>1. t \notin sent
      BY <1>4 DEF Broadcast, TypeOK
    <3>. QED
      BY <1>4, <3>1, BroadcastCounted
  <2>3. \A k \in Keys : pending'[k] \in Txs =>
           \/ pending'[k] = pending[k]
           \/ /\ pending'[k] \in sent' /\ tx_key'[pending'[k]] = k
              /\ tx_status[pending'[k]] # "failed"
    BY <1>4, <2>2
  <2>. QED
    BY <1>1, <1>2, <2>1, <2>2, <2>3, CountSteady
<1>5. CASE \/ ProcSimulated(p) \/ ProcExecuted(p) \/ ProcEscrowed(p)
           \/ ProcDeliverSimulated(p) \/ ProcSubmit(p)
           \/ ProcSimulationRejected(p) \/ ProcContainerFailed(p)
  BY <1>3, <1>5 DEF ProcSimulated, ProcSimulationRejected, ProcExecuted,
       ProcContainerFailed, ProcEscrowed, ProcDeliverSimulated, ProcSubmit, StopTracking,
       DropPending, tables, chain, txs, TypeOK
<1>6. CASE ProcWrite(p)
  <2>1. PICK t \in Txs : Broadcast(t, p) /\ pending' = [pending EXCEPT ![p_key[p]] = t]
    BY <1>6 DEF ProcWrite
  <2>2. p_key[p] \in Keys
    BY <1>6, ProcTypes DEF ProcWrite
  <2>. QED
    BY <1>4, <2>1, <2>2 DEF TypeOK
<1>7. CASE ProcDeliverFailed(p)
  <2>1. /\ p_key[p] \in Keys
        /\ \A k \in Keys : pending'[k] \in Txs => pending'[k] = pending[k]
    BY <1>7, ProcTypes DEF ProcDeliverFailed, StopIfCallback, StopTracking, DropPending
  <2>2. UNCHANGED txs \/ \E t \in Txs : Broadcast(t, p)
    BY <1>7 DEF ProcDeliverFailed
  <2>. QED
    BY <1>3, <1>4, <2>1, <2>2 DEF txs
<1>. QED
  BY <1>5, <1>6, <1>7 DEF ProcStep

\* So do the listener, the chain, the clock; a process that starts counts from zero.
LEMMA CountEnvironment ==
    ASSUME TypeOK, TypeOK', CountInv,
           \/ \E t \in Txs : Mine(t)
           \/ \E s \in Subs : Track(s) \/ OthersRespond(s) \/ Cancel(s)
           \/ Tick
           \/ CrashRestart
           \/ UNCHANGED vars
    PROVE  CountInv'
<1> USE KeyFacts
<1>1. CASE CrashRestart
  <2>1. /\ sent' = {} /\ prune_todo' = {} /\ prune_failed' = {}
        /\ \A k \in Keys : pending'[k] = None /\ prune_snap'[k] = None /\ attempts'[k] = 0
    BY <1>1 DEF CrashRestart
  <2>2. ASSUME NEW k \in Keys
        PROVE  attempts'[k] \leq Cardinality(FailedTxs(k)' \ {pending'[k], prune_snap'[k]})
    <3>1. FailedTxs(k)' \ {pending'[k], prune_snap'[k]} = {}
      BY <2>1 DEF FailedTxs
    <3>. QED
      BY <2>1, <3>1, FS_EmptySet
  <2>. QED
    BY <2>1, <2>2, FS_EmptySet DEF CountInv
<1>2. CASE ~CrashRestart
  <2>1. /\ UNCHANGED <<attempts, pending, prune_snap, prune_todo, prune_failed, sent, tx_key>>
        /\ \A t \in Txs : tx_status[t] = "failed" => tx_status'[t] = "failed"
    BY <1>2 DEF Mine, MineSuccess, MineFailure, Track, OthersRespond, Cancel, Tick, vars,
                tables, prune, chain, txs, TypeOK
  <2>2. \A k \in prune_failed' :
           prune_snap'[k] \in Txs /\ tx_status'[prune_snap'[k]] = "failed"
    BY <2>1 DEF CountInv
  <2>3. sent \subseteq Txs /\ IsFiniteSet(sent)
    BY DEF TypeOK, CountInv
  <2>. QED
    BY <2>1, <2>2, <2>3, CountSteady DEF CountInv
<1>. QED
  BY <1>1, <1>2

LEMMA CountStep ==
    ASSUME TypeOK, ActivityInv, CountInv, [Next]_vars
    PROVE  CountInv'
<1>1. TypeOK'
  BY TypeStep
<1>. QED
  BY <1>1, CountLoop, CountCheck, CountFinish, CountProc, CountEnvironment
     DEF Next, PruneStep

\* The attempts of a run never exceed the failures of its own transactions, however
\* often the listener relays, the node restarts, and prunes queue up behind each
\* other with the loop clearing counts in between.
THEOREM AttemptsCount == Spec => [](CountInv /\ AttemptsAreFailures)
<1>1. Init => CountInv
  <2>1. SUFFICES ASSUME Init PROVE CountInv
    OBVIOUS
  <2>2. \A k : FailedTxs(k) \ {pending[k], prune_snap[k]} = {}
    BY <2>1 DEF Init, FailedTxs
  <2>. QED
    <3>1. \A k \in Keys : attempts[k] = 0 /\ pending[k] = None /\ prune_snap[k] = None
      BY <2>1 DEF Init
    <3>2. \A k : Cardinality(FailedTxs(k) \ {pending[k], prune_snap[k]}) = 0
      BY <2>2, FS_EmptySet
    <3>3. sent = {} /\ prune_todo = {} /\ prune_failed = {}
      BY <2>1 DEF Init
    <3>. QED
      BY <3>1, <3>2, <3>3, FS_EmptySet, KeyFacts DEF CountInv
<1>2. TypeOK /\ ActivityInv /\ CountInv /\ [Next]_vars => CountInv'
  BY CountStep
<1>3. TypeOK /\ CountInv => AttemptsAreFailures
  <2>1. SUFFICES ASSUME TypeOK, CountInv, NEW k \in Keys
                 PROVE  attempts[k] \leq Cardinality(FailedTxs(k))
    BY DEF AttemptsAreFailures
  <2>2. \/ attempts[k] \leq Cardinality(FailedTxs(k) \ {pending[k], prune_snap[k]})
        \/ Cardinality(FailedTxs(k)) \geq MaxAttempts
    BY <2>1 DEF CountInv
  <2>3. attempts[k] \in 0 .. MaxAttempts
    BY <2>1 DEF TypeOK
  <2>4. /\ Cardinality(FailedTxs(k)) \in Nat
        /\ Cardinality(FailedTxs(k) \ {pending[k], prune_snap[k]}) \in Nat
        /\ Cardinality(FailedTxs(k) \ {pending[k], prune_snap[k]})
             \leq Cardinality(FailedTxs(k))
    BY <2>1, FailuresCounted DEF CountInv
  <2>. QED
    BY <2>2, <2>3, <2>4 DEF MaxAttempts
<1>. QED
  BY <1>1, <1>2, <1>3, TypeCorrect, PTL DEF Spec
===============================================================================
