-------------------------- MODULE DeliveryCycleProofs --------------------------
(***************************************************************************)
(* The proof that the chain processor keeps the promise of DeliveryCycle,  *)
(* under the assumption OneRelay of the invariant IInv it rests on: every  *)
(* step moves one run or one subscription on, begins a new life, or is a   *)
(* stutter.                                                                *)
(***************************************************************************)
EXTENDS ChainProcessorSafety

\* The abstract state depends on six variables only.
LEMMA SamePhase ==
    ASSUME NEW k, UNCHANGED <<p_key, tx_key, tx_status, sent>>
    PROVE  PhaseOf(k)' = PhaseOf(k)
BY DEF PhaseOf, HasTx, InFlight

LEMMA SameWindow ==
    ASSUME NEW s, UNCHANGED relays, s \in tracked' <=> s \in tracked
    PROVE  WindowOf(s)' = WindowOf(s)
BY DEF WindowOf

LEMMA PhasesStay ==
    ASSUME UNCHANGED <<p_key, tx_key, tx_status, sent>>
    PROVE  [k \in Keys |-> PhaseOf(k)]' = [k \in Keys |-> PhaseOf(k)]
<1>1. \A k \in Keys : PhaseOf(k)' = PhaseOf(k)
  BY SamePhase
<1>. HIDE DEF PhaseOf
<1>. QED
  BY <1>1

LEMMA WindowsStay ==
    ASSUME UNCHANGED <<relays, tracked>>
    PROVE  [s \in Subs |-> WindowOf(s)]' = [s \in Subs |-> WindowOf(s)]
<1>1. \A s \in Subs : WindowOf(s)' = WindowOf(s)
  BY SameWindow
<1>. HIDE DEF WindowOf
<1>. QED
  BY <1>1

\* Untracking a subscription closes it, or changes nothing when it was not tracked.
LEMMA Untracked ==
    ASSUME RelayInv, NEW s \in Subs, UNCHANGED relays, tracked' = tracked \ {s}
    PROVE  \/ [r \in Subs |-> WindowOf(r)]' = [r \in Subs |-> WindowOf(r)]
           \/ Cycle!Close(s)
<1>1. CASE s \notin tracked
  <2>1. tracked' = tracked
    BY <1>1
  <2>. QED
    BY <2>1, WindowsStay
<1>2. CASE s \in tracked
  <2>1. WindowOf(s) = "open" /\ WindowOf(s)' = "closed"
    BY <1>2 DEF WindowOf, RelayInv
  <2>2. \A r \in Subs \ {s} : WindowOf(r)' = WindowOf(r)
    BY SameWindow
  <2>3. \A r \in Subs : WindowOf(r)' = IF r = s THEN "closed" ELSE WindowOf(r)
    BY <2>1, <2>2
  <2>. HIDE DEF WindowOf
  <2>. QED
    BY <2>1, <2>3 DEF Cycle!Close
<1>. QED
  BY <1>1, <1>2

\* One run moves on.
LEMMA Moves ==
    ASSUME NEW k \in Keys, NEW from, NEW to, PhaseOf(k) = from, PhaseOf(k)' = to,
           \A l \in Keys \ {k} : PhaseOf(l)' = PhaseOf(l)
    PROVE  Cycle!Move(k, from, to)
<1>1. \A l \in Keys : PhaseOf(l)' = IF l = k THEN to ELSE PhaseOf(l)
  OBVIOUS
<1>. HIDE DEF PhaseOf
<1>. QED
  BY <1>1 DEF Cycle!Move

\* A step that leaves calls and transactions alone, and at most untracks.
LEMMA QuietStep ==
    ASSUME RelayInv, UNCHANGED <<relays, p_key, tx_key, tx_status, sent>>,
           UNCHANGED tracked \/ \E s \in Subs : tracked' = tracked \ {s}
    PROVE  [Cycle!Next]_(Cycle!vars)
<1>1. [k \in Keys |-> PhaseOf(k)]' = [k \in Keys |-> PhaseOf(k)]
  BY PhasesStay
<1>2. CASE UNCHANGED tracked
  BY <1>1, <1>2, WindowsStay DEF Cycle!vars
<1>3. ASSUME NEW s \in Subs, tracked' = tracked \ {s}
      PROVE  [Cycle!Next]_(Cycle!vars)
  <2>1. CASE Cycle!Close(s)
    BY <1>1, <2>1 DEF Cycle!Next
  <2>2. CASE [r \in Subs |-> WindowOf(r)]' = [r \in Subs |-> WindowOf(r)]
    BY <1>1, <2>2 DEF Cycle!vars
  <2>. QED
    BY <1>3, <2>1, <2>2, Untracked
<1>. QED
  BY <1>2, <1>3

\* A call begins on a run that is idle, of a subscription that is open.
LEMMA BeginStep ==
    ASSUME TypeOK, ActivityInv, IInv, LoopCheckResponded, NEW p \in Procs,
           ~Gone(loop_sub), ~MissedDeadline(loop_sub), StartProcess(p, loop_sub)
    PROVE  [Cycle!Next]_(Cycle!vars)
<1>0. /\ UNCHANGED <<tracked, relays, tx_key, tx_status, sent>>
      /\ loop_sub \in Subs /\ loop_sub \in tracked /\ IsActive(loop_sub)
      /\ p_key' = [p_key EXCEPT ![p] = Run(loop_sub)] /\ p_key[p] = None
  BY DEF LoopCheckResponded, StartProcess, chain, txs, TypeOK, ActivityInv, Gone
<1>1. PICK k \in Keys : k = Run(loop_sub)
  BY <1>0, CurrentRun
<1>2. k \in Keys /\ k[1] = loop_sub /\ k[2] = Reached(loop_sub) /\ k[2] \in Intervals
  BY <1>0, <1>1, CurrentRun DEF Run
<1>3. pending[k] = None
  BY <1>0, <1>1, <1>2 DEF IInv, AskedInv, LoopCheckResponded, Run
<1>4. ~InFlight(k) /\ AllFailed(k)
  BY <1>0, <1>2, <1>3 DEF IInv, PendingInv
<1>5. relays[k[1]] # 0
  BY <1>0, <1>2 DEF IInv, RelayInv
<1>6. PhaseOf(k) = "idle" /\ PhaseOf(k)' = "working"
  BY <1>0, <1>1, <1>4 DEF PhaseOf, HasTx, AllFailed, InFlight, TypeOK
<1>7. ASSUME NEW l \in Keys \ {k} PROVE PhaseOf(l)' = PhaseOf(l)
  <2>1. InFlight(l)' <=> InFlight(l)
    BY <1>0, <1>1, KeyFacts DEF InFlight, TypeOK
  <2>2. \A st : HasTx(l, st)' <=> HasTx(l, st)
    BY <1>0 DEF HasTx
  <2>. QED
    BY <2>1, <2>2 DEF PhaseOf
<1>8. Cycle!Move(k, "idle", "working")
  BY <1>2, <1>6, <1>7, Moves
<1>9. [r \in Subs |-> WindowOf(r)]' = [r \in Subs |-> WindowOf(r)]
  BY <1>0, WindowsStay
<1>10. [r \in Subs |-> WindowOf(r)][k[1]] = "open"
  BY <1>0, <1>2, <1>5 DEF WindowOf
<1>11. Cycle!Begin(k)
  BY <1>8, <1>9, <1>10 DEF Cycle!Begin
<1>. QED
  BY <1>2, <1>11 DEF Cycle!Next

\* A call ends, with a transaction broadcast or without, and may untrack.
LEMMA EndStep ==
    ASSUME TypeOK, IInv, NEW p \in Procs, p_key[p] \in Keys, EndProcess(p),
           UNCHANGED relays,
           UNCHANGED tracked \/ tracked' = tracked \ {SubOf(p)},
           UNCHANGED txs \/ \E t \in Txs : Broadcast(t, p)
    PROVE  [Cycle!Next]_(Cycle!vars)
<1>1. PICK k \in Keys : k = p_key[p]
  OBVIOUS
<1>2. /\ \A q \in Procs : q # p => p_key'[q] = p_key[q] /\ p_key[q] # k
      /\ p_key'[p] = None /\ k # None
      /\ AllFailed(k)
  BY <1>1, KeyFacts DEF EndProcess, IInv, ProcessInv, TypeOK
<1>3. PhaseOf(k) = "working"
  BY <1>1, <1>2 DEF PhaseOf, HasTx, AllFailed, InFlight
<1>4. \A l \in Keys \ {k} : InFlight(l)' <=> InFlight(l)
  BY <1>1, <1>2, KeyFacts DEF InFlight
<1>5. ~InFlight(k)'
  BY <1>2 DEF InFlight
<1>6. Cycle!Move(k, "working", "idle") \/ Cycle!Move(k, "working", "sent")
  <2>1. CASE UNCHANGED txs
    <3>1. PhaseOf(k)' = "idle"
      BY <1>2, <1>5, <2>1 DEF PhaseOf, HasTx, AllFailed, txs
    <3>2. \A l \in Keys \ {k} : PhaseOf(l)' = PhaseOf(l)
      BY <1>4, <2>1 DEF PhaseOf, HasTx, txs
    <3>. QED
      BY <1>3, <3>1, <3>2, Moves
  <2>2. ASSUME NEW t \in Txs, Broadcast(t, p)
        PROVE  Cycle!Move(k, "working", "sent")
    <3>1. /\ tx_key'[t] = k /\ tx_status'[t] = "mempool"
          /\ sent' = sent \cup {t} /\ t \notin sent /\ sent \subseteq Txs
          /\ \A u \in Txs : u # t => tx_key'[u] = tx_key[u] /\ tx_status'[u] = tx_status[u]
      BY <1>1, <2>2 DEF Broadcast, TypeOK
    <3>2. PhaseOf(k)' = "sent"
      <4>1. HasTx(k, "mempool")' /\ ~HasTx(k, "success")'
        BY <1>2, <3>1 DEF HasTx, AllFailed
      <4>. QED
        BY <4>1 DEF PhaseOf
    <3>3. ASSUME NEW l \in Keys \ {k} PROVE PhaseOf(l)' = PhaseOf(l)
      <4>1. l # None
        BY KeyFacts
      <4>2. \A st : HasTx(l, st)' <=> HasTx(l, st)
        BY <3>1, <4>1 DEF HasTx
      <4>. QED
        BY <1>4, <4>2 DEF PhaseOf
    <3>. QED
      BY <1>3, <3>2, <3>3, Moves
  <2>. QED
    BY <2>1, <2>2
<1>7. \/ [r \in Subs |-> WindowOf(r)]' = [r \in Subs |-> WindowOf(r)]
      \/ Cycle!Close(k[1])
  BY <1>1, KeyFacts, WindowsStay, Untracked DEF SubOf, IInv
<1>8. Cycle!End(k)
  BY <1>6, <1>7 DEF Cycle!End
<1>. QED
  BY <1>8 DEF Cycle!Next

\* A transaction is mined, one way or the other; one sent in an earlier life of the
\* process changes nothing.
LEMMA MinedStep ==
    ASSUME TypeOK, IInv, NEW t \in Txs, Mine(t)
    PROVE  [Cycle!Next]_(Cycle!vars)
<1>1. /\ UNCHANGED <<tracked, relays, p_key, tx_key, sent>>
      /\ tx_status[t] = "mempool" /\ sent \subseteq Txs
      /\ tx_status' = [tx_status EXCEPT ![t] = "success"]
         \/ tx_status' = [tx_status EXCEPT ![t] = "failed"]
  BY DEF Mine, MineSuccess, MineFailure, tables, procs, TypeOK
<1>2. PICK k \in Keys : k = tx_key[t]
  BY <1>1 DEF TypeOK
<1>3. ASSUME NEW l \in Keys, l # k \/ t \notin sent PROVE PhaseOf(l)' = PhaseOf(l)
  <2>1. \A st : HasTx(l, st)' <=> HasTx(l, st)
    BY <1>1, <1>2, <1>3 DEF HasTx, TypeOK
  <2>. QED
    BY <1>1, <2>1 DEF PhaseOf, InFlight
<1>4. [r \in Subs |-> WindowOf(r)]' = [r \in Subs |-> WindowOf(r)]
  BY <1>1, WindowsStay
<1>5. CASE t \notin sent
  <2>1. \A l \in Keys : PhaseOf(l)' = PhaseOf(l)
    BY <1>3, <1>5
  <2> HIDE DEF PhaseOf, WindowOf
  <2>. QED
    BY <1>4, <2>1 DEF Cycle!vars
<1>6. CASE t \in sent
  <2>1. \A u \in sent : u # t /\ tx_key[u] = k => ~Live(u)
    BY <1>1, <1>2, <1>6 DEF IInv, AtMostOneLiveTx, Live
  <2>2. ~InFlight(k) /\ ~InFlight(k)'
    BY <1>1, <1>2, <1>6, KeyFacts DEF IInv, ProcessInv, AllFailed, InFlight
  <2>3. PhaseOf(k) = "sent"
    BY <1>1, <1>2, <1>6, <2>1 DEF PhaseOf, HasTx, Live
  <2>4. PhaseOf(k)' = "idle" \/ PhaseOf(k)' = "answered"
    BY <1>1, <1>2, <1>6, <2>1, <2>2 DEF PhaseOf, HasTx, Live, TypeOK
  <2>5. Cycle!Move(k, "sent", "idle") \/ Cycle!Move(k, "sent", "answered")
    BY <1>3, <2>3, <2>4, Moves
  <2>6. Cycle!Mined(k)
    BY <1>4, <2>5 DEF Cycle!Mined
  <2>. QED
    BY <2>6 DEF Cycle!Next
<1>. QED
  BY <1>5, <1>6

\* A subscription is relayed for the only time.
LEMMA OpenStep ==
    ASSUME TypeOK, OneRelay, NEW s \in Subs, Track(s)
    PROVE  [Cycle!Next]_(Cycle!vars)
<1>1. /\ UNCHANGED <<p_key, tx_key, tx_status, sent>>
      /\ relays[s] = 0 /\ relays' = [relays EXCEPT ![s] = 1]
      /\ tracked' = tracked \cup {s} /\ relays \in [Subs -> 0 .. 1]
  <2>1. relays \in [Subs -> 0 .. 1] /\ relays[s] < 1
    BY DEF Track, OneRelay, TypeOK
  <2>2. relays[s] = 0
    BY <2>1
  <2>. QED
    BY <2>1, <2>2 DEF Track, procs, chain, txs
<1>2. WindowOf(s) = "new" /\ WindowOf(s)' = "open"
  BY <1>1 DEF WindowOf
<1>3. \A r \in Subs : WindowOf(r)' = IF r = s THEN "open" ELSE WindowOf(r)
  <2>1. \A r \in Subs \ {s} : WindowOf(r)' = WindowOf(r)
    BY <1>1 DEF WindowOf
  <2>. QED
    BY <1>2, <2>1
<1>4. [k \in Keys |-> PhaseOf(k)]' = [k \in Keys |-> PhaseOf(k)]
  BY <1>1, PhasesStay
<1> HIDE DEF WindowOf, PhaseOf
<1>5. Cycle!Open(s)
  BY <1>2, <1>3, <1>4 DEF Cycle!Open
<1>. QED
  BY <1>5 DEF Cycle!Next

\* A step of a process_subscription call goes on quietly, or ends the call.
LEMMA CallStep ==
    ASSUME TypeOK, ActivityInv, IInv, NEW p \in Procs, ProcStep(p)
    PROVE  [Cycle!Next]_(Cycle!vars)
<1>0. RelayInv
  BY DEF IInv
<1>1. CASE \/ ProcSimulated(p) \/ ProcExecuted(p) \/ ProcEscrowed(p)
           \/ ProcDeliverSimulated(p) \/ ProcSubmit(p)
  BY <1>0, <1>1, QuietStep
     DEF ProcSimulated, ProcExecuted, ProcEscrowed, ProcDeliverSimulated, ProcSubmit,
         BeginDeliver, tables, chain, txs
<1>2. CASE \/ ProcSimulationRejected(p) \/ ProcContainerFailed(p)
           \/ ProcWrite(p) \/ ProcDeliverFailed(p)
  <2>0. p_key[p] \in Keys
    BY <1>2, ProcTypes DEF ProcSimulationRejected, ProcContainerFailed, ProcWrite,
                           ProcDeliverFailed
  <2>1. EndProcess(p) /\ UNCHANGED relays
    BY <1>2 DEF ProcSimulationRejected, ProcContainerFailed, ProcWrite, ProcDeliverFailed
  <2>2. UNCHANGED tracked \/ tracked' = tracked \ {SubOf(p)}
    BY <1>2 DEF ProcSimulationRejected, ProcContainerFailed, ProcWrite, ProcDeliverFailed,
                StopIfCallback, StopTracking
  <2>3. UNCHANGED txs \/ \E t \in Txs : Broadcast(t, p)
    BY <1>2 DEF ProcSimulationRejected, ProcContainerFailed, ProcWrite, ProcDeliverFailed,
                chain
  <2>. QED
    BY <2>0, <2>1, <2>2, <2>3, EndStep
<1>. QED
  BY <1>1, <1>2 DEF ProcStep

\* A process that starts has relayed nothing, begun nothing and sent nothing.
LEMMA RestartStep ==
    ASSUME CrashRestart
    PROVE  Cycle!Restart
<1>1. /\ \A s \in Subs : relays'[s] = 0
      /\ \A p \in Procs : p_key'[p] = None
      /\ sent' = {}
  BY DEF CrashRestart
<1>2. \A s \in Subs : WindowOf(s)' = "new"
  BY <1>1 DEF WindowOf
<1>3. \A k \in Keys : PhaseOf(k)' = "idle"
  BY <1>1, KeyFacts DEF PhaseOf, HasTx, InFlight
<1> HIDE DEF WindowOf, PhaseOf
<1>. QED
  BY <1>2, <1>3 DEF Cycle!Restart

\* One step of the node or of the chain is a step of the cycle or a stutter.
LEMMA CycleStep ==
    ASSUME OneRelay, TypeOK, ActivityInv, IInv, [Next]_vars
    PROVE  [Cycle!Next]_(Cycle!vars)
<1>0. RelayInv
  BY DEF IInv
<1>1. ASSUME LoopStep, UNCHANGED procs
      PROVE  [Cycle!Next]_(Cycle!vars)
  BY <1>0, <1>1, QuietStep
     DEF LoopStep, LoopTop, LoopNext, LoopEndPass, LoopCheckWallet, LoopCheckCancelled,
         LoopCheckCompleted, LoopStopUnderLock, LoopCheckResponded, StopTracking,
         StartProcess, tables, procs, chain, txs, TypeOK
<1>2. CASE LoopStep
  <2>1. CASE LoopCheckResponded
    BY <1>1, <2>1, <1>2, BeginStep DEF LoopCheckResponded, MissedMeanwhile
  <2>2. CASE ~LoopCheckResponded
    BY <1>1, <1>2, <2>2
       DEF LoopStep, LoopTop, LoopNext, LoopEndPass, LoopCheckWallet,
           LoopCheckCancelled, LoopCheckCompleted, LoopStopUnderLock
  <2>. QED
    BY <2>1, <2>2
<1>3. CASE \E p \in Procs : ProcStep(p)
  BY <1>3, CallStep
<1>4. CASE \E t \in Txs : Mine(t)
  BY <1>4, MinedStep
<1>5. CASE \E s \in Subs : Track(s)
  BY <1>5, OpenStep
<1>6. CASE \/ PruneStep
           \/ \E s \in Subs : OthersRespond(s) \/ Cancel(s)
           \/ Tick
           \/ UNCHANGED vars
  BY <1>0, <1>6, QuietStep
     DEF PruneStep, PruneCheck, PruneFound, PruneNotFound, PruneFinish,
         OthersRespond, Cancel, Tick, vars, tables,
         procs, chain, txs
<1>7. CASE CrashRestart
  BY <1>7, RestartStep DEF Cycle!Next
<1>. QED
  BY <1>2, <1>3, <1>4, <1>5, <1>6, <1>7 DEF Next

\* For every number of subscriptions, intervals, calls, transactions and restarts,
\* the processor implements the delivery cycle.
THEOREM OneCyclePerRun ==
    ASSUME OneRelay
    PROVE  Spec => ImplementsDeliveryCycle
<1>1. Init => Cycle!Init
  BY KeyFacts DEF Init, Cycle!Init, WindowOf, PhaseOf, HasTx, InFlight
<1>2. TypeOK /\ ActivityInv /\ IInv /\ [Next]_vars => [Cycle!Next]_(Cycle!vars)
  BY CycleStep
<1>. QED
  BY <1>1, <1>2, ProcessorInvariant, TypeCorrect, PTL DEF Spec, ImplementsDeliveryCycle, Cycle!Spec
===============================================================================
