--------------------------- MODULE OrchestratorProofs --------------------------
(***************************************************************************)
(* Proofs about the orchestrator and the data store, for any number of     *)
(* jobs of any length under any keys, kills and restarts.                  *)
(***************************************************************************)
EXTENDS Orchestrator, FiniteSetTheorems, TLAPS

\* The types the invariants rest on; onchain_pending needs Accounting to be a Nat.
Shape ==
    /\ completed \in [Keys -> Statuses \cup {None}]
    /\ pending \subseteq Keys
    /\ j_pc \in [Jobs -> JobPcs]
    /\ j_status \in [Jobs -> Statuses \cup {None}]
    /\ j_key \in [OffJobs -> Keys]
    /\ \A j \in Jobs : j_pc[j] \in {"set_running", "del", "store"} => j \in OffJobs
    /\ \A j \in Jobs : j_pc[j] \in {"del", "store"} => j_status[j] \in Statuses
    /\ up \in BOOLEAN
    /\ get_pc \in {"idle", "pending", "scan"}
    /\ get_pc = "pending" => get_key \in Keys
    /\ get_found \in Statuses \cup {None}

Submit(j) == SubmitOffchain(j) \/ SubmitOnchain(j)

\* The steps of a job while its containers and its client are concerned.
Move(j) ==
    \/ Abort(j) \/ Responds(j) \/ Chunk(j) \/ ReadOn(j) \/ Abandon(j)
    \/ BodyFails(j) \/ BodyRead(j) \/ BodyNotJson(j)

\* What a client asks and is told, and what neither it nor a job changes.
Asking == <<get_pc, get_key, get_found, get_answer, listing>>

LEMMA NextSteps ==
    ASSUME Next
    PROVE  \/ \E j \in Jobs : up /\ (Submit(j) \/ Move(j) \/ Stored(j) \/ Deleted(j) \/ Completed(j))
           \/ ProcessEnds \/ Restart
           \/ \E k \in Keys : RunningExpires(k) \/ GetCompleted(k)
           \/ \E ip \in Addresses : ListFirst(ip)
           \/ \E S \in SUBSET (OffJobs \ StreamJobs) : SubmitBatch(S)
           \/ GetPending \/ ListSecond
BY DEF Next, JobStep, NodeStep, ContainerStep, ClientStep, TextRejected, Kill, Submit, Move

\* The end of a request, successful or not, leaves the two databases alone.
LEMMA SettleEffect ==
    ASSUME NEW j \in Jobs, NEW st \in Statuses, Settle(j, st)
    PROVE  /\ UNCHANGED <<completed, pending, j_key, up, Asking>>
           /\ j_status' = [j_status EXCEPT ![j] = st]
           /\ \/ j \in ChainJobs /\ j_pc' = [j_pc EXCEPT ![j] = "ended"]
              \/ j \in OffJobs /\ j_pc' = [j_pc EXCEPT ![j] = "del"]
BY DEF Settle, SetOnchainDone, Goto, store, process, get, Asking

LEMMA SubmitEffect ==
    ASSUME NEW j \in Jobs, Submit(j)
    PROVE  /\ UNCHANGED <<completed, pending, j_status, j_key, up, Asking>>
           /\ j_pc[j] = "new"
           /\ \/ j \in OffJobs /\ j_pc' = [j_pc EXCEPT ![j] = "set_running"]
              \/ j \in ChainJobs /\ j_pc' = [j_pc EXCEPT ![j] = "call"]
BY DEF Submit, SubmitOffchain, SubmitOnchain, SetRunningOnchain, Goto, store, process, get, Asking

LEMMA MoveEffect ==
    ASSUME NEW j \in Jobs, Move(j)
    PROVE  /\ UNCHANGED <<completed, pending, j_key, up, Asking>>
           /\ j_pc[j] \in {"call", "body", "yield"}
           /\ \/ /\ j_status' = j_status
                 /\ \E pc \in {"call", "body", "yield", "text", "abandoned"} :
                      j_pc' = [j_pc EXCEPT ![j] = pc]
              \/ /\ \E st \in Statuses : j_status' = [j_status EXCEPT ![j] = st]
                 /\ \/ j \in ChainJobs /\ j_pc' = [j_pc EXCEPT ![j] = "ended"]
                    \/ j \in OffJobs /\ j_pc' = [j_pc EXCEPT ![j] = "del"]
<1>1. CASE Responds(j) \/ Chunk(j) \/ ReadOn(j) \/ BodyNotJson(j) \/ Abandon(j)
  BY <1>1 DEF Responds, Chunk, ReadOn, BodyNotJson, Abandon, Goto, store, process, get, Asking
<1>2. CASE BodyRead(j) /\ ~Settle(j, "success")
  BY <1>2 DEF BodyRead, Goto, store, process, get, Asking
<1>3. CASE Abort(j) \/ BodyFails(j) \/ (BodyRead(j) /\ Settle(j, "success"))
  <2>1. PICK st \in Statuses : Settle(j, st) /\ j_pc[j] \in {"call", "body"}
    BY <1>3 DEF Abort, BodyFails, BodyRead, TimerArmed, Statuses
  <2>. QED
    BY <2>1, SettleEffect
<1>. QED
  BY <1>1, <1>2, <1>3 DEF Move

LEMMA WriteEffect ==
    ASSUME NEW j \in Jobs, Stored(j) \/ Deleted(j) \/ Completed(j)
    PROVE  /\ UNCHANGED <<j_status, j_key, up, Asking>>
           /\ \/ /\ j_pc[j] = "set_running" /\ j_pc' = [j_pc EXCEPT ![j] = "call"]
                 /\ completed' = completed /\ pending' = pending \cup {j_key[j]}
              \/ /\ j_pc[j] = "del" /\ j_pc' = [j_pc EXCEPT ![j] = "store"]
                 /\ completed' = completed /\ pending' = pending \ {j_key[j]}
              \/ /\ j_pc[j] = "store" /\ j_pc' = [j_pc EXCEPT ![j] = "ended"]
                 /\ completed' = [completed EXCEPT ![j_key[j]] = j_status[j]] /\ pending' = pending
BY DEF Stored, SetRunning, Deleted, Unset, DropRunning, Completed, SetCompleted, Goto, process, get,
       Asking

LEMMA BatchEffect ==
    ASSUME NEW S \in SUBSET (OffJobs \ StreamJobs), SubmitBatch(S)
    PROVE  /\ UNCHANGED <<completed, pending, j_status, j_key, up, Asking>>
           /\ \A j \in S : j_pc[j] = "new"
           /\ j_pc' = [j \in Jobs |-> IF j \in S THEN "set_running" ELSE j_pc[j]]
BY DEF SubmitBatch, store, process, get, Asking

\* What the steps of the process and of its clients leave alone.
LEMMA OtherEffect ==
    /\ ProcessEnds => UNCHANGED <<completed, pending, j_key>>
    /\ Restart => UNCHANGED <<completed, j_pc, j_status, j_key, Asking>> /\ pending' = {}
    /\ \A k \in Keys : RunningExpires(k) =>
         /\ UNCHANGED <<completed, j_pc, j_status, j_key, up, Asking>>
         /\ k \in pending /\ pending' = pending \ {k}
    /\ (\E k \in Keys : GetCompleted(k)) \/ (\E ip \in Addresses : ListFirst(ip))
         \/ GetPending \/ ListSecond \/ UNCHANGED vars
         => UNCHANGED <<completed, pending, j_pc, j_status, j_key, up>>
<1>1. ProcessEnds => UNCHANGED <<completed, pending, j_key>>
  BY DEF ProcessEnds, StoreDown
<1>2. Restart => UNCHANGED <<completed, j_pc, j_status, j_key, Asking>> /\ pending' = {}
  BY DEF Restart, StoreSetup, Flushed, jobs, get, Asking
<1>3. \A k \in Keys : RunningExpires(k) =>
         /\ UNCHANGED <<completed, j_pc, j_status, j_key, up, Asking>>
         /\ k \in pending /\ pending' = pending \ {k}
  BY DEF RunningExpires, Expire, jobs, process, get, Asking
<1>4. (\E k \in Keys : GetCompleted(k)) \/ (\E ip \in Addresses : ListFirst(ip))
        => UNCHANGED <<completed, pending, j_pc, j_status, j_key, up>>
  BY DEF GetCompleted, ListFirst, store, jobs, process
<1>5. GetPending \/ ListSecond \/ UNCHANGED vars
        => UNCHANGED <<completed, pending, j_pc, j_status, j_key, up>>
  BY DEF GetPending, ListSecond, vars, store, jobs, process
<1>. QED
  BY <1>1, <1>2, <1>3, <1>4, <1>5

LEMMA ShapeStep ==
    ASSUME Shape, [Next]_vars
    PROVE  Shape'
<1>. USE DEF Shape
<1>1. ASSUME NEW j \in Jobs, Submit(j)
      PROVE  Shape'
  BY <1>1, SubmitEffect DEF JobPcs, Asking
<1>2. ASSUME NEW j \in Jobs, Move(j)
      PROVE  Shape'
  BY <1>2, MoveEffect DEF JobPcs, Asking
<1>3. ASSUME NEW j \in Jobs, Stored(j) \/ Deleted(j) \/ Completed(j)
      PROVE  Shape'
  <2>1. j \in OffJobs /\ j_key[j] \in Keys /\ (j_pc[j] = "store" => j_status[j] \in Statuses)
    BY <1>3, WriteEffect
  <2>2. UNCHANGED <<j_status, j_key, up, get_pc, get_key, get_found>>
    BY <1>3, WriteEffect DEF Asking
  <2>3. /\ completed' \in [Keys -> Statuses \cup {None}] /\ pending' \subseteq Keys
        /\ \E pc \in {"call", "store", "ended"} :
             j_pc' = [j_pc EXCEPT ![j] = pc] /\ (pc = "store" => j_pc[j] = "del")
    BY <1>3, <2>1, WriteEffect
  <2>. QED
    BY <2>1, <2>2, <2>3 DEF JobPcs
<1>4. CASE ProcessEnds
  BY <1>4 DEF ProcessEnds, StoreDown, JobPcs
<1>5. CASE Restart
  BY <1>5, OtherEffect DEF Restart, Asking
<1>6. ASSUME NEW k \in Keys, RunningExpires(k)
      PROVE  Shape'
  BY <1>6, OtherEffect DEF Asking
<1>7. ASSUME NEW k \in Keys, GetCompleted(k)
      PROVE  Shape'
  BY <1>7 DEF GetCompleted, store, jobs, process
<1>8. CASE GetPending \/ ListSecond
  BY <1>8 DEF GetPending, ListSecond, store, jobs, process
<1>9. ASSUME NEW ip \in Addresses, ListFirst(ip)
      PROVE  Shape'
  BY <1>9 DEF ListFirst, store, jobs, process
<1>10. CASE UNCHANGED vars
  BY <1>10 DEF vars, store, jobs, process, get
<1>11. ASSUME NEW S \in SUBSET (OffJobs \ StreamJobs), SubmitBatch(S)
       PROVE  Shape'
  <2>1. \A j \in Jobs : j_pc'[j] = IF j \in S THEN "set_running" ELSE j_pc[j]
    BY <1>11, BatchEffect
  <2>2. j_pc' \in [Jobs -> JobPcs]
    BY <1>11, BatchEffect DEF JobPcs
  <2>. QED
    BY <1>11, <2>1, <2>2, BatchEffect DEF Asking
<1>. QED
  BY <1>1, <1>2, <1>3, <1>4, <1>5, <1>6, <1>7, <1>8, <1>9, <1>10, <1>11, NextSteps
-------------------------------------------------------------------------------
(* The jobs of a key.                                                      *)

\* Submitting jobs is all that changes which jobs a key has.
LEMMA JobsKept ==
    ASSUME j_key' = j_key, \A j \in OffJobs : j_pc'[j] = "new" <=> j_pc[j] = "new", NEW k
    PROVE  JobsOf(k)' = JobsOf(k) /\ (Sole(k)' <=> Sole(k))
<1>1. JobsOf(k)' = JobsOf(k)
  BY DEF JobsOf
<1>. QED
  BY <1>1 DEF Sole

LEMMA JobsGrow ==
    ASSUME j_key' = j_key, \A j \in OffJobs : j_pc'[j] = "new" => j_pc[j] = "new", NEW k
    PROVE  JobsOf(k) \subseteq JobsOf(k)' /\ (Sole(k)' => Sole(k))
<1>1. JobsOf(k) \subseteq JobsOf(k)'
  BY DEF JobsOf
<1>. QED
  BY <1>1 DEF Sole

\* Which steps submit no job.
LEMMA WhoSubmits ==
    ASSUME Shape, [Next]_vars
    PROVE  /\ j_key' = j_key
           /\ \A j \in OffJobs : j_pc'[j] = "new" => j_pc[j] = "new"
           /\ \/ \A j \in OffJobs : j_pc'[j] = "new" <=> j_pc[j] = "new"
              \/ \E j \in Jobs : Submit(j)
              \/ \E S \in SUBSET (OffJobs \ StreamJobs) : SubmitBatch(S)
<1>. DEFINE Same == \A j \in OffJobs : j_pc'[j] = "new" <=> j_pc[j] = "new"
            Grow == \A j \in OffJobs : j_pc'[j] = "new" => j_pc[j] = "new"
<1>0. j_pc \in [Jobs -> JobPcs] /\ \A j \in OffJobs : j \in Jobs
  BY DEF Shape, Jobs
<1>1. ASSUME NEW j \in Jobs, Submit(j)
      PROVE  j_key' = j_key /\ Grow
  BY <1>0, <1>1, SubmitEffect
<1>2. ASSUME NEW j \in Jobs, Move(j)
      PROVE  j_key' = j_key /\ Same
  BY <1>0, <1>2, MoveEffect
<1>3. ASSUME NEW j \in Jobs, Stored(j) \/ Deleted(j) \/ Completed(j)
      PROVE  j_key' = j_key /\ Same
  BY <1>0, <1>3, WriteEffect
<1>4. CASE ProcessEnds
  <2>1. \A j \in OffJobs : j_pc'[j] = IF j_pc[j] = "new" THEN "new" ELSE "past"
    BY <1>0, <1>4 DEF ProcessEnds
  <2>2. j_key' = j_key
    BY <1>4, OtherEffect
  <2>. QED
    BY <2>1, <2>2
<1>5. ASSUME NEW S \in SUBSET (OffJobs \ StreamJobs), SubmitBatch(S)
      PROVE  j_key' = j_key /\ Grow
  BY <1>0, <1>5, BatchEffect
<1>6. ASSUME \/ Restart \/ GetPending \/ ListSecond \/ UNCHANGED vars
             \/ \E k \in Keys : RunningExpires(k) \/ GetCompleted(k)
             \/ \E ip \in Addresses : ListFirst(ip)
      PROVE  j_key' = j_key /\ Same
  BY <1>6, OtherEffect
<1>. QED
  BY <1>1, <1>2, <1>3, <1>4, <1>5, <1>6, NextSteps
-------------------------------------------------------------------------------
(* The two databases: GetNeverContradicts, RunningIsRun and ResultIsFinal. *)

\* The databases and the client stay, jobs are submitted or go on.
LEMMA QuietStep ==
    ASSUME Shape, StoreInv, UNCHANGED <<completed, pending, j_key, up, Asking>>,
           \A j \in OffJobs :
               /\ j_pc'[j] = "new" => j_pc[j] = "new"
               /\ j_pc[j] \in {"ended", "past"} => j_pc'[j] \in {"ended", "past"}
               /\ j_pc[j] \in Running => j_pc'[j] \in Running
               /\ j_pc[j] = "past" => j_pc'[j] = "past"
    PROVE  StoreInv'
<1>1. \A k : JobsOf(k) \subseteq JobsOf(k)' /\ (Sole(k)' => Sole(k))
  BY JobsGrow
<1>2. \A k : JobsOf(k) \subseteq OffJobs
  BY DEF JobsOf
<1>3. ASSUME NEW k \in Keys, completed'[k] # None
      PROVE  /\ \E j \in JobsOf(k)' : j_pc'[j] \in {"ended", "past"}
             /\ Sole(k)' => k \notin pending'
  <2>1. PICK j \in JobsOf(k) : j_pc[j] \in {"ended", "past"}
    BY <1>3 DEF StoreInv
  <2>2. j \in JobsOf(k)' /\ j_pc'[j] \in {"ended", "past"}
    BY <1>1, <1>2, <2>1
  <2>. QED
    BY <1>1, <1>3, <2>2 DEF StoreInv
<1>4. ASSUME NEW k \in pending'
      PROVE  /\ \E j \in JobsOf(k)' : j_pc'[j] \in Running \cup {"past"}
             /\ up' => \E j \in JobsOf(k)' : j_pc'[j] \in Running
  <2>1. ASSUME NEW j \in JobsOf(k)
        PROVE  /\ j \in JobsOf(k)'
               /\ j_pc[j] \in Running => j_pc'[j] \in Running
               /\ j_pc[j] = "past" => j_pc'[j] = "past"
    BY <1>1, <1>2
  <2>. QED
    BY <1>4, <2>1 DEF StoreInv, RunningIsRun
<1>5. get_pc' = "pending" /\ get_found' # None /\ Sole(get_key)' => completed'[get_key'] = get_found'
  BY <1>1 DEF StoreInv, Asking
<1>6. Sole(get_key)' => \E a \in Statuses \cup {"running"} : get_answer' \subseteq {a}
  BY <1>1 DEF StoreInv, Asking
<1>. QED
  BY <1>3, <1>4, <1>5, <1>6 DEF StoreInv, RunningIsRun

LEMMA StoreInvStep ==
    ASSUME Shape, StoreInv, [Next]_vars
    PROVE  StoreInv'
<1>0. /\ j_pc \in [Jobs -> JobPcs] /\ j_key \in [OffJobs -> Keys]
      /\ \A j \in OffJobs : j \in Jobs
      /\ ChainJobs \cap OffJobs = {}
  BY OrchestratorAssumption DEF Shape, Jobs
<1>1. ASSUME NEW j \in Jobs, Submit(j) \/ Move(j)
      PROVE  StoreInv'
  <2>1. UNCHANGED <<completed, pending, j_key, up, Asking>>
    BY <1>1, SubmitEffect, MoveEffect
  <2>2. CASE Submit(j)
    <3>1. /\ j_pc[j] = "new"
          /\ \E pc \in {"set_running", "call"} : j_pc' = [j_pc EXCEPT ![j] = pc]
      BY <2>2, SubmitEffect
    <3>. QED
      BY <1>0, <2>1, <3>1, QuietStep DEF Running
  <2>3. CASE Move(j)
    <3>1. /\ j_pc[j] \in {"call", "body", "yield"}
          /\ \E pc \in Running \cup {"ended"} :
               j_pc' = [j_pc EXCEPT ![j] = pc] /\ (j \in OffJobs => pc \in Running)
      BY <1>0, <2>3, MoveEffect DEF Running
    <3>. QED
      BY <1>0, <2>1, <3>1, QuietStep DEF Running
  <2>. QED
    BY <1>1, <2>2, <2>3
<1>2. ASSUME NEW S \in SUBSET (OffJobs \ StreamJobs), SubmitBatch(S)
      PROVE  StoreInv'
  <2>1. /\ UNCHANGED <<completed, pending, j_key, up, Asking>>
        /\ \A j \in OffJobs : IF j \in S THEN j_pc[j] = "new" /\ j_pc'[j] = "set_running"
                                         ELSE j_pc'[j] = j_pc[j]
    BY <1>0, <1>2, BatchEffect
  <2>. QED
    BY <2>1, QuietStep DEF Running
<1>3. ASSUME NEW j \in Jobs, up, Stored(j) \/ Deleted(j) \/ Completed(j)
      PROVE  StoreInv'
  <2>. DEFINE k == j_key[j]
  <2>1. /\ j \in OffJobs /\ k \in Keys /\ j \in JobsOf(k)
        /\ \A i \in OffJobs : i # j => j_pc'[i] = j_pc[i]
        /\ UNCHANGED <<j_key, up, Asking>>
    <3>1. /\ j_pc[j] \in {"set_running", "del", "store"}
          /\ \E pc : j_pc' = [j_pc EXCEPT ![j] = pc]
          /\ UNCHANGED <<j_key, up, Asking>>
      BY <1>3, WriteEffect
    <3>2. j \in OffJobs
      BY <3>1 DEF Shape
    <3>3. j \in JobsOf(k)
      BY <3>1, <3>2 DEF JobsOf
    <3>. QED
      BY <1>0, <3>1, <3>2, <3>3
  <2>2. \A q : JobsOf(q)' = JobsOf(q) /\ (Sole(q)' <=> Sole(q))
    BY <1>0, <1>3, <2>1, JobsKept, WriteEffect
  <2>3. \A q : JobsOf(q) \subseteq OffJobs /\ (q # k => j \notin JobsOf(q))
    BY DEF JobsOf
  <2>. HIDE DEF k
  <2>4. Sole(k) /\ j_pc[j] \notin {"ended", "past"} => completed[k] = None
    <3>1. ASSUME Sole(k), completed[k] # None
          PROVE  j_pc[j] \in {"ended", "past"}
      <4>1. PICK i \in JobsOf(k) : j_pc[i] \in {"ended", "past"}
        BY <2>1, <3>1 DEF StoreInv
      <4>2. i = j
        BY <2>1, <3>1, <4>1 DEF Sole
      <4>. QED
        BY <4>1, <4>2
    <3>. QED
      BY <3>1
  <2>5. Sole(k) /\ j_pc[j] \notin Running => k \notin pending
    <3>1. ASSUME Sole(k), k \in pending
          PROVE  j_pc[j] \in Running
      <4>1. PICK i \in JobsOf(k) : j_pc[i] \in Running
        BY <1>3, <3>1 DEF StoreInv, RunningIsRun
      <4>2. i = j
        BY <2>1, <3>1, <4>1 DEF Sole
      <4>. QED
        BY <4>1, <4>2
    <3>. QED
      BY <3>1
  <2>6. Sole(get_key)' => \E a \in Statuses \cup {"running"} : get_answer' \subseteq {a}
    BY <2>1, <2>2 DEF StoreInv, Asking
  <2>7. CASE j_pc[j] = "set_running" /\ j_pc'[j] = "call" /\ completed' = completed
               /\ pending' = pending \cup {k}
    <3>1. ASSUME NEW q \in Keys, completed'[q] # None
          PROVE  /\ \E i \in JobsOf(q)' : j_pc'[i] \in {"ended", "past"}
                 /\ Sole(q)' => q \notin pending'
      <4>1. PICK i \in JobsOf(q) : j_pc[i] \in {"ended", "past"}
        BY <2>7, <3>1 DEF StoreInv
      <4>2. i # j /\ i \in OffJobs
        BY <2>3, <2>7, <4>1
      <4>3. Sole(q)' => q \notin pending'
        BY <2>2, <2>4, <2>7, <3>1 DEF StoreInv
      <4>. QED
        BY <2>1, <2>2, <4>1, <4>2, <4>3
    <3>2. ASSUME NEW q \in pending'
          PROVE  \E i \in JobsOf(q)' : j_pc'[i] \in Running
      <4>1. CASE q = k
        BY <2>1, <2>2, <2>7, <4>1 DEF Running
      <4>2. CASE q # k
        <5>1. PICK i \in JobsOf(q) : j_pc[i] \in Running
          BY <1>3, <2>7, <3>2, <4>2 DEF StoreInv, RunningIsRun
        <5>. QED
          BY <2>1, <2>2, <2>3, <4>2, <5>1
      <4>. QED
        BY <4>1, <4>2
    <3>3. get_pc' = "pending" /\ get_found' # None /\ Sole(get_key)' => completed'[get_key'] = get_found'
      BY <2>1, <2>2, <2>7 DEF StoreInv, Asking
    <3>. QED
      BY <2>6, <3>1, <3>2, <3>3 DEF StoreInv, RunningIsRun
  <2>8. CASE j_pc[j] = "del" /\ j_pc'[j] = "store" /\ completed' = completed
               /\ pending' = pending \ {k}
    <3>1. ASSUME NEW q \in Keys, completed'[q] # None
          PROVE  /\ \E i \in JobsOf(q)' : j_pc'[i] \in {"ended", "past"}
                 /\ Sole(q)' => q \notin pending'
      <4>1. PICK i \in JobsOf(q) : j_pc[i] \in {"ended", "past"}
        BY <2>8, <3>1 DEF StoreInv
      <4>2. i # j /\ i \in OffJobs
        BY <2>3, <2>8, <4>1
      <4>. QED
        BY <2>1, <2>2, <2>8, <3>1, <4>1, <4>2 DEF StoreInv
    <3>2. ASSUME NEW q \in pending'
          PROVE  \E i \in JobsOf(q)' : j_pc'[i] \in Running
      <4>1. q # k
        BY <2>8
      <4>2. PICK i \in JobsOf(q) : j_pc[i] \in Running
        BY <1>3, <2>8, <3>2 DEF StoreInv, RunningIsRun
      <4>. QED
        BY <2>1, <2>2, <2>3, <4>1, <4>2
    <3>3. get_pc' = "pending" /\ get_found' # None /\ Sole(get_key)' => completed'[get_key'] = get_found'
      BY <2>1, <2>2, <2>8 DEF StoreInv, Asking
    <3>. QED
      BY <2>6, <3>1, <3>2, <3>3 DEF StoreInv, RunningIsRun
  <2>9. CASE j_pc[j] = "store" /\ j_pc'[j] = "ended" /\ pending' = pending
               /\ completed' = [completed EXCEPT ![k] = j_status[j]]
    <3>0. completed \in [Keys -> Statuses \cup {None}] /\ (get_pc = "pending" => get_key \in Keys)
      BY DEF Shape
    <3>1. ASSUME NEW q \in Keys, completed'[q] # None
          PROVE  /\ \E i \in JobsOf(q)' : j_pc'[i] \in {"ended", "past"}
                 /\ Sole(q)' => q \notin pending'
      <4>1. CASE q = k
        BY <2>1, <2>2, <2>5, <2>9, <4>1 DEF Running
      <4>2. CASE q # k
        <5>1. completed[q] # None
          BY <2>9, <3>0, <3>1, <4>2
        <5>2. PICK i \in JobsOf(q) : j_pc[i] \in {"ended", "past"}
          BY <5>1 DEF StoreInv
        <5>3. i # j /\ i \in OffJobs
          BY <2>3, <4>2, <5>2
        <5>. QED
          BY <2>1, <2>2, <2>9, <5>1, <5>2, <5>3 DEF StoreInv
      <4>. QED
        BY <4>1, <4>2
    <3>2. ASSUME NEW q \in pending'
          PROVE  \E i \in JobsOf(q)' : j_pc'[i] \in Running
      <4>1. PICK i \in JobsOf(q) : j_pc[i] \in Running
        BY <1>3, <2>9, <3>2 DEF StoreInv, RunningIsRun
      <4>2. i # j /\ i \in OffJobs
        BY <2>3, <2>9, <4>1 DEF Running
      <4>. QED
        BY <2>1, <2>2, <4>1, <4>2
    <3>3. get_pc' = "pending" /\ get_found' # None /\ Sole(get_key)' => completed'[get_key'] = get_found'
      <4>1. ASSUME get_pc = "pending", get_found # None, Sole(get_key)
            PROVE  completed'[get_key] = get_found
        <5>1. get_key \in Keys /\ completed[get_key] = get_found
          BY <3>0, <4>1 DEF StoreInv
        <5>2. get_key # k
          BY <2>4, <2>9, <4>1, <5>1
        <5>. QED
          BY <2>9, <3>0, <5>1, <5>2
      <4>. QED
        BY <2>1, <2>2, <4>1 DEF Asking
    <3>. QED
      BY <2>6, <3>1, <3>2, <3>3 DEF StoreInv, RunningIsRun
  <2>. QED
    BY <1>0, <1>3, <2>1, <2>7, <2>8, <2>9, WriteEffect DEF k
<1>4. CASE ProcessEnds
  <2>1. /\ UNCHANGED <<completed, pending, j_key, get_key, get_answer>> /\ ~up' /\ get_pc' = "idle"
        /\ \A j \in OffJobs : j_pc'[j] = IF j_pc[j] = "new" THEN "new" ELSE "past"
    BY <1>0, <1>4 DEF ProcessEnds, StoreDown
  <2>2. \A q : JobsOf(q)' = JobsOf(q) /\ (Sole(q)' <=> Sole(q))
    BY <2>1, JobsKept
  <2>3. \A q : \A j \in JobsOf(q) : j_pc'[j] = "past"
    BY <2>1 DEF JobsOf
  <2>4. ASSUME NEW q \in Keys, completed'[q] # None
        PROVE  /\ \E i \in JobsOf(q)' : j_pc'[i] \in {"ended", "past"}
               /\ Sole(q)' => q \notin pending'
    BY <2>1, <2>2, <2>3, <2>4 DEF StoreInv
  <2>5. ASSUME NEW q \in pending'
        PROVE  \E i \in JobsOf(q)' : j_pc'[i] \in Running \cup {"past"}
    BY <2>1, <2>2, <2>3, <2>5 DEF StoreInv
  <2>6. Sole(get_key)' => \E a \in Statuses \cup {"running"} : get_answer' \subseteq {a}
    BY <2>1, <2>2 DEF StoreInv
  <2>. QED
    BY <2>1, <2>4, <2>5, <2>6 DEF StoreInv, RunningIsRun
<1>5. CASE Restart \/ \E k \in Keys : RunningExpires(k)
  <2>1. /\ UNCHANGED <<completed, j_pc, j_key, Asking>> /\ pending' \subseteq pending
        /\ pending' = {} \/ up' = up
    BY <1>5, OtherEffect
  <2>2. \A q : JobsOf(q)' = JobsOf(q) /\ (Sole(q)' <=> Sole(q))
    BY <2>1, JobsKept
  <2>3. ASSUME NEW q \in Keys, completed'[q] # None
        PROVE  /\ \E i \in JobsOf(q)' : j_pc'[i] \in {"ended", "past"}
               /\ Sole(q)' => q \notin pending'
    BY <2>1, <2>2, <2>3 DEF StoreInv
  <2>4. ASSUME NEW q \in pending'
        PROVE  /\ \E i \in JobsOf(q)' : j_pc'[i] \in Running \cup {"past"}
               /\ up' => \E i \in JobsOf(q)' : j_pc'[i] \in Running
    BY <2>1, <2>2, <2>4 DEF StoreInv, RunningIsRun
  <2>5. /\ get_pc' = "pending" /\ get_found' # None /\ Sole(get_key)' => completed'[get_key'] = get_found'
        /\ Sole(get_key)' => \E a \in Statuses \cup {"running"} : get_answer' \subseteq {a}
    BY <2>1, <2>2 DEF StoreInv, Asking
  <2>. QED
    BY <2>3, <2>4, <2>5 DEF StoreInv, RunningIsRun
<1>6. CASE \/ \E k \in Keys : GetCompleted(k)
           \/ \E ip \in Addresses : ListFirst(ip)
           \/ GetPending \/ ListSecond \/ UNCHANGED vars
  <2>1. UNCHANGED <<completed, pending, j_pc, j_status, j_key, up>>
    BY <1>6, OtherEffect
  <2>2. \A q : JobsOf(q)' = JobsOf(q) /\ (Sole(q)' <=> Sole(q))
    BY <2>1, JobsKept
  <2>3. /\ get_pc' = "pending" /\ get_found' # None /\ Sole(get_key)' => completed'[get_key'] = get_found'
        /\ Sole(get_key)' => \E a \in Statuses \cup {"running"} : get_answer' \subseteq {a}
    <3>1. CASE \E k \in Keys : GetCompleted(k)
      BY <2>1, <3>1 DEF GetCompleted
    <3>2. CASE \E ip \in Addresses : ListFirst(ip)
      BY <3>2 DEF ListFirst
    <3>3. CASE GetPending
      <4>1. get_pc' = "idle" /\ get_key' = get_key /\ get_key \in Keys
            /\ get_answer' = ({get_found} \ {None}) \cup (IF get_key \in pending THEN {"running"} ELSE {})
        BY <3>3 DEF GetPending, Shape
      <4>2. ASSUME Sole(get_key)
            PROVE  \E a \in Statuses \cup {"running"} : get_answer' \subseteq {a}
        <5>1. CASE get_found = None
          BY <4>1, <5>1
        <5>2. CASE get_found # None
          <6>1. get_key \notin pending /\ get_found \in Statuses
            BY <3>3, <4>1, <4>2, <5>2 DEF GetPending, StoreInv, Shape
          <6>. QED
            BY <4>1, <6>1
        <5>. QED
          BY <5>1, <5>2
      <4>3. Sole(get_key)' <=> Sole(get_key)
        <5>1. Sole(get_key') <=> Sole(get_key)
          BY <4>1
        <5>. QED
          BY <2>1, <4>1 DEF Sole, JobsOf
      <4>. QED
        BY <4>1, <4>2, <4>3
    <3>4. CASE ListSecond \/ UNCHANGED vars
      <4>1. UNCHANGED <<get_key, get_found, get_answer>> /\ (get_pc' = "pending" => get_pc = "pending")
        BY <3>4 DEF ListSecond, vars, get
      <4>2. Sole(get_key)' <=> Sole(get_key)
        BY <2>1, <4>1 DEF Sole, JobsOf
      <4>. QED
        BY <2>1, <4>1, <4>2 DEF StoreInv
    <3>. QED
      BY <1>6, <3>1, <3>2, <3>3, <3>4
  <2>4. ASSUME NEW q \in Keys, completed'[q] # None
        PROVE  /\ \E i \in JobsOf(q)' : j_pc'[i] \in {"ended", "past"}
               /\ Sole(q)' => q \notin pending'
    BY <2>1, <2>2, <2>4 DEF StoreInv
  <2>5. ASSUME NEW q \in pending'
        PROVE  /\ \E i \in JobsOf(q)' : j_pc'[i] \in Running \cup {"past"}
               /\ up' => \E i \in JobsOf(q)' : j_pc'[i] \in Running
    BY <2>1, <2>2, <2>5 DEF StoreInv, RunningIsRun
  <2>. QED
    BY <2>3, <2>4, <2>5 DEF StoreInv, RunningIsRun
<1>. QED
  BY <1>1, <1>2, <1>3, <1>4, <1>5, <1>6, NextSteps

\* Who stores a result: the other steps leave the completed database alone.
LEMMA WhoCompletes ==
    ASSUME [Next]_vars
    PROVE  completed' = completed \/ \E j \in Jobs : Completed(j)
<1>1. ASSUME NEW j \in Jobs, Submit(j) \/ Move(j)
      PROVE  completed' = completed
  BY <1>1, SubmitEffect, MoveEffect
<1>2. ASSUME NEW j \in Jobs, Stored(j) \/ Deleted(j)
      PROVE  completed' = completed
  BY <1>2 DEF Stored, SetRunning, Deleted, Unset
<1>3. ASSUME NEW S \in SUBSET (OffJobs \ StreamJobs), SubmitBatch(S)
      PROVE  completed' = completed
  BY <1>3, BatchEffect
<1>. QED
  BY <1>1, <1>2, <1>3, OtherEffect, NextSteps

LEMMA ResultStep ==
    ASSUME Shape, StoreInv, StoreInv', [Next]_vars, NEW k \in Keys, completed[k] # None
    PROVE  /\ completed'[k] # None
           /\ Sole(k)' => completed'[k] = completed[k] /\ k \notin pending'
<1>1. completed'[k] # None /\ (Sole(k)' => completed'[k] = completed[k])
  <2>1. CASE \E j \in Jobs : Completed(j)
    <3>1. PICK j \in Jobs : Completed(j)
      BY <2>1
    <3>2. /\ j \in OffJobs /\ j_pc[j] = "store" /\ j_status[j] \in Statuses /\ j_key[j] \in Keys
          /\ completed' = [completed EXCEPT ![j_key[j]] = j_status[j]]
          /\ completed \in [Keys -> Statuses \cup {None}]
      BY <3>1 DEF Completed, SetCompleted, Shape
    <3>3. completed'[k] # None
      BY <3>2, StoreAssumption
    <3>4. ASSUME Sole(k)'
          PROVE  j_key[j] # k
      <4>1. Sole(k)
        BY <3>4, JobsGrow, WhoSubmits
      <4>2. PICK i \in JobsOf(k) : j_pc[i] \in {"ended", "past"}
        BY DEF StoreInv
      <4>. QED
        BY <3>2, <4>1, <4>2 DEF Sole, JobsOf
    <3>. QED
      BY <3>2, <3>3, <3>4
  <2>2. CASE completed' = completed
    BY <2>2
  <2>. QED
    BY <2>1, <2>2, WhoCompletes
<1>. QED
  BY <1>1 DEF StoreInv

LEMMA StoreInit0 == Init => Shape /\ StoreInv
<1>1. ASSUME Init
      PROVE  Shape
  BY <1>1 DEF Init, StoreInit, Shape, JobPcs
<1>2. ASSUME Init
      PROVE  StoreInv
  BY <1>2 DEF Init, StoreInit, StoreInv, RunningIsRun
<1>. QED
  BY <1>1, <1>2

LEMMA StoreAlways == Spec => [](Shape /\ StoreInv)
<1>1. Init => Shape /\ StoreInv
  BY StoreInit0
<1>2. Shape /\ StoreInv /\ [Next]_vars => (Shape /\ StoreInv)'
  BY ShapeStep, StoreInvStep
<1>. QED
  BY <1>1, <1>2, PTL DEF Spec

\* A client is not told two statuses of a job that alone has its key, and after a
\* restart every key stored as running has a job of this process.
THEOREM StoreConsistent == Spec => [](GetNeverContradicts /\ RunningIsRun)
<1>1. Shape /\ StoreInv => GetNeverContradicts /\ RunningIsRun
  <2>1. ASSUME NEW a, get_answer \subseteq {a}
        PROVE  Cardinality(get_answer) \leq 1
    <3>1. get_answer = {} \/ get_answer = {a}
      BY <2>1
    <3>2. Cardinality({}) = 0 /\ Cardinality({a}) = 1
      BY FS_EmptySet, FS_Singleton
    <3>. QED
      BY <3>1, <3>2
  <2>. QED
    BY <2>1 DEF StoreInv, GetNeverContradicts
<1>. QED
  BY <1>1, StoreAlways, PTL

\* A key that has a result keeps one, and the same one as long as no second job is
\* submitted under it.
THEOREM ResultsAreFinal == Spec => ResultIsFinal
<1>1. Shape /\ StoreInv /\ StoreInv' /\ [Next]_vars =>
        [\A k \in Keys :
           completed[k] # None =>
             /\ completed'[k] # None
             /\ Sole(k)' => completed'[k] = completed[k] /\ k \notin pending']_vars
  BY ResultStep
<1>. QED
  BY <1>1, StoreAlways, PTL DEF Spec, ResultIsFinal

\* What StoreConsistent and ResultsAreFinal rest on holds itself.
THEOREM StoreInvariant == Spec => []StoreInv
<1>1. Shape /\ StoreInv => StoreInv
  OBVIOUS
<1>. QED
  BY <1>1, StoreAlways, PTL
-------------------------------------------------------------------------------
(* Listing the ids of all jobs of an address.                              *)

\* Of an IPv4 client, what was known when the list was begun is in its first half
\* or completed.
ListInv ==
    get_pc = "scan" /\ list_ip \in V4 =>
        \A id \in list_known :
            id \in list_ids \/ \E k \in KeysFound("completed", list_ip) : k[2] = id

LEMMA ListStep ==
    ASSUME Shape, StoreInv, StoreInv', ListInv, [Next]_vars
    PROVE  /\ ListInv'
           /\ get_pc = "scan" /\ get_pc' = "idle" /\ up' /\ list_ip \in V4
                => list_known \subseteq list_ids'
<1>1. CASE \E ip \in Addresses : ListFirst(ip)
  <2>1. PICK ip \in Addresses : ListFirst(ip)
    BY <1>1
  <2>2. /\ get_pc = "idle" /\ list_ip' = ip /\ list_ids' = Ids("pending", ip)
        /\ list_known' = KnownIds(ip) /\ completed' = completed
    BY <2>1 DEF ListFirst, Scans, store
  <2>3. ASSUME ip \in V4, NEW id \in KnownIds(ip), id \notin Ids("pending", ip)
        PROVE  \E k \in KeysFound("completed", ip) : k[2] = id
    <3>1. PICK k \in KeysFound("pending", ip) \cup KeysFound("completed", ip) : k[2] = id
      BY DEF KnownIds
    <3>2. k \in KeysFound("pending", ip) => id \in Ids("pending", ip)
      BY <2>3, <3>1 DEF Ids, get_id, KeysFound
    <3>. QED
      BY <2>3, <3>1, <3>2
  <2>4. KeysFound("completed", ip)' = KeysFound("completed", ip)
    BY <2>2 DEF KeysFound
  <2>. QED
    BY <2>2, <2>3, <2>4 DEF ListInv
<1>2. CASE ListSecond
  <2>1. /\ get_pc = "scan" /\ get_pc' = "idle"
        /\ list_ids' = list_ids \cup Ids("completed", list_ip)
    BY <1>2 DEF ListSecond, Scans
  <2>2. ASSUME list_ip \in V4, NEW id \in list_known
        PROVE  id \in list_ids'
    <3>1. ASSUME NEW k \in KeysFound("completed", list_ip), k[2] = id
          PROVE  id \in Ids("completed", list_ip)
      BY <2>2, <3>1 DEF Ids, get_id, KeysFound
    <3>. QED
      BY <2>1, <2>2, <3>1 DEF ListInv
  <2>. QED
    BY <2>1, <2>2 DEF ListInv
<1>3. CASE ~(\E ip \in Addresses : ListFirst(ip)) /\ ~ListSecond
  <2>1. /\ get_pc' = "scan" => UNCHANGED <<get_pc, listing>>
        /\ get_pc = "scan" /\ get_pc' = "idle" => ~up'
    <3>1. ASSUME NEW j \in Jobs, Submit(j) \/ Move(j) \/ Stored(j) \/ Deleted(j) \/ Completed(j)
          PROVE  UNCHANGED <<get_pc, listing>>
      BY <3>1, SubmitEffect, MoveEffect, WriteEffect DEF Asking
    <3>2. ASSUME NEW S \in SUBSET (OffJobs \ StreamJobs), SubmitBatch(S)
          PROVE  UNCHANGED <<get_pc, listing>>
      BY <3>2, BatchEffect DEF Asking
    <3>3. CASE Restart \/ (\E k \in Keys : RunningExpires(k)) \/ UNCHANGED vars
      <4>1. UNCHANGED Asking \/ UNCHANGED vars
        BY <3>3, OtherEffect
      <4>. QED
        BY <4>1 DEF Asking, vars, get
    <3>4. CASE ProcessEnds
      BY <3>4 DEF ProcessEnds
    <3>5. CASE (\E k \in Keys : GetCompleted(k)) \/ GetPending
      BY <3>5 DEF GetCompleted, GetPending
    <3>. QED
      BY <1>3, <3>1, <3>2, <3>3, <3>4, <3>5, NextSteps
  <2>2. \A ip : KeysFound("completed", ip) \subseteq KeysFound("completed", ip)'
    BY ResultStep DEF KeysFound
  <2>. QED
    BY <2>1, <2>2 DEF ListInv, listing
<1>. QED
  BY <1>1, <1>2, <1>3

\* A list of an IPv4 client's jobs misses none that was stored when it was asked for.
THEOREM ListsMissNone == Spec => ListingMissesNone
<1>1. Init => ListInv
  BY DEF Init, ListInv
<1>2. Shape /\ StoreInv /\ StoreInv' /\ ListInv /\ [Next]_vars =>
        /\ ListInv'
        /\ [get_pc = "scan" /\ get_pc' = "idle" /\ up' /\ list_ip \in V4
              => list_known \subseteq list_ids']_vars
  BY ListStep
<1>. QED
  BY <1>1, <1>2, StoreAlways, PTL DEF Spec, ListingMissesNone
-------------------------------------------------------------------------------
(* The orchestrator and the store implement JobRecord.                     *)

\* Nothing is worked on while the process is down.
DownInv == ~up => \A j \in Jobs : j_pc[j] \in {"new", "past"}

LEMMA DownStep ==
    ASSUME Shape, DownInv, [Next]_vars
    PROVE  DownInv'
<1>0. up \in BOOLEAN
  BY DEF Shape
<1>1. ASSUME NEW j \in Jobs, up, Submit(j) \/ Move(j) \/ Stored(j) \/ Deleted(j) \/ Completed(j)
      PROVE  up'
  BY <1>1, SubmitEffect, MoveEffect, WriteEffect
<1>2. CASE ProcessEnds
  BY <1>2 DEF ProcessEnds, DownInv
<1>3. CASE Restart
  BY <1>3 DEF Restart, DownInv
<1>4. CASE UNCHANGED <<up, j_pc>>
  BY <1>4 DEF DownInv
<1>5. ASSUME \/ \E k \in Keys : RunningExpires(k) \/ GetCompleted(k)
             \/ \E ip \in Addresses : ListFirst(ip)
             \/ GetPending \/ ListSecond \/ UNCHANGED vars
      PROVE  UNCHANGED <<up, j_pc>>
  BY <1>5, OtherEffect
<1>6. ASSUME NEW S \in SUBSET (OffJobs \ StreamJobs), up, SubmitBatch(S)
      PROVE  up'
  BY <1>6, BatchEffect
<1>7. ASSUME ~(\E S \in SUBSET (OffJobs \ StreamJobs) : up /\ SubmitBatch(S)),
             ~(\E j \in Jobs : up /\ (Submit(j) \/ Move(j) \/ Stored(j) \/ Deleted(j) \/ Completed(j)))
      PROVE  \/ ProcessEnds \/ Restart
             \/ \E k \in Keys : RunningExpires(k) \/ GetCompleted(k)
             \/ \E ip \in Addresses : ListFirst(ip)
             \/ GetPending \/ ListSecond \/ UNCHANGED vars
  BY <1>7 DEF Next, JobStep, NodeStep, ContainerStep, ClientStep, TextRejected, Kill, Submit, Move
<1>. QED
  BY <1>0, <1>1, <1>2, <1>3, <1>4, <1>5, <1>6, <1>7 DEF DownInv

\* What the record of a key is, from its one job.
LEMMA SoleRecord ==
    ASSUME NEW k, Sole(k), NEW j \in JobsOf(k)
    PROVE  RecordOf(k) = IF completed[k] # None THEN completed[k]
                         ELSE IF k \in pending THEN "running"
                         ELSE IF j_pc[j] = "set_running" THEN "unknown"
                         ELSE IF j_pc[j] \in {"abandoned", "past"} THEN "lost"
                         ELSE "hidden"
<1>1. JobsOf(k) = {j}
  BY DEF Sole
<1>2. {j_pc[i] : i \in JobsOf(k)} = {j_pc[j]}
  BY <1>1
<1>. QED
  BY <1>2 DEF RecordOf

\* A key without a job is unknown.
LEMMA FreeRecord ==
    ASSUME Shape, StoreInv, NEW k \in Keys, JobsOf(k) = {}
    PROVE  completed[k] = None /\ k \notin pending /\ RecordOf(k) = "unknown"
<1>1. completed[k] = None /\ k \notin pending
  BY DEF StoreInv
<1>2. {j_pc[i] : i \in JobsOf(k)} = {} /\ Sole(k)
  BY DEF Sole
<1>. QED
  BY <1>1, <1>2 DEF RecordOf

\* A record is shared exactly when its key is.
LEMMA SharedRecord ==
    ASSUME Shape, NEW k \in Keys
    PROVE  RecordOf(k) = "shared" <=> ~Sole(k)
<1>1. completed[k] \in Statuses \cup {None} /\ "shared" \notin Statuses
  BY DEF Shape, Statuses
<1>. QED
  BY <1>1 DEF RecordOf

\* A record stays what it is when the databases and the places of its jobs do.
LEMMA SameRecord ==
    ASSUME NEW k, JobsOf(k)' = JobsOf(k), completed'[k] = completed[k],
           k \in pending' <=> k \in pending, \A j \in JobsOf(k) : j_pc'[j] = j_pc[j]
    PROVE  RecordOf(k)' = RecordOf(k)
<1>1. {j_pc'[j] : j \in JobsOf(k)'} = {j_pc[j] : j \in JobsOf(k)}
  OBVIOUS
<1>2. Sole(k)' <=> Sole(k)
  BY DEF Sole
<1>. QED
  BY <1>1, <1>2 DEF RecordOf

\* One record changes: the others stay.
LEMMA OneRecord ==
    ASSUME NEW k \in Keys, NEW r, RecordOf(k)' = r,
           \A q \in Keys \ {k} : RecordOf(q)' = RecordOf(q)
    PROVE  [q \in Keys |-> RecordOf(q)]' = [[q \in Keys |-> RecordOf(q)] EXCEPT ![k] = r]
<1>1. \A q \in Keys : RecordOf(q)' = IF q = k THEN r ELSE RecordOf(q)
  OBVIOUS
<1>. HIDE DEF RecordOf
<1>. QED
  BY <1>1

LEMMA SameRecords ==
    ASSUME \A q \in Keys : RecordOf(q)' = RecordOf(q)
    PROVE  [q \in Keys |-> RecordOf(q)]' = [q \in Keys |-> RecordOf(q)]
<1>. HIDE DEF RecordOf
<1>. QED
  OBVIOUS

\* What a client was told, as the record has it.
Heard == IF Sole(get_key) THEN get_answer ELSE {}

LEMMA HeardStays ==
    ASSUME UNCHANGED <<get_key, get_answer>>,
           \A q : Sole(q)' <=> Sole(q)
    PROVE  UNCHANGED <<get_key, Heard>>
<1>1. Sole(get_key)' <=> Sole(get_key)
  <2>1. ASSUME NEW q, q = get_key, q = get_key'
        PROVE  Sole(get_key)' <=> Sole(get_key)
    BY <2>1
  <2>. QED
    BY <2>1
<1>. QED
  BY <1>1 DEF Heard

\* A step of a job that is not its submission takes the record of its key forward, or
\* leaves all as they are.
LEMMA JobRecordStep ==
    ASSUME Shape, StoreInv, NEW j \in Jobs, up,
           Move(j) \/ Stored(j) \/ Deleted(j) \/ Completed(j)
    PROVE  /\ UNCHANGED <<get_key, get_answer, j_key>>
           /\ \A q : Sole(q)' <=> Sole(q)
           /\ \A q \in Keys : (j \in OffJobs => q # j_key[j]) => RecordOf(q)' = RecordOf(q)
           /\ \A k \in Keys : j \in OffJobs /\ k = j_key[j] =>
                \/ RecordOf(k)' = RecordOf(k)
                \/ RecordOf(k) = "unknown" /\ RecordOf(k)' = "running"
                \/ RecordOf(k) = "running" /\ RecordOf(k)' = "hidden"
                \/ RecordOf(k) = "hidden" /\ RecordOf(k)' \in Statuses
                \/ RecordOf(k) = "hidden" /\ RecordOf(k)' = "lost"
<1>0. /\ j_pc \in [Jobs -> JobPcs] /\ j_key \in [OffJobs -> Keys]
      /\ completed \in [Keys -> Statuses \cup {None}]
      /\ \A i \in OffJobs : i \in Jobs
      /\ ChainJobs \cap OffJobs = {}
  BY OrchestratorAssumption DEF Shape, Jobs
<1>1. /\ UNCHANGED <<get_key, get_answer, j_key, j_status>> \/ Move(j)
      /\ UNCHANGED <<get_key, get_answer, j_key>>
      /\ j_pc[j] \notin {"new", "ended", "past"}
      /\ \E pc \in JobPcs \ {"new"} : j_pc' = [j_pc EXCEPT ![j] = pc]
  BY MoveEffect, WriteEffect DEF Asking, JobPcs
<1>2. \A i \in OffJobs : i # j => j_pc'[i] = j_pc[i]
  BY <1>0, <1>1
<1>3. \A q : JobsOf(q)' = JobsOf(q) /\ (Sole(q)' <=> Sole(q))
  BY <1>0, <1>1, <1>2, JobsKept
<1>4. \A q : JobsOf(q) \subseteq OffJobs /\ (j \in JobsOf(q) => j \in OffJobs /\ q = j_key[j])
  BY DEF JobsOf
<1>5. ASSUME NEW q \in Keys, j \in OffJobs => q # j_key[j]
      PROVE  RecordOf(q)' = RecordOf(q)
  <2>1. \A i \in JobsOf(q) : j_pc'[i] = j_pc[i]
    BY <1>2, <1>4, <1>5
  <2>2. completed'[q] = completed[q] /\ (q \in pending' <=> q \in pending)
    <3>1. CASE Move(j)
      BY <3>1, MoveEffect
    <3>2. CASE Stored(j) \/ Deleted(j) \/ Completed(j)
      <4>1. j \in OffJobs /\ j_key[j] \in Keys
        BY <1>0, <3>2, WriteEffect DEF Shape
      <4>2. q # j_key[j]
        BY <1>5, <4>1
      <4>3. \/ completed' = completed /\ pending' = pending \cup {j_key[j]}
            \/ completed' = completed /\ pending' = pending \ {j_key[j]}
            \/ completed' = [completed EXCEPT ![j_key[j]] = j_status[j]] /\ pending' = pending
        BY <3>2, WriteEffect
      <4>. QED
        BY <1>0, <4>1, <4>2, <4>3
    <3>. QED
      BY <3>1, <3>2
  <2>. QED
    BY <1>3, <2>1, <2>2, SameRecord
<1>6. ASSUME j \in OffJobs, NEW k \in Keys, k = j_key[j]
      PROVE  \/ RecordOf(k)' = RecordOf(k)
             \/ RecordOf(k) = "unknown" /\ RecordOf(k)' = "running"
             \/ RecordOf(k) = "running" /\ RecordOf(k)' = "hidden"
             \/ RecordOf(k) = "hidden" /\ RecordOf(k)' \in Statuses
             \/ RecordOf(k) = "hidden" /\ RecordOf(k)' = "lost"
  <2>1. k \in Keys /\ j \in JobsOf(k) /\ j \in JobsOf(k)'
    BY <1>0, <1>1, <1>3, <1>6 DEF JobsOf
  <2>2. CASE ~Sole(k)
    <3>1. RecordOf(k) = "shared" /\ RecordOf(k)' = "shared"
      BY <1>3, <2>2 DEF RecordOf
    <3>. QED
      BY <3>1
  <2>3. CASE Sole(k)
    <3>1. /\ RecordOf(k) = IF completed[k] # None THEN completed[k]
                           ELSE IF k \in pending THEN "running"
                           ELSE IF j_pc[j] = "set_running" THEN "unknown"
                           ELSE IF j_pc[j] \in {"abandoned", "past"} THEN "lost"
                           ELSE "hidden"
      BY <2>1, <2>3, SoleRecord
    <3>2. RecordOf(k)' = IF completed'[k] # None THEN completed'[k]
                         ELSE IF k \in pending' THEN "running"
                         ELSE IF j_pc'[j] = "set_running" THEN "unknown"
                         ELSE IF j_pc'[j] \in {"abandoned", "past"} THEN "lost"
                         ELSE "hidden"
      <4>1. JobsOf(k)' = {j} /\ Sole(k)'
        BY <1>3, <2>1, <2>3 DEF Sole
      <4>2. {j_pc'[i] : i \in JobsOf(k)'} = {j_pc'[j]}
        BY <4>1
      <4>. QED
        BY <4>1, <4>2 DEF RecordOf
    <3>3. completed[k] = None
      <4>1. ASSUME completed[k] # None
            PROVE  FALSE
        <5>1. PICK i \in JobsOf(k) : j_pc[i] \in {"ended", "past"}
          BY <2>1, <4>1 DEF StoreInv
        <5>. QED
          BY <1>1, <2>1, <2>3, <5>1 DEF Sole
      <4>. QED
        BY <4>1
    <3>4. k \in pending => j_pc[j] \in Running
      BY <2>1, <2>3 DEF StoreInv, RunningIsRun, Sole
    <3>5. CASE Move(j)
      <4>1. /\ completed' = completed /\ pending' = pending
            /\ j_pc[j] \in {"call", "body", "yield"}
            /\ \E pc \in {"call", "body", "yield", "text", "abandoned", "del"} :
                 j_pc' = [j_pc EXCEPT ![j] = pc]
        BY <1>0, <1>6, <3>5, MoveEffect
      <4>2. j_pc'[j] \in {"call", "body", "yield", "text", "abandoned", "del"}
        BY <1>0, <4>1
      <4>. QED
        BY <3>1, <3>2, <3>3, <4>1, <4>2
    <3>6. CASE Stored(j) \/ Deleted(j) \/ Completed(j)
      <4>1. /\ j_pc[j] = "store" => j_status[j] \in Statuses /\ j_status[j] # None
            /\ k \in Keys
        BY <2>1, StoreAssumption DEF Shape
      <4>2. \/ /\ j_pc[j] = "set_running" /\ j_pc'[j] = "call"
               /\ completed'[k] = completed[k] /\ k \in pending'
            \/ /\ j_pc[j] = "del" /\ j_pc'[j] = "store"
               /\ completed'[k] = completed[k] /\ k \notin pending'
            \/ /\ j_pc[j] = "store" /\ j_pc'[j] = "ended"
               /\ completed'[k] = j_status[j] /\ pending' = pending
        BY <1>0, <1>6, <3>6, <4>1, WriteEffect
      <4>. QED
        BY <3>1, <3>2, <3>3, <3>4, <4>1, <4>2 DEF Running
    <3>. QED
      BY <3>5, <3>6
  <2>. QED
    BY <2>2, <2>3
<1>. HIDE DEF RecordOf
<1>. QED
  BY <1>1, <1>3, <1>5, <1>6

\* Jobs are submitted: the keys used again are shared, the others' records stay.
LEMMA SubmitRecordStep ==
    ASSUME Shape, StoreInv, UNCHANGED <<completed, pending, j_key, get_key, get_answer>>,
           NEW S \in SUBSET OffJobs,
           \A j \in OffJobs : IF j \in S THEN j_pc[j] = "new" /\ j_pc'[j] = "set_running"
                                         ELSE j_pc'[j] = j_pc[j]
    PROVE  Record!Next
<1>. DEFINE T == {q \in Keys : ~Sole(q)'}
<1>1. \A q : JobsOf(q) \subseteq JobsOf(q)' /\ (Sole(q)' => Sole(q))
  BY JobsGrow
<1>2. Heard' \in {Heard, {}}
  <2>1. Sole(get_key)' => Sole(get_key)
    <3>1. ASSUME NEW q, q = get_key, q = get_key'
          PROVE  Sole(get_key)' => Sole(get_key)
      BY <1>1, <3>1
    <3>. QED
      BY <3>1
  <2>. QED
    BY <2>1 DEF Heard
<1>3. ASSUME NEW q \in Keys
      PROVE  RecordOf(q)' = IF q \in T THEN "shared" ELSE RecordOf(q)
  <2>1. CASE ~Sole(q)'
    BY <2>1 DEF RecordOf
  <2>2. CASE Sole(q)' /\ \E j \in S : j_key[j] = q
    <3>1. PICK j \in S : j_key[j] = q
      BY <2>2
    <3>2. j \in JobsOf(q)' /\ j \notin JobsOf(q)
      BY <3>1 DEF JobsOf
    <3>3. JobsOf(q) = {} /\ JobsOf(q)' = {j}
      BY <1>1, <2>2, <3>2 DEF Sole
    <3>4. completed'[q] = None /\ q \notin pending' /\ RecordOf(q) = "unknown"
      BY <3>3, FreeRecord
    <3>5. {j_pc'[i] : i \in JobsOf(q)'} = {"set_running"}
      BY <3>1, <3>3
    <3>6. RecordOf(q)' = "unknown"
      BY <2>2, <3>4, <3>5 DEF RecordOf
    <3>. QED
      BY <2>2, <3>4, <3>6
  <2>3. CASE Sole(q)' /\ ~\E j \in S : j_key[j] = q
    <3>1. JobsOf(q)' = JobsOf(q) /\ \A j \in JobsOf(q) : j_pc'[j] = j_pc[j]
      BY <2>3 DEF JobsOf
    <3>2. RecordOf(q)' = RecordOf(q)
      BY <3>1, SameRecord
    <3>. QED
      BY <2>3, <3>2
  <2>. QED
    BY <2>1, <2>2, <2>3
<1>4. T \in SUBSET Keys
  OBVIOUS
<1>. HIDE DEF RecordOf, T
<1>5. [q \in Keys |-> RecordOf(q)]'
        = [q \in Keys |-> IF q \in T THEN "shared" ELSE [p \in Keys |-> RecordOf(p)][q]]
  BY <1>3
<1>6. Record!Share(T)
  BY <1>2, <1>5 DEF Record!Share, Heard
<1>. QED
  BY <1>4, <1>6 DEF Record!Next

\* Several records are lost at once, all that were not final.
LEMMA LosingStep ==
    ASSUME NEW S \in SUBSET Keys, UNCHANGED <<get_key, Heard>>,
           \A q \in S : RecordOf(q) \in {"unknown", "running", "hidden"} /\ RecordOf(q)' = "lost",
           \A q \in Keys \ S : RecordOf(q)' = RecordOf(q)
    PROVE  Record!Next
<1>1. \A q \in Keys : RecordOf(q)' = IF q \in S THEN "lost" ELSE RecordOf(q)
  OBVIOUS
<1>. HIDE DEF RecordOf
<1>2. [q \in Keys |-> RecordOf(q)]'
        = [q \in Keys |-> IF q \in S THEN "lost" ELSE [p \in Keys |-> RecordOf(p)][q]]
  BY <1>1
<1>3. Record!Lose(S)
  BY <1>2 DEF Record!Lose, Heard
<1>. QED
  BY <1>3 DEF Record!Next

LEMMA RecordStep ==
    ASSUME Shape, StoreInv, DownInv, [Next]_vars
    PROVE  [Record!Next]_(Record!vars)
<1>. DEFINE rec == [q \in Keys |-> RecordOf(q)]
            Same == \A q \in Keys : RecordOf(q)' = RecordOf(q)
<1>0. /\ j_pc \in [Jobs -> JobPcs] /\ j_key \in [OffJobs -> Keys]
      /\ \A j \in OffJobs : j \in Jobs
      /\ ChainJobs \cap OffJobs = {}
  BY OrchestratorAssumption DEF Shape, Jobs
<1>1. ASSUME Same, UNCHANGED <<get_key, Heard>>
      PROVE  UNCHANGED Record!vars
  BY <1>1, SameRecords DEF Record!vars, Heard
<1>2. ASSUME Same, get_key \in Keys, get_key' = get_key,
             \/ Heard' = {}
             \/ /\ RecordOf(get_key) \in {"running", "success", "failed"}
                /\ Heard' = {RecordOf(get_key)}
      PROVE  Record!Next
  <2>1. rec' = rec
    BY <1>2, SameRecords
  <2>. HIDE DEF RecordOf
  <2>2. Record!Tell
    BY <1>2, <2>1 DEF Record!Tell, Record!Told, Record!Results, Heard
  <2>. QED
    BY <2>2 DEF Record!Next
<1>3. ASSUME NEW j \in Jobs, up, Move(j) \/ Stored(j) \/ Deleted(j) \/ Completed(j)
      PROVE  [Record!Next]_(Record!vars)
  <2>0. UNCHANGED <<get_key, Heard>>
    BY <1>3, JobRecordStep, HeardStays
  <2>1. CASE j \notin OffJobs
    <3>1. Same
      BY <1>3, <2>1, JobRecordStep
    <3>. QED
      BY <1>1, <2>0, <3>1
  <2>2. CASE j \in OffJobs
    <3>1. PICK k \in Keys : k = j_key[j]
      BY <1>0, <2>2
    <3>2. \A q \in Keys \ {k} : RecordOf(q)' = RecordOf(q)
      BY <1>3, <3>1, JobRecordStep
    <3>3. CASE RecordOf(k)' = RecordOf(k)
      <4>1. Same
        BY <3>2, <3>3
      <4>. QED
        BY <1>1, <2>0, <4>1
    <3>4. CASE RecordOf(k) = "unknown" /\ RecordOf(k)' = "running"
      <4>1. rec' = [rec EXCEPT ![k] = "running"]
        BY <3>2, <3>4, OneRecord
      <4>. HIDE DEF RecordOf
      <4>2. Record!Start(k)
        BY <2>0, <3>4, <4>1 DEF Record!Start, Heard
      <4>. QED
        BY <4>2 DEF Record!Next
    <3>5. CASE RecordOf(k) = "running" /\ RecordOf(k)' = "hidden"
      <4>1. rec' = [rec EXCEPT ![k] = "hidden"]
        BY <3>2, <3>5, OneRecord
      <4>. HIDE DEF RecordOf
      <4>2. Record!Hide(k)
        BY <2>0, <3>5, <4>1 DEF Record!Hide, Heard
      <4>. QED
        BY <4>2 DEF Record!Next
    <3>6. CASE RecordOf(k) = "hidden" /\ RecordOf(k)' \in Statuses
      <4>1. PICK result \in Statuses : RecordOf(k)' = result
        BY <3>6
      <4>2. rec' = [rec EXCEPT ![k] = result]
        BY <3>2, <4>1, OneRecord
      <4>. HIDE DEF RecordOf
      <4>3. Record!Finish(k)
        BY <2>0, <3>6, <4>2 DEF Record!Finish, Record!Results, Statuses, Heard
      <4>. QED
        BY <4>3 DEF Record!Next
    <3>. HIDE DEF RecordOf
    <3>7. CASE RecordOf(k) = "hidden" /\ RecordOf(k)' = "lost"
      <4>1. {k} \in SUBSET Keys
        OBVIOUS
      <4>2. \A q \in {k} : RecordOf(q) \in {"unknown", "running", "hidden"} /\ RecordOf(q)' = "lost"
        BY <3>7
      <4>. QED
        BY <2>0, <3>2, <4>1, <4>2, LosingStep
    <3>. QED
      BY <1>3, <2>2, <3>1, <3>3, <3>4, <3>5, <3>6, <3>7, JobRecordStep
  <2>. QED
    BY <2>1, <2>2
<1>4. ASSUME NEW j \in Jobs, Submit(j)
      PROVE  [Record!Next]_(Record!vars)
  <2>1. UNCHANGED <<completed, pending, j_key, get_key, get_answer>>
    BY <1>4, SubmitEffect DEF Asking
  <2>2. \A i \in OffJobs : IF i \in {j} \cap OffJobs
                           THEN j_pc[i] = "new" /\ j_pc'[i] = "set_running"
                           ELSE j_pc'[i] = j_pc[i]
    BY <1>0, <1>4, SubmitEffect
  <2>. QED
    BY <2>1, <2>2, SubmitRecordStep
<1>5. ASSUME NEW S \in SUBSET (OffJobs \ StreamJobs), SubmitBatch(S)
      PROVE  [Record!Next]_(Record!vars)
  <2>1. UNCHANGED <<completed, pending, j_key, get_key, get_answer>>
    BY <1>5, BatchEffect DEF Asking
  <2>2. \A i \in OffJobs : IF i \in S THEN j_pc[i] = "new" /\ j_pc'[i] = "set_running"
                                      ELSE j_pc'[i] = j_pc[i]
    BY <1>0, <1>5, BatchEffect
  <2>3. S \in SUBSET OffJobs
    OBVIOUS
  <2>. QED
    BY <2>1, <2>2, <2>3, SubmitRecordStep
<1>6. CASE ProcessEnds
  <2>. DEFINE S == {q \in Keys : /\ Sole(q) /\ JobsOf(q) # {}
                                 /\ RecordOf(q) \in {"unknown", "hidden"}}
  <2>1. UNCHANGED <<completed, pending, j_key, get_key, get_answer>>
    BY <1>6 DEF ProcessEnds, StoreDown
  <2>2. \A j \in OffJobs : j_pc'[j] = IF j_pc[j] = "new" THEN "new" ELSE "past"
    BY <1>0, <1>6 DEF ProcessEnds
  <2>3. \A q : JobsOf(q)' = JobsOf(q) /\ (Sole(q)' <=> Sole(q))
    BY <2>1, <2>2, JobsKept
  <2>4. \A q : \A j \in JobsOf(q) : j_pc'[j] = "past"
    BY <2>2 DEF JobsOf
  <2>5. ASSUME NEW q \in Keys
        PROVE  RecordOf(q)' = IF q \in S THEN "lost" ELSE RecordOf(q)
    <3>1. CASE ~Sole(q)
      BY <2>3, <3>1 DEF RecordOf
    <3>2. CASE JobsOf(q) = {}
      <4>1. \A j \in JobsOf(q) : j_pc'[j] = j_pc[j]
        BY <3>2
      <4>2. RecordOf(q)' = RecordOf(q)
        BY <2>1, <2>3, <4>1, SameRecord
      <4>. QED
        BY <3>2, <4>2
    <3>3. CASE Sole(q) /\ JobsOf(q) # {}
      <4>1. PICK j : j \in JobsOf(q)
        BY <3>3
      <4>2. JobsOf(q)' = {j} /\ j_pc'[j] = "past" /\ Sole(q)'
        BY <2>3, <2>4, <3>3, <4>1 DEF Sole
      <4>3. {j_pc'[i] : i \in JobsOf(q)'} = {"past"}
        BY <4>2
      <4>4. RecordOf(q)' = IF completed[q] # None THEN completed[q]
                           ELSE IF q \in pending THEN "running" ELSE "lost"
        BY <2>1, <4>2, <4>3 DEF RecordOf
      <4>5. RecordOf(q) = IF completed[q] # None THEN completed[q]
                          ELSE IF q \in pending THEN "running"
                          ELSE IF j_pc[j] = "set_running" THEN "unknown"
                          ELSE IF j_pc[j] \in {"abandoned", "past"} THEN "lost"
                          ELSE "hidden"
        BY <3>3, <4>1, SoleRecord
      <4>6. completed[q] # None => completed[q] \in {"success", "failed"}
        BY DEF Shape, Statuses
      <4>7. q \in S <=> RecordOf(q) \in {"unknown", "hidden"}
        BY <3>3
      <4>. HIDE DEF RecordOf, S
      <4>. QED
        BY <4>4, <4>5, <4>6, <4>7
    <3>. QED
      BY <3>1, <3>2, <3>3
  <2>6. /\ \A q \in S : RecordOf(q) \in {"unknown", "running", "hidden"} /\ RecordOf(q)' = "lost"
        /\ \A q \in Keys \ S : RecordOf(q)' = RecordOf(q)
        /\ S \in SUBSET Keys
    BY <2>5
  <2>7. UNCHANGED <<get_key, Heard>>
    BY <2>1, <2>3, HeardStays
  <2>. HIDE DEF RecordOf, S
  <2>. QED
    BY <2>6, <2>7, LosingStep
<1>7. CASE Restart
  <2>1. /\ UNCHANGED <<completed, j_pc, j_key, get_key, get_answer>> /\ pending' = {} /\ ~up
    BY <1>7, OtherEffect DEF Restart, Asking
  <2>. DEFINE S == {q \in pending : completed[q] = None /\ Sole(q)}
  <2>2. \A q : JobsOf(q)' = JobsOf(q) /\ (Sole(q)' <=> Sole(q))
    BY <2>1, JobsKept
  <2>3. \A q : \A j \in JobsOf(q) : j_pc[j] = "past"
    BY <1>0, <2>1 DEF DownInv, JobsOf
  <2>4. ASSUME NEW q \in Keys
        PROVE  RecordOf(q)' = (IF q \in S THEN "lost" ELSE RecordOf(q))
               /\ (q \in S => RecordOf(q) = "running")
    <3>1. CASE ~Sole(q)
      BY <2>2, <3>1 DEF RecordOf
    <3>2. CASE q \in S
      <4>1. {j_pc'[j] : j \in JobsOf(q)'} \subseteq {"abandoned", "past"}
        BY <2>1, <2>2, <2>3
      <4>2. \E j \in JobsOf(q) : j_pc'[j] = "past"
        BY <2>1, <2>3, <3>2 DEF StoreInv
      <4>3. ~({j_pc'[j] : j \in JobsOf(q)'} \subseteq {"set_running"})
        BY <2>2, <4>2
      <4>. QED
        BY <2>1, <2>2, <3>2, <4>1, <4>3 DEF RecordOf
    <3>3. CASE Sole(q) /\ completed[q] # None
      BY <2>1, <2>2, <3>3 DEF RecordOf
    <3>4. CASE q \notin pending
      BY <2>1, <2>2, <3>4, SameRecord
    <3>. QED
      BY <3>1, <3>2, <3>3, <3>4
  <2>5. /\ \A q \in S : RecordOf(q) \in {"unknown", "running", "hidden"} /\ RecordOf(q)' = "lost"
        /\ \A q \in Keys \ S : RecordOf(q)' = RecordOf(q)
        /\ S \in SUBSET Keys
    BY <2>4 DEF Shape
  <2>6. UNCHANGED <<get_key, Heard>>
    BY <2>1, <2>2, HeardStays
  <2>. HIDE DEF RecordOf, S
  <2>. QED
    BY <2>5, <2>6, LosingStep
<1>8. ASSUME NEW k \in Keys, RunningExpires(k)
      PROVE  [Record!Next]_(Record!vars)
  <2>1. /\ UNCHANGED <<completed, j_pc, j_key, get_key, get_answer>>
        /\ k \in pending /\ pending' = pending \ {k}
    BY <1>8, OtherEffect DEF Asking
  <2>2. \A q : JobsOf(q)' = JobsOf(q) /\ (Sole(q)' <=> Sole(q))
    BY <2>1, JobsKept
  <2>3. \A q \in Keys : q # k => RecordOf(q)' = RecordOf(q)
    BY <2>1, <2>2, SameRecord
  <2>4. UNCHANGED <<get_key, Heard>>
    BY <2>1, <2>2, HeardStays
  <2>5. CASE ~Sole(k)
    <3>1. RecordOf(k)' = RecordOf(k)
      BY <2>2, <2>5 DEF RecordOf
    <3>. QED
      BY <1>1, <2>3, <2>4, <3>1
  <2>6. CASE Sole(k)
    <3>1. completed[k] = None
      BY <2>1, <2>6 DEF StoreInv
    <3>2. PICK j \in JobsOf(k) : j_pc[j] \in Running \cup {"past"}
      BY <2>1 DEF StoreInv
    <3>3. JobsOf(k)' = {j} /\ {j_pc'[i] : i \in JobsOf(k)'} = {j_pc[j]}
      BY <2>1, <2>2, <2>6, <3>2 DEF Sole
    <3>4. RecordOf(k) = "running" /\ RecordOf(k)' \in {"hidden", "lost"}
      BY <2>1, <2>2, <2>6, <3>1, <3>2, <3>3 DEF RecordOf, Running
    <3>5. CASE RecordOf(k)' = "hidden"
      <4>1. rec' = [rec EXCEPT ![k] = "hidden"]
        BY <2>3, <3>5, OneRecord
      <4>. HIDE DEF RecordOf
      <4>2. Record!Hide(k)
        BY <2>4, <3>4, <4>1 DEF Record!Hide, Heard
      <4>. QED
        BY <4>2 DEF Record!Next
    <3>6. CASE RecordOf(k)' = "lost"
      <4>. HIDE DEF RecordOf
      <4>1. /\ \A q \in {k} : RecordOf(q) \in {"unknown", "running", "hidden"} /\ RecordOf(q)' = "lost"
            /\ \A q \in Keys \ {k} : RecordOf(q)' = RecordOf(q)
        BY <2>3, <3>4, <3>6
      <4>2. {k} \in SUBSET Keys
        OBVIOUS
      <4>. QED
        BY <2>4, <4>1, <4>2, LosingStep
    <3>. HIDE DEF RecordOf
    <3>. QED
      BY <3>4, <3>5, <3>6
  <2>. QED
    BY <2>5, <2>6
<1>9. ASSUME \/ \E k \in Keys : GetCompleted(k)
             \/ \E ip \in Addresses : ListFirst(ip)
             \/ GetPending \/ ListSecond \/ UNCHANGED vars
      PROVE  [Record!Next]_(Record!vars)
  <2>1. UNCHANGED <<completed, pending, j_pc, j_key>>
    BY <1>9, OtherEffect
  <2>2. \A q : JobsOf(q)' = JobsOf(q) /\ (Sole(q)' <=> Sole(q))
    BY <2>1, JobsKept
  <2>3. Same
    BY <2>1, <2>2, SameRecord
  <2>. HIDE DEF RecordOf
  <2>4. CASE (\E k \in Keys : GetCompleted(k)) \/ (\E ip \in Addresses : ListFirst(ip))
    <3>1. get_answer' = {} /\ get_key' \in Keys \cup {None}
      BY <2>4 DEF GetCompleted, ListFirst
    <3>2. Heard' = {}
      BY <3>1 DEF Heard
    <3>3. rec' = rec
      BY <2>3, SameRecords
    <3>4. Record!Ask
      BY <3>1, <3>2, <3>3 DEF Record!Ask, Heard
    <3>. QED
      BY <3>4 DEF Record!Next
  <2>5. CASE GetPending
    <3>1. /\ get_key \in Keys /\ get_key' = get_key
          /\ get_answer' = ({get_found} \ {None}) \cup (IF get_key \in pending THEN {"running"} ELSE {})
      BY <2>5 DEF GetPending, Shape
    <3>2. CASE ~Sole(get_key)
      <4>1. ~Sole(get_key)'
        BY <2>1, <3>1, <3>2 DEF Sole, JobsOf
      <4>2. Heard' = {}
        BY <4>1 DEF Heard
      <4>. QED
        BY <1>2, <2>3, <3>1, <4>2
    <3>3. CASE Sole(get_key)
      <4>1. Heard' = get_answer'
        BY <2>1, <3>1, <3>3 DEF Heard, Sole, JobsOf
      <4>2. get_answer' = {} \/ (RecordOf(get_key) \in {"running", "success", "failed"}
                                  /\ get_answer' = {RecordOf(get_key)})
        <5>1. CASE get_found # None
          <6>1. completed[get_key] = get_found /\ get_key \notin pending /\ get_found \in Statuses
            BY <2>5, <3>1, <3>3, <5>1 DEF GetPending, StoreInv, Shape
          <6>2. RecordOf(get_key) = get_found
            BY <3>3, <5>1, <6>1 DEF RecordOf
          <6>. QED
            BY <3>1, <5>1, <6>1, <6>2 DEF Statuses
        <5>2. CASE get_found = None /\ get_key \in pending
          <6>1. completed[get_key] = None
            BY <3>1, <3>3, <5>2 DEF StoreInv
          <6>2. RecordOf(get_key) = "running"
            BY <3>3, <5>2, <6>1 DEF RecordOf
          <6>. QED
            BY <3>1, <5>2, <6>2
        <5>3. CASE get_found = None /\ get_key \notin pending
          BY <3>1, <5>3
        <5>. QED
          BY <5>1, <5>2, <5>3
      <4>. QED
        BY <1>2, <2>3, <3>1, <4>1, <4>2
    <3>. QED
      BY <3>2, <3>3
  <2>6. CASE ListSecond \/ UNCHANGED vars
    <3>1. UNCHANGED <<get_key, get_answer>>
      BY <2>6 DEF ListSecond, vars, get
    <3>2. UNCHANGED <<get_key, Heard>>
      BY <2>2, <3>1, HeardStays
    <3>. QED
      BY <1>1, <2>3, <3>2
  <2>. QED
    BY <1>9, <2>4, <2>5, <2>6
<1>. HIDE DEF RecordOf
<1>. QED
  BY <1>3, <1>4, <1>5, <1>6, <1>7, <1>8, <1>9, NextSteps

\* The databases, the process and the client's reads implement the one record per
\* key of JobRecord: whatever the jobs, crashes, restarts and expiries, and with any
\* number of jobs under one key.
THEOREM OneRecordPerJob == Spec => ImplementsJobRecord
<1>1. ASSUME Init
      PROVE  Record!Init /\ DownInv
  <2>1. \A j \in OffJobs : j_pc[j] = "new"
    BY <1>1 DEF Init, Jobs
  <2>2. \A q \in Keys : JobsOf(q) = {} /\ completed[q] = None /\ q \notin pending
    BY <1>1, <2>1 DEF Init, StoreInit, JobsOf
  <2>3. \A q \in Keys : {j_pc[j] : j \in JobsOf(q)} = {} /\ Sole(q)
    BY <2>2 DEF Sole
  <2>4. \A q \in Keys : RecordOf(q) = "unknown"
    BY <2>2, <2>3 DEF RecordOf
  <2>5. [q \in Keys |-> RecordOf(q)] = [q \in Keys |-> "unknown"]
    BY <2>4
  <2>. HIDE DEF RecordOf
  <2>. QED
    BY <1>1, <2>5 DEF Init, DownInv, Record!Init
<1>2. Shape /\ StoreInv /\ DownInv /\ [Next]_vars => [Record!Next]_(Record!vars)
  BY RecordStep
<1>3. Shape /\ DownInv /\ [Next]_vars => DownInv'
  BY DownStep
<1>. QED
  BY <1>1, <1>2, <1>3, StoreAlways, PTL DEF Spec, ImplementsJobRecord, Record!Spec
-------------------------------------------------------------------------------
(* Type correctness and Accounting.                                        *)

InProgress == {j \in ChainJobs : Begun(j) /\ ~Over(j)}
EndedWith(S, st, pcs, statuses) == {j \in S : pcs[j] = "ended" /\ statuses[j] = st}

AccountingInv == TypeOK /\ Accounting

LEMMA TypeIsShape == TypeOK => Shape
BY DEF TypeOK, StoreTypeOK, Shape

LEMMA CountedSets ==
    ASSUME TypeOK
    PROVE  /\ IsFiniteSet(InProgress)
           /\ \A st \in Statuses : IsFiniteSet(EndedWith(ChainJobs, st, j_pc, j_status))
                                 /\ IsFiniteSet(EndedWith(OffJobs, st, j_pc, j_status))
<1>1. IsFiniteSet(OffJobs) /\ IsFiniteSet(ChainJobs)
  BY OrchestratorAssumption
<1>2. InProgress \in SUBSET ChainJobs
  BY DEF InProgress
<1>3. \A st \in Statuses : EndedWith(ChainJobs, st, j_pc, j_status) \in SUBSET ChainJobs
                        /\ EndedWith(OffJobs, st, j_pc, j_status) \in SUBSET OffJobs
  BY DEF EndedWith
<1>. QED
  BY <1>1, <1>2, <1>3, FS_Subset

\* Every count is that of the set it stands for, and Accounting is nothing else.
LEMMA AccountingIs ==
    Accounting <=>
        /\ onchain_pending = Cardinality(InProgress)
        /\ \A st \in Statuses :
             /\ job_counters["onchain"][st] = Cardinality(EndedWith(ChainJobs, st, j_pc, j_status))
             /\ job_counters["offchain"][st] = Cardinality(EndedWith(OffJobs, st, j_pc, j_status))
BY DEF Accounting, InProgress, EndedWith

LEMMA SameSets ==
    ASSUME UNCHANGED <<onchain_pending, job_counters>>, Accounting,
           InProgress' = InProgress,
           \A st \in Statuses :
               /\ EndedWith(ChainJobs, st, j_pc', j_status') = EndedWith(ChainJobs, st, j_pc, j_status)
               /\ EndedWith(OffJobs, st, j_pc', j_status') = EndedWith(OffJobs, st, j_pc, j_status)
    PROVE  Accounting'
<1>1. /\ onchain_pending' = Cardinality(InProgress')
      /\ \A st \in Statuses :
           /\ job_counters'["onchain"][st] = Cardinality(EndedWith(ChainJobs, st, j_pc', j_status'))
           /\ job_counters'["offchain"][st] = Cardinality(EndedWith(OffJobs, st, j_pc', j_status'))
  BY AccountingIs
<1>. QED
  BY <1>1 DEF Accounting, InProgress, EndedWith

\* A request that ends an on-chain job: it is no longer in progress, but counted.
LEMMA OnchainDone ==
    ASSUME AccountingInv, NEW j \in ChainJobs, NEW st \in Statuses,
           Settle(j, st), j_pc[j] \in {"call", "body"}
    PROVE  Accounting' /\ onchain_pending' \in Nat
<1>. USE DEF AccountingInv
<1>1. /\ onchain_pending' = onchain_pending - 1
      /\ job_counters' = [job_counters EXCEPT !["onchain"][st] = @ + 1]
      /\ j_pc' = [j_pc EXCEPT ![j] = "ended"] /\ j_status' = [j_status EXCEPT ![j] = st]
  BY OrchestratorAssumption DEF Settle, SetOnchainDone, OnchainLeft, Increment, Goto
<1>2. /\ j_pc \in [Jobs -> JobPcs] /\ j_status \in [Jobs -> Statuses \cup {None}]
      /\ j \in Jobs /\ j \notin OffJobs
      /\ job_counters \in [{"offchain", "onchain"} -> [Statuses -> Nat]]
      /\ \A i \in OffJobs \cup ChainJobs : i \in Jobs
  BY OrchestratorAssumption DEF TypeOK, StoreTypeOK, Jobs
<1>3. InProgress' = InProgress \ {j} /\ j \in InProgress
  BY <1>1, <1>2 DEF InProgress, Begun, Over
<1>4. EndedWith(ChainJobs, st, j_pc', j_status')
        = EndedWith(ChainJobs, st, j_pc, j_status) \cup {j}
      /\ j \notin EndedWith(ChainJobs, st, j_pc, j_status)
  BY <1>1, <1>2 DEF EndedWith
<1>5. \A s \in Statuses :
          /\ EndedWith(OffJobs, s, j_pc', j_status') = EndedWith(OffJobs, s, j_pc, j_status)
          /\ s # st =>
             EndedWith(ChainJobs, s, j_pc', j_status') = EndedWith(ChainJobs, s, j_pc, j_status)
  BY <1>1, <1>2 DEF EndedWith
<1>6. Cardinality(InProgress') = Cardinality(InProgress) - 1 /\ Cardinality(InProgress) \in Nat
      /\ Cardinality(InProgress') \in Nat
  BY <1>3, CountedSets, FS_RemoveElement, FS_CardinalityType
<1>7. Cardinality(EndedWith(ChainJobs, st, j_pc', j_status'))
        = Cardinality(EndedWith(ChainJobs, st, j_pc, j_status)) + 1
  BY <1>4, CountedSets, FS_AddElement
<1>8. /\ onchain_pending' = Cardinality(InProgress')
      /\ \A s \in Statuses :
           /\ job_counters'["onchain"][s] = Cardinality(EndedWith(ChainJobs, s, j_pc', j_status'))
           /\ job_counters'["offchain"][s] = Cardinality(EndedWith(OffJobs, s, j_pc', j_status'))
  <2>1. /\ job_counters'["onchain"][st] = job_counters["onchain"][st] + 1
        /\ \A s \in Statuses :
               /\ job_counters'["offchain"][s] = job_counters["offchain"][s]
               /\ s # st => job_counters'["onchain"][s] = job_counters["onchain"][s]
    BY <1>1, <1>2
  <2>2. ASSUME NEW s \in Statuses
        PROVE  /\ job_counters'["onchain"][s] = Cardinality(EndedWith(ChainJobs, s, j_pc', j_status'))
               /\ job_counters'["offchain"][s] = Cardinality(EndedWith(OffJobs, s, j_pc', j_status'))
    <3>1. /\ job_counters["onchain"][s] = Cardinality(EndedWith(ChainJobs, s, j_pc, j_status))
          /\ job_counters["offchain"][s] = Cardinality(EndedWith(OffJobs, s, j_pc, j_status))
      BY AccountingIs
    <3>2. CASE s = st
      BY <1>5, <1>7, <2>1, <3>1, <3>2
    <3>3. CASE s # st
      BY <1>5, <2>1, <3>1, <3>3
    <3>. QED
      BY <3>2, <3>3
  <2>. QED
    BY <1>1, <1>6, <2>2, AccountingIs
<1>. QED
  BY <1>6, <1>8 DEF Accounting, InProgress, EndedWith

LEMMA OffchainDone ==
    ASSUME AccountingInv, NEW j \in OffJobs, Completed(j)
    PROVE  Accounting'
<1>. USE DEF AccountingInv
<1>0. PICK st \in Statuses : j_status[j] = st
  BY DEF Completed, TypeOK, Jobs
<1>1. /\ onchain_pending' = onchain_pending
      /\ job_counters' = [job_counters EXCEPT !["offchain"][st] = @ + 1]
      /\ j_pc[j] = "store" /\ j_pc' = [j_pc EXCEPT ![j] = "ended"] /\ j_status' = j_status
  BY <1>0 DEF Completed, SetCompleted, Increment, Goto
<1>2. /\ j_pc \in [Jobs -> JobPcs] /\ j \in Jobs /\ j \notin ChainJobs
      /\ job_counters \in [{"offchain", "onchain"} -> [Statuses -> Nat]]
      /\ \A i \in OffJobs \cup ChainJobs : i \in Jobs
  BY <1>1, OrchestratorAssumption DEF TypeOK, StoreTypeOK, Jobs
<1>3. InProgress' = InProgress
  BY <1>1, <1>2 DEF InProgress, Begun, Over
<1>4. EndedWith(OffJobs, st, j_pc', j_status')
        = EndedWith(OffJobs, st, j_pc, j_status) \cup {j}
      /\ j \notin EndedWith(OffJobs, st, j_pc, j_status)
  BY <1>0, <1>1, <1>2 DEF EndedWith
<1>5. \A s \in Statuses :
          /\ EndedWith(ChainJobs, s, j_pc', j_status') = EndedWith(ChainJobs, s, j_pc, j_status)
          /\ s # st =>
             EndedWith(OffJobs, s, j_pc', j_status') = EndedWith(OffJobs, s, j_pc, j_status)
  <2>2. ASSUME NEW s \in Statuses
        PROVE  EndedWith(ChainJobs, s, j_pc', j_status') = EndedWith(ChainJobs, s, j_pc, j_status)
    BY <1>1, <1>2 DEF EndedWith
  <2>3. ASSUME NEW s \in Statuses, s # st
        PROVE  EndedWith(OffJobs, s, j_pc', j_status') = EndedWith(OffJobs, s, j_pc, j_status)
    BY <1>0, <1>1, <1>2, <2>3 DEF EndedWith
  <2>. QED
    BY <2>2, <2>3
<1>6. Cardinality(EndedWith(OffJobs, st, j_pc', j_status'))
        = Cardinality(EndedWith(OffJobs, st, j_pc, j_status)) + 1
  BY <1>2, <1>4, CountedSets, FS_AddElement
<1>7. /\ onchain_pending' = Cardinality(InProgress')
      /\ \A s \in Statuses :
           /\ job_counters'["onchain"][s] = Cardinality(EndedWith(ChainJobs, s, j_pc', j_status'))
           /\ job_counters'["offchain"][s] = Cardinality(EndedWith(OffJobs, s, j_pc', j_status'))
  <2>1. /\ job_counters'["offchain"][st] = job_counters["offchain"][st] + 1
        /\ \A s \in Statuses :
               /\ job_counters'["onchain"][s] = job_counters["onchain"][s]
               /\ s # st => job_counters'["offchain"][s] = job_counters["offchain"][s]
    BY <1>1, <1>2
  <2>2. ASSUME NEW s \in Statuses
        PROVE  /\ job_counters'["onchain"][s] = Cardinality(EndedWith(ChainJobs, s, j_pc', j_status'))
               /\ job_counters'["offchain"][s] = Cardinality(EndedWith(OffJobs, s, j_pc', j_status'))
    <3>1. /\ job_counters["onchain"][s] = Cardinality(EndedWith(ChainJobs, s, j_pc, j_status))
          /\ job_counters["offchain"][s] = Cardinality(EndedWith(OffJobs, s, j_pc, j_status))
      BY AccountingIs
    <3>2. CASE s = st
      BY <1>5, <1>6, <2>1, <3>1, <3>2
    <3>3. CASE s # st
      BY <1>5, <2>1, <3>1, <3>3
    <3>. QED
      BY <3>2, <3>3
  <2>. QED
    BY <1>1, <1>3, <2>2, AccountingIs
<1>. QED
  BY <1>7 DEF Accounting, InProgress, EndedWith

LEMMA OnchainBegun ==
    ASSUME AccountingInv, NEW j \in Jobs, SubmitOnchain(j)
    PROVE  Accounting' /\ onchain_pending' \in Nat
<1>. USE DEF AccountingInv
<1>1. /\ onchain_pending' = onchain_pending + 1 /\ job_counters' = job_counters
      /\ j \in ChainJobs /\ j_pc[j] = "new" /\ j_pc' = [j_pc EXCEPT ![j] = "call"]
      /\ j_status' = j_status
  BY DEF SubmitOnchain, SetRunningOnchain, Goto
<1>2. j_pc \in [Jobs -> JobPcs] /\ \A i \in OffJobs \cup ChainJobs : i \in Jobs
  BY DEF TypeOK, Jobs
<1>3. InProgress' = InProgress \cup {j} /\ j \notin InProgress
  BY <1>1, <1>2 DEF InProgress, Begun, Over
<1>4. \A s \in Statuses :
          /\ EndedWith(ChainJobs, s, j_pc', j_status') = EndedWith(ChainJobs, s, j_pc, j_status)
          /\ EndedWith(OffJobs, s, j_pc', j_status') = EndedWith(OffJobs, s, j_pc, j_status)
  BY <1>1, <1>2 DEF EndedWith
<1>5. Cardinality(InProgress') = Cardinality(InProgress) + 1 /\ Cardinality(InProgress) \in Nat
  BY <1>3, CountedSets, FS_AddElement, FS_CardinalityType
<1>6. /\ onchain_pending' = Cardinality(InProgress')
      /\ \A s \in Statuses :
           /\ job_counters'["onchain"][s] = Cardinality(EndedWith(ChainJobs, s, j_pc', j_status'))
           /\ job_counters'["offchain"][s] = Cardinality(EndedWith(OffJobs, s, j_pc', j_status'))
  BY <1>1, <1>4, <1>5, AccountingIs
<1>7. Cardinality(InProgress') \in Nat
  BY <1>5
<1>. QED
  BY <1>6, <1>7 DEF Accounting, InProgress, EndedWith

\* Every other step of a job leaves it where it was counted.
LEMMA MoveCounts ==
    ASSUME AccountingInv, NEW j \in Jobs, UNCHANGED <<onchain_pending, job_counters>>,
           \E pc \in JobPcs :
               /\ j_pc' = [j_pc EXCEPT ![j] = pc]
               /\ pc # "ended" /\ j_pc[j] # "ended"
               /\ j \in ChainJobs => {pc, j_pc[j]} \subseteq {"call", "body", "text"},
           \A i \in Jobs : i # j => j_status'[i] = j_status[i]
    PROVE  Accounting'
<1>1. j_pc \in [Jobs -> JobPcs] /\ \A i \in OffJobs \cup ChainJobs : i \in Jobs
  BY DEF AccountingInv, TypeOK, Jobs
<1>4. PICK pc \in JobPcs :
        /\ j_pc' = [j_pc EXCEPT ![j] = pc]
        /\ pc # "ended" /\ j_pc[j] # "ended"
        /\ j \in ChainJobs => {pc, j_pc[j]} \subseteq {"call", "body", "text"}
  OBVIOUS
<1>5. \A i \in Jobs : j_pc'[i] = IF i = j THEN pc ELSE j_pc[i]
  BY <1>1, <1>4
<1>2. InProgress' = InProgress
  BY <1>1, <1>4, <1>5 DEF InProgress, Begun, Over
<1>3. \A s \in Statuses :
          /\ EndedWith(ChainJobs, s, j_pc', j_status') = EndedWith(ChainJobs, s, j_pc, j_status)
          /\ EndedWith(OffJobs, s, j_pc', j_status') = EndedWith(OffJobs, s, j_pc, j_status)
  <2>1. ASSUME NEW s \in Statuses, NEW S \in SUBSET Jobs
        PROVE  EndedWith(S, s, j_pc', j_status') = EndedWith(S, s, j_pc, j_status)
    BY <1>4, <1>5 DEF EndedWith
  <2>. QED
    BY <2>1 DEF Jobs, EndedWith
<1>. QED
  BY <1>2, <1>3, SameSets DEF AccountingInv

LEMMA NothingCounts ==
    ASSUME AccountingInv, UNCHANGED <<onchain_pending, job_counters, j_pc, j_status>>
    PROVE  Accounting'
BY DEF AccountingInv, Accounting, Begun, Over

LEMMA AccountingStep ==
    ASSUME AccountingInv, [Next]_vars
    PROVE  Accounting' /\ onchain_pending' \in Nat
<1>. USE DEF AccountingInv
<1>0. onchain_pending \in Nat /\ j_pc \in [Jobs -> JobPcs] /\ ChainJobs \cap OffJobs = {}
  BY OrchestratorAssumption DEF TypeOK, StoreTypeOK
<1>1. ASSUME NEW j \in Jobs, SubmitOnchain(j)
      PROVE  Accounting' /\ onchain_pending' \in Nat
  BY <1>1, OnchainBegun
<1>2. ASSUME NEW j \in Jobs, Completed(j)
      PROVE  Accounting' /\ onchain_pending' \in Nat
  <2>1. j \in OffJobs /\ onchain_pending' = onchain_pending
    BY <1>2 DEF Completed, SetCompleted, TypeOK
  <2>. QED
    BY <1>0, <1>2, <2>1, OffchainDone
<1>3. ASSUME NEW j \in Jobs, NEW st \in Statuses, Settle(j, st), j_pc[j] \in {"call", "body"}
      PROVE  Accounting' /\ onchain_pending' \in Nat
  <2>1. CASE j \in ChainJobs
    BY <1>3, <2>1, OnchainDone
  <2>2. CASE j \notin ChainJobs
    <3>1. /\ UNCHANGED <<onchain_pending, job_counters>> /\ j_pc' = [j_pc EXCEPT ![j] = "del"]
          /\ j_status' = [j_status EXCEPT ![j] = st]
      BY <1>3, <2>2 DEF Settle, Goto, store
    <3>2. \A i \in Jobs : i # j => j_status'[i] = j_status[i]
      BY <3>1 DEF TypeOK
    <3>3. "del" \in JobPcs /\ "del" # "ended" /\ j_pc[j] # "ended"
      BY <1>3 DEF JobPcs
    <3>4. Accounting'
      BY <2>2, <3>1, <3>2, <3>3, MoveCounts
    <3>. QED
      BY <1>0, <3>1, <3>4
  <2>. QED
    BY <2>1, <2>2
<1>4. ASSUME NEW j \in Jobs,
             \/ SubmitOffchain(j) \/ Stored(j) \/ Responds(j) \/ BodyNotJson(j) \/ Abandon(j)
             \/ Chunk(j) \/ ReadOn(j) \/ Deleted(j) \/ (BodyRead(j) /\ ~Settle(j, "success"))
      PROVE  Accounting' /\ onchain_pending' \in Nat
  <2>1. UNCHANGED <<onchain_pending, job_counters, j_status>>
    BY <1>4 DEF SubmitOffchain, Stored, SetRunning, Responds, BodyNotJson, Abandon, Chunk, ReadOn,
                Deleted, Unset, BodyRead, store
  <2>2. \E pc \in {"set_running", "call", "body", "yield", "text", "abandoned", "store"} :
           /\ j_pc' = [j_pc EXCEPT ![j] = pc]
           /\ j_pc[j] # "ended"
           /\ j \in ChainJobs => {pc, j_pc[j]} \subseteq {"call", "body", "text"}
    <3>1. j \in ChainJobs => j \notin OffJobs /\ j \notin StreamJobs
                            /\ j_pc[j] \notin {"set_running", "yield", "del", "store"}
      BY <1>0, OrchestratorAssumption DEF TypeOK
    <3>. QED
      BY <1>4, <3>1 DEF SubmitOffchain, Stored, Responds, BodyNotJson, Abandon, Chunk, ReadOn,
                         Deleted, BodyRead, Goto
  <2>3. PICK pc \in {"set_running", "call", "body", "yield", "text", "abandoned", "store"} :
           /\ j_pc' = [j_pc EXCEPT ![j] = pc]
           /\ j_pc[j] # "ended"
           /\ j \in ChainJobs => {pc, j_pc[j]} \subseteq {"call", "body", "text"}
    BY <2>2
  <2>4. pc \in JobPcs /\ pc # "ended"
    BY DEF JobPcs
  <2>5. Accounting'
    BY <2>1, <2>3, <2>4, MoveCounts
  <2>. QED
    BY <1>0, <2>1, <2>5
<1>5. CASE ProcessEnds
  <2>1. /\ onchain_pending' = 0 /\ job_counters' = NoCounts
        /\ \A j \in Jobs : j_pc'[j] \in {"new", "past"}
    BY <1>5 DEF ProcessEnds, StoreDown
  <2>2. /\ {j \in ChainJobs : Begun(j) /\ ~Over(j)}' = {}
        /\ \A st \in Statuses :
             /\ {j \in ChainJobs : j_pc'[j] = "ended" /\ j_status'[j] = st} = {}
             /\ {j \in OffJobs : j_pc'[j] = "ended" /\ j_status'[j] = st} = {}
    BY <2>1 DEF Begun, Over, Jobs
  <2>3. \A st \in Statuses : NoCounts["onchain"][st] = 0 /\ NoCounts["offchain"][st] = 0
    BY DEF NoCounts
  <2>. QED
    BY <2>1, <2>2, <2>3, FS_EmptySet DEF Accounting
<1>6. CASE \/ Restart \/ GetPending \/ ListSecond \/ UNCHANGED vars
           \/ \E k \in Keys : RunningExpires(k) \/ GetCompleted(k)
           \/ \E ip \in Addresses : ListFirst(ip)
  <2>1. UNCHANGED <<onchain_pending, job_counters, j_pc, j_status>>
    BY <1>6 DEF Restart, StoreSetup, GetPending, ListFirst, ListSecond, vars, RunningExpires, Expire,
                GetCompleted, store, jobs
  <2>. QED
    BY <1>0, <2>1, NothingCounts
<1>7. ASSUME NEW S \in SUBSET (OffJobs \ StreamJobs), SubmitBatch(S)
      PROVE  Accounting' /\ onchain_pending' \in Nat
  <2>1. UNCHANGED <<onchain_pending, job_counters, j_status>>
    BY <1>7 DEF SubmitBatch, store
  <2>2. \A j \in Jobs :
          IF j \in S THEN j_pc[j] = "new" /\ j_pc'[j] = "set_running" /\ j \notin ChainJobs
                     ELSE j_pc'[j] = j_pc[j]
    BY <1>0, <1>7 DEF SubmitBatch
  <2>3. InProgress' = InProgress
    BY <2>2 DEF InProgress, Begun, Over, Jobs
  <2>4. \A j \in Jobs : j_pc'[j] = "ended" <=> j_pc[j] = "ended"
    BY <2>2
  <2>5. \A st \in Statuses :
          /\ EndedWith(ChainJobs, st, j_pc', j_status') = EndedWith(ChainJobs, st, j_pc, j_status)
          /\ EndedWith(OffJobs, st, j_pc', j_status') = EndedWith(OffJobs, st, j_pc, j_status)
    BY <2>1, <2>4 DEF EndedWith, Jobs
  <2>. QED
    BY <1>0, <2>1, <2>3, <2>5, SameSets
<1>8. ASSUME NEW j \in Jobs, Abort(j) \/ BodyFails(j) \/ (BodyRead(j) /\ Settle(j, "success"))
      PROVE  Accounting' /\ onchain_pending' \in Nat
  <2>1. \E st \in Statuses : Settle(j, st) /\ j_pc[j] \in {"call", "body"}
    BY <1>8 DEF Abort, BodyFails, BodyRead, TimerArmed, Statuses
  <2>. QED
    BY <1>3, <2>1
<1>. QED
  BY <1>1, <1>2, <1>4, <1>5, <1>6, <1>7, <1>8
  DEF Next, JobStep, NodeStep, ContainerStep, ClientStep, TextRejected, Kill

LEMMA TypeStep ==
    ASSUME TypeOK, onchain_pending' \in Nat, [Next]_vars
    PROVE  TypeOK'
<1>. USE DEF TypeOK, StoreTypeOK
<1>0. /\ \A j \in OffJobs \cup ChainJobs : j \in Jobs
      /\ \A j \in Jobs : Length[j] \in Nat \ {0}
      /\ MaxKills \in Nat /\ MaxRestarts \in Nat
  BY OrchestratorAssumption DEF Jobs
<1>1. ASSUME NEW st \in Statuses, NEW location \in {"offchain", "onchain"}, Increment(location, st)
      PROVE  job_counters' \in [{"offchain", "onchain"} -> [Statuses -> Nat]]
  BY <1>1 DEF Increment
<1>2. ASSUME NEW j \in Jobs, NEW st \in Statuses, Settle(j, st)
      PROVE  TypeOK'
  <2>1. UNCHANGED <<completed, pending, j_step, j_key, up, kills, restarts, get_pc, get_key, get_found,
                    get_answer, list_ip, list_known, list_ids>>
    BY <1>2 DEF Settle, SetOnchainDone, store, process, get, listing
  <2>2. job_counters' \in [{"offchain", "onchain"} -> [Statuses -> Nat]]
    BY <1>1, <1>2 DEF Settle, SetOnchainDone, store
  <2>3. j_status' = [j_status EXCEPT ![j] = st]
    BY <1>2 DEF Settle
  <2>4. \/ j_pc' = [j_pc EXCEPT ![j] = "ended"]
        \/ j \in OffJobs /\ j_pc' = [j_pc EXCEPT ![j] = "del"]
    BY <1>2 DEF Settle, Goto
  <2>. QED
    BY <2>1, <2>2, <2>3, <2>4 DEF JobPcs
<1>3. ASSUME NEW j \in Jobs, \/ SubmitOffchain(j) \/ Responds(j) \/ Chunk(j) \/ ReadOn(j)
                             \/ BodyNotJson(j) \/ Abandon(j)
      PROVE  TypeOK'
  <2>1. UNCHANGED <<completed, pending, job_counters, j_step, j_status, j_key, up, kills, restarts, get_pc,
                    get_key, get_found, get_answer, list_ip, list_known, list_ids>>
    BY <1>3 DEF SubmitOffchain, Responds, Chunk, ReadOn, BodyNotJson, Abandon, store, process, get, listing
  <2>2. \/ j \in OffJobs /\ j_pc' = [j_pc EXCEPT ![j] = "set_running"]
        \/ j_pc' = [j_pc EXCEPT ![j] = "abandoned"]
        \/ /\ j_pc[j] \in {"call", "body", "yield"}
           /\ \E pc \in {"body", "yield", "text"} :
                j_pc' = [j_pc EXCEPT ![j] = pc] /\ (pc = "yield" => j \in StreamJobs)
    BY <1>3 DEF SubmitOffchain, Responds, Chunk, ReadOn, BodyNotJson, Abandon, Goto
  <2>. QED
    BY <2>1, <2>2 DEF JobPcs
<1>4. ASSUME NEW j \in Jobs, SubmitOnchain(j) \/ Stored(j)
      PROVE  TypeOK'
  <2>1. UNCHANGED <<completed, job_counters, j_status, j_key, up, kills, restarts, get_pc,
                    get_key, get_found, get_answer, list_ip, list_known, list_ids>>
    BY <1>4 DEF SubmitOnchain, SetRunningOnchain, Stored, SetRunning, process, get, listing
  <2>2. pending' = pending \/ (j \in OffJobs /\ pending' = pending \cup {j_key[j]})
    BY <1>4 DEF SubmitOnchain, SetRunningOnchain, Stored, SetRunning
  <2>3. j_pc' = [j_pc EXCEPT ![j] = "call"] /\ j_step' = [j_step EXCEPT ![j] = 1] /\ 1 \in 1 .. Length[j]
    BY <1>0, <1>4 DEF SubmitOnchain, Stored, Goto
  <2>. QED
    BY <2>1, <2>2, <2>3 DEF JobPcs
<1>5. ASSUME NEW j \in Jobs, BodyRead(j), ~Settle(j, "success")
      PROVE  TypeOK'
  <2>1. UNCHANGED <<completed, pending, job_counters, j_status, j_key, up, kills, restarts, get_pc,
                    get_key, get_found, get_answer, list_ip, list_known, list_ids>>
    BY <1>5 DEF BodyRead, store, process, get, listing
  <2>2. /\ j_pc' = [j_pc EXCEPT ![j] = "call"] /\ j_step' = [j_step EXCEPT ![j] = @ + 1]
        /\ j_step[j] + 1 \in 1 .. Length[j]
    BY <1>0, <1>5 DEF BodyRead, Goto
  <2>. QED
    BY <2>1, <2>2 DEF JobPcs
<1>6. ASSUME NEW j \in Jobs, Deleted(j) \/ Completed(j)
      PROVE  TypeOK'
  <2>1. UNCHANGED <<j_step, j_status, j_key, up, kills, restarts, get_pc,
                    get_key, get_found, get_answer, list_ip, list_known, list_ids>>
    BY <1>6 DEF Deleted, Completed, process, get, listing
  <2>2. CASE Deleted(j)
    BY <2>1, <2>2 DEF Deleted, Unset, DropRunning, Goto, JobPcs
  <2>3. CASE Completed(j)
    <3>1. j \in OffJobs /\ j_status[j] \in Statuses
      BY <2>3 DEF Completed
    <3>2. job_counters' \in [{"offchain", "onchain"} -> [Statuses -> Nat]]
      BY <1>1, <2>3, <3>1 DEF Completed, SetCompleted
    <3>. QED
      BY <2>1, <2>3, <3>1, <3>2 DEF Completed, SetCompleted, Goto, JobPcs
  <2>. QED
    BY <1>6, <2>2, <2>3
<1>7. CASE ProcessEnds /\ kills' \in 0 .. MaxKills
  <2>1. /\ UNCHANGED <<completed, pending, j_key, restarts, get_key, get_answer, list_ids>>
        /\ get_found' = None /\ list_ip' = None /\ list_known' = {}
        /\ j_step' \in [Jobs -> Nat] /\ j_status' \in [Jobs -> Statuses \cup {None}]
    BY <1>7 DEF ProcessEnds, StoreDown
  <2>2. job_counters' \in [{"offchain", "onchain"} -> [Statuses -> Nat]]
    BY <1>7 DEF ProcessEnds, StoreDown, NoCounts
  <2>3. \A j \in Jobs : j_pc'[j] \in {"new", "past"}
    BY <1>7 DEF ProcessEnds
  <2>4. j_pc' \in [Jobs -> JobPcs] /\ ~up' /\ up' \in BOOLEAN /\ get_pc' = "idle"
    BY <1>7 DEF ProcessEnds, JobPcs
  <2>. QED
    BY <1>7, <2>1, <2>2, <2>3, <2>4
<1>8. CASE Restart
  BY <1>0, <1>8 DEF Restart, StoreSetup, Flushed, jobs, get, listing
<1>9. ASSUME NEW k \in Keys, RunningExpires(k)
      PROVE  TypeOK'
  BY <1>9 DEF RunningExpires, Expire, jobs, process, get, listing
<1>10. ASSUME NEW k \in Keys, GetCompleted(k)
       PROVE  TypeOK'
  BY <1>10 DEF GetCompleted, store, jobs, process
<1>11. CASE GetPending \/ ListSecond \/ \E ip \in Addresses : ListFirst(ip)
  <2>1. \A ip : \A database \in {"pending", "completed"} :
           Ids(database, ip) \subseteq JobIds \cup {Piece} /\ KnownIds(ip) \subseteq JobIds
    <3>1. \A k \in Keys : k[2] \in JobIds /\ get_id(k) \in JobIds \cup {Piece}
      BY DEF Keys, get_id
    <3>. QED
      BY <3>1 DEF Ids, KnownIds, KeysFound
  <2>2. CASE GetPending
    BY <2>2 DEF GetPending, store, jobs, process, listing
  <2>3. CASE ListSecond
    BY <2>1, <2>3 DEF ListSecond, Scans, store, jobs, process
  <2>4. ASSUME NEW ip \in Addresses, ListFirst(ip)
        PROVE  TypeOK'
    BY <2>1, <2>4 DEF ListFirst, Scans, store, jobs, process
  <2>. QED
    BY <1>11, <2>2, <2>3, <2>4
<1>12. CASE UNCHANGED vars
  BY <1>12 DEF vars, store, jobs, process, get, listing
<1>13. ASSUME NEW S \in SUBSET (OffJobs \ StreamJobs), SubmitBatch(S)
       PROVE  TypeOK'
  <2>1. UNCHANGED <<completed, pending, job_counters, j_step, j_status, j_key, up, kills, restarts, get_pc,
                    get_key, get_found, get_answer, list_ip, list_known, list_ids>>
    BY <1>13 DEF SubmitBatch, store, process, get, listing
  <2>2. \A j \in Jobs : j_pc'[j] = IF j \in S THEN "set_running" ELSE j_pc[j]
    BY <1>13 DEF SubmitBatch
  <2>3. j_pc' \in [Jobs -> JobPcs]
    BY <1>13 DEF SubmitBatch, JobPcs
  <2>. QED
    BY <2>1, <2>2, <2>3
<1>14. ASSUME NEW j \in Jobs, Abort(j) \/ BodyFails(j) \/ (BodyRead(j) /\ Settle(j, "success"))
       PROVE  TypeOK'
  BY <1>2, <1>14 DEF Abort, BodyFails, BodyRead, Statuses
<1>15. ProcessEnds /\ kills' = kills => kills' \in 0 .. MaxKills
  OBVIOUS
<1>16. Kill => kills' \in 0 .. MaxKills
  BY <1>0 DEF Kill
<1>. QED
  BY <1>3, <1>4, <1>5, <1>6, <1>7, <1>8, <1>9, <1>10, <1>11, <1>12, <1>13, <1>14, <1>15, <1>16
  DEF Next, JobStep, NodeStep, ContainerStep, ClientStep, TextRejected, Kill

LEMMA AccountingInit == Init => AccountingInv
<1>1. ASSUME Init
      PROVE  /\ {j \in ChainJobs : Begun(j) /\ ~Over(j)} = {}
             /\ \A st \in Statuses :
                  /\ {j \in ChainJobs : j_pc[j] = "ended" /\ j_status[j] = st} = {}
                  /\ {j \in OffJobs : j_pc[j] = "ended" /\ j_status[j] = st} = {}
  BY <1>1 DEF Init, Begun, Over, Jobs
<1>2. ASSUME Init
      PROVE  Accounting
  <2>1. \A st \in Statuses : NoCounts["onchain"][st] = 0 /\ NoCounts["offchain"][st] = 0
    BY DEF NoCounts
  <2>. QED
    BY <1>1, <1>2, <2>1, FS_EmptySet DEF Init, StoreInit, Accounting
<1>3. Init => TypeOK
  BY OrchestratorAssumption DEF Init, StoreInit, NoCounts, TypeOK, StoreTypeOK, JobPcs
<1>. QED
  BY <1>2, <1>3 DEF AccountingInv

\* Every job the process took on is in progress or counted once, and every variable
\* keeps its type; onchain_pending never falls below zero because it counts right.
THEOREM JobsAccounted == Spec => [](TypeOK /\ Accounting)
<1>1. AccountingInv /\ [Next]_vars => AccountingInv'
  BY AccountingStep, TypeStep DEF AccountingInv
<1>. QED
  BY <1>1, AccountingInit, PTL DEF Spec, AccountingInv
===============================================================================
