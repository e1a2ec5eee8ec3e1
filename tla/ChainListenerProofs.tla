-------------------------- MODULE ChainListenerProofs -------------------------
(***************************************************************************)
(* Proofs about the chain listener, for every batch size, window, trail,   *)
(* chain and number of subscriptions: the batches of a sync cover exactly  *)
(* the ids asked for, and the listener leaves no gap behind.               *)
(***************************************************************************)
EXTENDS ChainListenerInv, TLAPS

LEMMA MinOfTwo ==
    ASSUME NEW a \in Int, NEW b \in Int
    PROVE  Min({a, b}) = IF a \leq b THEN a ELSE b
BY SMTT(30) DEF Min

LEMMA Division ==
    ASSUME NEW a \in Nat, NEW n \in Nat \ {0}
    PROVE  /\ a \div n \in Nat
           /\ a = n * (a \div n) + (a % n) /\ a % n \in 0 .. n - 1
BY SMTT(30)

LEMMA Distribute ==
    ASSUME NEW i \in Int, NEW n \in Nat
    PROVE  n * (i + 1) = n * i + n /\ n * i = i * n /\ i * n \in Int
BY SMTT(30)

LEMMA Monotone ==
    ASSUME NEW i \in Int, NEW j \in Int, NEW n \in Nat, i \leq j
    PROVE  i * n \leq j * n
<1>1. PICK d \in Nat : j = i + d
  <2>1. j - i \in Nat /\ j = i + (j - i)
    OBVIOUS
  <2>. QED
    BY <2>1
<1>2. j * n = i * n + d * n /\ d * n \in Nat /\ i * n \in Int
  BY <1>1, SMTT(30)
<1>. QED
  BY <1>2
-------------------------------------------------------------------------------
(* getBatches cuts the ids from start to end into adjacent half-open intervals. *)

AdjacentCut(bs, n, start, end) ==
    /\ n \in Nat \ {0}
    /\ DOMAIN bs = 1 .. n
    /\ bs[1][1] = start
    /\ bs[n][2] = end + 1
    /\ \A i \in 1 .. n : bs[i][1] \in Int /\ bs[i][2] \in Int /\ bs[i][2] \leq end + 1
    /\ \A i \in 1 .. n : i + 1 \in 1 .. n => bs[i + 1][1] = bs[i][2]
    /\ \A i \in 1 .. n : start \leq bs[i][1]
    /\ \A i \in 1 .. n : start \in Nat /\ end \in Nat => bs[i] \in Nat \X Nat

LEMMA BatchCut ==
    ASSUME NEW start \in Int, NEW end \in Int
    PROVE  AdjacentCut(Batches(start, end), BatchCount(start, end), start, end)
<1>. DEFINE bs == Batches(start, end)
            n == BatchCount(start, end)
            d == end - start
            q == d \div BatchSize
<1>1. BatchSize \in Nat \ {0}
  BY ListenerAssumption
<1>2. CASE end - start + 1 \leq BatchSize
  <2>1. n = 1
    BY <1>2 DEF BatchCount
  <2>2. bs = [i \in 1 .. 1 |-> <<start, end + 1>>]
    BY <1>2, <2>1 DEF Batches
  <2>3. \A i \in 1 .. 1 : bs[i][1] = start /\ start \leq bs[i][1] /\ bs[i][2] = end + 1 /\ bs[i] = <<start, end + 1>>
    BY <2>2
  <2>4. DOMAIN bs = 1 .. 1
    BY <2>2
  <2>. HIDE DEF bs, n
  <2>5. AdjacentCut(bs, n, start, end)
    BY <2>1, <2>3, <2>4 DEF AdjacentCut
  <2>. QED
    BY <2>5 DEF bs, n
<1>3. CASE ~(end - start + 1 \leq BatchSize)
  <2>1. d \in Nat /\ d \geq BatchSize
    BY <1>1, <1>3
  <2>2. q \in Nat /\ d = BatchSize * q + (d % BatchSize) /\ d % BatchSize \in 0 .. BatchSize - 1
    BY <1>1, <2>1, Division
  <2>3. n = q + 1 /\ n \in Nat \ {0}
    BY <1>3, <2>2 DEF BatchCount
  <2>4. bs = [i \in 1 .. n |-> <<start + (i - 1) * BatchSize, BatchEnd(start, end, i)>>]
    BY <1>3 DEF Batches
  <2>5. \A i \in 1 .. n : i * BatchSize \in Nat /\ (i - 1) * BatchSize \in Nat
                          /\ i * BatchSize = (i - 1) * BatchSize + BatchSize
    <3>1. TAKE i \in 1 .. n
    <3>2. i - 1 \in Nat /\ i \in Nat /\ (i - 1) + 1 = i
      BY <2>3
    <3>3. BatchSize * i = BatchSize * (i - 1) + BatchSize
          /\ BatchSize * (i - 1) = (i - 1) * BatchSize /\ (i - 1) * BatchSize \in Int
      BY <1>1, <3>2, Distribute
    <3>4. BatchSize * i = i * BatchSize
      BY <1>1, <3>2, Distribute
    <3>5. 0 * BatchSize \leq (i - 1) * BatchSize
      BY <1>1, <3>2, Monotone
    <3>6. 0 * BatchSize = 0
      BY <1>1
    <3>. QED
      BY <1>1, <3>3, <3>4, <3>5, <3>6
  <2>6. \A i \in 1 .. n :
          BatchEnd(start, end, i) =
            (IF start + i * BatchSize - 1 \leq end THEN start + i * BatchSize - 1 ELSE end) + 1
    BY <1>1, <2>5, MinOfTwo DEF BatchEnd
  <2>7. \A i \in 1 .. n : i # n => start + i * BatchSize - 1 \leq end
    <3>1. TAKE i \in 1 .. n
    <3>2. HAVE i # n
    <3>3. i * BatchSize \leq q * BatchSize
      BY <1>1, <2>2, <2>3, <3>2, Monotone
    <3>4. q * BatchSize = BatchSize * q
      BY <1>1, <2>2, Distribute
    <3>. QED
      BY <1>1, <2>1, <2>2, <2>5, <3>3, <3>4
  <2>8. start + n * BatchSize - 1 \geq end
    <3>1. BatchSize * (q + 1) = BatchSize * q + BatchSize
          /\ BatchSize * q \in Int
      BY <1>1, <2>2, Distribute
    <3>2. n * BatchSize = BatchSize * n
      BY <1>1, <2>3, Distribute
    <3>. QED
      BY <1>1, <2>1, <2>2, <2>3, <3>1, <3>2
  <2>9. bs[1][1] = start
    <3>1. (1 - 1) * BatchSize = 0
      BY <1>1
    <3>. QED
      BY <2>3, <2>4, <3>1
  <2>10. \A i \in 1 .. n :
           /\ bs[i] = <<start + (i - 1) * BatchSize, BatchEnd(start, end, i)>>
           /\ bs[i][1] = start + (i - 1) * BatchSize
           /\ bs[i][2] = BatchEnd(start, end, i)
    BY <2>4
  <2>11. bs[n][2] = end + 1
    BY <2>3, <2>5, <2>6, <2>8, <2>10
  <2>12. \A i \in 1 .. n : bs[i][1] \in Int /\ bs[i][2] \in Int /\ bs[i][2] \leq end + 1
    BY <2>5, <2>6, <2>10, <1>1
  <2>13. \A i \in 1 .. n : i + 1 \in 1 .. n => bs[i + 1][1] = bs[i][2]
    <3>1. TAKE i \in 1 .. n
    <3>2. HAVE i + 1 \in 1 .. n
    <3>3. i # n
      BY <2>3, <3>2
    <3>4. bs[i][2] = start + i * BatchSize
      BY <2>5, <2>6, <2>7, <2>10, <3>3, <1>1
    <3>5. bs[i + 1][1] = start + ((i + 1) - 1) * BatchSize
      BY <2>10, <3>2
    <3>6. (i + 1) - 1 = i
      BY <2>3
    <3>. QED
      BY <3>4, <3>5, <3>6
  <2>14. \A i \in 1 .. n : start \in Nat /\ end \in Nat => bs[i] \in Nat \X Nat
    <3>1. TAKE i \in 1 .. n
    <3>2. HAVE start \in Nat /\ end \in Nat
    <3>3. start + (i - 1) * BatchSize \in Nat
      BY <2>5, <3>2
    <3>4. BatchEnd(start, end, i) \in Nat
      BY <2>5, <2>6, <3>2, <1>1
    <3>5. <<start + (i - 1) * BatchSize, BatchEnd(start, end, i)>> \in Nat \X Nat
      BY <3>3, <3>4
    <3>. HIDE DEF bs
    <3>. QED
      BY <2>10, <3>5
  <2>15. DOMAIN bs = 1 .. n
    BY <2>4
  <2>17. \A i \in 1 .. n : start \leq bs[i][1]
    BY <2>5, <2>10
  <2>. HIDE DEF bs, n
  <2>16. AdjacentCut(bs, n, start, end)
    BY <2>3, <2>9, <2>11, <2>12, <2>13, <2>14, <2>15, <2>17 DEF AdjacentCut
  <2>. QED
    BY <2>16 DEF bs, n
<1>. QED
  BY <1>2, <1>3
-------------------------------------------------------------------------------
(* Type correctness.                                                       *)

TypeInv == TypeOK /\ head \geq Trail

LEMMA HeadBlockType ==
    ASSUME TypeInv
    PROVE  HeadBlock \in Blocks /\ HeadBlock \leq head /\ head \in Nat /\ Trail \in Nat
BY ListenerAssumption DEF TypeInv, TypeOK, HeadBlock, Blocks

\* A batch index followed by another, and the batches of a sync.
LEMMA BatchTypes ==
    ASSUME NEW start \in Nat, NEW end \in Nat
    PROVE  /\ \A i \in DOMAIN Batches(start, end) : Batches(start, end)[i] \in Nat \X Nat
           /\ 1 \in DOMAIN Batches(start, end)
           /\ DOMAIN Batches(start, end) \subseteq Nat
<1>. DEFINE bs == Batches(start, end)
            n == BatchCount(start, end)
<1>1. AdjacentCut(bs, n, start, end)
  BY BatchCut
<1>. HIDE DEF bs, n
<1>2. \A i \in DOMAIN bs : bs[i] \in Nat \X Nat
  BY <1>1 DEF AdjacentCut
<1>3. 1 \in DOMAIN bs /\ DOMAIN bs \subseteq Nat
  BY <1>1 DEF AdjacentCut
<1>. QED
  BY <1>2, <1>3 DEF bs

LEMMA EndSyncType ==
    ASSUME TypeInv, EndSync, UNCHANGED <<target, head_id>>
    PROVE  /\ last_block' \in Blocks /\ last_id' \in Nat
           /\ next' \in Nat /\ pc' \in {"top", "setup_id"}
           /\ \A i \in DOMAIN batches' : batches'[i] \in Nat \X Nat
<1>1. DOMAIN batches' = {}
  BY DEF EndSync, NoBatches
<1>. QED
  BY <1>1 DEF EndSync, TypeInv, TypeOK, position

\* A pass takes the listener forward, and not past the block it looks at.
LEMMA PassTarget ==
    ASSUME TypeInv, Pass
    PROVE  /\ target' \in Blocks /\ last_block < target' /\ target' \leq HeadBlock
           /\ last_block \in Int /\ target' \in Int
<1>1. /\ HeadBlock \in Int /\ Window \in Int /\ Window > 0 /\ last_block \in Int
      /\ last_block < HeadBlock /\ last_block \geq 0 /\ HeadBlock \leq MaxBlock /\ MaxBlock \in Nat
  BY HeadBlockType, ListenerAssumption DEF Pass, TypeInv, TypeOK, Blocks
<1>2. Min({HeadBlock - last_block, Window})
        = IF HeadBlock - last_block \leq Window THEN HeadBlock - last_block ELSE Window
  BY <1>1, MinOfTwo
<1>3. target' = last_block + Min({HeadBlock - last_block, Window})
  BY DEF Pass
<1>. QED
  BY <1>1, <1>2, <1>3 DEF Blocks

LEMMA TypeStep ==
    ASSUME TypeInv, [Next]_vars
    PROVE  TypeInv'
<1>. USE DEF TypeInv
<1>0. HeadBlock \in Blocks /\ HeadBlock \leq head /\ head \in Nat /\ Trail \in Nat
  BY HeadBlockType
<1>1. CASE Setup
  <2>1. StartingId \in Nat
    BY ListenerAssumption
  <2>. QED
    BY <1>0, <1>1, <2>1 DEF Setup, TypeOK, chain, sync
<1>2. CASE SnapshotSync
  <2>1. SyncFrom \in Nat /\ created[head_block] \in Nat
    BY DEF TypeOK, SyncFrom
  <2>. DEFINE bs == Batches(SyncFrom, created[head_block])
  <2>2. /\ \A i \in DOMAIN bs : bs[i] \in Nat \X Nat
        /\ 1 \in DOMAIN bs
    BY <2>1, BatchTypes
  <2>. HIDE DEF bs
  <2>3. UNCHANGED <<head, created, running, head_block, target, head_id, relayed, shutdown>>
    BY <1>2 DEF SnapshotSync, HeadSubId, chain, pass
  <2>4. CASE EndSync
    BY <2>3, <2>4, EndSyncType DEF TypeOK
  <2>5. CASE /\ batches' = bs /\ next' = 1 /\ pc' = "batch"
             /\ UNCHANGED position
    BY <2>2, <2>3, <2>5 DEF TypeOK, position
  <2>. QED
    BY <1>2, <2>4, <2>5 DEF SnapshotSync, HeadSubId, bs
<1>3. ASSUME NextBatch, pc = "batch", UNCHANGED <<chain, running, pass, shutdown>>,
             relayed' \in [Ids -> 0 .. 2]
      PROVE  TypeInv'
  <2>1. UNCHANGED <<head, created, running, head_block, target, head_id, shutdown>>
    BY <1>3 DEF chain, pass
  <2>2. CASE EndSync
    BY <1>3, <2>1, <2>2, EndSyncType DEF TypeOK
  <2>3. CASE /\ next + 1 \in DOMAIN batches
             /\ next' = next + 1
             /\ UNCHANGED <<pc, position, batches>>
    BY <1>3, <2>1, <2>3 DEF TypeOK, position
  <2>. QED
    BY <1>3, <2>2, <2>3 DEF NextBatch
<1>4. CASE SyncBatch
  <2>1. \A id \in Ids : Min({relayed[id] + 1, 2}) \in 0 .. 2
    <3>1. TAKE id \in Ids
    <3>2. relayed[id] \in 0 .. 2
      BY DEF TypeOK
    <3>3. Min({relayed[id] + 1, 2}) = IF relayed[id] + 1 \leq 2 THEN relayed[id] + 1 ELSE 2
      BY <3>2, MinOfTwo
    <3>. QED
      BY <3>2, <3>3
  <2>2. relayed' \in [Ids -> 0 .. 2]
    BY <1>4, <2>1 DEF SyncBatch, InBatch, Readable, TypeOK
  <2>. QED
    BY <1>3, <1>4, <2>2 DEF SyncBatch, InBatch, Readable
<1>5. CASE SkipBatch
  <2>1. relayed' \in [Ids -> 0 .. 2]
    BY <1>5 DEF SkipBatch, TypeOK
  <2>. QED
    BY <1>3, <1>5, <2>1 DEF SkipBatch
<1>6. CASE SetupDone
  BY <1>6 DEF SetupDone, HeadSubId, TypeOK, chain, pass, sync
<1>7. CASE Pass
  <2>1. target' \in Blocks
    BY <1>7, PassTarget
  <2>. QED
    BY <1>0, <1>7, <2>1 DEF Pass, TypeOK, chain, position, sync
<1>8. CASE TargetId
  BY <1>8 DEF TargetId, IdBlock, HeadSubId, TypeOK, chain, position, sync
<1>9. CASE End
  BY <1>9 DEF End, TypeOK, chain, position, pass, sync
<1>10. CASE Shutdown
  BY <1>10 DEF Shutdown, TypeOK, chain, position, pass, sync
<1>11. CASE NewBlock
  <2>1. head' \in Blocks /\ head' \geq Trail
    BY <1>0, <1>11, ListenerAssumption DEF NewBlock, TypeOK, Blocks
  <2>2. created' \in [Blocks -> 0 .. MaxSubs]
    BY <1>11, ListenerAssumption DEF NewBlock, TypeOK
  <2>. QED
    BY <1>11, <2>1, <2>2 DEF NewBlock, TypeOK, position, pass, sync
<1>12. ASSUME NEW b \in Blocks, Reorg(b)
       PROVE  TypeInv'
  <2>1. b - 1 \in Blocks
    BY <1>12, ListenerAssumption DEF Reorg, Blocks
  <2>2. created' \in [Blocks -> 0 .. MaxSubs]
    BY <1>12, <2>1, ListenerAssumption DEF Reorg, TypeOK
  <2>. QED
    BY <1>12, <2>2 DEF Reorg, TypeOK, position, pass, sync
<1>13. CASE UNCHANGED vars
  BY <1>13 DEF vars, chain, position, pass, sync, TypeOK
<1>. QED
  BY <1>1, <1>2, <1>4, <1>5, <1>6, <1>7, <1>8, <1>9, <1>10, <1>11, <1>12, <1>13
  DEF Next, ListenerStep

LEMMA InitType == Init => TypeInv
BY ListenerAssumption DEF Init, TypeInv, TypeOK, Blocks, Ids, NoBatches

\* The listener's variables keep their types, whatever chain it follows.
THEOREM ListenerTypeCorrect == Spec => []TypeOK
<1>1. Init => TypeInv
  BY InitType
<1>2. TypeInv /\ [Next]_vars => TypeInv'
  BY TypeStep
<1>3. TypeInv => TypeOK
  BY DEF TypeInv
<1>. QED
  BY <1>1, <1>2, <1>3, PTL DEF Spec
-------------------------------------------------------------------------------
(* NoGap and SyncedIsFinal, by induction on ListenerInv.                   *)

LInv == TypeInv /\ ListenerInv

\* What the listener does leaves the chain, and so the settled blocks, alone.
LEMMA SameChain ==
    ASSUME LInv, UNCHANGED chain
    PROVE  ChainInv' /\ HeadBlock' = HeadBlock
BY DEF LInv, ListenerInv, ChainInv, chain, HeadBlock

\* The end of a sync at which everything up to the head of it was handed on.
LEMMA EndSyncInv ==
    ASSUME LInv, EndSync, pc \in {"head_id", "batch"},
           UNCHANGED <<chain, running, pass, shutdown>>,
           ~shutdown => \A id \in Ids :
              StartingId < id /\ id \leq created[head_block] => relayed'[id] > 0,
           FinalInv'
    PROVE  ListenerInv'
<1>1. UNCHANGED <<head, created, running, head_block, target, head_id, shutdown>>
  BY DEF chain, pass
<1>2. ChainInv' /\ HeadBlock' = HeadBlock
  BY SameChain
<1>. USE DEF LInv, ListenerInv
<1>3. CASE running /\ last_block' = target /\ last_id' = head_id /\ pc' = "top"
  <2>1. target \in Blocks /\ head_block \in Blocks /\ HeadBlock \in Blocks
    BY HeadBlockType DEF TypeInv, TypeOK
  <2>2. target \leq head_block /\ head_block \leq HeadBlock /\ head_id = created[target]
    BY <1>3 DEF PositionInv, CounterInv
  <2>3. target \leq HeadBlock
    BY <2>1, <2>2 DEF Blocks
  <2>4. created[target] \leq created[head_block]
    BY <2>1, <2>2 DEF ChainInv
  <2>5. PositionInv'
    BY <1>1, <1>2, <1>3, <2>2, <2>3 DEF PositionInv
  <2>6. CounterInv'
    BY <1>1, <1>3, <2>2 DEF CounterInv
  <2>7. created[target] \in Int /\ created[head_block] \in Int /\ head_id \in Int
    BY <2>1, <2>2 DEF TypeInv, TypeOK
  <2>8. SyncInv'
    BY <1>1, <1>3, <2>2, <2>4, <2>7 DEF SyncInv, SeenUpTo, Seen, Ids
  <2>. QED
    BY <1>2, <2>5, <2>6, <2>8
<1>4. CASE ~running /\ pc' = "setup_id" /\ UNCHANGED position
  <2>1. PositionInv'
    BY <1>1, <1>2, <1>4 DEF PositionInv, position
  <2>2. CounterInv'
    BY <1>1, <1>4 DEF CounterInv
  <2>3. last_id' = StartingId
    BY <1>4 DEF PositionInv, position
  <2>4. SyncInv'
    BY <1>1, <1>4, <2>3, ListenerAssumption DEF SyncInv, SeenUpTo, Seen, Ids
  <2>. QED
    BY <1>2, <2>1, <2>2, <2>4
<1>. QED
  BY <1>3, <1>4 DEF EndSync

LEMMA SyncRange ==
    ASSUME LInv, pc \in {"head_id", "batch"}
    PROVE  /\ SyncFrom \in Nat /\ created[head_block] \in Nat
           /\ AdjacentCut(Batches(SyncFrom, created[head_block]),
                          BatchCount(SyncFrom, created[head_block]),
                          SyncFrom, created[head_block])
<1>1. SyncFrom \in Nat /\ created[head_block] \in Nat
  BY DEF LInv, TypeInv, TypeOK, SyncFrom
<1>. QED
  BY <1>1, BatchCut

LEMMA SnapshotSyncInv ==
    ASSUME LInv, SnapshotSync
    PROVE  ListenerInv'
<1>. USE DEF LInv, ListenerInv
<1>. DEFINE start == SyncFrom
            end == created[head_block]
            n == BatchCount(start, end)
            bs == Batches(start, end)
<1>1. pc = "head_id" /\ UNCHANGED <<head, created, running, head_block, target, head_id, relayed, shutdown>>
  BY DEF SnapshotSync, HeadSubId, chain, pass
<1>2. start \in Nat /\ end \in Nat /\ AdjacentCut(bs, n, start, end)
  BY <1>1, SyncRange
<1>3. ChainInv' /\ HeadBlock' = HeadBlock
  BY <1>1, SameChain DEF chain
<1>4. FinalInv'
  BY <1>1, <1>3 DEF FinalInv, Seen
<1>5. start = last_id + 1 /\ last_id \in Nat
  BY DEF SyncFrom, TypeInv, TypeOK
<1>6. ~shutdown => \A id \in Ids : StartingId < id /\ id \leq last_id => relayed[id] > 0
  BY <1>1 DEF SyncInv, SeenUpTo, Seen
<1>7. CASE NothingNew(bs) /\ EndSync
  <2>. HIDE DEF bs, n, start, end
  <2>1. n = 1 /\ bs[1][1] = start /\ bs[1][2] = end + 1
    <3>1. DOMAIN bs = 1 .. n /\ n \in Nat \ {0} /\ DOMAIN bs = {1}
      BY <1>2, <1>7 DEF AdjacentCut, NothingNew
    <3>2. n \in {1}
      BY <3>1
    <3>. QED
      BY <1>2, <3>2 DEF AdjacentCut
  <2>2. last_id = end
    <3>1. start = end + 1
      BY <1>7, <2>1 DEF NothingNew
    <3>. QED
      BY <1>2, <1>5, <3>1
  <2>3. ~shutdown => \A id \in Ids :
              StartingId < id /\ id \leq created[head_block] => relayed'[id] > 0
    BY <1>1, <1>6, <2>2 DEF end
  <2>. QED
    BY <1>1, <1>4, <1>7, <2>3, EndSyncInv DEF chain, pass
<1>8. CASE /\ batches' = bs /\ next' = 1 /\ pc' = "batch"
           /\ UNCHANGED position
  <2>0. UNCHANGED <<last_block, last_id>>
    BY <1>8 DEF position
  <2>1. PositionInv'
    BY <1>1, <1>3, <1>8, <2>0 DEF PositionInv
  <2>2. CounterInv'
    BY <1>1, <1>8, <2>0 DEF CounterInv
  <2>3. batches' = Batches(last_id' + 1, created'[head_block'])
    BY <1>1, <1>5, <1>8, <2>0
  <2>. HIDE DEF bs, n, start, end
  <2>4. next' \in DOMAIN batches' /\ batches'[next'][1] = last_id + 1
    BY <1>2, <1>5, <1>8 DEF AdjacentCut
  <2>5. SyncInv'
    BY <1>1, <1>6, <1>5, <1>8, <2>0, <2>3, <2>4 DEF SyncInv, SeenUpTo, Seen, Ids
  <2>. QED
    BY <1>3, <1>4, <2>1, <2>2, <2>5
<1>. QED
  BY <1>7, <1>8 DEF SnapshotSync, HeadSubId

\* Handing on the batch at next, or skipping it, extends what was seen up to its end.
LEMMA NextBatchInv ==
    ASSUME LInv, pc = "batch", NextBatch, UNCHANGED <<chain, running, pass, shutdown>>,
           \A id \in Ids : relayed[id] > 0 => relayed'[id] > 0,
           ~shutdown => \A id \in Ids :
              batches[next][1] \leq id /\ id < batches[next][2] => relayed'[id] > 0,
           FinalInv'
    PROVE  ListenerInv'
<1>. USE DEF LInv, ListenerInv
<1>. DEFINE start == SyncFrom
            end == created[head_block]
            n == BatchCount(start, end)
<1>1. UNCHANGED <<head, created, running, head_block, target, head_id, shutdown>>
  BY DEF chain, pass
<1>2. start \in Nat /\ end \in Nat /\ batches = Batches(start, end) /\ next \in DOMAIN batches
  BY SyncRange DEF SyncInv, SyncFrom
<1>3. AdjacentCut(batches, n, start, end)
  BY <1>2, SyncRange
<1>4. ChainInv' /\ HeadBlock' = HeadBlock
  BY <1>1, SameChain DEF chain
<1>5. start = last_id + 1 /\ last_id \in Nat
  BY DEF SyncFrom, TypeInv, TypeOK
<1>. HIDE DEF start, end, n
<1>6. batches[next][1] \in Int /\ batches[next][2] \in Int
  BY <1>2, <1>3 DEF AdjacentCut
<1>7. ~shutdown => \A id \in Ids :
         StartingId < id /\ id < batches[next][2] => relayed'[id] > 0
  BY <1>6, Zenon, SMT DEF SyncInv, SeenUpTo, Seen, Ids
<1>8. CASE EndSync /\ next + 1 \notin DOMAIN batches
  <2>1. next \in 1 .. n /\ n \in Nat /\ DOMAIN batches = 1 .. n
    BY <1>2, <1>3 DEF AdjacentCut
  <2>2. next = n
    BY <1>8, <2>1
  <2>3. batches[next][2] = end + 1
    BY <1>3, <2>2 DEF AdjacentCut
  <2>4. ~shutdown => \A id \in Ids :
              StartingId < id /\ id \leq created[head_block] => relayed'[id] > 0
    BY <1>2, <1>7, <2>3 DEF end, Ids
  <2>. QED
    BY <1>8, <2>4, EndSyncInv
<1>9. CASE /\ next + 1 \in DOMAIN batches
           /\ next' = next + 1
           /\ UNCHANGED <<pc, position, batches>>
  <2>0. UNCHANGED <<last_block, last_id>>
    BY <1>9 DEF position
  <2>1. PositionInv'
    BY <1>1, <1>4, <1>9, <2>0 DEF PositionInv
  <2>2. CounterInv'
    BY <1>1, <1>9, <2>0 DEF CounterInv
  <2>3. batches'[next'][1] = batches[next][2]
    BY <1>2, <1>3, <1>9 DEF AdjacentCut
  <2>4. ~shutdown' => SeenUpTo(batches[next][1] - 1)'
    BY <1>1, <1>6, <1>7, <1>9, <2>3 DEF SeenUpTo, Seen, Ids
  <2>5. ~shutdown' => SeenUpTo(last_id)'
    BY <1>1, <2>0 DEF SyncInv, SeenUpTo, Seen
  <2>6. SyncInv'
    BY <1>1, <1>9, <2>0, <2>4, <2>5 DEF SyncInv
  <2>. QED
    BY <1>4, <2>1, <2>2, <2>6
<1>. QED
  BY <1>8, <1>9 DEF NextBatch

\* A settled block keeps its subscriptions, however the chain grows or forks.
LEMMA SettledStays ==
    ASSUME LInv, MaxReorg \leq Trail, NewBlock \/ \E b \in Blocks : Reorg(b)
    PROVE  /\ ChainInv'
           /\ HeadBlock \leq HeadBlock' /\ HeadBlock \in Blocks /\ HeadBlock' \in Int
           /\ \A c \in Blocks : c \leq HeadBlock => created'[c] = created[c]
<1>. USE DEF LInv, ListenerInv
<1>0. /\ HeadBlock \in Blocks /\ HeadBlock \leq head /\ head \in Nat /\ Trail \in Nat
      /\ MaxReorg \in Nat /\ MaxSubs \in Nat /\ head \in Blocks /\ Blocks \subseteq Nat
  BY HeadBlockType, ListenerAssumption DEF TypeInv, TypeOK, Blocks
<1>1. CASE NewBlock
  <2>1. PICK n \in created[head] .. MaxSubs :
          created' = [b \in Blocks |-> IF b \leq head THEN created[b] ELSE n]
    BY <1>1 DEF NewBlock
  <2>2. \A c \in Blocks : created[c] \in Int
    BY DEF TypeInv, TypeOK
  <2>3. \A c \in Blocks : c \leq head => created[c] \leq n
    BY <1>0, <2>1, <2>2 DEF ChainInv
  <2>4. \A a, b \in Blocks : a \leq b => created'[a] \leq created'[b]
    BY <1>0, <2>1, <2>2, <2>3 DEF ChainInv
  <2>5. head' = head + 1
    BY <1>1 DEF NewBlock
  <2>6. \A c \in Blocks : c \leq head => created'[c] = created[c]
    BY <2>1
  <2>. QED
    BY <1>0, <2>4, <2>5, <2>6 DEF ChainInv, HeadBlock
<1>2. ASSUME NEW b \in Blocks, Reorg(b)
      PROVE  /\ ChainInv' /\ HeadBlock' = HeadBlock
             /\ \A c \in Blocks : c \leq HeadBlock => created'[c] = created[c]
  <2>1. PICK n \in created[b - 1] .. MaxSubs :
          created' = [c \in Blocks |-> IF c < b THEN created[c] ELSE n]
    BY <1>2 DEF Reorg
  <2>2. b - 1 \in Blocks /\ HeadBlock < b /\ b \in Nat
    <3>1. b > head - MaxReorg /\ b > 0 /\ b \in 0 .. MaxBlock /\ MaxBlock \in Nat
      BY <1>2, ListenerAssumption DEF Reorg, Blocks
    <3>. QED
      BY <1>0, <3>1 DEF Blocks, HeadBlock
  <2>3. \A c \in Blocks : created[c] \in Int
    BY DEF TypeInv, TypeOK
  <2>4. \A c \in Blocks : c < b => created[c] \leq n
    <3>1. TAKE c \in Blocks
    <3>2. HAVE c < b
    <3>3. c \leq b - 1
      BY <1>0, <2>2, <3>2
    <3>4. created[c] \leq created[b - 1]
      BY <2>2, <3>3 DEF ChainInv
    <3>. QED
      BY <2>1, <2>2, <2>3, <3>4
  <2>5. \A x, y \in Blocks : x \leq y => created'[x] \leq created'[y]
    BY <1>0, <2>1, <2>2, <2>3, <2>4 DEF ChainInv
  <2>6. head' = head
    BY <1>2 DEF Reorg
  <2>7. \A c \in Blocks : c \leq HeadBlock => created'[c] = created[c]
    BY <1>0, <2>1, <2>2
  <2>. QED
    BY <2>5, <2>6, <2>7 DEF ChainInv, HeadBlock
<1>3. CASE \E b \in Blocks : Reorg(b)
  <2>1. PICK b \in Blocks : Reorg(b)
    BY <1>3
  <2>2. /\ ChainInv' /\ HeadBlock' = HeadBlock
        /\ \A c \in Blocks : c \leq HeadBlock => created'[c] = created[c]
    BY <1>2, <2>1
  <2>3. HeadBlock \in Int /\ HeadBlock \leq HeadBlock
    BY <1>0
  <2>. QED
    BY <1>0, <2>2, <2>3
<1>. QED
  BY <1>1, <1>3

LEMMA ChainStepInv ==
    ASSUME LInv, MaxReorg \leq Trail, NewBlock \/ \E b \in Blocks : Reorg(b)
    PROVE  ListenerInv'
<1>. USE DEF LInv, ListenerInv
<1>1. UNCHANGED <<pc, running, last_block, last_id, head_block, target, head_id,
                  batches, next, relayed, shutdown>>
  BY DEF NewBlock, Reorg, position, pass, sync
<1>2. /\ ChainInv'
      /\ HeadBlock \leq HeadBlock' /\ HeadBlock \in Blocks /\ HeadBlock' \in Int
      /\ \A c \in Blocks : c \leq HeadBlock => created'[c] = created[c]
  BY SettledStays
<1>3. last_block \in Blocks /\ head_block \in Blocks /\ target \in Blocks /\ Blocks \subseteq Int
  BY ListenerAssumption DEF TypeInv, TypeOK, Blocks
<1>4. PositionInv'
  BY <1>1, <1>2, <1>3 DEF PositionInv
<1>5. pc # "setup" => /\ created'[head_block] = created[head_block]
                      /\ created'[last_block] = created[last_block]
  BY <1>2, <1>3 DEF PositionInv
<1>6. running /\ pc \in {"head_id", "batch"} => created'[target] = created[target]
  <2>1. HAVE running /\ pc \in {"head_id", "batch"}
  <2>2. target \leq head_block /\ head_block \leq HeadBlock
    BY <2>1 DEF PositionInv
  <2>. QED
    BY <1>2, <1>3, <2>2
<1>7. CounterInv'
  BY <1>1, <1>5, <1>6 DEF CounterInv, PositionInv
<1>8. SyncInv'
  BY <1>1, <1>5 DEF SyncInv, SeenUpTo, Seen
<1>9. FinalInv'
  <2>1. HeadBlock' \in Blocks /\ HeadBlock \in Blocks
    <3>1. TypeInv'
      BY TypeStep DEF Next
    <3>2. head' \in Int /\ head' \leq MaxBlock /\ Trail \in Nat /\ head' \geq Trail
      BY <3>1, ListenerAssumption DEF TypeInv, TypeOK, Blocks
    <3>. QED
      BY <1>2, <3>2, ListenerAssumption DEF Blocks, HeadBlock
  <2>2. created'[HeadBlock] \leq created'[HeadBlock']
    BY <1>2, <2>1 DEF ChainInv
  <2>3. created'[HeadBlock] = created[HeadBlock] /\ created[HeadBlock] \in Int
    BY <1>2, <1>3 DEF TypeInv, TypeOK
  <2>4. created'[HeadBlock'] \in Int
    <3>1. TypeInv'
      BY TypeStep DEF Next
    <3>2. created' \in [Blocks -> 0 .. MaxSubs]
      BY <3>1 DEF TypeInv, TypeOK
    <3>3. created'[HeadBlock'] \in 0 .. MaxSubs
      BY <2>1, <3>2
    <3>. QED
      BY <3>3
  <2>. QED
    BY <1>1, <2>2, <2>3, <2>4 DEF FinalInv, Seen, Ids
<1>. QED
  BY <1>2, <1>4, <1>7, <1>8, <1>9

LEMMA ListenerInvStep ==
    ASSUME LInv, MaxReorg \leq Trail, [Next]_vars
    PROVE  ListenerInv'
<1>. USE DEF LInv, ListenerInv
<1>1. CASE Setup
  <2>1. ChainInv' /\ HeadBlock' = HeadBlock
    BY <1>1, SameChain DEF Setup
  <2>2. HeadBlock \in Int
    BY HeadBlockType DEF Blocks
  <2>3. /\ ~running /\ pc' = "head_id" /\ last_id' = StartingId
        /\ last_block' = HeadBlock /\ head_block' = HeadBlock
        /\ UNCHANGED <<head, created, running, relayed, shutdown>>
    BY <1>1 DEF Setup, PositionInv, chain
  <2>4. PositionInv' /\ CounterInv'
    BY <2>1, <2>2, <2>3 DEF PositionInv, CounterInv
  <2>5. SyncInv'
    BY <2>3, ListenerAssumption DEF SyncInv, SeenUpTo, Ids
  <2>6. FinalInv'
    BY <2>1, <2>3 DEF FinalInv, Seen
  <2>. QED
    BY <2>1, <2>4, <2>5, <2>6
<1>2. CASE SnapshotSync
  BY <1>2, SnapshotSyncInv
<1>3. CASE SyncBatch
  <2>1. UNCHANGED <<chain, running, pass, shutdown>> /\ NextBatch /\ pc = "batch"
    BY <1>3 DEF SyncBatch, InBatch, Readable
  <2>2. ChainInv' /\ HeadBlock' = HeadBlock /\ created' = created
    BY <2>1, SameChain DEF chain
  <2>3. \A id \in Ids : relayed[id] \in 0 .. 2
    BY DEF TypeInv, TypeOK
  <2>4. \A id \in Ids :
          relayed'[id] = IF batches[next][1] \leq id /\ id < batches[next][2]
                           THEN Min({relayed[id] + 1, 2}) ELSE relayed[id]
    BY <1>3 DEF SyncBatch, InBatch, Readable
  <2>5. \A id \in Ids : Min({relayed[id] + 1, 2}) > 0
    <3>1. TAKE id \in Ids
    <3>2. Min({relayed[id] + 1, 2}) = IF relayed[id] + 1 \leq 2 THEN relayed[id] + 1 ELSE 2
      BY <2>3, MinOfTwo
    <3>. QED
      BY <2>3, <3>2
  <2>6. \A id \in Ids : relayed[id] > 0 => relayed'[id] > 0
    BY <2>4, <2>5
  <2>7. \A id \in Ids : batches[next][1] \leq id /\ id < batches[next][2] => relayed'[id] > 0
    BY <2>4, <2>5
  <2>8. FinalInv'
    <3>. DEFINE start == SyncFrom
                end == created[head_block]
                n == BatchCount(start, end)
    <3>1. start \in Nat /\ end \in Nat /\ batches = Batches(start, end) /\ next \in DOMAIN batches
      BY <2>1, SyncRange DEF SyncInv, SyncFrom
    <3>2. AdjacentCut(batches, n, start, end)
      BY <2>1, <3>1, SyncRange
    <3>3. end \leq created[HeadBlock] /\ created[HeadBlock] \in Int
      BY <2>1, HeadBlockType DEF PositionInv, ChainInv, TypeInv, TypeOK
    <3>. HIDE DEF start, end, n
    <3>4. batches[next][2] \leq end + 1 /\ batches[next][2] \in Int
      BY <3>1, <3>2 DEF AdjacentCut
    <3>5. ASSUME NEW id \in Ids, relayed'[id] > 0
          PROVE  id \leq created[HeadBlock]
      <4>1. CASE relayed[id] > 0
        BY <4>1 DEF FinalInv, Seen
      <4>2. CASE ~(relayed[id] > 0)
        <5>1. id < batches[next][2]
          BY <2>4, <3>5, <4>2
        <5>. QED
          BY <3>1, <3>3, <3>4, <5>1 DEF Ids
      <4>. QED
        BY <4>1, <4>2
    <3>. QED
      BY <2>2, <3>5 DEF FinalInv, Seen
  <2>. QED
    BY <2>1, <2>6, <2>7, <2>8, NextBatchInv
<1>4. CASE SkipBatch
  <2>1. UNCHANGED <<chain, running, pass, relayed, shutdown>> /\ NextBatch /\ pc = "batch" /\ shutdown
    BY <1>4 DEF SkipBatch
  <2>2. FinalInv'
    BY <2>1, SameChain DEF FinalInv, Seen, chain
  <2>. QED
    BY <2>1, <2>2, NextBatchInv
<1>5. CASE SetupDone
  <2>1. /\ pc = "setup_id" /\ pc' = "top" /\ running' = TRUE /\ last_id' = created[head_block]
        /\ UNCHANGED <<head, created, last_block, head_block, relayed, shutdown>>
    BY <1>5 DEF SetupDone, HeadSubId, chain, pass
  <2>2. ChainInv' /\ HeadBlock' = HeadBlock
    BY <2>1, SameChain DEF chain
  <2>3. last_block = head_block
    BY <2>1 DEF PositionInv
  <2>4. PositionInv' /\ CounterInv'
    BY <2>1, <2>2, <2>3 DEF PositionInv, CounterInv
  <2>5. SyncInv'
    BY <2>1 DEF SyncInv, SeenUpTo, Seen
  <2>6. FinalInv'
    BY <2>1, <2>2 DEF FinalInv, Seen
  <2>. QED
    BY <2>2, <2>4, <2>5, <2>6
<1>6. CASE Pass
  <2>1. /\ pc = "top" /\ pc' = "target_id" /\ head_block' = HeadBlock
        /\ UNCHANGED <<head, created, running, last_block, last_id, relayed, shutdown>>
    BY <1>6 DEF Pass, chain, position
  <2>2. ChainInv' /\ HeadBlock' = HeadBlock
    BY <2>1, SameChain DEF chain
  <2>3. /\ target' \leq HeadBlock /\ HeadBlock \in Int
        /\ last_block \leq target'
    BY <1>6, PassTarget, HeadBlockType DEF Blocks
  <2>4. PositionInv' /\ CounterInv'
    BY <2>1, <2>2, <2>3 DEF PositionInv, CounterInv
  <2>5. SyncInv'
    BY <2>1 DEF SyncInv, SeenUpTo, Seen
  <2>6. FinalInv'
    BY <2>1, <2>2 DEF FinalInv, Seen
  <2>. QED
    BY <2>2, <2>4, <2>5, <2>6
<1>7. CASE TargetId
  <2>1. /\ pc = "target_id" /\ pc' = "head_id" /\ head_id' = created[target]
        /\ UNCHANGED <<head, created, running, last_block, last_id, head_block, target,
                       relayed, shutdown>>
    BY <1>7 DEF TargetId, IdBlock, HeadSubId, chain, position
  <2>2. ChainInv' /\ HeadBlock' = HeadBlock
    BY <2>1, SameChain DEF chain
  <2>3. PositionInv' /\ CounterInv'
    BY <2>1, <2>2 DEF PositionInv, CounterInv
  <2>4. SyncInv'
    BY <2>1 DEF SyncInv, SeenUpTo, Seen
  <2>5. FinalInv'
    BY <2>1, <2>2 DEF FinalInv, Seen
  <2>. QED
    BY <2>2, <2>3, <2>4, <2>5
<1>8. CASE End
  <2>1. /\ pc = "top" /\ pc' = "ended" /\ shutdown
        /\ UNCHANGED <<head, created, running, last_block, last_id, head_block, target,
                       head_id, relayed, shutdown>>
    BY <1>8 DEF End, chain, position, pass
  <2>2. ChainInv' /\ HeadBlock' = HeadBlock
    BY <2>1, SameChain DEF chain
  <2>. QED
    BY <2>1, <2>2 DEF PositionInv, CounterInv, SyncInv, FinalInv, Seen
<1>9. CASE Shutdown
  <2>1. /\ shutdown'
        /\ UNCHANGED <<head, created, pc, running, last_block, last_id, head_block, target,
                       head_id, batches, next, relayed>>
    BY <1>9 DEF Shutdown, chain, position, pass, sync
  <2>2. ChainInv' /\ HeadBlock' = HeadBlock
    BY <2>1, SameChain DEF chain
  <2>. QED
    BY <2>1, <2>2 DEF PositionInv, CounterInv, SyncInv, FinalInv, Seen
<1>10. CASE NewBlock \/ \E b \in Blocks : Reorg(b)
  BY <1>10, ChainStepInv
<1>11. CASE UNCHANGED vars
  <2>1. UNCHANGED <<head, created, pc, running, last_block, last_id, head_block, target,
                    head_id, batches, next, relayed, shutdown>>
    BY <1>11 DEF vars, chain, position, pass, sync
  <2>2. ChainInv' /\ HeadBlock' = HeadBlock
    BY <2>1, SameChain DEF chain
  <2>. QED
    BY <2>1, <2>2 DEF PositionInv, CounterInv, SyncInv, SeenUpTo, FinalInv, Seen
<1>. QED
  BY <1>1, <1>2, <1>3, <1>4, <1>5, <1>6, <1>7, <1>8, <1>9, <1>10, <1>11
  DEF Next, ListenerStep

LEMMA ListenerInvSafe ==
    ASSUME LInv, MaxReorg \leq Trail
    PROVE  NoGap /\ SyncedIsFinal
<1>. USE DEF LInv, ListenerInv
<1>1. NoGap
  BY DEF NoGap, CounterInv, PositionInv, SyncInv, SeenUpTo
<1>2. SyncedIsFinal
  <2>1. HeadBlock \in Blocks /\ HeadBlock \leq head - MaxReorg
    BY HeadBlockType, ListenerAssumption DEF HeadBlock
  <2>. QED
    BY <2>1 DEF FinalInv, SyncedIsFinal
<1>. QED
  BY <1>1, <1>2

LEMMA ListenerInvInit == Init => LInv
<1>1. Init => TypeInv
  BY InitType
<1>2. Init => ChainInv
  BY ListenerAssumption DEF Init, ChainInv, Blocks
<1>. QED
  BY <1>1, <1>2 DEF Init, LInv, ListenerInv, PositionInv, CounterInv, SyncInv, FinalInv, Seen, Ids

\* The invariant the other proofs rest on holds itself: positions, counters and
\* batches belong together at every step.
THEOREM ListenerInvariant ==
    ASSUME MaxReorg \leq Trail
    PROVE  Spec => []ListenerInv
<1>1. LInv /\ [Next]_vars => LInv'
  BY TypeStep, ListenerInvStep DEF LInv
<1>2. LInv => ListenerInv
  BY DEF LInv
<1>. QED
  BY <1>1, <1>2, ListenerInvInit, PTL DEF Spec

\* On a chain never reorganised deeper than the listener trails it, the listener
\* leaves no subscription out between two passes and hands on none the chain can
\* take back: for every batch size, window, trail, chain and set of subscriptions.
THEOREM ListenerSafe ==
    ASSUME MaxReorg \leq Trail
    PROVE  Spec => [](NoGap /\ SyncedIsFinal)
<1>1. LInv /\ [Next]_vars => LInv'
  BY TypeStep, ListenerInvStep DEF LInv
<1>2. LInv => NoGap /\ SyncedIsFinal
  BY ListenerInvSafe
<1>. QED
  BY <1>1, <1>2, ListenerInvInit, PTL DEF Spec
-------------------------------------------------------------------------------
(* What is handed on twice: NeverBack and AheadOnlyWhenLagging.            *)

\* The batch being read begins after the last id and ends at the head of the pass.
LEMMA BatchRange ==
    ASSUME LInv, pc = "batch"
    PROVE  /\ batches[next][1] \in Int /\ batches[next][2] \in Int
           /\ last_id < batches[next][1]
           /\ batches[next][2] \leq created[head_block] + 1
<1>. DEFINE start == SyncFrom
            end == created[head_block]
            n == BatchCount(start, end)
<1>1. start \in Nat /\ end \in Nat /\ batches = Batches(start, end) /\ next \in DOMAIN batches
  BY SyncRange DEF LInv, ListenerInv, SyncInv, SyncFrom
<1>2. AdjacentCut(batches, n, start, end)
  BY <1>1, SyncRange
<1>3. start = last_id + 1 /\ last_id \in Nat
  BY DEF SyncFrom, LInv, TypeInv, TypeOK
<1>. HIDE DEF start, n
<1>4. /\ batches[next][1] \in Int /\ batches[next][2] \in Int
      /\ start \leq batches[next][1] /\ batches[next][2] \leq end + 1
  BY <1>1, <1>2 DEF AdjacentCut
<1>. QED
  BY <1>1, <1>3, <1>4

\* The position a pass moves on to is no earlier than the one it began at.
LEMMA CountersForward ==
    ASSUME LInv, [Next]_vars, running
    PROVE  last_block' \geq last_block /\ last_id' \geq last_id
<1>0. last_block \in Int /\ last_id \in Int
  BY ListenerAssumption DEF LInv, TypeInv, TypeOK, Blocks
<1>1. ASSUME EndSync, pc \in {"head_id", "batch"}
      PROVE  last_block' \geq last_block /\ last_id' \geq last_id
  <2>1. last_block' = target /\ last_id' = head_id
    BY <1>1 DEF EndSync
  <2>2. /\ last_block \leq target
        /\ last_id = created[last_block] /\ head_id = created[target]
    BY <1>1 DEF LInv, ListenerInv, PositionInv, CounterInv
  <2>3. last_block \in Blocks /\ target \in Blocks /\ target \in Int
    BY ListenerAssumption DEF LInv, TypeInv, TypeOK, Blocks
  <2>4. created[last_block] \leq created[target]
    BY <2>2, <2>3 DEF LInv, ListenerInv, ChainInv
  <2>5. head_id \in Int
    BY DEF LInv, TypeInv, TypeOK
  <2>. QED
    BY <1>0, <2>1, <2>2, <2>3, <2>4, <2>5
<1>2. CASE SnapshotSync
  <2>1. pc = "head_id" /\ (EndSync \/ UNCHANGED position)
    BY <1>2 DEF SnapshotSync
  <2>. QED
    BY <1>0, <1>1, <2>1 DEF position
<1>3. CASE SyncBatch \/ SkipBatch
  <2>1. pc = "batch" /\ (EndSync \/ UNCHANGED position)
    BY <1>3 DEF SyncBatch, SkipBatch, NextBatch
  <2>. QED
    BY <1>0, <1>1, <2>1 DEF position
<1>4. ~Setup /\ ~SetupDone
  BY DEF Setup, SetupDone, LInv, ListenerInv, PositionInv
<1>5. CASE Pass \/ TargetId \/ End \/ Shutdown \/ NewBlock \/ (\E b \in Blocks : Reorg(b))
           \/ UNCHANGED vars
  <2>1. UNCHANGED position
    BY <1>5 DEF Pass, TargetId, End, Shutdown, NewBlock, Reorg, vars
  <2>. QED
    BY <1>0, <2>1 DEF position
<1>. QED
  BY <1>2, <1>3, <1>4, <1>5 DEF Next, ListenerStep

LEMMA RelaysForward ==
    ASSUME LInv, [Next]_vars
    PROVE  \A id \in Ids : relayed'[id] # relayed[id] => id > last_id
<1>1. CASE SyncBatch
  <2>1. TAKE id \in Ids
  <2>2. HAVE relayed'[id] # relayed[id]
  <2>3. batches[next][1] \leq id
    BY <1>1, <2>2 DEF SyncBatch, InBatch, Readable
  <2>4. batches[next][1] \in Int /\ last_id < batches[next][1] /\ last_id \in Int /\ id \in Int
    BY <1>1, BatchRange DEF SyncBatch, Ids, LInv, TypeInv, TypeOK
  <2>. QED
    BY <2>3, <2>4
<1>2. CASE ~SyncBatch
  <2>1. relayed' = relayed
    BY <1>2 DEF Next, ListenerStep, Setup, SnapshotSync, SkipBatch, SetupDone, Pass, TargetId,
                End, Shutdown, NewBlock, Reorg, vars
  <2>. QED
    BY <2>1
<1>. QED
  BY <1>1, <1>2

\* Once run_forever has begun, the last block and the last id never decrease and no
\* id at or before the last one is handed on, for every batch size and window and
\* every chain whose reorganisations are no deeper than the listener trails its head.
THEOREM ListenerForward ==
    ASSUME MaxReorg \leq Trail
    PROVE  Spec => NeverBack
<1>1. LInv /\ [Next]_vars => LInv'
  BY TypeStep, ListenerInvStep DEF LInv
<1>2. LInv /\ [Next]_vars =>
        [ /\ running => last_block' \geq last_block /\ last_id' \geq last_id
          /\ \A id \in Ids : relayed'[id] # relayed[id] => id > last_id ]_vars
  BY CountersForward, RelaysForward
<1>. QED
  BY <1>1, <1>2, ListenerInvInit, PTL DEF Spec, NeverBack

LEMMA AheadStep ==
    ASSUME LInv, LInv', AheadInv, MaxReorg \leq Trail, [Next]_vars
    PROVE  AheadInv'
<1>0. /\ \A id \in Ids : id \in Int
      /\ HeadBlock \in Blocks /\ head_block \in Blocks /\ head_block' \in Blocks
      /\ \A b \in Blocks : created[b] \in Int /\ created'[b] \in Int
  BY HeadBlockType DEF Ids, LInv, TypeInv, TypeOK
<1>1. CASE SyncBatch
  <2>1. /\ UNCHANGED <<created, head_block>> /\ pc = "batch" /\ pc' # "setup"
        /\ \A id \in Ids : relayed'[id] = IF InBatch(id, batches[next])
                       THEN Min({relayed[id] + 1, 2}) ELSE relayed[id]
    BY <1>1 DEF SyncBatch, NextBatch, EndSync, chain, pass
  <2>2. \A id \in Ids : InBatch(id, batches[next]) => id \leq created[head_block]
    BY <1>0, <2>1, BatchRange DEF InBatch
  <2>. QED
    BY <2>1, <2>2 DEF AheadInv, Seen
<1>2. CASE Setup \/ Pass
  <2>1. UNCHANGED <<created, relayed>> /\ head_block' = HeadBlock /\ pc' # "setup"
    BY <1>2 DEF Setup, Pass, chain
  <2>2. pc # "setup" => created[head_block] \leq created[HeadBlock]
    BY <1>0 DEF LInv, ListenerInv, PositionInv, ChainInv
  <2>. QED
    BY <1>0, <2>1, <2>2 DEF AheadInv, Seen
<1>3. CASE NewBlock \/ \E b \in Blocks : Reorg(b)
  <2>1. UNCHANGED <<relayed, head_block, pc>>
    BY <1>3 DEF NewBlock, Reorg, pass
  <2>2. pc # "setup" => created'[head_block] = created[head_block]
    BY <1>0, <1>3, SettledStays DEF LInv, ListenerInv, PositionInv
  <2>. QED
    BY <2>1, <2>2 DEF AheadInv, Seen
<1>4. CASE SnapshotSync \/ SkipBatch \/ SetupDone \/ TargetId \/ End \/ Shutdown \/ UNCHANGED vars
  <2>1. UNCHANGED <<created, relayed, head_block>> /\ (pc # "setup" => pc' # "setup")
    BY <1>4 DEF SnapshotSync, SkipBatch, NextBatch, EndSync, SetupDone, TargetId, End, Shutdown,
                vars, chain, pass
  <2>. QED
    BY <2>1 DEF AheadInv, Seen
<1>. QED
  BY <1>1, <1>2, <1>3, <1>4 DEF Next, ListenerStep

LEMMA AheadMeansLag ==
    ASSUME LInv, AheadInv
    PROVE  AheadOnlyWhenLagging
<1>1. SUFFICES ASSUME pc = "top", NEW id \in Ids, Seen(id), id > last_id
               PROVE  head_block - last_block > 0
  BY DEF AheadOnlyWhenLagging
<1>2. /\ last_id = created[last_block] /\ id \leq created[head_block]
  BY <1>1 DEF LInv, ListenerInv, PositionInv, CounterInv, AheadInv
<1>3. /\ last_block \in Blocks /\ head_block \in Blocks /\ id \in Int
      /\ created[last_block] \in Int /\ created[head_block] \in Int /\ Blocks \subseteq Int
  BY DEF LInv, TypeInv, TypeOK, Ids, Blocks
<1>4. head_block \leq last_block => created[head_block] \leq created[last_block]
  BY <1>3 DEF LInv, ListenerInv, ChainInv
<1>. QED
  BY <1>1, <1>2, <1>3, <1>4

\* Between two passes something was handed on beyond the last id only if the pass
\* stopped short of the head it synced up to, which takes a lag of more than a window.
THEOREM ListenerAhead ==
    ASSUME MaxReorg \leq Trail
    PROVE  Spec => []AheadOnlyWhenLagging
<1>1. Init => AheadInv
  BY DEF Init, AheadInv, Seen, Ids
<1>2. LInv /\ [Next]_vars => LInv'
  BY TypeStep, ListenerInvStep DEF LInv
<1>3. LInv /\ LInv' /\ AheadInv /\ [Next]_vars => AheadInv'
  BY AheadStep
<1>4. LInv /\ AheadInv => AheadOnlyWhenLagging
  BY AheadMeansLag
<1>. QED
  BY <1>1, <1>2, <1>3, <1>4, ListenerInvInit, PTL DEF Spec
===============================================================================
