----------------------------- MODULE ChainListener ----------------------------
(***************************************************************************)
(* The chain listener (src/chain/listener.ts): it follows the chain some   *)
(* blocks behind its head and hands every subscription it finds to the     *)
(* guardian and the processor.                                             *)
(*                                                                         *)
(* The chain is what the listener reads of it: the head, and how many      *)
(* subscriptions exist at each block (ids are given from 1).  The last     *)
(* MaxReorg blocks may still be replaced by others.                        *)
(***************************************************************************)
EXTENDS Integers, FiniteSetsExt

CONSTANTS
    StartingId,  \* snapshot_sync.starting_sub_id
    BatchSize,   \* snapshot_sync.batch_size
    Trail,       \* trail_head_blocks
    Window,      \* blocks taken per pass of run_forever; 100 in the code
    MaxReorg,    \* how many blocks a reorganisation of the chain may replace
    MaxBlock,    \* bound: the last block of a behaviour
    MaxSubs      \* bound: the subscriptions ever created

ASSUME ListenerAssumption ==
    /\ {StartingId, Trail, MaxReorg, MaxBlock, MaxSubs} \subseteq Nat
    /\ {BatchSize, Window} \subseteq Nat \ {0}
    /\ Trail \leq MaxBlock

VARIABLES
    head, created,               \* the chain
    pc, running,                 \* the await the listener is in; setup or run_forever
    last_block, last_id,         \* #last_block, #last_subscription_id
    head_block, target, head_id, \* headBlock, targetBlock, headSubId of a pass
    batches, next,               \* the batches of a sync and the one being read
    relayed,                     \* how often an id was handed on: 0, 1, more
    shutdown

\* get_head_subscription_id, at a block.
HeadSubId(block) == created[block]

\* read_subscription_batch returns the subscriptions of a half-open range of ids,
\* or reverts if the range ends before it begins.
Readable(batch) == batch[1] \leq batch[2]
InBatch(id, batch) == batch[1] \leq id /\ id < batch[2]

chain == <<head, created>>
position == <<last_block, last_id>>
pass == <<head_block, target, head_id>>
sync == <<batches, next>>
vars == <<chain, pc, running, position, pass, sync, relayed, shutdown>>

Ids == 1 .. MaxSubs
Blocks == 0 .. MaxBlock
-------------------------------------------------------------------------------
(* getBatches: half-open intervals of at most BatchSize ids.               *)

\* Mutant: the last id of a full batch is left out.
BatchEndShort(start, end, i) == Min({start + i * BatchSize - 1, end})

BatchEnd(start, end, i) == Min({start + i * BatchSize - 1, end}) + 1

BatchCount(start, end) ==
    IF end - start + 1 \leq BatchSize THEN 1 ELSE ((end - start) \div BatchSize) + 1

\* One batch when all ids fit, the empty one [start, start) when there is none.
Batches(start, end) ==
    [i \in 1 .. BatchCount(start, end) |->
        IF end - start + 1 \leq BatchSize
          THEN <<start, end + 1>>
          ELSE <<start + (i - 1) * BatchSize, BatchEnd(start, end, i)>>]

NoBatches == [i \in {} |-> <<0, 0>>]

\* Mutant: a single batch is taken for an empty one.
SingleBatch(bs) == DOMAIN bs = {1}

\* "No new subscriptions to sync."
NothingNew(bs) == DOMAIN bs = {1} /\ bs[1][1] = bs[1][2]
-------------------------------------------------------------------------------
TypeOK ==
    /\ head \in Blocks
    /\ created \in [Blocks -> 0 .. MaxSubs]
    /\ pc \in {"setup", "top", "target_id", "head_id", "batch", "setup_id", "ended"}
    /\ running \in BOOLEAN
    /\ last_block \in Blocks /\ head_block \in Blocks /\ target \in Blocks
    /\ last_id \in Nat /\ head_id \in Nat
    /\ next \in Nat
    /\ pc = "batch" => next \in DOMAIN batches
    /\ \A i \in DOMAIN batches : batches[i] \in Nat \X Nat
    /\ relayed \in [Ids -> 0 .. 2]
    /\ shutdown \in BOOLEAN

\* Mutants: the head itself is read; one block too many is kept back.
HeadBlockUntrailed == head
HeadBlockBehind == head - Trail - 1

\* The block the listener looks at: one no reorganisation should reach.
HeadBlock == head - Trail

\* setup: where the listener starts from.
Setup ==
    /\ pc = "setup"
    /\ head_block' = HeadBlock
    /\ last_block' = HeadBlock
    /\ last_id' = StartingId
    /\ pc' = "head_id"
    /\ UNCHANGED <<chain, running, target, head_id, sync, relayed, shutdown>>

\* What follows a snapshot sync: setup asks for the head id once more, a pass of
\* run_forever moves on to the position it asked for before the sync.
EndSync ==
    /\ batches' = NoBatches /\ next' = 0
    /\ \/ running /\ last_block' = target /\ last_id' = head_id /\ pc' = "top"
       \/ ~running /\ pc' = "setup_id" /\ UNCHANGED position

\* Mutant: the sync begins with the last subscription already synced.
SyncFromLast == last_id

SyncFrom == last_id + 1

\* snapshot_sync, at headBlock, up to the id it reads itself.
SnapshotSync ==
    /\ pc = "head_id"
    /\ LET bs == Batches(SyncFrom, HeadSubId(head_block)) IN
         \/ NothingNew(bs) /\ EndSync
         \/ /\ ~NothingNew(bs)
            /\ batches' = bs /\ next' = 1 /\ pc' = "batch"
            /\ UNCHANGED position
    /\ UNCHANGED <<chain, running, pass, relayed, shutdown>>

NextBatch ==
    \/ /\ next + 1 \in DOMAIN batches
       /\ next' = next + 1
       /\ UNCHANGED <<pc, position, batches>>
    \/ next + 1 \notin DOMAIN batches /\ EndSync

\* A batch is read and every subscription of it handed to guardian and processor.
\* A failed read changes nothing: the batch is tried again after a sleep.  A range
\* that begins after its end can never be read.
SyncBatch ==
    /\ pc = "batch"
    /\ ~shutdown
    /\ Readable(batches[next])
    /\ relayed' = [id \in Ids |->
                     IF InBatch(id, batches[next])
                       THEN Min({relayed[id] + 1, 2}) ELSE relayed[id]]
    /\ NextBatch
    /\ UNCHANGED <<chain, running, pass, shutdown>>

\* While shutting down, sync_batch returns without reading.
SkipBatch ==
    /\ pc = "batch"
    /\ shutdown
    /\ NextBatch
    /\ UNCHANGED <<chain, running, pass, relayed, shutdown>>

SetupDone ==
    /\ pc = "setup_id"
    /\ last_id' = HeadSubId(head_block)
    /\ running' = TRUE
    /\ pc' = "top"
    /\ UNCHANGED <<chain, last_block, pass, sync, relayed, shutdown>>

\* A pass of run_forever: at most Window blocks, unless there is nothing new.
Pass ==
    /\ pc = "top"
    /\ ~shutdown
    /\ last_block < HeadBlock
    /\ head_block' = HeadBlock
    /\ target' = last_block + Min({HeadBlock - last_block, Window})
    /\ pc' = "target_id"
    /\ UNCHANGED <<chain, running, position, head_id, sync, relayed, shutdown>>

\* Mutant: the id is read where the pass began.
IdBlockStale == last_block

\* The block whose head id a pass will move on to.
IdBlock == target

TargetId ==
    /\ pc = "target_id"
    /\ head_id' = HeadSubId(IdBlock)
    /\ pc' = "head_id"
    /\ UNCHANGED <<chain, running, position, head_block, target, sync, relayed, shutdown>>

End ==
    /\ pc = "top"
    /\ shutdown
    /\ pc' = "ended"
    /\ UNCHANGED <<chain, running, position, pass, sync, relayed, shutdown>>

ListenerStep ==
    \/ Setup \/ SnapshotSync \/ SyncBatch \/ SkipBatch \/ SetupDone
    \/ Pass \/ TargetId \/ End

Shutdown ==
    /\ shutdown' = TRUE
    /\ UNCHANGED <<chain, pc, running, position, pass, sync, relayed>>
-------------------------------------------------------------------------------
(* The chain.                                                              *)

Extends(old, new, b) ==
    /\ \A c \in Blocks : c < b => new[c] = old[c]
    /\ \A c \in Blocks \ {0} : new[c - 1] \leq new[c]

\* A block is added, with the subscriptions created in it.
NewBlock ==
    /\ head < MaxBlock
    /\ head' = head + 1
    /\ \E n \in created[head] .. MaxSubs :
         created' = [b \in Blocks |-> IF b \leq head THEN created[b] ELSE n]
    /\ UNCHANGED <<pc, running, position, pass, sync, relayed, shutdown>>

\* The blocks from b on are replaced by as many others.
Reorg(b) ==
    /\ head - MaxReorg < b /\ b \leq head /\ b > 0
    /\ \E n \in created[b - 1] .. MaxSubs :
         created' = [c \in Blocks |-> IF c < b THEN created[c] ELSE n]
    /\ UNCHANGED <<head, pc, running, position, pass, sync, relayed, shutdown>>

\* The chain is older than the distance the listener keeps from its head.
Init ==
    /\ head = Trail
    /\ created \in {[b \in Blocks |-> n] : n \in 0 .. MaxSubs}
    /\ pc = "setup" /\ running = FALSE
    /\ last_block = 0 /\ last_id = 0
    /\ head_block = 0 /\ target = 0 /\ head_id = 0
    /\ batches = NoBatches /\ next = 0
    /\ relayed = [id \in Ids |-> 0]
    /\ shutdown = FALSE

Next == ListenerStep \/ Shutdown \/ NewBlock \/ (\E b \in Blocks : Reorg(b))

Spec == Init /\ [][Next]_vars

\* Requests are answered in the end and timers fire.
FairSpec == Spec /\ WF_vars(ListenerStep)
-------------------------------------------------------------------------------
(* Properties.                                                             *)

\* NoGap, SyncedIsFinal and NeverBack suppose that no reorganisation is deeper than Trail.
Seen(id) == relayed[id] > 0

\* Between two passes the listener stands where its two counters say together: the
\* last id is the one at the last block, and everything up to it was handed on,
\* whatever batches the ids were cut into and however far a pass took it.
NoGap ==
    pc = "top" /\ ~shutdown =>
        /\ last_id = created[last_block]
        /\ \A id \in Ids : StartingId < id /\ id \leq last_id => Seen(id)

\* What was handed on cannot be taken back by the chain: keeping Trail blocks
\* behind the head is enough when no reorganisation is deeper.
SyncedIsFinal ==
    \A id \in Ids : Seen(id) =>
        \E b \in Blocks : b \leq head - MaxReorg /\ id \leq created[b]

\* Every subscription the listener can see is handed on in the end, if the chain
\* had reached the starting id when it began.  (If not, the first batch ends before
\* it begins; reading it fails, and it is tried for ever.)
EventuallyRelayed ==
    StartingId \leq created[HeadBlock] =>
        \A id \in Ids :
            StartingId < id /\ id \leq created[HeadBlock] ~> Seen(id) \/ shutdown

\* run_forever only moves forward: no pass takes either counter back, although it
\* reads the id and the batches at two different blocks, and nothing at or before
\* the last id is handed on again, lagging or not.
NeverBack ==
    [][ /\ running => last_block' \geq last_block /\ last_id' \geq last_id
        /\ \A id \in Ids : relayed'[id] # relayed[id] => id > last_id ]_vars

\* A pass syncs up to the head but moves on only to its target, at most Window
\* blocks away: what lies between the two will be handed on once more.  Only a
\* listener that lags by more than a window leaves anything there.
AheadOnlyWhenLagging ==
    pc = "top" => \A id \in Ids :
        Seen(id) /\ id > last_id => head_block - last_block > 0
===============================================================================
