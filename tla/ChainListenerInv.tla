---------------------------- MODULE ChainListenerInv ---------------------------
(***************************************************************************)
(* The inductive strengthening of NoGap and SyncedIsFinal, for a chain     *)
(* that is never reorganised deeper than the listener trails its head.     *)
(***************************************************************************)
EXTENDS ChainListener

\* Ids are given in the order of the blocks.
ChainInv ==
    /\ head \geq Trail
    /\ \A a, b \in Blocks : a \leq b => created[a] \leq created[b]

\* Every block the listener remembers is settled, and a pass does not take the
\* listener further than the block it reads subscriptions at.
PositionInv ==
    /\ pc = "setup" => ~running
    /\ pc \in {"top", "target_id"} => running
    /\ pc = "setup_id" => ~running
    /\ pc # "setup" => last_block \leq HeadBlock /\ head_block \leq HeadBlock
    /\ pc # "setup" /\ ~running => last_block = head_block /\ last_id = StartingId
    /\ running /\ pc \in {"target_id", "head_id", "batch"} =>
         last_block \leq target /\ target \leq head_block

\* The two counters belong together, and so do those the pass will move on to.
CounterInv ==
    /\ running => last_id = created[last_block]
    /\ running /\ pc \in {"head_id", "batch"} => head_id = created[target]

SeenUpTo(n) == \A id \in Ids : StartingId < id /\ id \leq n => Seen(id)

\* While batches are read, everything before the next one was handed on.
SyncInv ==
    /\ pc = "batch" =>
         /\ batches = Batches(last_id + 1, created[head_block])
         /\ next \in DOMAIN batches
    /\ ~shutdown =>
         /\ pc # "setup" => SeenUpTo(last_id)
         /\ pc = "batch" => SeenUpTo(batches[next][1] - 1)
         /\ pc = "setup_id" => SeenUpTo(created[head_block])

\* Only ids of settled blocks are handed on.
FinalInv == \A id \in Ids : Seen(id) => id \leq created[HeadBlock]

\* What was handed on lies at or before the head of the last pass.
AheadInv == \A id \in Ids : Seen(id) => pc # "setup" /\ id \leq created[head_block]

ListenerInv == ChainInv /\ PositionInv /\ CounterInv /\ SyncInv /\ FinalInv
===============================================================================
