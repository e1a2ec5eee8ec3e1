------------------------ MODULE DelegatedSubscriptions ------------------------
(***************************************************************************)
(* Delegated subscriptions in the chain processor: the handler             *)
(* track_delegated_message (src/chain/processor.ts), which the batch       *)
(* endpoint of the REST server calls without awaiting it, the contract     *)
(* reads it makes (src/chain/coordinator.ts), and what the pass of         *)
(* run_forever over the table makes of an entry.                           *)
(*                                                                         *)
(* The handler suspends in four reads.  Two of them are pinned to the block*)
(* number it read first, while the chain moves on.  What the chain holds   *)
(* in each block is a parameter of the model.                              *)
(***************************************************************************)
EXTENDS Integers

CONSTANTS
    Calls,         \* requests for a delegated subscription
    Targets,       \* delegated subscriptions: pairs of an owner and a nonce
    Target,        \* Target[r]: the subscription a call is about
    Genuine,       \* calls signed by the key the owner registered
    Inactive,      \* subscriptions that may not be active yet
    CreatedAt,     \* CreatedAt[d]: the block that creates d on-chain
    RegisteredAt,  \* RegisteredAt[d]: the block that registers the key of d's owner
    MaxBlock       \* bound: the last block

ASSUME DelegatedAssumption ==
    /\ Target \in [Calls -> Targets]
    /\ Genuine \subseteq Calls /\ Inactive \subseteq Targets
    /\ MaxBlock \in Nat \ {0}
    /\ CreatedAt \in [Targets -> Nat] /\ RegisteredAt \in [Targets -> Nat]

VARIABLES
    d_pc,       \* per call: the read it is suspended in
    d_head,     \* per call: headBlock, 0 before it is read
    delegated,  \* #delegate_subscriptions
    block       \* head of the chain

calls == <<d_pc, d_head, delegated, block>>

CallPcs == {"unsent", "head", "exists", "recover", "signer", "over", "thrown"}

DelegatedTypeOK ==
    /\ d_pc \in [Calls -> CallPcs]
    /\ d_head \in [Calls -> 0 .. MaxBlock]
    /\ delegated \subseteq Targets
    /\ block \in 1 .. MaxBlock

DelegatedInit ==
    /\ d_pc = [r \in Calls |-> "unsent"]
    /\ d_head = [r \in Calls |-> 0]
    /\ delegated = {}
    /\ block = 1

NewBlock ==
    /\ block < MaxBlock
    /\ block' = block + 1
    /\ UNCHANGED <<d_pc, d_head, delegated>>
-------------------------------------------------------------------------------
(* track_delegated_message.                                                *)

To(r, pc) == d_pc' = [d_pc EXCEPT ![r] = pc]

Call(r) ==
    /\ d_pc[r] = "unsent"
    /\ To(r, "head")
    /\ UNCHANGED <<d_head, delegated, block>>

HeadRead(r) ==
    /\ d_pc[r] = "head"
    /\ To(r, "exists")
    /\ d_head' = [d_head EXCEPT ![r] = block]
    /\ UNCHANGED <<delegated, block>>

Exists(r) == CreatedAt[Target[r]] \leq d_head[r]

\* get_existing_delegate_subscription.  If the subscription exists, its pending
\* entry and attempts are dropped, of which there are never any; their key needs
\* the current interval, which an inactive subscription does not have.
ExistsRead(r) ==
    /\ d_pc[r] = "exists"
    /\ \/ Exists(r) /\ To(r, "over")
       \/ Exists(r) /\ Target[r] \in Inactive /\ To(r, "thrown")
       \/ ~Exists(r) /\ To(r, "recover")
    /\ UNCHANGED <<d_head, delegated, block>>

\* recover_delegatee_signer, whose errors are caught.
SignerRecovered(r) ==
    /\ d_pc[r] = "recover"
    /\ To(r, "signer") \/ To(r, "over")
    /\ UNCHANGED <<d_head, delegated, block>>

\* Mutant: the registration is read from the head of the chain.
RegisteredNow(r) == RegisteredAt[Target[r]] \leq block

Registered(r) == RegisteredAt[Target[r]] \leq d_head[r]

\* get_delegated_signer: the call is tracked if it was signed by the key it returns;
\* an error counts as no key.
SignerRead(r) ==
    /\ d_pc[r] = "signer"
    /\ \/ r \in Genuine /\ Registered(r) /\ delegated' = delegated \cup {Target[r]}
       \/ UNCHANGED delegated
    /\ To(r, "over")
    /\ UNCHANGED <<d_head, block>>

\* An RPC error rejects the handler, and with it a promise nobody holds.
ReadFails(r) ==
    /\ d_pc[r] \in {"head", "exists"}
    /\ To(r, "thrown")
    /\ UNCHANGED <<d_head, delegated, block>>

CallStep(r) ==
    HeadRead(r) \/ ExistsRead(r) \/ SignerRecovered(r) \/ SignerRead(r) \/ ReadFails(r)
-------------------------------------------------------------------------------
(* The pass over the table.                                                *)

\* cloneDeep copies the own properties of an object, not its private fields.
CloneDeep(entry) == [entry EXCEPT !.private = FALSE]

\* The getter "active" reads a private field: on such a copy it throws.
ActiveThrows(entry) == ~entry.private

\* The pass over a copy of the table throws at its first entry.
PassThrows == \E d \in delegated : ActiveThrows(CloneDeep([sub |-> d, private |-> TRUE]))
===============================================================================
