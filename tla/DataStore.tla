------------------------------- MODULE DataStore -------------------------------
(***************************************************************************)
(* The data store (src/orchestration/store.ts): two Redis databases, one   *)
(* of completed and one of pending off-chain jobs, and the counters the    *)
(* node keeps in memory.  An on-chain job is only counted.                 *)
(*                                                                         *)
(* The databases are indexed by the client's address and the job's id.     *)
(* The server draws an id for every job, but a body with an id of its own  *)
(* replaces it: nothing keeps two jobs from one key.  Ids and addresses    *)
(* are taken to hold no further colon, but for those an IPv6 address has,  *)
(* and no address to begin another.  The counters per container are left   *)
(* out: nothing of the node reads them.                                    *)
(***************************************************************************)
EXTENDS Integers, FiniteSets

CONSTANTS
    V4, V6,   \* addresses of clients, by version
    JobIds,   \* ids of jobs, drawn by the server or sent by a client
    Piece,    \* a piece of an IPv6 address
    None      \* no entry

Statuses == {"success", "failed"}

Addresses == V4 \cup V6

\* KeyFormatter.format joins address and id with a colon.
Keys == Addresses \X JobIds

ASSUME StoreAssumption ==
    /\ V4 \cap V6 = {}
    /\ Piece \notin JobIds
    /\ None \notin Statuses \cup Keys

\* KeyFormatter.get_id takes what is between the first colon and the second.
get_id(key) == IF key[1] \in V4 THEN key[2] ELSE Piece

VARIABLES
    completed,        \* Redis database 0: the status of a completed job, per key
    pending,          \* Redis database 1: the keys stored as running
    onchain_pending,  \* #onchain_pending
    job_counters      \* counters.job_counters

store == <<completed, pending, onchain_pending, job_counters>>

NoCounts == [location \in {"offchain", "onchain"} |-> [status \in Statuses |-> 0]]

StoreTypeOK ==
    /\ completed \in [Keys -> Statuses \cup {None}]
    /\ pending \subseteq Keys
    /\ onchain_pending \in Nat
    /\ job_counters \in [{"offchain", "onchain"} -> [Statuses -> Nat]]

StoreInit ==
    /\ completed = [k \in Keys |-> None]
    /\ pending = {}
    /\ onchain_pending = 0
    /\ job_counters = NoCounts

Increment(location, status) ==
    job_counters' = [job_counters EXCEPT ![location][status] = @ + 1]

\* set_running of an off-chain job; the entry expires after 900 seconds.
SetRunning(k) ==
    /\ pending' = pending \cup {k}
    /\ UNCHANGED <<completed, onchain_pending, job_counters>>

SetRunningOnchain ==
    /\ onchain_pending' = onchain_pending + 1
    /\ UNCHANGED <<completed, pending, job_counters>>

\* Mutant: the entry of a settled job stays until it expires.
KeepRunning(k) == pending

DropRunning(k) == pending \ {k}

\* set_success and set_failed of an off-chain job are two requests to Redis: the
\* running entry is deleted, then the result stored and the job counted.  Either
\* acts on the key, whichever job wrote there last.
Unset(k) ==
    /\ pending' = DropRunning(k)
    /\ UNCHANGED <<completed, onchain_pending, job_counters>>

SetCompleted(k, status) ==
    /\ completed' = [completed EXCEPT ![k] = status]
    /\ Increment("offchain", status)
    /\ UNCHANGED <<pending, onchain_pending>>

\* Mutants: the count is not taken down; it is taken down twice.
OnchainStays == onchain_pending
OnchainLeftTwice == onchain_pending - 2

OnchainLeft == onchain_pending - 1

\* set_success and set_failed of an on-chain job.
SetOnchainDone(status) ==
    /\ onchain_pending' = OnchainLeft
    /\ Increment("onchain", status)
    /\ UNCHANGED <<completed, pending>>

Expire(k) ==
    /\ k \in pending
    /\ pending' = pending \ {k}
    /\ UNCHANGED <<completed, onchain_pending, job_counters>>

\* The process ends: what it had in memory is gone, what Redis has is not.
StoreDown ==
    /\ onchain_pending' = 0
    /\ job_counters' = NoCounts
    /\ UNCHANGED <<completed, pending>>

\* Mutant: the pending jobs of the last life are kept.
Unflushed == pending

Flushed == {}

\* Mutant: the database of completed jobs is flushed.
StoreSetupOther ==
    /\ completed' = [k \in Keys |-> None]
    /\ UNCHANGED <<pending, onchain_pending, job_counters>>

\* setup: the pending jobs were those of a process that is gone.
StoreSetup ==
    /\ pending' = Flushed
    /\ UNCHANGED <<completed, onchain_pending, job_counters>>
===============================================================================
