------------------------------ MODULE Orchestrator -----------------------------
(***************************************************************************)
(* The orchestrator (src/orchestration/orchestrator.ts) running jobs on    *)
(* containers and recording them in the data store, with the clients that  *)
(* ask the store about their jobs (GET /api/jobs, src/server/rest.ts).     *)
(*                                                                         *)
(* Jobs run concurrently, each a chain of requests to containers.  j_pc    *)
(* names the await a job is in:                                            *)
(*   set_running  Redis stores it as running                               *)
(*   call         fetch: the container has not answered yet                *)
(*   body         the container's body is being read                       *)
(*   yield        a stream's generator is suspended with a chunk that its  *)
(*                client has not taken                                     *)
(*   text         the body was not JSON and is asked for once more         *)
(*   del, store   Redis deletes the running entry, stores the result       *)
(* A job is over when it has ended, was abandoned by the client it streams *)
(* to, or belongs to a process that is gone (past).                        *)
(***************************************************************************)
EXTENDS DataStore

CONSTANTS
    OffJobs,      \* off-chain jobs
    StreamJobs,   \* those of them that are streamed
    ChainJobs,    \* jobs of the chain processor
    Length,       \* Length[j]: the number of containers j is piped through
    MaxKills,     \* bound: times the process is killed
    MaxRestarts   \* bound: times it is started again

Jobs == OffJobs \cup ChainJobs

ASSUME OrchestratorAssumption ==
    /\ IsFiniteSet(OffJobs) /\ IsFiniteSet(ChainJobs)
    /\ StreamJobs \subseteq OffJobs
    /\ ChainJobs \cap OffJobs = {}
    /\ Length \in [Jobs -> Nat \ {0}]
    /\ \A j \in StreamJobs : Length[j] = 1
    /\ {MaxKills, MaxRestarts} \subseteq Nat

VARIABLES
    j_pc, j_step, j_status,  \* per job: where it is, which container, its outcome
    j_key,                   \* per off-chain job: the key of its entries, fixed
    up, kills, restarts,     \* the node process
    get_pc, get_key, get_found, get_answer, \* a client asking for one job at a time
    list_ip, list_known, list_ids  \* or for all ids of an address: those there were when it asked

jobs == <<j_pc, j_step, j_status, j_key>>
process == <<up, kills, restarts>>
listing == <<list_ip, list_known, list_ids>>
get == <<get_pc, get_key, get_found, get_answer, listing>>
vars == <<store, jobs, process, get>>

JobPcs == {"new", "set_running", "call", "body", "yield", "text", "del", "store",
           "ended", "abandoned", "past"}

TypeOK ==
    /\ StoreTypeOK
    /\ j_pc \in [Jobs -> JobPcs]
    /\ j_step \in [Jobs -> Nat]
    /\ \A j \in Jobs : j_pc[j] \in {"call", "body", "yield", "text"} => j_step[j] \in 1 .. Length[j]
    /\ j_status \in [Jobs -> Statuses \cup {None}]
    /\ j_key \in [OffJobs -> Keys]
    /\ \A j \in Jobs : j_pc[j] \in {"set_running", "del", "store"} => j \in OffJobs
    /\ \A j \in Jobs : j_pc[j] = "yield" => j \in StreamJobs
    /\ \A j \in Jobs : j_pc[j] \in {"del", "store"} => j_status[j] \in Statuses
    /\ up \in BOOLEAN
    /\ kills \in 0 .. MaxKills
    /\ restarts \in 0 .. MaxRestarts
    /\ get_pc \in {"idle", "pending", "scan"}
    /\ get_key \in Keys \cup {None}
    /\ get_pc = "pending" => get_key \in Keys
    /\ get_found \in Statuses \cup {None}
    /\ get_answer \subseteq Statuses \cup {"running"}
    /\ list_ip \in Addresses \cup {None}
    /\ get_pc = "scan" => list_ip \in Addresses
    /\ list_known \subseteq JobIds \cup {Piece}
    /\ list_ids \subseteq JobIds \cup {Piece}
-------------------------------------------------------------------------------
Goto(j, pc) == j_pc' = [j_pc EXCEPT ![j] = pc]

\* The jobs submitted so far under a key, and whether there is one at most.
JobsOf(k) == {j \in OffJobs : j_key[j] = k /\ j_pc[j] # "new"}

Sole(k) == \A i, j \in JobsOf(k) : i = j

\* The server accepts an off-chain job and answers with its id at once.
SubmitOffchain(j) ==
    /\ j \in OffJobs /\ j_pc[j] = "new"
    /\ Goto(j, "set_running")
    /\ UNCHANGED <<store, j_step, j_status, j_key, process, get>>

\* A batch starts the jobs of its entries one after the other without an await,
\* also if a later entry makes it answer with an error.
SubmitBatch(S) ==
    /\ S # {} /\ \A j \in S : j_pc[j] = "new"
    /\ j_pc' = [j \in Jobs |-> IF j \in S THEN "set_running" ELSE j_pc[j]]
    /\ UNCHANGED <<store, j_step, j_status, j_key, process, get>>

\* process_chain_processor_job: an on-chain job is counted without an await.
SubmitOnchain(j) ==
    /\ j \in ChainJobs /\ j_pc[j] = "new"
    /\ SetRunningOnchain
    /\ Goto(j, "call")
    /\ j_step' = [j_step EXCEPT ![j] = 1]
    /\ UNCHANGED <<j_status, j_key, process, get>>

Stored(j) ==
    /\ j_pc[j] = "set_running"
    /\ SetRunning(j_key[j])
    /\ Goto(j, "call")
    /\ j_step' = [j_step EXCEPT ![j] = 1]
    /\ UNCHANGED <<j_status, j_key, process, get>>

\* The end of a job: an on-chain job is done with, an off-chain job has its
\* running entry deleted next.
Settle(j, status) ==
    /\ j_status' = [j_status EXCEPT ![j] = status]
    /\ \/ j \in ChainJobs /\ SetOnchainDone(status) /\ Goto(j, "ended")
       \/ j \in OffJobs /\ Goto(j, "del") /\ UNCHANGED store
    /\ UNCHANGED <<j_step, j_key, process, get>>

\* Mutant: no request is ever aborted.
TimerDisarmed(j) == FALSE

\* A request is aborted after 180 seconds, a streaming request after 60.  The timer
\* of the former is cleared when fetch resolves, before the body is read; the abort
\* of the latter does not resume a generator that is suspended at its yield.
TimerArmed(j) == j_pc[j] = "call" \/ (j_pc[j] = "body" /\ j \in StreamJobs)

\* fetch fails: aborted, refused, or, if streaming, answered with another status.
Abort(j) ==
    /\ TimerArmed(j)
    /\ Settle(j, "failed")

Responds(j) ==
    /\ j_pc[j] = "call"
    /\ Goto(j, "body")
    /\ UNCHANGED <<store, j_step, j_status, j_key, process, get>>

\* The connection breaks, or the output is no object (if streaming, no JSON).
BodyFails(j) ==
    /\ j_pc[j] = "body"
    /\ Settle(j, "failed")

\* The output is piped to the next container, or is the job's result.
BodyRead(j) ==
    /\ j_pc[j] = "body"
    /\ \/ j_step[j] = Length[j] /\ Settle(j, "success")
       \/ /\ j_step[j] < Length[j]
          /\ j_step' = [j_step EXCEPT ![j] = @ + 1]
          /\ Goto(j, "call")
          /\ UNCHANGED <<store, j_status, j_key, process, get>>

\* response.json() throws a SyntaxError: the handler asks for the text instead.
BodyNotJson(j) ==
    /\ j_pc[j] = "body"
    /\ j \notin StreamJobs
    /\ Goto(j, "text")
    /\ UNCHANGED <<store, j_step, j_status, j_key, process, get>>

\* A chunk of a stream is there: the generator is suspended until the client reads on.
Chunk(j) ==
    /\ j_pc[j] = "body"
    /\ j \in StreamJobs
    /\ Goto(j, "yield")
    /\ UNCHANGED <<store, j_step, j_status, j_key, process, get>>

ReadOn(j) ==
    /\ j_pc[j] = "yield"
    /\ Goto(j, "body")
    /\ UNCHANGED <<store, j_step, j_status, j_key, process, get>>

\* The client goes away: the generator returns without settling the job.
Abandon(j) ==
    /\ j_pc[j] = "yield"
    /\ Goto(j, "abandoned")
    /\ UNCHANGED <<store, j_step, j_status, j_key, process, get>>

Deleted(j) ==
    /\ j_pc[j] = "del"
    /\ Unset(j_key[j])
    /\ Goto(j, "store")
    /\ UNCHANGED <<j_step, j_status, j_key, process, get>>

Completed(j) ==
    /\ j_pc[j] = "store"
    /\ SetCompleted(j_key[j], j_status[j])
    /\ Goto(j, "ended")
    /\ UNCHANGED <<j_step, j_status, j_key, process, get>>
-------------------------------------------------------------------------------
(* The process.                                                            *)

ProcessEnds ==
    /\ up' = FALSE
    /\ StoreDown
    /\ j_pc' = [j \in Jobs |-> IF j_pc[j] = "new" THEN "new" ELSE "past"]
    /\ j_step' = [j \in Jobs |-> 0]
    /\ j_status' = [j \in Jobs |-> None]
    /\ get_pc' = "idle"
    /\ get_found' = None
    /\ list_ip' = None /\ list_known' = {}
    /\ UNCHANGED <<restarts, j_key, get_key, get_answer, list_ids>>

\* The body was consumed by response.json(): response.text() rejects inside the
\* handler, nothing catches that, and an unhandled rejection ends the process.
TextRejected(j) ==
    /\ j_pc[j] = "text"
    /\ ProcessEnds
    /\ UNCHANGED kills

Kill ==
    /\ up /\ kills < MaxKills
    /\ kills' = kills + 1
    /\ ProcessEnds

Restart ==
    /\ ~up /\ restarts < MaxRestarts
    /\ restarts' = restarts + 1
    /\ up' = TRUE
    /\ StoreSetup
    /\ UNCHANGED <<jobs, kills, get>>

\* A job whose first container has not answered stored its entry a moment ago; any
\* other may be held up for 900 seconds by a body, or by a client that does not read.
RunningExpires(k) ==
    /\ \A j \in JobsOf(k) : ~(j_pc[j] = "call" /\ j_step[j] = 1)
    /\ Expire(k)
    /\ UNCHANGED <<jobs, process, get>>
-------------------------------------------------------------------------------
(* DataStore.get: the completed database is asked first, then the pending  *)
(* one; the answer lists what either had.                                  *)

GetCompleted(k) ==
    /\ up /\ get_pc = "idle"
    /\ get_pc' = "pending"
    /\ get_key' = k
    /\ get_found' = completed[k]
    /\ get_answer' = {}
    /\ list_ip' = None /\ list_known' = {} /\ list_ids' = {}
    /\ UNCHANGED <<store, jobs, process>>

GetPending ==
    /\ get_pc = "pending"
    /\ get_pc' = "idle"
    /\ get_answer' = ({get_found} \ {None})
                       \cup (IF get_key \in pending THEN {"running"} ELSE {})
    /\ get_found' = None
    /\ UNCHANGED <<store, jobs, process, get_key, listing>>

(* DataStore.get_job_ids: the two databases are scanned one after the other. *)

\* Mutant: the scans are swapped.
ScansSwapped == <<"completed", "pending">>

Scans == <<"pending", "completed">>

\* The keys in a database that begin with an address.
KeysFound(database, ip) ==
    {k \in Keys : /\ k[1] = ip
                  /\ IF database = "pending" THEN k \in pending ELSE completed[k] # None}

Ids(database, ip) == {get_id(k) : k \in KeysFound(database, ip)}

\* The ids of the jobs an address has in the databases.
KnownIds(ip) == {k[2] : k \in KeysFound("pending", ip) \cup KeysFound("completed", ip)}

ListFirst(ip) ==
    /\ up /\ get_pc = "idle"
    /\ get_pc' = "scan"
    /\ list_ip' = ip
    /\ list_known' = KnownIds(ip)
    /\ list_ids' = Ids(Scans[1], ip)
    /\ get_key' = None /\ get_found' = None /\ get_answer' = {}
    /\ UNCHANGED <<store, jobs, process>>

ListSecond ==
    /\ get_pc = "scan"
    /\ get_pc' = "idle"
    /\ list_ids' = list_ids \cup Ids(Scans[2], list_ip)
    /\ list_ip' = None /\ list_known' = {}
    /\ UNCHANGED <<store, jobs, process, get_key, get_found, get_answer>>
-------------------------------------------------------------------------------
Init ==
    /\ StoreInit
    /\ j_pc = [j \in Jobs |-> "new"]
    /\ j_step = [j \in Jobs |-> 0]
    /\ j_status = [j \in Jobs |-> None]
    /\ j_key \in [OffJobs -> Keys]
    /\ up = TRUE /\ kills = 0 /\ restarts = 0
    /\ get_pc = "idle" /\ get_key = None /\ get_found = None /\ get_answer = {}
    /\ list_ip = None /\ list_known = {} /\ list_ids = {}

\* What a container does to a job.
ContainerStep(j) == Responds(j) \/ Chunk(j) \/ BodyFails(j) \/ BodyRead(j) \/ BodyNotJson(j)

\* What the node does for a job on its own.
NodeStep(j) == Stored(j) \/ Deleted(j) \/ Completed(j) \/ TextRejected(j) \/ Abort(j)

\* What the client of a stream does.
ClientStep(j) == ReadOn(j) \/ Abandon(j)

JobStep(j) ==
    /\ up
    /\ \/ SubmitOffchain(j) \/ SubmitOnchain(j)
       \/ NodeStep(j) \/ ContainerStep(j) \/ ClientStep(j)

Next ==
    \/ \E j \in Jobs : JobStep(j)
    \/ \E k \in Keys : RunningExpires(k) \/ GetCompleted(k)
    \/ \E ip \in Addresses : ListFirst(ip)
    \/ up /\ \E S \in SUBSET (OffJobs \ StreamJobs) : SubmitBatch(S)
    \/ GetPending \/ ListSecond
    \/ Kill \/ Restart

Spec == Init /\ [][Next]_vars

\* Redis answers and timers fire, that of a stream also if its generator is suspended
\* now and then; no container has to answer and no client to read.
FairSpec ==
    /\ Spec
    /\ \A j \in Jobs : WF_vars(up /\ NodeStep(j))
    /\ \A j \in StreamJobs : SF_vars(up /\ Abort(j))
-------------------------------------------------------------------------------
(* Properties.                                                             *)

Begun(j) == j_pc[j] \notin {"new", "past"}

Over(j) == j_pc[j] \in {"ended", "abandoned", "past"}

\* Every job the process took on is either in progress or counted once, on-chain
\* jobs as pending until then: on the success path and on all failure paths.
Accounting ==
    /\ onchain_pending = Cardinality({j \in ChainJobs : Begun(j) /\ ~Over(j)})
    /\ \A st \in Statuses :
         /\ job_counters["onchain"][st]
              = Cardinality({j \in ChainJobs : j_pc[j] = "ended" /\ j_status[j] = st})
         /\ job_counters["offchain"][st]
              = Cardinality({j \in OffJobs : j_pc[j] = "ended" /\ j_status[j] = st})

\* A client asking for a job is not told two statuses of it, although the two
\* databases are read one after the other while the job moves between them, unless a
\* second job was submitted under its key.
GetNeverContradicts == Sole(get_key) => Cardinality(get_answer) \leq 1

\* A list of all jobs of an IPv4 client has every job that was stored when it was
\* asked for, whatever moves between the two databases while they are scanned.
ListingMissesNone ==
    [][get_pc = "scan" /\ get_pc' = "idle" /\ up' /\ list_ip \in V4
         => list_known \subseteq list_ids']_vars

\* A key stored as running has a job that is being run by this process, or was
\* abandoned by its client: no entry of a process that is gone outlives the next
\* setup, also where jobs share the key.
Running == {"call", "body", "yield", "text", "del", "abandoned"}

RunningIsRun == up => \A k \in pending : \E j \in JobsOf(k) : j_pc[j] \in Running

\* The inductive form of the two: an entry is that of a job; if of one job only, its
\* key is in one database, and what a client was told of it still stands.
StoreInv ==
    /\ \A k \in Keys : completed[k] # None =>
         /\ \E j \in JobsOf(k) : j_pc[j] \in {"ended", "past"}
         /\ Sole(k) => k \notin pending
    /\ \A k \in pending : \E j \in JobsOf(k) : j_pc[j] \in Running \cup {"past"}
    /\ RunningIsRun
    /\ get_pc = "pending" /\ get_found # None /\ Sole(get_key) =>
         completed[get_key] = get_found
    /\ Sole(get_key) => \E a \in Statuses \cup {"running"} : get_answer \subseteq {a}

\* A key that has a result keeps one, whatever shares it; while it is the key of one
\* job, the result is never replaced and the job never again running.
ResultIsFinal ==
    [][\A k \in Keys :
         completed[k] # None =>
           /\ completed'[k] # None
           /\ Sole(k)' => completed'[k] = completed[k] /\ k \notin pending']_vars

\* The record of a key, as its client may come to know it.
RecordOf(k) ==
    LET places == {j_pc[j] : j \in JobsOf(k)} IN
    IF ~Sole(k) THEN "shared"
    ELSE IF completed[k] # None THEN completed[k]
    ELSE IF k \in pending THEN "running"
    ELSE IF places \subseteq {"set_running"} THEN "unknown"
    ELSE IF places \subseteq {"abandoned", "past"} THEN "lost"
    ELSE "hidden"

Record == INSTANCE JobRecord WITH
            record <- [k \in Keys |-> RecordOf(k)],
            asked <- get_key,
            answer <- IF Sole(get_key) THEN get_answer ELSE {}

\* The two databases, the process and the client's reads together keep the promise
\* of one record per key (JobRecord) until a client uses the key again: it moves
\* forward only, across databases, crashes and expiries, and a client is told the
\* record of the key it asked for or nothing.
ImplementsJobRecord == Record!Spec

\* What may hold up a job for ever: a stalled body, or a client that does not read.
Waits(j) == j_pc[j] = IF j \in StreamJobs THEN "yield" ELSE "body"

\* Every job is over in the end, whether containers answer or not, unless it waits
\* for ever in the one place no timer reaches.
JobsEnd == \A j \in Jobs : Begun(j) ~> (Over(j) \/ []Waits(j))

\* "Abort request after 180 seconds" (orchestrator.ts:136): no request lasts for ever.
RequestsEnd == \A j \in Jobs : j_pc[j] = "body" ~> j_pc[j] # "body"

\* "Handle non-JSON response as error" (orchestrator.ts:178): such an answer makes
\* the job fail.
NonJsonFailsJob ==
    [][\A j \in Jobs : j_pc[j] = "text" /\ j_pc'[j] # "text" => j_status'[j] = "failed"]_vars
===============================================================================
