---------------------------- MODULE NodeLifecycle ----------------------------
(***************************************************************************)
(* The life of the node process (src/main.ts, src/shared/service.ts):      *)
(* concurrent setup of all tasks, their event loops, shutdown on a failure *)
(* or a signal, and the exit, composed with the container manager          *)
(* (ContainerManager) and with delegated subscriptions                     *)
(* (DelegatedSubscriptions), which can end the processor's loop.           *)
(*                                                                         *)
(* The REST server answers as soon as its own setup is done, before the    *)
(* other tasks are set up and also if their setup fails: that failure is   *)
(* logged, and the process stays as it is.                                 *)
(***************************************************************************)
EXTENDS ContainerManager, DelegatedSubscriptions

CONSTANTS MaxSignals  \* bound: SIGTERM and SIGINT received

ASSUME LifecycleAssumption == MaxSignals \in Nat

Loops == {"manager", "processor", "listener"}

\* Shutdowns: on a failure, and one per signal.
Shutdowns == 0 .. MaxSignals
Failure == 0

VARIABLES
    chain_enabled,  \* chain.enabled of the configuration
    phase,          \* of lifecycle_main
    sync,           \* setup of the listener (snapshot sync)
    rest,           \* setup of the REST server
    loop,           \* run_forever of each task
    down,           \* the shutdown flags of the tasks, all set at once
    stops,          \* per shutdown: containers whose stop is not answered
    answered,       \* containers whose stop in the failure shutdown is over
    signals,        \* signals handled
    exit            \* how the process ended

lifecycle == <<chain_enabled, phase, sync, rest, loop, down, stops, answered, signals, exit>>
vars == <<ports, manager, calls, lifecycle>>

Phases == {"startup", "setup", "running", "failing"}
SetupStates == {"off", "busy", "ready", "failed"}
LoopStates == {"off", "running", "returned", "rejected"}

\* Exit code 0 or 1 of lifecycle_main, exit code 1 of Node for a rejected promise
\* that nobody handles, and the end by a signal.
Exits == {"alive", "ok", "failed", "unhandled", "killed"}

\* The type invariant: the node is failing when a loop has thrown, and the manager
\* is ready only with all containers brought up.
TypeOK ==
    /\ ManagerTypeOK /\ DelegatedTypeOK
    /\ chain_enabled \in BOOLEAN
    /\ phase \in Phases
    /\ sync \in SetupStates /\ rest \in SetupStates
    /\ loop \in [Loops -> LoopStates]
    /\ down \in BOOLEAN
    /\ stops \in [Shutdowns -> SUBSET Containers]
    /\ answered \subseteq Containers
    /\ signals \in 0 .. MaxSignals
    /\ exit \in Exits
    /\ phase = "failing" <=> \E t \in Loops : loop[t] = "rejected"

Init ==
    /\ ManagerInit /\ DelegatedInit
    /\ chain_enabled \in BOOLEAN
    /\ phase = "startup" /\ sync = "off" /\ rest = "off"
    /\ loop = [t \in Loops |-> "off"]
    /\ down = FALSE
    /\ stops = [r \in Shutdowns |-> {}]
    /\ answered = {}
    /\ signals = 0
    /\ exit = "alive"

Alive == exit = "alive"
-------------------------------------------------------------------------------
(* on_startup and setup.                                                   *)

AssignPorts ==
    /\ Alive /\ phase = "startup"
    /\ \E c \in Containers : AssignPort(c)
    /\ UNCHANGED <<calls, lifecycle>>

\* All setups begin; the processor's has nothing to do.
Setup ==
    /\ Alive /\ phase = "startup"
    /\ DOMAIN port = Containers
    /\ phase' = "setup"
    /\ ManagerSetup
    /\ sync' = IF chain_enabled THEN "busy" ELSE "ready"
    /\ rest' = "busy"
    /\ UNCHANGED <<ports, calls, chain_enabled, loop, down, stops, answered,
                   signals, exit>>

\* A step of the manager's setup, which goes on when another setup failed.
ManagerSets ==
    /\ Alive
    /\ ManagerStep
    /\ UNCHANGED <<ports, calls, lifecycle>>

ListenerSets ==
    /\ Alive /\ sync = "busy"
    /\ sync' \in {"ready", "failed"}
    /\ UNCHANGED <<ports, manager, calls, chain_enabled, phase, rest, loop, down,
                   stops, answered, signals, exit>>

RestSets ==
    /\ Alive /\ rest = "busy"
    /\ rest' \in {"ready", "failed"}
    /\ UNCHANGED <<ports, manager, calls, chain_enabled, phase, sync, loop, down,
                   stops, answered, signals, exit>>

\* Setup is done: signal handlers are registered and every run_forever is called.
RunAll ==
    /\ Alive /\ phase = "setup"
    /\ m_pc = "ready" /\ sync = "ready" /\ rest = "ready"
    /\ phase' = "running"
    /\ loop' = [t \in Loops |->
                  IF t = "manager" \/ chain_enabled THEN "running" ELSE "returned"]
    /\ UNCHANGED <<ports, manager, calls, chain_enabled, sync, rest, down, stops,
                   answered, signals, exit>>
-------------------------------------------------------------------------------
(* The event loops.                                                        *)

\* Mutant: the flag of the manager is not looked at.
SeesShutdownBut(t) == down /\ t # "manager"

SeesShutdown(t) == down

\* Mutant: Promise.allSettled.
AllSettled(loops) == \A t \in Loops : loops[t] \in {"returned", "rejected"}

\* Promise.all resolves when all loops have returned.
AllReturned(loops) == \A t \in Loops : loops[t] = "returned"

\* A loop returns when it next looks at its flag; with the last one the process
\* exits, whether shutdowns are through or not.
LoopReturns(t) ==
    /\ Alive /\ loop[t] = "running"
    /\ SeesShutdown(t)
    /\ loop' = [loop EXCEPT ![t] = "returned"]
    /\ exit' = IF AllReturned(loop') THEN "ok" ELSE exit
    /\ UNCHANGED <<ports, manager, calls, chain_enabled, phase, sync, rest, down,
                   stops, answered, signals>>

\* #shutdown sets all flags and asks Docker to stop the recorded containers.
Shutdown(r) ==
    /\ down' = TRUE
    /\ stops' = [stops EXCEPT ![r] = ToStop]

\* A loop throws.  The first one to do so begins the shutdown.
Throws(t) ==
    /\ Alive /\ loop[t] = "running"
    /\ loop' = [loop EXCEPT ![t] = "rejected"]
    /\ phase' = "failing"
    /\ IF phase = "running" THEN Shutdown(Failure) ELSE UNCHANGED <<down, stops>>
    /\ UNCHANGED <<ports, manager, calls, chain_enabled, sync, rest, answered,
                   signals, exit>>

\* A request to Docker or to the RPC node fails that a loop awaits.
LoopFails(t) == Throws(t)

\* The pass over the delegated subscriptions.
DelegatedPass == PassThrows /\ Throws("processor")

\* A stop request is answered, or aborted after a minute.
StopAnswered(r, c) ==
    /\ Alive /\ c \in stops[r]
    /\ stops' = [stops EXCEPT ![r] = @ \ {c}]
    /\ answered' = IF r = Failure THEN answered \cup {c} ELSE answered
    /\ StopEnds(c)
    /\ UNCHANGED <<ports, calls, chain_enabled, phase, sync, rest, loop, down,
                   signals, exit>>

\* The failure shutdown is through.
FailureExit ==
    /\ Alive /\ phase = "failing"
    /\ stops[Failure] = {}
    /\ exit' = "failed"
    /\ UNCHANGED <<ports, manager, calls, chain_enabled, phase, sync, rest, loop,
                   down, stops, answered, signals>>
-------------------------------------------------------------------------------
(* Signals, requests and the world.                                        *)

\* SIGTERM or SIGINT: before its handler is registered it ends the process.
Signal ==
    /\ Alive /\ signals < MaxSignals
    /\ \/ /\ phase \in {"running", "failing"}
          /\ signals' = signals + 1
          /\ Shutdown(signals + 1)
          /\ UNCHANGED exit
       \/ /\ phase \notin {"running", "failing"}
          /\ exit' = "killed"
          /\ UNCHANGED <<signals, down, stops>>
    /\ UNCHANGED <<ports, manager, calls, chain_enabled, phase, sync, rest, loop,
                   answered>>

\* An error in a promise nobody awaits: prune_failed_txs or process_subscription,
\* which may still be under way when the loop that called them is over.
Unhandled ==
    /\ Alive /\ chain_enabled /\ loop["processor"] # "off"
    /\ exit' = "unhandled"
    /\ UNCHANGED <<ports, manager, calls, chain_enabled, phase, sync, rest, loop,
                   down, stops, answered, signals>>

\* The batch endpoint hands a request to the processor, if there is one; requests
\* received before a shutdown are still handled while the server closes.
DelegatedRequest(r) ==
    /\ Alive /\ rest = "ready" /\ chain_enabled
    /\ Call(r)
    /\ UNCHANGED <<ports, manager, lifecycle>>

\* The handler goes on; if it throws, that is an unhandled rejection as well.
DelegatedStep(r) ==
    /\ Alive
    /\ CallStep(r)
    /\ exit' = IF d_pc'[r] = "thrown" THEN "unhandled" ELSE exit
    /\ UNCHANGED <<ports, manager, chain_enabled, phase, sync, rest, loop, down, stops,
                   answered, signals>>

ChainMoves ==
    /\ Alive
    /\ NewBlock
    /\ UNCHANGED <<ports, manager, lifecycle>>

LoopStep(t) == LoopReturns(t) \/ LoopFails(t)

Next ==
    \/ AssignPorts \/ Setup \/ ManagerSets \/ ListenerSets \/ RestSets \/ RunAll
    \/ \E t \in Loops : LoopStep(t)
    \/ DelegatedPass
    \/ \E r \in Shutdowns, c \in Containers : StopAnswered(r, c)
    \/ FailureExit
    \/ Signal \/ Unhandled
    \/ \E r \in Calls : DelegatedRequest(r) \/ DelegatedStep(r)
    \/ ChainMoves

Spec == Init /\ [][Next]_vars

\* Timers fire, and requests to Docker end, at the latest when they are aborted.
FairSpec ==
    /\ Spec
    /\ \A t \in Loops : WF_vars(LoopReturns(t))
    /\ \A r \in Shutdowns, c \in Containers : WF_vars(StopAnswered(r, c))
    /\ WF_vars(FailureExit)
-------------------------------------------------------------------------------
(* Properties.                                                             *)

\* No two containers are given the same host port, and a requested port goes to the
\* first container that asks for it unless an earlier one was given it.
PortsDistinct ==
    /\ \A b, c \in DOMAIN port : b # c => port[b] # port[c]
    /\ \A c \in DOMAIN port :
         requested[c] \notin {0, port[c]} =>
             \E b \in DOMAIN port : b < c /\ port[b] = requested[c]

\* A node that ends because a loop failed has sent Docker a stop request for every
\* container it started, whichever way their bring-ups went and failed, and has
\* waited until each was answered or aborted after a minute.
FailureStopsStarted ==
    exit = "failed" => started \subseteq answered

\* The exit code tells whether all was well: it is 0 only after a signal, and 1 or
\* nothing yet once a loop failed or a request's handler threw, whatever else
\* returns or is signalled then.  An exit code 1 does not tell the two apart; after
\* a shutdown it is given only for a loop.
ExitTellsWhy ==
    /\ exit = "ok" => signals > 0
    /\ (\E t \in Loops : loop[t] = "rejected") \/ (\E r \in Calls : d_pc[r] = "thrown") =>
         exit \in {"alive", "failed", "unhandled"}
    /\ exit = "failed" => \E t \in Loops : loop[t] = "rejected"

\* What the processor tracks as a delegated subscription had, in one block, its key
\* registered and no on-chain counterpart, although the chain moves on between the
\* reads that establish it.
TrackedIsConsistent ==
    \A d \in delegated : \E b \in 1 .. block :
        /\ CreatedAt[d] > b /\ RegisteredAt[d] \leq b
        /\ \E r \in Genuine : Target[r] = d /\ d_head[r] = b

\* Told to stop, or failing, the node ends: no loop and no container keeps it.
TroubleEndsNode ==
    down \/ (\E t \in Loops : loop[t] = "rejected") ~> exit # "alive"

\* "Creates off-chain jobs in batch (direct compute requests / subscriptions)"
\* (rest.ts:298), "Make deep copy to avoid mutation during iteration"
\* (processor.ts:1173): the pass over the subscriptions made by that endpoint does
\* not end the loop.
DelegatedPassSurvives == [][~DelegatedPass]_vars
===============================================================================
