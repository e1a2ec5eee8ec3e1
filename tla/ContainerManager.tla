--------------------------- MODULE ContainerManager ---------------------------
(***************************************************************************)
(* The container manager (src/orchestration/docker.ts) and the assignment  *)
(* of host ports before it (src/utils/container.ts).                       *)
(*                                                                         *)
(* setup pulls all images in parallel, then brings up all containers in    *)
(* parallel; c_pc names the request to Docker a container's bring-up is    *)
(* suspended in.  A bring-up that fails ends setup at once, but not the    *)
(* other bring-ups.  The monitoring loop only logs; its failures are those *)
(* of NodeLifecycle's manager loop.  Pruning is left out: the node calls   *)
(* setup without an argument, so it never prunes.                          *)
(***************************************************************************)
EXTENDS Integers, FiniteSets

CONSTANTS
    N,         \* number of configured containers
    Requests,  \* requested ports that may be configured, per container; 0 is none
    Found,     \* states of the containers the node may find when it starts
    TopPort    \* where the search for an open port begins (3999)

Containers == 1 .. N

DockerStates == {"absent", "exited", "running"}

ASSUME ManagerAssumption ==
    /\ N \in Nat \ {0} /\ TopPort \in Nat
    /\ Requests \subseteq [Containers -> Nat]
    /\ Found \subseteq [Containers -> DockerStates]

VARIABLES
    managed,    \* manage_containers of the configuration
    requested,  \* the configured ports
    port,       \* the ports given out, in the order of the configuration
    m_pc,       \* setup of the manager
    pulls,      \* images being pulled, by container
    c_pc,       \* bring-up per container
    docker,     \* what Docker knows of the container of that name
    recorded,   \* keys of #containers
    started     \* containers this node had Docker start

ports == <<requested, port>>
manager == <<managed, m_pc, pulls, c_pc, docker, recorded, started>>

ManagerPcs == {"off", "pull", "run", "startup", "ready", "failed"}
BringUpPcs == {"idle", "inspect", "start", "create", "rename", "launch", "done", "error"}

ManagerTypeOK ==
    /\ managed \in BOOLEAN
    /\ requested \in Requests
    /\ DOMAIN port \subseteq Containers /\ \A c \in DOMAIN port : port[c] \in Int
    /\ m_pc \in ManagerPcs
    /\ pulls \subseteq Containers
    /\ c_pc \in [Containers -> BringUpPcs]
    /\ docker \in [Containers -> DockerStates]
    /\ recorded \subseteq Containers /\ started \subseteq Containers
    /\ managed /\ m_pc \in {"startup", "ready"} => \A c \in Containers : c_pc[c] = "done"

ManagerInit ==
    /\ managed \in BOOLEAN
    /\ requested \in Requests
    /\ port = [c \in {} |-> 0]
    /\ m_pc = "off" /\ pulls = {}
    /\ c_pc = [c \in Containers |-> "idle"]
    /\ docker \in Found
    /\ recorded = {} /\ started = {}
-------------------------------------------------------------------------------
(* assignPorts, one configured container after the other.                  *)

Assigned == {port[c] : c \in DOMAIN port}

\* Mutant: the ports given out are not looked at.
TopOnly == TopPort

\* autoAssignPort: the highest port not given out, counting down from the top.
OpenPort ==
    CHOOSE p \in TopPort - N .. TopPort :
        /\ p \notin Assigned
        /\ \A q \in p + 1 .. TopPort : q \in Assigned

AssignPort(c) ==
    /\ c = Cardinality(DOMAIN port) + 1
    /\ port' = [b \in DOMAIN port \cup {c} |->
                  IF b # c THEN port[b]
                  ELSE IF requested[c] = 0 \/ requested[c] \in Assigned
                    THEN OpenPort ELSE requested[c]]
    /\ UNCHANGED <<requested, manager>>
-------------------------------------------------------------------------------
(* setup.                                                                  *)

\* Nothing is done to containers that are not managed.
ManagerSetup ==
    /\ m_pc' = IF managed THEN "pull" ELSE "ready"
    /\ pulls' = IF managed THEN Containers ELSE {}
    /\ UNCHANGED <<managed, c_pc, docker, recorded, started>>

\* A pull ends, whether it succeeded, found the image present or failed: the test
\* for failed pulls asks whether the first false element is true, so none counts.
PullEnds(c) ==
    /\ m_pc = "pull" /\ c \in pulls
    /\ pulls' = pulls \ {c}
    /\ \/ /\ pulls' # {}
          /\ UNCHANGED <<m_pc, c_pc>>
       \/ /\ pulls' = {}
          /\ m_pc' = "run"
          /\ c_pc' = [b \in Containers |-> "inspect"]
    /\ UNCHANGED <<managed, docker, recorded, started>>

BringUp(c, pc) == c_pc' = [c_pc EXCEPT ![c] = pc]

\* Mutant: Promise.race.
SettleFirst(c, pc) ==
    /\ BringUp(c, pc)
    /\ m_pc' = IF m_pc # "run" THEN m_pc ELSE IF pc = "error" THEN "failed" ELSE "startup"

\* Promise.all: the first error rejects setup, the last success lets it go on.
Settle(c, pc) ==
    /\ BringUp(c, pc)
    /\ m_pc' = IF m_pc = "run" /\ pc = "error" THEN "failed"
               ELSE IF m_pc = "run" /\ \A b \in Containers : c_pc'[b] = "done"
                 THEN "startup" ELSE m_pc

\* Mutant: the container is recorded only if it need not be started.
RecordRunning(c) ==
    recorded' = IF docker[c] = "running" THEN recorded \cup {c} ELSE recorded

Record(c) == recorded' = recorded \cup {c}

\* The container exists, does not exist, or Docker fails: an error that is not
\* "no such container" is only logged.
Inspected(c) ==
    /\ c_pc[c] = "inspect"
    /\ \/ /\ docker[c] = "running"
          /\ Record(c) /\ Settle(c, "done")
       \/ /\ docker[c] = "exited"
          /\ Record(c) /\ BringUp(c, "start") /\ UNCHANGED m_pc
       \/ /\ docker[c] = "absent"
          /\ BringUp(c, "create") /\ UNCHANGED <<m_pc, recorded>>
       \/ Settle(c, "done") /\ UNCHANGED recorded
    /\ UNCHANGED <<managed, pulls, docker, started>>

\* Docker starts the container; its answer may be lost.
Run(c) ==
    /\ docker' = [docker EXCEPT ![c] = "running"]
    /\ started' = started \cup {c}

\* An existing container is started and inspected again: an error is only logged,
\* unless the container is gone meanwhile, which goes on to create a new one.
Restarted(c) ==
    /\ c_pc[c] = "start"
    /\ \/ /\ Run(c) \/ UNCHANGED <<docker, started>>
          /\ Settle(c, "done")
       \/ /\ docker' = [docker EXCEPT ![c] = "absent"]
          /\ started' \in {started, started \cup {c}}
          /\ BringUp(c, "create") /\ UNCHANGED m_pc
    /\ UNCHANGED <<managed, pulls, recorded>>

\* A new container: createContainer, rename, start, each of which may fail.
Created(c) ==
    /\ c_pc[c] = "create"
    /\ \/ BringUp(c, "rename") /\ UNCHANGED m_pc
       \/ Settle(c, "error")
    /\ UNCHANGED <<managed, pulls, docker, recorded, started>>

Renamed(c) ==
    /\ c_pc[c] = "rename"
    /\ \/ /\ docker' = [docker EXCEPT ![c] = "exited"]
          /\ BringUp(c, "launch") /\ UNCHANGED m_pc
       \/ Settle(c, "error") /\ UNCHANGED docker
    /\ UNCHANGED <<managed, pulls, recorded, started>>

Launched(c) ==
    /\ c_pc[c] = "launch"
    /\ \/ Run(c) /\ Record(c) /\ Settle(c, "done")
       \/ /\ Run(c) \/ UNCHANGED <<docker, started>>
          /\ Settle(c, "error") /\ UNCHANGED recorded
    /\ UNCHANGED <<managed, pulls>>

\* The startup wait is over and the running containers are listed.
StartupOver ==
    /\ m_pc = "startup"
    /\ m_pc' \in {"ready", "failed"}
    /\ UNCHANGED <<managed, pulls, c_pc, docker, recorded, started>>

ManagerStep ==
    \/ \E c \in Containers :
         \/ PullEnds(c) \/ Inspected(c) \/ Restarted(c)
         \/ Created(c) \/ Renamed(c) \/ Launched(c)
    \/ StartupOver
-------------------------------------------------------------------------------
(* Shutdown and Docker.                                                    *)

\* stop asks Docker to stop every recorded container.
ToStop == IF managed THEN recorded ELSE {}

\* Docker answers a stop request, or the request is aborted: errors are only logged.
StopEnds(c) ==
    /\ docker' \in {docker, [docker EXCEPT ![c] = "exited"]}
    /\ UNCHANGED <<managed, m_pc, pulls, c_pc, recorded, started>>
===============================================================================
