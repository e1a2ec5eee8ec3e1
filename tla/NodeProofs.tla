------------------------------- MODULE NodeProofs ------------------------------
(***************************************************************************)
(* Proofs about the life cycle of the node: for any number of containers,  *)
(* delegated subscriptions, requests and signals.                          *)
(***************************************************************************)
EXTENDS NodeLifecycle, FiniteSetTheorems, WellFoundedInduction, TLAPS

-------------------------------------------------------------------------------
(* Ports.                                                                  *)

PortShape ==
    /\ requested \in Requests
    /\ \E k \in 0 .. N : DOMAIN port = 1 .. k
    /\ \A c \in DOMAIN port : port[c] \in Int

\* Of N + 1 ports one is not given out to the at most N containers.
LEMMA PortLeft ==
    ASSUME PortShape
    PROVE  \E i \in 0 .. N : TopPort - i \notin Assigned
<1>1. PICK k \in 0 .. N : DOMAIN port = 1 .. k
  BY DEF PortShape
<1>2. SUFFICES ASSUME \A i \in 0 .. N : TopPort - i \in Assigned PROVE FALSE
  OBVIOUS
<1> DEFINE f == [i \in 0 .. N |-> CHOOSE c \in DOMAIN port : port[c] = TopPort - i]
<1>3. \A i \in 0 .. N : f[i] \in DOMAIN port /\ port[f[i]] = TopPort - i
  BY <1>2 DEF Assigned
<1>4. f \in [0 .. N -> 1 .. k]
  BY <1>1, <1>3
<1>5. /\ IsFiniteSet(0 .. N) /\ Cardinality(0 .. N) = N + 1
      /\ IsFiniteSet(1 .. k) /\ Cardinality(1 .. k) = k
  <2>1. N \in Int /\ k \in Int /\ 0 \in Int /\ 1 \in Int /\ N > 0 /\ k \geq 0
    BY ManagerAssumption
  <2>2. /\ IsFiniteSet(0 .. N) /\ Cardinality(0 .. N) = IF 0 > N THEN 0 ELSE N - 0 + 1
        /\ IsFiniteSet(1 .. k) /\ Cardinality(1 .. k) = IF 1 > k THEN 0 ELSE k - 1 + 1
    BY <2>1, FS_Interval
  <2> QED BY <2>1, <2>2
<1> HIDE DEF f
<1>6. Cardinality(1 .. k) < Cardinality(0 .. N)
  BY <1>5, ManagerAssumption
<1>7. \E i, j \in 0 .. N : i # j /\ f[i] = f[j]
  BY <1>4, <1>5, <1>6, FS_PigeonHole
<1> QED BY <1>3, <1>7, ManagerAssumption

\* A set of natural numbers that is not empty has a least element.
LEMMA Least ==
    ASSUME NEW T \in SUBSET Nat, T # {}
    PROVE  \E m \in T : \A n \in T : m \leq n
<1> DEFINE R == OpToRel(<, Nat)
<1>1. R = {ss \in Nat \X Nat : ss[1] < ss[2]}
  BY DEF OpToRel
<1>2. IsWellFoundedOn(R, Nat)
  BY NatLessThanWellFounded
<1> HIDE DEF R
<1>3. PICK m \in T : \A n \in T : <<n, m>> \notin R
  BY <1>2, WFMin
<1>4. ASSUME NEW n \in T PROVE m \leq n
  <2>1. <<n, m>> \in Nat \X Nat /\ ~(n < m)
    BY <1>1, <1>3
  <2> QED BY <2>1
<1> QED BY <1>4

\* The search for an open port ends, with one that is not given out.
LEMMA OpenPortIsOpen ==
    ASSUME PortShape
    PROVE  OpenPort \in Int /\ OpenPort \notin Assigned
<1> DEFINE T == {i \in 0 .. N : TopPort - i \notin Assigned}
           Open(p) == p \notin Assigned /\ \A q \in p + 1 .. TopPort : q \in Assigned
<1>1. PICK m \in T : \A n \in T : m \leq n
  <2>1. T \in SUBSET Nat /\ T # {}
    BY PortLeft, ManagerAssumption
  <2> QED BY <2>1, Least
<1>2. /\ m \in 0 .. N /\ TopPort - m \in TopPort - N .. TopPort
      /\ TopPort - m \notin Assigned
  BY <1>1, ManagerAssumption
<1>3. ASSUME NEW q \in (TopPort - m) + 1 .. TopPort PROVE q \in Assigned
  <2>1. TopPort - q \in 0 .. N /\ TopPort - (TopPort - q) = q /\ TopPort - q < m
    BY <1>2, ManagerAssumption
  <2> QED BY <1>1, <2>1
<1>4. \E p \in TopPort - N .. TopPort : Open(p)
  BY <1>2, <1>3
<1>5. OpenPort \in TopPort - N .. TopPort /\ Open(OpenPort)
  BY <1>4 DEF OpenPort
<1> QED BY <1>5, ManagerAssumption

\* What is given out next is a port, one of its own, and what was asked for or
\* what an earlier container has.
LEMMA AssignKeeps ==
    ASSUME PortShape, PortsDistinct, NEW c \in Containers, AssignPort(c)
    PROVE  PortShape' /\ PortsDistinct'
<1>1. PICK k \in 0 .. N : DOMAIN port = 1 .. k
  BY DEF PortShape
<1>2. Cardinality(DOMAIN port) = k
  <2>1. k \in Int /\ 1 \in Int /\ k \geq 0
    BY ManagerAssumption
  <2>2. Cardinality(1 .. k) = IF 1 > k THEN 0 ELSE k - 1 + 1
    BY <2>1, FS_Interval
  <2> QED BY <1>1, <2>1, <2>2
<1>3. c = k + 1 /\ DOMAIN port' = 1 .. (k + 1) /\ k + 1 \in 0 .. N
  BY <1>1, <1>2, ManagerAssumption DEF AssignPort, Containers
<1>4. requested' = requested /\ requested[c] \in Nat
  BY ManagerAssumption DEF AssignPort, PortShape
<1>5. \A b \in DOMAIN port : port'[b] = port[b]
  BY <1>1, <1>3 DEF AssignPort
<1>6. port'[c] = IF requested[c] = 0 \/ requested[c] \in Assigned
                 THEN OpenPort ELSE requested[c]
  BY DEF AssignPort
<1>7. port'[c] \in Int /\ port'[c] \notin Assigned
  BY <1>4, <1>6, OpenPortIsOpen
<1>8. PortShape'
  BY <1>1, <1>3, <1>4, <1>5, <1>7 DEF PortShape
<1>9. ASSUME NEW a \in DOMAIN port', NEW b \in DOMAIN port', a # b
      PROVE  port'[a] # port'[b]
  <2>1. \A d \in DOMAIN port : port'[d] = port[d] /\ port'[d] \in Assigned
    BY <1>5 DEF Assigned
  <2>2. \A d \in DOMAIN port' : d = c \/ d \in DOMAIN port
    BY <1>1, <1>3
  <2>3. CASE a = c \/ b = c
    BY <1>7, <1>9, <2>1, <2>2, <2>3
  <2>4. CASE a # c /\ b # c
    BY <1>9, <2>1, <2>2, <2>4 DEF PortsDistinct
  <2> QED BY <2>3, <2>4
<1>10. ASSUME NEW a \in DOMAIN port', requested'[a] \notin {0, port'[a]}
       PROVE  \E b \in DOMAIN port' : b < a /\ port'[b] = requested'[a]
  <2>1. CASE a = c
    <3>1. requested[c] \in Assigned
      BY <1>4, <1>6, <1>10, <2>1
    <3>2. PICK b \in DOMAIN port : port[b] = requested[c]
      BY <3>1 DEF Assigned
    <3> QED BY <1>1, <1>3, <1>4, <1>5, <2>1, <3>2
  <2>2. CASE a # c
    <3>1. a \in DOMAIN port
      BY <1>1, <1>3, <2>2
    <3>2. PICK b \in DOMAIN port : b < a /\ port[b] = requested[a]
      BY <1>4, <1>5, <1>10, <3>1 DEF PortsDistinct
    <3> QED BY <1>1, <1>3, <1>4, <1>5, <3>2
  <2> QED BY <2>1, <2>2
<1> QED BY <1>8, <1>9, <1>10 DEF PortsDistinct
-------------------------------------------------------------------------------
(* Delegated subscriptions.                                                *)

\* A call that was tracked is over and has, in the block it read first, what the
\* processor asks for; one that waits for the signature knows that in that block
\* the subscription does not exist.
CallShape ==
    /\ DelegatedTypeOK
    /\ \A r \in Calls :
         /\ d_head[r] \leq block
         /\ d_pc[r] \in {"exists", "recover", "signer"} => d_head[r] > 0
         /\ d_pc[r] \in {"recover", "signer"} => ~Exists(r)
    /\ \A d \in delegated : \E r \in Genuine :
         /\ Target[r] = d /\ d_pc[r] = "over" /\ d_head[r] > 0
         /\ ~Exists(r) /\ Registered(r)

LEMMA TrackedConsistent ==
    ASSUME CallShape
    PROVE  TrackedIsConsistent
<1>1. SUFFICES ASSUME NEW d \in delegated
               PROVE  \E b \in 1 .. block :
                        /\ CreatedAt[d] > b /\ RegisteredAt[d] \leq b
                        /\ \E r \in Genuine : Target[r] = d /\ d_head[r] = b
  BY DEF TrackedIsConsistent
<1>2. PICK r \in Genuine : /\ Target[r] = d /\ d_head[r] > 0
                           /\ ~Exists(r) /\ Registered(r)
  BY DEF CallShape
<1>3. r \in Calls /\ d \in Targets /\ CreatedAt[d] \in Nat
  BY DelegatedAssumption DEF CallShape, DelegatedTypeOK
<1>4. d_head[r] \in 1 .. block
  BY <1>2, <1>3 DEF CallShape, DelegatedTypeOK
<1> QED BY <1>2, <1>3, <1>4 DEF Exists, Registered

LEMMA BlockKeeps ==
    ASSUME CallShape, NewBlock
    PROVE  CallShape'
<1>1. block' \in 1 .. MaxBlock /\ block \leq block'
  BY DelegatedAssumption DEF CallShape, DelegatedTypeOK, NewBlock
<1>2. \A r \in Calls : d_head'[r] \leq block'
  BY <1>1, DelegatedAssumption DEF CallShape, DelegatedTypeOK, NewBlock
<1> QED BY <1>1, <1>2 DEF CallShape, DelegatedTypeOK, NewBlock, Exists, Registered

\* A step of a call, which touches no other call: those that led to an entry of the
\* table are over and stay as they are.
LEMMA CallKeeps ==
    ASSUME CallShape, NEW r \in Calls, Call(r) \/ CallStep(r)
    PROVE  CallShape'
<1>1. /\ block' = block
      /\ \A s \in Calls \ {r} : d_pc'[s] = d_pc[s] /\ d_head'[s] = d_head[s]
      /\ d_pc[r] # "over"
  BY DEF CallShape, DelegatedTypeOK, Call, CallStep, HeadRead, ExistsRead,
         SignerRecovered, SignerRead, ReadFails, To
<1>2. /\ d_pc' \in [Calls -> CallPcs] /\ d_head'[r] \in 0 .. block
      /\ d_head' \in [Calls -> 0 .. MaxBlock]
  BY DelegatedAssumption
     DEF CallShape, DelegatedTypeOK, CallPcs, Call, CallStep, HeadRead, ExistsRead,
         SignerRecovered, SignerRead, ReadFails, To
<1>3. \A s \in Calls \ {r} : /\ d_head'[s] \leq block'
                             /\ d_pc'[s] \in {"exists", "recover", "signer"} => d_head'[s] > 0
                             /\ d_pc'[s] \in {"recover", "signer"} => ~Exists(s)'
  BY <1>1 DEF CallShape, Exists
<1>4. /\ d_pc'[r] \in {"exists", "recover", "signer"} => d_head'[r] > 0
      /\ d_pc'[r] \in {"recover", "signer"} => ~Exists(r)'
  BY DEF CallShape, DelegatedTypeOK, Exists, Call, CallStep, HeadRead, ExistsRead,
         SignerRecovered, SignerRead, ReadFails, To
<1>5. \A d \in delegated : \E s \in Genuine :
        /\ Target[s] = d /\ d_pc'[s] = "over" /\ d_head'[s] > 0
        /\ ~Exists(s)' /\ Registered(s)'
  BY <1>1, DelegatedAssumption DEF CallShape, Exists, Registered
<1>6. \/ delegated' = delegated
      \/ /\ delegated' = delegated \cup {Target[r]} /\ r \in Genuine
         /\ d_pc'[r] = "over" /\ d_head'[r] > 0 /\ ~Exists(r)' /\ Registered(r)'
  BY DEF CallShape, DelegatedTypeOK, Exists, Registered, Call, CallStep, HeadRead,
         ExistsRead, SignerRecovered, SignerRead, ReadFails, To
<1>7. delegated' \subseteq Targets
  BY <1>6, DelegatedAssumption DEF CallShape, DelegatedTypeOK
<1>8. \A s \in Calls : /\ d_head'[s] \leq block'
                       /\ d_pc'[s] \in {"exists", "recover", "signer"} => d_head'[s] > 0
                       /\ d_pc'[s] \in {"recover", "signer"} => ~Exists(s)'
  BY <1>1, <1>2, <1>3, <1>4 DEF CallShape, DelegatedTypeOK
<1>9. \A d \in delegated' : \E s \in Genuine :
        /\ Target[s] = d /\ d_pc'[s] = "over" /\ d_head'[s] > 0
        /\ ~Exists(s)' /\ Registered(s)'
  BY <1>5, <1>6
<1>10. DelegatedTypeOK'
  BY <1>1, <1>2, <1>7 DEF CallShape, DelegatedTypeOK
<1> QED BY <1>8, <1>9, <1>10 DEF CallShape
-------------------------------------------------------------------------------
(* The container manager.                                                  *)

\* What the manager's setup keeps: a container started but not recorded is one whose
\* bring-up failed.
ManagerShape ==
    /\ managed \in BOOLEAN
    /\ m_pc \in ManagerPcs
    /\ pulls \subseteq Containers
    /\ c_pc \in [Containers -> BringUpPcs]
    /\ docker \in [Containers -> DockerStates]
    /\ recorded \subseteq Containers
    /\ started \subseteq recorded \cup {c \in Containers : c_pc[c] = "error"}
    /\ \A c \in Containers : c_pc[c] = "start" => c \in recorded
    /\ ~managed => m_pc \in {"off", "ready"} /\ started = {}
    /\ ~managed \/ m_pc \in {"off", "pull"} => \A c \in Containers : c_pc[c] = "idle"
    /\ managed /\ m_pc \in {"startup", "ready"} => \A c \in Containers : c_pc[c] = "done"

LEMMA ManagerSetupKeeps ==
    ASSUME ManagerShape, m_pc = "off", ManagerSetup
    PROVE  ManagerShape'
BY DEF ManagerShape, ManagerSetup, ManagerPcs

\* A bring-up goes on from one request to the next.
LEMMA BringUpKeeps ==
    ASSUME ManagerShape, NEW c \in Containers,
           \/ Inspected(c) \/ Restarted(c) \/ Created(c) \/ Renamed(c) \/ Launched(c)
    PROVE  ManagerShape'
<1>1. /\ managed /\ managed' = managed /\ pulls' = pulls
      /\ m_pc \notin {"off", "pull", "startup", "ready"}
      /\ c_pc[c] \notin {"idle", "done", "error"}
  BY DEF ManagerShape, Inspected, Restarted, Created, Renamed, Launched
<1>2. PICK pc \in BringUpPcs \ {"idle"} : c_pc' = [c_pc EXCEPT ![c] = pc]
  BY DEF BringUpPcs, Inspected, Restarted, Created, Renamed, Launched, Settle, BringUp
<1>3. c_pc' \in [Containers -> BringUpPcs]
  BY <1>2 DEF ManagerShape
<1>4. \/ m_pc' = m_pc \/ m_pc' = "failed"
      \/ m_pc' = "startup" /\ \A b \in Containers : c_pc'[b] = "done"
  BY DEF Inspected, Restarted, Created, Renamed, Launched, Settle
<1>5. /\ docker' \in [Containers -> DockerStates]
      /\ recorded \subseteq recorded' /\ recorded' \subseteq Containers
  BY DEF ManagerShape, DockerStates, Inspected, Restarted, Created, Renamed, Launched,
         Record, Run
<1>6. \/ started' = started
      \/ started' = started \cup {c} /\ (c \in recorded' \/ c_pc'[c] = "error")
  BY <1>5 DEF ManagerShape, Inspected, Restarted, Created, Renamed, Launched, Record,
              Run, Settle, BringUp
<1>7. c_pc'[c] = "start" => c \in recorded'
  BY <1>2 DEF ManagerShape, Inspected, Restarted, Created, Renamed, Launched, Record,
              Settle, BringUp
<1>8. \A b \in Containers \ {c} : c_pc'[b] = c_pc[b]
  BY <1>2 DEF ManagerShape
<1>9. started' \subseteq recorded' \cup {b \in Containers : c_pc'[b] = "error"}
  BY <1>1, <1>5, <1>6, <1>8 DEF ManagerShape
<1>10. \A b \in Containers : c_pc'[b] = "start" => b \in recorded'
  BY <1>5, <1>7, <1>8 DEF ManagerShape
<1>11. /\ m_pc' \in ManagerPcs \ {"off", "pull", "ready"}
       /\ m_pc' = "startup" => \A b \in Containers : c_pc'[b] = "done"
  BY <1>1, <1>4 DEF ManagerShape, ManagerPcs
<1> QED BY <1>1, <1>3, <1>5, <1>9, <1>10, <1>11 DEF ManagerShape

LEMMA ManagerStepKeeps ==
    ASSUME ManagerShape, ManagerStep
    PROVE  ManagerShape' /\ m_pc \notin {"off", "ready"}
<1>1. ASSUME NEW c \in Containers, PullEnds(c)
      PROVE  ManagerShape' /\ m_pc \notin {"off", "ready"}
  BY <1>1 DEF ManagerShape, PullEnds, ManagerPcs, BringUpPcs
<1>2. ASSUME NEW c \in Containers,
             \/ Inspected(c) \/ Restarted(c) \/ Created(c) \/ Renamed(c) \/ Launched(c)
      PROVE  ManagerShape' /\ m_pc \notin {"off", "ready"}
  <2>1. m_pc \notin {"off", "ready"}
    BY <1>2 DEF ManagerShape, Inspected, Restarted, Created, Renamed, Launched
  <2> QED BY <1>2, <2>1, BringUpKeeps
<1>3. CASE StartupOver
  BY <1>3 DEF ManagerShape, StartupOver, ManagerPcs
<1> QED BY <1>1, <1>2, <1>3 DEF ManagerStep
-------------------------------------------------------------------------------
(* The node.                                                               *)

LifeTypeOK ==
    /\ chain_enabled \in BOOLEAN
    /\ phase \in Phases
    /\ sync \in SetupStates /\ rest \in SetupStates
    /\ loop \in [Loops -> LoopStates]
    /\ down \in BOOLEAN
    /\ stops \in [Shutdowns -> SUBSET Containers]
    /\ answered \subseteq Containers
    /\ signals \in 0 .. MaxSignals
    /\ exit \in Exits

\* A loop runs, and a shutdown happens, only once all setups are done, which is when
\* no bring-up is left; the shutdown of a failing node has each recorded container
\* answered or still to answer.
LifeShape ==
    /\ LifeTypeOK
    /\ phase = "failing" <=> \E t \in Loops : loop[t] = "rejected"
    /\ phase = "startup" => m_pc = "off"
    /\ phase \in {"running", "failing"} => m_pc = "ready"
    /\ phase \in {"startup", "setup"} => \A t \in Loops : loop[t] = "off"
    /\ down => signals > 0 \/ phase = "failing"
    /\ phase = "failing" => ToStop \subseteq stops[Failure] \cup answered
    /\ exit = "failed" => phase = "failing" /\ stops[Failure] = {}
    /\ exit = "ok" => signals > 0 /\ phase # "failing"
    /\ exit = "killed" => phase \in {"startup", "setup"}

\* A handler that threw has ended the process.
ThrownEnds == \A r \in Calls : d_pc[r] = "thrown" => exit = "unhandled"

\* The inductive invariant.
NodeInv ==
    PortShape /\ PortsDistinct /\ CallShape /\ ManagerShape /\ LifeShape /\ ThrownEnds

LEMMA NodeInvImplies ==
    ASSUME NodeInv
    PROVE  TypeOK /\ PortsDistinct /\ FailureStopsStarted /\ ExitTellsWhy /\ TrackedIsConsistent
<1>1. \A k \in 0 .. N : 1 .. k \subseteq Containers
  BY ManagerAssumption DEF Containers
<1>2. ManagerTypeOK
  BY <1>1 DEF NodeInv, PortShape, ManagerShape, ManagerTypeOK
<1>3. TypeOK
  BY <1>2 DEF NodeInv, CallShape, LifeShape, LifeTypeOK, ManagerShape, TypeOK
<1>4. ASSUME exit = "failed" PROVE started \subseteq answered
  <2>1. m_pc = "ready" /\ ToStop \subseteq answered
    BY <1>4 DEF NodeInv, LifeShape
  <2>2. CASE managed
    BY <2>1, <2>2 DEF NodeInv, ManagerShape, ToStop
  <2>3. CASE ~managed
    BY <2>3 DEF NodeInv, ManagerShape
  <2> QED BY <2>2, <2>3
<1>5. ExitTellsWhy
  <2>1. (\E t \in Loops : loop[t] = "rejected") => exit \in {"alive", "failed", "unhandled"}
    BY DEF NodeInv, LifeShape, LifeTypeOK, Exits
  <2> QED BY <2>1 DEF NodeInv, LifeShape, ThrownEnds, ExitTellsWhy
<1> QED BY <1>3, <1>4, <1>5, TrackedConsistent DEF NodeInv, FailureStopsStarted

LEMMA NodeInvInit ==
    ASSUME Init
    PROVE  NodeInv
<1>1. PortShape /\ PortsDistinct
  <2>1. DOMAIN port = 1 .. 0 /\ 0 \in 0 .. N
    BY ManagerAssumption DEF Init, ManagerInit
  <2> QED BY <2>1 DEF Init, ManagerInit, PortShape, PortsDistinct
<1>2. CallShape
  BY DelegatedAssumption DEF Init, DelegatedInit, CallShape, DelegatedTypeOK, CallPcs
<1>3. ManagerShape
  BY ManagerAssumption DEF Init, ManagerInit, ManagerShape, ManagerPcs, BringUpPcs
<1>4. LifeShape
  <2>1. /\ phase = "startup" /\ exit = "alive" /\ ~down /\ m_pc = "off"
        /\ \A t \in Loops : loop[t] = "off"
    BY DEF Init, ManagerInit
  <2>2. 0 \in 0 .. MaxSignals
    BY LifecycleAssumption
  <2>3. loop \in [Loops -> LoopStates] /\ stops \in [Shutdowns -> SUBSET Containers]
    BY DEF Init, LoopStates
  <2>4. LifeTypeOK
    BY <2>2, <2>3 DEF Init, LifeTypeOK, Phases, SetupStates, Exits
  <2> QED BY <2>1, <2>4 DEF LifeShape
<1>5. ThrownEnds
  BY DEF Init, DelegatedInit, ThrownEnds
<1> QED BY <1>1, <1>2, <1>3, <1>4, <1>5 DEF NodeInv

\* Ports, calls and the manager depend on their own variables only.
LEMMA PortsFrame ==
    ASSUME PortShape, PortsDistinct, UNCHANGED ports PROVE PortShape' /\ PortsDistinct'
BY DEF PortShape, PortsDistinct, ports

LEMMA CallsFrame ==
    ASSUME CallShape, UNCHANGED calls PROVE CallShape'
BY DEF CallShape, DelegatedTypeOK, Exists, Registered, calls

LEMMA ManagerFrame ==
    ASSUME ManagerShape, UNCHANGED manager PROVE ManagerShape'
BY DEF ManagerShape, manager

LEMMA LifeFrame ==
    ASSUME LifeShape, UNCHANGED lifecycle, m_pc' = m_pc, managed' = managed,
           recorded' = recorded
    PROVE  LifeShape'
BY DEF LifeShape, LifeTypeOK, ToStop, lifecycle

LEMMA ThrownFrame ==
    ASSUME ThrownEnds, UNCHANGED calls, exit = "alive" \/ exit' = exit
    PROVE  ThrownEnds'
BY DEF ThrownEnds, calls

\* What a step of the life cycle alone may disturb is LifeShape.
LEMMA LifeOnly ==
    ASSUME NodeInv, UNCHANGED <<ports, manager, calls>>, LifeShape',
           exit = "alive" \/ exit' = exit
    PROVE  NodeInv'
BY ThrownFrame, PortsFrame, CallsFrame, ManagerFrame DEF NodeInv, ports, manager, calls

LEMMA SetupKeeps ==
    ASSUME NodeInv, AssignPorts \/ Setup \/ ManagerSets
    PROVE  NodeInv'
<1>1. CASE AssignPorts
  <2>1. UNCHANGED <<manager, calls, lifecycle>> /\ m_pc' = m_pc /\ managed' = managed
        /\ recorded' = recorded
    BY <1>1 DEF AssignPorts, AssignPort, manager
  <2>2. PortShape' /\ PortsDistinct'
    BY <1>1, AssignKeeps DEF AssignPorts, NodeInv
  <2> QED BY <2>1, <2>2, CallsFrame, ManagerFrame, LifeFrame, ThrownFrame
         DEF NodeInv, lifecycle
<1>2. CASE Setup
  <2>1. ManagerShape'
    BY <1>2, ManagerSetupKeeps DEF Setup, NodeInv, LifeShape
  <2>2. LifeShape'
    BY <1>2 DEF Setup, NodeInv, LifeShape, LifeTypeOK, Phases, SetupStates
  <2>3. UNCHANGED <<ports, calls, exit>>
    BY <1>2 DEF Setup
  <2> QED BY <2>1, <2>2, <2>3, PortsFrame, CallsFrame, ThrownFrame DEF NodeInv
<1>3. CASE ManagerSets
  <2>1. ManagerShape' /\ m_pc \notin {"off", "ready"}
    BY <1>3, ManagerStepKeeps DEF ManagerSets, NodeInv
  <2>2. LifeShape'
    BY <1>3, <2>1 DEF ManagerSets, NodeInv, LifeShape, LifeTypeOK, lifecycle
  <2>3. UNCHANGED <<ports, calls, exit>>
    BY <1>3 DEF ManagerSets, lifecycle
  <2> QED BY <2>1, <2>2, <2>3, PortsFrame, CallsFrame, ThrownFrame DEF NodeInv
<1> QED BY <1>1, <1>2, <1>3

LEMMA RunKeeps ==
    ASSUME NodeInv, ListenerSets \/ RestSets \/ RunAll \/ FailureExit \/ Signal \/ Unhandled
    PROVE  NodeInv'
<1>1. UNCHANGED <<ports, manager, calls>> /\ exit = "alive"
  BY DEF ListenerSets, RestSets, RunAll, FailureExit, Signal, Unhandled, Alive
<1>2. UNCHANGED <<m_pc, managed, recorded>>
  BY <1>1 DEF manager
<1> SUFFICES LifeShape'
  BY <1>1, LifeOnly
<1>3. CASE ListenerSets \/ RestSets
  BY <1>2, <1>3 DEF ListenerSets, RestSets, NodeInv, LifeShape, LifeTypeOK, SetupStates, ToStop
<1>4. CASE RunAll
  BY <1>2, <1>4 DEF RunAll, Alive, NodeInv, LifeShape, LifeTypeOK, Phases, LoopStates
<1>5. CASE FailureExit
  BY <1>2, <1>5 DEF FailureExit, Alive, NodeInv, LifeShape, LifeTypeOK, Exits, ToStop
<1>6. CASE Signal
  <2>1. /\ signals + 1 \in Shutdowns /\ signals + 1 # Failure /\ Failure \in Shutdowns
        /\ ToStop' = ToStop /\ ToStop \subseteq Containers
    BY <1>2, <1>6, LifecycleAssumption
       DEF Signal, Shutdowns, Failure, NodeInv, LifeShape, LifeTypeOK, ManagerShape, ToStop
  <2>2. signals < MaxSignals /\ (signals' = signals \/ signals' = signals + 1)
    BY <1>6 DEF Signal
  <2>3. signals' \in 0 .. MaxSignals /\ (signals > 0 => signals' > 0)
    BY <2>2, LifecycleAssumption DEF NodeInv, LifeShape, LifeTypeOK
  <2>4. \/ UNCHANGED <<stops, down>>
        \/ down' = TRUE /\ stops' = [stops EXCEPT ![signals + 1] = ToStop] /\ signals' > 0
    BY <1>6, LifecycleAssumption DEF Signal, Shutdown, NodeInv, LifeShape, LifeTypeOK
  <2>5. /\ stops' \in [Shutdowns -> SUBSET Containers] /\ stops'[Failure] = stops[Failure]
        /\ down' \in BOOLEAN /\ (down' => signals' > 0 \/ phase = "failing")
    <3>1. CASE UNCHANGED <<stops, down>>
      BY <2>3, <3>1 DEF NodeInv, LifeShape, LifeTypeOK
    <3>2. CASE down' = TRUE /\ stops' = [stops EXCEPT ![signals + 1] = ToStop] /\ signals' > 0
      <4>1. stops \in [Shutdowns -> SUBSET Containers]
        BY DEF NodeInv, LifeShape, LifeTypeOK
      <4> QED BY <2>1, <3>2, <4>1
    <3> QED BY <2>4, <3>1, <3>2
  <2>6. /\ UNCHANGED <<chain_enabled, phase, sync, rest, loop, answered>>
        /\ exit = "alive"
        /\ exit' = "alive" \/ (exit' = "killed" /\ phase \in {"startup", "setup"})
    <3>1. phase \in Phases
      BY DEF NodeInv, LifeShape, LifeTypeOK
    <3>2. exit' = exit \/ (exit' = "killed" /\ phase \notin {"running", "failing"})
      BY <1>6 DEF Signal
    <3>3. UNCHANGED <<chain_enabled, phase, sync, rest, loop, answered>> /\ exit = "alive"
      BY <1>6 DEF Signal, Alive
    <3> QED BY <3>1, <3>2, <3>3 DEF Phases
  <2> QED BY <1>2, <2>1, <2>3, <2>5, <2>6 DEF NodeInv, LifeShape, LifeTypeOK, Exits
<1>7. CASE Unhandled
  BY <1>2, <1>7 DEF Unhandled, Alive, NodeInv, LifeShape, LifeTypeOK, Exits, ToStop
<1> QED BY <1>3, <1>4, <1>5, <1>6, <1>7

LEMMA LoopKeeps ==
    ASSUME NodeInv, NEW t \in Loops, LoopStep(t) \/ Throws(t)
    PROVE  NodeInv'
<1>1. UNCHANGED <<ports, manager, calls>> /\ exit = "alive"
  BY DEF LoopStep, LoopReturns, LoopFails, Throws, Alive
<1>2. ToStop' = ToStop /\ m_pc' = m_pc /\ ToStop \subseteq Containers /\ Failure \in Shutdowns
  BY <1>1, LifecycleAssumption DEF manager, ToStop, NodeInv, ManagerShape, Failure, Shutdowns
<1>3. phase \in {"running", "failing"}
  BY DEF LoopStep, LoopReturns, LoopFails, Throws, NodeInv, LifeShape, LifeTypeOK, Phases
<1> SUFFICES LifeShape'
  BY <1>1, LifeOnly
<1>4. CASE LoopReturns(t)
  <2>1. /\ loop' = [loop EXCEPT ![t] = "returned"] /\ loop[t] = "running"
        /\ loop \in [Loops -> LoopStates] /\ exit = "alive"
        /\ UNCHANGED <<chain_enabled, phase, sync, rest, down, stops, answered, signals>>
    BY <1>4 DEF LoopReturns, Alive, NodeInv, LifeShape, LifeTypeOK
  <2>2. /\ loop' \in [Loops -> LoopStates]
        /\ \A u \in Loops : loop'[u] = "rejected" <=> loop[u] = "rejected"
    BY <2>1 DEF LoopStates
  <2>3. exit' = "ok" => signals > 0 /\ phase # "failing"
    BY <1>4, <2>1, <2>2 DEF LoopReturns, AllReturned, SeesShutdown, NodeInv, LifeShape
  <2>4. exit' \in {"ok", "alive"}
    BY <1>4, <2>1 DEF LoopReturns
  <2> QED BY <1>2, <1>3, <2>1, <2>2, <2>3, <2>4 DEF NodeInv, LifeShape, LifeTypeOK, Exits
<1>5. CASE Throws(t)
  <2>1. /\ loop' = [loop EXCEPT ![t] = "rejected"]
        /\ loop \in [Loops -> LoopStates] /\ exit = "alive" /\ exit' = "alive"
        /\ phase' = "failing"
        /\ UNCHANGED <<chain_enabled, sync, rest, answered, signals>>
    BY <1>5 DEF Throws, Alive, NodeInv, LifeShape, LifeTypeOK
  <2>2. loop' \in [Loops -> LoopStates] /\ loop'[t] = "rejected"
    BY <2>1 DEF LoopStates
  <2>3. /\ stops' \in [Shutdowns -> SUBSET Containers] /\ down' \in BOOLEAN
        /\ ToStop \subseteq stops'[Failure] \cup answered
    BY <1>2, <1>3, <1>5 DEF Throws, Shutdown, NodeInv, LifeShape, LifeTypeOK
  <2> QED BY <1>2, <1>3, <2>1, <2>2, <2>3 DEF NodeInv, LifeShape, LifeTypeOK, Phases, Exits
<1> QED BY <1>4, <1>5 DEF LoopStep, LoopFails

LEMMA AnswerKeeps ==
    ASSUME NodeInv, NEW r \in Shutdowns, NEW c \in Containers, StopAnswered(r, c)
    PROVE  NodeInv'
<1>1. ManagerShape'
  BY DEF StopAnswered, StopEnds, NodeInv, ManagerShape, DockerStates
<1>2. ToStop' = ToStop /\ m_pc' = m_pc /\ Failure \in Shutdowns
  BY LifecycleAssumption DEF StopAnswered, StopEnds, ToStop, Failure, Shutdowns
<1>3. /\ stops' \in [Shutdowns -> SUBSET Containers]
      /\ stops'[Failure] \subseteq stops[Failure]
      /\ stops[Failure] \cup answered \subseteq stops'[Failure] \cup answered'
      /\ answered' \subseteq Containers
  BY <1>2 DEF StopAnswered, NodeInv, LifeShape, LifeTypeOK
<1>4. LifeShape'
  BY <1>2, <1>3 DEF StopAnswered, Alive, NodeInv, LifeShape, LifeTypeOK
<1>5. UNCHANGED <<ports, calls, exit>>
  BY DEF StopAnswered
<1> QED BY <1>1, <1>4, <1>5, PortsFrame, CallsFrame, ThrownFrame DEF NodeInv

LEMMA RequestKeeps ==
    ASSUME NodeInv,
           \/ \E r \in Calls : DelegatedRequest(r) \/ DelegatedStep(r)
           \/ ChainMoves
    PROVE  NodeInv'
<1>1. UNCHANGED <<ports, manager>> /\ UNCHANGED <<m_pc, managed, recorded>>
  BY DEF DelegatedRequest, DelegatedStep, ChainMoves, manager
<1>2. CallShape'
  BY CallKeeps, BlockKeeps DEF DelegatedRequest, DelegatedStep, ChainMoves, NodeInv
<1>3. /\ UNCHANGED <<chain_enabled, phase, sync, rest, loop, down, stops, answered, signals>>
      /\ exit = "alive" /\ exit' \in {"alive", "unhandled"}
  BY DEF DelegatedRequest, DelegatedStep, ChainMoves, lifecycle, Alive
<1>4. LifeShape'
  BY <1>1, <1>3 DEF NodeInv, LifeShape, LifeTypeOK, Exits, ToStop
<1>5. ThrownEnds'
  <2>1. \A r \in Calls : d_pc[r] # "thrown"
    BY <1>3 DEF NodeInv, ThrownEnds
  <2>2. CASE ChainMoves
    BY <2>1, <2>2 DEF ChainMoves, NewBlock, ThrownEnds
  <2>3. ASSUME NEW r \in Calls, DelegatedRequest(r) PROVE ThrownEnds'
    <3>1. d_pc' = [d_pc EXCEPT ![r] = "head"] /\ d_pc \in [Calls -> CallPcs]
      BY <2>3 DEF DelegatedRequest, Call, To, NodeInv, CallShape, DelegatedTypeOK
    <3> QED BY <2>1, <3>1 DEF ThrownEnds
  <2>4. ASSUME NEW r \in Calls, DelegatedStep(r) PROVE ThrownEnds'
    <3>1. \A q \in Calls \ {r} : d_pc'[q] = d_pc[q]
      BY <2>4 DEF DelegatedStep, CallStep, HeadRead, ExistsRead, SignerRecovered,
                  SignerRead, ReadFails, To, NodeInv, CallShape, DelegatedTypeOK
    <3> QED BY <2>1, <2>4, <3>1 DEF DelegatedStep, ThrownEnds
  <2> QED BY <2>2, <2>3, <2>4
<1> QED BY <1>1, <1>2, <1>4, <1>5, PortsFrame, ManagerFrame DEF NodeInv

\* Whatever the configuration and the order of events: the types; ports that differ;
\* containers stopped before the node ends in failure; exit codes that tell why; and
\* tracked delegated subscriptions that were registered, not created, in one block.
THEOREM NodeSafe ==
    Spec => [](TypeOK /\ PortsDistinct /\ FailureStopsStarted /\ ExitTellsWhy
               /\ TrackedIsConsistent)
<1>1. Init => NodeInv
  BY NodeInvInit
<1>2. NodeInv /\ [Next]_vars => NodeInv'
  <2>1. SUFFICES ASSUME NodeInv, [Next]_vars PROVE NodeInv'
    OBVIOUS
  <2>2. CASE AssignPorts \/ Setup \/ ManagerSets
    BY <2>1, <2>2, SetupKeeps
  <2>3. CASE ListenerSets \/ RestSets \/ RunAll \/ FailureExit \/ Signal \/ Unhandled
    BY <2>1, <2>3, RunKeeps
  <2>4. CASE (\E t \in Loops : LoopStep(t)) \/ DelegatedPass
    BY <2>1, <2>4, LoopKeeps DEF DelegatedPass, Loops
  <2>5. CASE \E r \in Shutdowns, c \in Containers : StopAnswered(r, c)
    BY <2>1, <2>5, AnswerKeeps
  <2>6. CASE (\E r \in Calls : DelegatedRequest(r) \/ DelegatedStep(r)) \/ ChainMoves
    BY <2>1, <2>6, RequestKeeps
  <2>7. CASE UNCHANGED vars
    <3>1. UNCHANGED <<ports, manager, calls>> /\ UNCHANGED lifecycle
          /\ m_pc' = m_pc /\ managed' = managed /\ recorded' = recorded
      BY <2>7 DEF vars, manager
    <3> QED BY <2>1, <3>1, LifeOnly, LifeFrame DEF NodeInv, lifecycle
  <2> QED BY <2>1, <2>2, <2>3, <2>4, <2>5, <2>6, <2>7 DEF Next
<1>3. NodeInv => TypeOK /\ PortsDistinct /\ FailureStopsStarted /\ ExitTellsWhy
                 /\ TrackedIsConsistent
  BY NodeInvImplies
<1> QED BY <1>1, <1>2, <1>3, PTL DEF Spec
===============================================================================
