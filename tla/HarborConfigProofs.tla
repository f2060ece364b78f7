------------------------- MODULE HarborConfigProofs -------------------------
(***************************************************************************)
(* For any number of remotes and of pods: a project proxies its own        *)
(* remote, and what is missing after success was refused in that pod.      *)
(***************************************************************************)
EXTENDS HarborConfig, FiniteSetTheorems, TLAPS

\* The remotes that have a registry.
Registered == {i \in 1..Remotes : ids[i] # 0}

Types ==
    /\ ids \in [1..Remotes -> Nat] /\ nextId \in Nat
    /\ proxies \in [1..Remotes -> Nat] /\ robot \in BOOLEAN
    /\ pc \in 1..(RobotCall + 1)
    /\ read \in [1..Remotes -> Nat]
    /\ retries \in 0..(BackoffLimit + 1)
    /\ job \in {"running", "complete", "failed"}
    /\ job = "running" => retries <= BackoffLimit
    /\ job = "complete" => pc = RobotCall + 1
    /\ passed \subseteq 1..RobotCall

\* Identifiers are given in order, one per registry.
IdsInOrder ==
    /\ nextId = Cardinality(Registered) + 1
    /\ \A i \in 1..Remotes : ids[i] < nextId

\* What the script has read is still so: registries are never removed.
ReadHolds == \A i \in 1..Remotes : read[i] # 0 => read[i] = ids[i]

\* What this pod has been past and Harbor does not have, Harbor refused.
PassedMeansRefused ==
    /\ \A i \in 1..Remotes : i < pc /\ ids[i] = 0 => i \in passed
    /\ pc > ListCall => \A i \in 1..Remotes : read[i] = 0 => i \in passed
    /\ \A i \in 1..Remotes :
           ProjectCall(i) < pc /\ proxies[i] = 0 => passed \cap {i, ProjectCall(i)} # {}

IInv == Types /\ IdsInOrder /\ ReadHolds /\ ProxiesOwnRemote /\ PassedMeansRefused

-----------------------------------------------------------------------------
\* The calls follow each other in the script's order.
LEMMA CallOrder ==
    /\ ListCall = Remotes + 1 /\ RobotCall = 2 * Remotes + 2
    /\ \A i \in 1..Remotes : ProjectCall(i) = Remotes + 1 + i
BY RemotesAssumption DEF ListCall, RobotCall, ProjectCall

\* There are at most as many registries as remotes.
LEMMA RegisteredBounded ==
    /\ IsFiniteSet(Registered)
    /\ Cardinality(Registered) \in Nat /\ Cardinality(Registered) <= Remotes
<1>1. IsFiniteSet(1..Remotes) /\ Cardinality(1..Remotes) = Remotes
    BY RemotesAssumption, FS_Interval
<1>2. Registered \subseteq 1..Remotes  BY DEF Registered
<1>3. IsFiniteSet(Registered) /\ Cardinality(Registered) <= Cardinality(1..Remotes)
    BY <1>1, <1>2, FS_Subset
<1> QED  BY <1>1, <1>3, FS_CardinalityType

\* Before any registry, the next identifier is the first.
LEMMA NoneRegistered ==
    ASSUME ids = None
    PROVE  Cardinality(Registered) = 0
<1>1. Registered = {}  BY DEF Registered, None
<1> QED  BY <1>1, FS_EmptySet

\* Making a registry gives it the next identifier.
LEMMA OneMoreRegistered ==
    ASSUME Types, IdsInOrder, NEW i \in 1..Remotes, ids[i] = 0,
           ids' = [ids EXCEPT ![i] = nextId], nextId' = nextId + 1
    PROVE  IdsInOrder' /\ nextId' <= Remotes + 1
<1>1. nextId # 0  BY RegisteredBounded DEF IdsInOrder
<1>2. Registered' = Registered \cup {i} /\ i \notin Registered
    BY <1>1 DEF Registered, Types
<1>3. Cardinality(Registered') = Cardinality(Registered) + 1
    BY <1>2, RegisteredBounded, FS_AddElement
<1>4. \A j \in 1..Remotes : ids'[j] < nextId'
    BY DEF IdsInOrder, Types
<1>5. IdsInOrder'  BY <1>3, <1>4 DEF IdsInOrder
<1>6. Cardinality(Registered) + 1 <= Remotes
    <2>1. Registered' \subseteq 1..Remotes  BY <1>2 DEF Registered
    <2>2. IsFiniteSet(1..Remotes) /\ Cardinality(1..Remotes) = Remotes
        BY RemotesAssumption, FS_Interval
    <2>3. Cardinality(Registered') <= Remotes  BY <2>1, <2>2, FS_Subset
    <2> QED  BY <1>3, <2>3
<1> QED  BY <1>5, <1>6, RegisteredBounded, RemotesAssumption DEF IdsInOrder

LEMMA TypesGive == IInv => TypeOK
<1> SUFFICES ASSUME IInv PROVE TypeOK
    OBVIOUS
<1>1. nextId \in 1..(Remotes + 1)
    BY RegisteredBounded, RemotesAssumption DEF IInv, IdsInOrder
<1>2. \A i \in 1..Remotes : ids[i] \in 0..Remotes
    BY <1>1, RemotesAssumption DEF IInv, IdsInOrder, Types
<1>3. 0 \in 0..Remotes  BY RemotesAssumption
<1>4. \A i \in 1..Remotes : proxies[i] \in 0..Remotes
    BY <1>2, <1>3 DEF IInv, ProxiesOwnRemote
<1>5. \A i \in 1..Remotes : read[i] \in 0..Remotes
    BY <1>2, <1>3 DEF IInv, ReadHolds
<1> QED  BY <1>1, <1>2, <1>4, <1>5 DEF IInv, Types, TypeOK

LEMMA RefusedGive == IInv => MissingWasRefused
<1> SUFFICES ASSUME IInv, job = "complete", NEW i \in 1..Remotes, proxies[i] = 0
             PROVE  passed \cap {i, ProjectCall(i)} # {}
    BY DEF MissingWasRefused
<1>1. ProjectCall(i) < pc  BY CallOrder, RemotesAssumption DEF IInv, Types
<1> QED  BY <1>1 DEF IInv, PassedMeansRefused

LEMMA InitIInv == Init => IInv
<1> SUFFICES ASSUME Init PROVE IInv
    OBVIOUS
<1>1. robot \in BOOLEAN  BY DEF Init
<1>2. Types
    BY <1>1, CallOrder, RemotesAssumption, BackoffAssumption DEF Init, Types, None
<1>3. IdsInOrder  BY NoneRegistered DEF Init, IdsInOrder, None
<1>4. ReadHolds /\ ProxiesOwnRemote  BY DEF Init, ReadHolds, ProxiesOwnRemote, None
<1>5. PassedMeansRefused
    BY CallOrder, RemotesAssumption DEF Init, PassedMeansRefused
<1> QED  BY <1>2, <1>3, <1>4, <1>5 DEF IInv

-----------------------------------------------------------------------------
\* Harbor does what it is asked, whatever becomes of the pod: what it has of a
\* remote stays, and a new project proxies the registry that was read.
LEMMA MadeKeeps ==
    ASSUME IInv, Made \/ UNCHANGED server
    PROVE  /\ ids' \in [1..Remotes -> Nat] /\ nextId' \in Nat
           /\ proxies' \in [1..Remotes -> Nat] /\ robot' \in BOOLEAN
           /\ IdsInOrder' /\ ProxiesOwnRemote'
           /\ \A i \in 1..Remotes : /\ ids[i] # 0 => ids'[i] = ids[i]
                                    /\ proxies[i] # 0 => proxies'[i] = proxies[i]
<1> USE DEF IInv
<1>1. CASE UNCHANGED server
    BY <1>1 DEF server, Types, IdsInOrder, Registered, ProxiesOwnRemote
<1>2. CASE MakeRobot
    <2>1. robot' \in BOOLEAN  BY <1>2 DEF MakeRobot
    <2> QED  BY <1>2, <2>1 DEF MakeRobot, Types, IdsInOrder, Registered, ProxiesOwnRemote
<1>3. ASSUME NEW i \in 1..Remotes, MakeRegistry(i) PROVE
           /\ ids' \in [1..Remotes -> Nat] /\ nextId' \in Nat
           /\ proxies' \in [1..Remotes -> Nat] /\ robot' \in BOOLEAN
           /\ IdsInOrder' /\ ProxiesOwnRemote'
           /\ \A j \in 1..Remotes : /\ ids[j] # 0 => ids'[j] = ids[j]
                                    /\ proxies[j] # 0 => proxies'[j] = proxies[j]
    <2>1. IdsInOrder'  BY <1>3, OneMoreRegistered DEF MakeRegistry
    <2>2. ProxiesOwnRemote'  BY <1>3 DEF MakeRegistry, ProxiesOwnRemote, Types
    <2> QED  BY <1>3, <2>1, <2>2 DEF MakeRegistry, Types
<1>4. ASSUME NEW i \in 1..Remotes, MakeProject(i) PROVE
           /\ ids' \in [1..Remotes -> Nat] /\ nextId' \in Nat
           /\ proxies' \in [1..Remotes -> Nat] /\ robot' \in BOOLEAN
           /\ IdsInOrder' /\ ProxiesOwnRemote'
           /\ \A j \in 1..Remotes : /\ ids[j] # 0 => ids'[j] = ids[j]
                                    /\ proxies[j] # 0 => proxies'[j] = proxies[j]
    <2>1. IdsInOrder'  BY <1>4 DEF MakeProject, IdsInOrder, Registered
    <2>2. ProxiesOwnRemote'
        BY <1>4 DEF MakeProject, ProxiesOwnRemote, ReadHolds, Types
    <2> QED  BY <1>4, <2>1, <2>2 DEF MakeProject, Types
<1> QED  BY <1>1, <1>2, <1>3, <1>4 DEF Made

\* What the script has been past when a call is answered: the call is made, is
\* futile, or is refused and noted.
LEMMA AnsweredIInv ==
    ASSUME IInv, CallMakes \/ CallFutile \/ CallRefused
    PROVE  IInv'
<1> USE DEF IInv
<1>1. pc' = pc + 1 /\ job = "running" /\ UNCHANGED <<retries, job, read>>
    BY DEF CallMakes, CallFutile, CallRefused, Answered
<1>2. Made \/ UNCHANGED server
    BY DEF CallMakes, CallFutile, CallRefused
<1>3. pc <= RobotCall /\ pc # ListCall
    BY CallOrder, RemotesAssumption
       DEF CallMakes, CallFutile, CallRefused, Made, MakeRobot, MakeRegistry,
           MakeProject, Futile
<1>0. /\ pc \in Nat /\ pc >= 1 /\ RobotCall \in Nat /\ ListCall \in Nat
      /\ \A i \in 1..Remotes : ProjectCall(i) \in Nat
    BY CallOrder, RemotesAssumption DEF Types
<1>4. passed \subseteq passed' /\ passed' \subseteq 1..RobotCall
    <2>1. pc \in 1..RobotCall  BY <1>0, <1>3
    <2>2. passed' = passed \/ passed' = passed \cup {pc}
        BY DEF CallMakes, CallFutile, CallRefused
    <2>3. passed \subseteq 1..RobotCall  BY DEF Types
    <2> QED  BY <2>1, <2>2, <2>3
<1>5. Types'
    <2>1. pc' \in 1..(RobotCall + 1)  BY <1>0, <1>1, <1>3
    <2>2. job' = "running" /\ retries' <= BackoffLimit
          /\ retries' \in 0..(BackoffLimit + 1) /\ read' \in [1..Remotes -> Nat]
        BY <1>1 DEF Types
    <2>3. /\ ids' \in [1..Remotes -> Nat] /\ nextId' \in Nat
          /\ proxies' \in [1..Remotes -> Nat] /\ robot' \in BOOLEAN
        BY <1>2, MadeKeeps
    <2> QED  BY <2>1, <2>2, <2>3, <1>4 DEF Types
<1>6. ReadHolds'  BY <1>1, <1>2, MadeKeeps DEF ReadHolds
<1>7. ASSUME NEW i \in 1..Remotes, pc = i, ids'[i] = 0
      PROVE  i \in passed'
    <2>1. CASE CallMakes
        <3>1. MakeRegistry(i)
            BY <1>7, <2>1, CallOrder, RemotesAssumption
               DEF CallMakes, Made, MakeRobot, MakeRegistry, MakeProject
        <3>2. nextId # 0  BY RegisteredBounded DEF IdsInOrder
        <3> QED  BY <1>7, <3>1, <3>2 DEF MakeRegistry, Types
    <2>2. CASE CallFutile
        BY <1>7, <2>2, CallOrder, RemotesAssumption DEF CallFutile, Futile, server
    <2>3. CASE CallRefused  BY <1>7, <2>3 DEF CallRefused
    <2> QED  BY <2>1, <2>2, <2>3
<1>8. ASSUME NEW i \in 1..Remotes, pc = ProjectCall(i), proxies'[i] = 0
      PROVE  passed' \cap {i, ProjectCall(i)} # {}
    <2>1. CASE CallMakes
        <3>1. MakeProject(i)
            BY <1>8, <2>1, CallOrder, RemotesAssumption
               DEF CallMakes, Made, MakeRobot, MakeRegistry, MakeProject
        <3> QED  BY <1>8, <3>1 DEF MakeProject, Types
    <2>2. CASE CallFutile
        <3>1. read[i] = 0
            BY <1>8, <2>2, CallOrder, RemotesAssumption DEF CallFutile, Futile, server
        <3>2. i \in passed
            BY <1>8, <3>1, CallOrder, RemotesAssumption DEF PassedMeansRefused
        <3> QED  BY <3>2, <1>4
    <2>3. CASE CallRefused  BY <1>8, <2>3 DEF CallRefused
    <2> QED  BY <2>1, <2>2, <2>3
<1>9. PassedMeansRefused'
    <2>1. ASSUME NEW i \in 1..Remotes, i < pc', ids'[i] = 0 PROVE i \in passed'
        <3>1. ids[i] = 0  BY <2>1, <1>2, MadeKeeps
        <3>2. i < pc \/ pc = i  BY <2>1, <1>1 DEF Types
        <3> QED  BY <2>1, <3>1, <3>2, <1>4, <1>7 DEF PassedMeansRefused
    <2>2. ASSUME pc' > ListCall, NEW i \in 1..Remotes, read'[i] = 0 PROVE i \in passed'
        <3>1. pc > ListCall  BY <2>2, <1>1, <1>3, CallOrder, RemotesAssumption DEF Types
        <3> QED  BY <2>2, <3>1, <1>1, <1>4 DEF PassedMeansRefused
    <2>3. ASSUME NEW i \in 1..Remotes, ProjectCall(i) < pc', proxies'[i] = 0
          PROVE  passed' \cap {i, ProjectCall(i)} # {}
        <3>1. proxies[i] = 0  BY <2>3, <1>2, MadeKeeps
        <3>2. ProjectCall(i) < pc \/ pc = ProjectCall(i)
            <4>1. ProjectCall(i) \in Nat /\ pc \in Nat /\ ProjectCall(i) < pc + 1
                BY <2>3, <1>0, <1>1
            <4> QED  BY <4>1
        <3>3. CASE ProjectCall(i) < pc
            <4>1. passed \cap {i, ProjectCall(i)} # {}
                BY <3>1, <3>3 DEF PassedMeansRefused
            <4> QED  BY <4>1, <1>4
        <3> QED  BY <2>3, <3>2, <3>3, <1>8
    <2> QED  BY <2>1, <2>2, <2>3, CallOrder DEF PassedMeansRefused, ListCall, ProjectCall
<1> QED  BY <1>2, <1>5, <1>6, <1>9, MadeKeeps

LEMMA ListReadIInv == IInv /\ ListRead => IInv'
<1> SUFFICES ASSUME IInv, ListRead PROVE IInv'
    OBVIOUS
<1> USE DEF IInv
<1>1. pc = ListCall /\ pc' = pc + 1 /\ read' = ids /\ UNCHANGED <<retries, job, passed>>
    BY DEF ListRead, Answered
<1>2. UNCHANGED server  BY DEF ListRead
<1>3. Types'
    BY <1>1, <1>2, CallOrder, RemotesAssumption DEF Types, server, ListRead, Answered
<1>4. IdsInOrder' /\ ProxiesOwnRemote' /\ ReadHolds'
    BY <1>1, <1>2, MadeKeeps DEF ReadHolds, server
<1>5. PassedMeansRefused'
    BY <1>1, <1>2, CallOrder, RemotesAssumption DEF PassedMeansRefused, server, ListCall, ProjectCall
<1> QED  BY <1>3, <1>4, <1>5

LEMMA CallBreaksIInv == IInv /\ CallBreaks => IInv'
<1> SUFFICES ASSUME IInv, CallBreaks PROVE IInv'
    OBVIOUS
<1> USE DEF IInv
<1>1. pc' = 1 /\ read' = None /\ passed' = {}  BY DEF CallBreaks, PodFails
<1>2. Made \/ UNCHANGED server  BY DEF CallBreaks
<1>3. retries' \in 0..(BackoffLimit + 1) /\ job' \in {"running", "failed"}
      /\ (job' = "running" => retries' <= BackoffLimit)
    BY BackoffAssumption DEF CallBreaks, PodFails, Types
<1>4. Types'
    BY <1>1, <1>2, <1>3, MadeKeeps, CallOrder, RemotesAssumption DEF Types, None
<1>5. ReadHolds'  BY <1>1 DEF ReadHolds, None
<1>6. PassedMeansRefused'
    BY <1>1, CallOrder, RemotesAssumption DEF PassedMeansRefused, ListCall, ProjectCall
<1> QED  BY <1>2, <1>4, <1>5, <1>6, MadeKeeps

LEMMA NextIInv == IInv /\ [Next]_vars => IInv'
<1> SUFFICES ASSUME IInv, [Next]_vars PROVE IInv'
    OBVIOUS
<1>1. CASE CallMakes \/ CallFutile \/ CallRefused  BY <1>1, AnsweredIInv
<1>2. CASE ListRead  BY <1>2, ListReadIInv
<1>3. CASE CallBreaks  BY <1>3, CallBreaksIInv
<1>4. CASE Complete \/ UNCHANGED vars
    <2>1. UNCHANGED <<server, pc, read, retries, passed>>
          /\ (UNCHANGED job \/ (job' = "complete" /\ pc = RobotCall + 1))
        BY <1>4 DEF Complete, vars
    <2> QED
        BY <2>1 DEF IInv, Types, server, IdsInOrder, Registered, ReadHolds,
                    ProxiesOwnRemote, PassedMeansRefused
<1> QED  BY <1>1, <1>2, <1>3, <1>4 DEF Next

\* TypeOK holds for any number of remotes and any backoff limit.
THEOREM TypeCorrect == Spec => []TypeOK
BY TypesGive, InitIInv, NextIInv, PTL DEF Spec

\* ProxiesOwnRemote holds for any number of remotes and of pods that fail.
THEOREM ProjectsProxyTheirRemote == Spec => []ProxiesOwnRemote
<1>1. IInv => ProxiesOwnRemote  BY DEF IInv
<1> QED  BY <1>1, InitIInv, NextIInv, PTL DEF Spec

\* MissingWasRefused holds for any number of remotes and of pods that fail: a
\* new pod makes good whatever its predecessors left undone.
THEOREM MissingOnlyIfRefused == Spec => []MissingWasRefused
BY RefusedGive, InitIInv, NextIInv, PTL DEF Spec
=============================================================================
