---------------------------- MODULE HarborConfig ----------------------------
(***************************************************************************)
(* The Job which configures Harbor through its API: a script that makes a  *)
(* registry for every remote, asks for the identifiers they were given,    *)
(* makes a proxy project for every registry and then the robot account.    *)
(*                                                                         *)
(* curl -s succeeds when Harbor answers with an error, and `set -e` ends   *)
(* the script only when a call breaks or jq cannot read an answer.         *)
(***************************************************************************)
EXTENDS Integers

CONSTANTS
    Remotes,        \* number of remote registries
    BackoffLimit    \* of the Job

ASSUME RemotesAssumption == Remotes \in Nat \ {0}
ASSUME BackoffAssumption == BackoffLimit \in Nat

VARIABLES
    ids,        \* Harbor: the identifier of each remote's registry, 0 without one
    nextId,     \* Harbor: the identifier it gives next
    proxies,    \* Harbor: the registry each project proxies, 0 without project
    robot,      \* Harbor: the robot account exists
    pc,         \* the script's next call
    read,       \* the identifiers the script has read, 0 for the empty string
    retries,    \* pods that failed
    job,
    passed      \* observation: calls of this pod that Harbor refused

server == <<ids, nextId, proxies, robot>>
vars == <<server, pc, read, retries, job, passed>>

\* The script's calls: 1..Remotes make registries, then the list is read, then
\* projects are made, then the robot.
ListCall == Remotes + 1
ProjectCall(i) == ListCall + i
RobotCall == ListCall + Remotes + 1
None == [i \in 1..Remotes |-> 0]

Init ==
    /\ ids = None /\ nextId = 1
    /\ proxies = None /\ robot = FALSE
    /\ pc = 1 /\ read = None
    /\ retries = 0 /\ job = "running"
    /\ passed = {}

\* make_remote_registry: a name that is taken is refused (409).
MakeRegistry(i) ==
    /\ pc = i /\ ids[i] = 0
    /\ ids' = [ids EXCEPT ![i] = nextId]
    /\ nextId' = nextId + 1
    /\ UNCHANGED <<proxies, robot>>

\* make_proxy_project, with the identifier that was read
MakeProject(i) ==
    /\ pc = ProjectCall(i) /\ read[i] # 0 /\ proxies[i] = 0
    /\ proxies' = [proxies EXCEPT ![i] = read[i]]
    /\ UNCHANGED <<ids, nextId, robot>>

\* make_robot_account
MakeRobot ==
    /\ pc = RobotCall /\ ~robot
    /\ robot' = TRUE
    /\ UNCHANGED <<ids, nextId, proxies>>

Made == MakeRobot \/ \E i \in 1..Remotes : MakeRegistry(i) \/ MakeProject(i)

\* What the call would make is there from an earlier pod, or has no identifier
\* to be made with; Harbor's answer, an error, is not looked at.
Futile ==
    \/ pc = RobotCall /\ robot
    \/ \E i \in 1..Remotes :
        \/ pc = i /\ ids[i] # 0
        \/ pc = ProjectCall(i) /\ (read[i] = 0 \/ proxies[i] # 0)

Answered == job = "running" /\ pc' = pc + 1 /\ UNCHANGED <<retries, job>>

CallMakes == Answered /\ Made /\ UNCHANGED <<read, passed>>

CallFutile == Answered /\ Futile /\ UNCHANGED <<server, read, passed>>

\* Harbor refuses a call that would make something (it checks that a remote can
\* be reached), and the script goes on.
CallRefused ==
    /\ Answered /\ pc # ListCall /\ pc <= RobotCall /\ ~Futile
    /\ passed' = passed \cup {pc}
    /\ UNCHANGED <<server, read>>

\* Mutant: identifiers by their place in the answer.
ListReadByPlace ==
    /\ Answered /\ pc = ListCall
    /\ LET at(k) == {i \in 1..Remotes : ids[i] = k}
       IN  read' = [i \in 1..Remotes |-> IF at(i) = {} THEN 0 ELSE i]
    /\ UNCHANGED <<server, passed>>

\* get_registry_id: by name; jq prints nothing for a name that is not there.
ListRead ==
    /\ Answered /\ pc = ListCall
    /\ read' = ids
    /\ UNCHANGED <<server, passed>>

\* Mutant: pods that failed are not counted.
PodFailsUncounted ==
    /\ job = "running"
    /\ pc' = 1 /\ read' = None /\ passed' = {}
    /\ UNCHANGED <<retries, job>>

\* Mutant: one pod too many.
PodFailsLate ==
    /\ job = "running"
    /\ retries' = retries + 1
    /\ job' = IF retries > BackoffLimit THEN "failed" ELSE "running"
    /\ pc' = 1 /\ read' = None /\ passed' = {}

\* The pod ends without success: the Job makes another up to its limit.
PodFails ==
    /\ job = "running"
    /\ retries' = retries + 1
    /\ job' = IF retries = BackoffLimit THEN "failed" ELSE "running"
    /\ pc' = 1 /\ read' = None /\ passed' = {}

\* Mutant: the script without `set -e`.
CallBreaksUnseen ==
    /\ Answered /\ pc <= RobotCall
    /\ UNCHANGED <<server, read, passed>>

\* curl fails, jq cannot read the list or the robot's answer, or the pod is
\* lost: before or after Harbor has done what it was asked for.
CallBreaks ==
    /\ PodFails
    /\ Made \/ UNCHANGED server

\* main returns.
Complete ==
    /\ job = "running" /\ pc = RobotCall + 1
    /\ job' = "complete"
    /\ UNCHANGED <<server, pc, read, retries, passed>>

Next ==
    \/ CallMakes \/ CallFutile \/ CallRefused \/ ListRead \/ CallBreaks
    \/ Complete

Spec == Init /\ [][Next]_vars

\* The script runs on; every call returns.
FairSpec == Spec /\ WF_vars(Next)

-----------------------------------------------------------------------------
\* The variables have their types, and no more pods fail than the Job's limit
\* allows for.
TypeOK ==
    /\ ids \in [1..Remotes -> 0..Remotes] /\ nextId \in 1..(Remotes + 1)
    /\ proxies \in [1..Remotes -> 0..Remotes] /\ robot \in BOOLEAN
    /\ pc \in 1..(RobotCall + 1)
    /\ read \in [1..Remotes -> 0..Remotes]
    /\ retries \in 0..(BackoffLimit + 1)
    /\ job \in {"running", "complete", "failed"}
    /\ passed \subseteq 1..RobotCall

\* Whatever was refused, lost or made twice in earlier pods, a project proxies
\* the registry of its own remote: images of one are never looked for in another.
ProxiesOwnRemote == \A i \in 1..Remotes : proxies[i] # 0 => proxies[i] = ids[i]

\* The Job reports success with a project missing only if Harbor refused, in the
\* pod that succeeded, that project or its registry: a pod makes good what
\* earlier ones left undone.
MissingWasRefused ==
    job = "complete" =>
        \A i \in 1..Remotes : proxies[i] = 0 => passed \cap {i, ProjectCall(i)} # {}

\* The Job ends, in success or in failure, and Pulumi with it.
JobEnds == <>(job # "running")
=============================================================================
