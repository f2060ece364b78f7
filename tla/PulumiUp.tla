------------------------------ MODULE PulumiUp ------------------------------
(***************************************************************************)
(* `pulumi up` on a stack: the program registers resources, the engine     *)
(* creates in parallel those whose declared dependencies exist, and the    *)
(* cluster refuses (or does not bring up in time) one that needs something *)
(* which does not exist yet.  A command that fails is repeated; a Job that  *)
(* failed stays in the cluster as it is, which no repetition mends.        *)
(*                                                                         *)
(* Deployments has the stacks of the two clusters and their plans.         *)
(***************************************************************************)
EXTENDS Integers

CONSTANTS
    Stacks,      \* the deployments that are considered
    Plan,        \* what the program of each registers, see PlanAssumption
    MaxFaults    \* bound: transient errors and interrupted commands of each

\* resources: those of the stack
\* deps: the dependencies that the program declares
\* needs: what a creation takes in the cluster
\* registered: those the program registers before it raises, if it does
\* issued: those the cluster makes by itself once their deps exist
\* jobs: those that are Jobs, which run once
\* below: what deps puts before each resource, directly or not
ASSUME PlanAssumption ==
    \A st \in Stacks :
        LET p == Plan[st] IN
        /\ p.deps \in [p.resources -> SUBSET p.resources]
        /\ p.needs \in [p.resources -> SUBSET p.resources]
        /\ p.below \in [p.resources -> SUBSET p.resources]
        /\ p.registered \subseteq p.resources
        /\ p.issued \subseteq p.resources
        /\ p.jobs \subseteq p.resources \ p.issued
        /\ \A r \in p.resources :
               p.below[r] = p.deps[r] \cup UNION {p.below[s] : s \in p.deps[r]}
ASSUME MaxFaultsAssumption == MaxFaults \in [Stacks -> Nat]

VARIABLES
    stack,    \* the deployment at hand
    made,     \* what exists in the cluster
    up,       \* a command is running
    failed,   \* the resources whose creation failed in it
    spent,    \* the Jobs that are in the cluster and have failed
    late,     \* observation: those that were refused for want of a need
    faults

vars == <<stack, made, up, failed, spent, late, faults>>

Resources == Plan[stack].resources
Registered == Plan[stack].registered
Issued == Plan[stack].issued
Jobs == Plan[stack].jobs
Deps(r) == Plan[stack].deps[r]
Needs(r) == Plan[stack].needs[r]
Below(r) == Plan[stack].below[r]

Init ==
    /\ stack \in Stacks
    /\ made = {} /\ up = FALSE
    /\ failed = {} /\ spent = {} /\ late = {}
    /\ faults = 0

\* Mutant: the state file keeps failed resources as they are.
UpStartsStale ==
    /\ ~up /\ ~(Resources \subseteq made)
    /\ up' = TRUE
    /\ UNCHANGED <<stack, made, failed, spent, late, faults>>

\* The operator runs `pulumi up`, again if the last one did not finish.
UpStarts ==
    /\ ~up /\ ~(Resources \subseteq made)
    /\ up' = TRUE
    /\ failed' = {}
    /\ UNCHANGED <<stack, made, spent, late, faults>>

\* Mutant: a resource that failed is tried again in the same command.
ReadyAgain(r) ==
    /\ up
    /\ r \in Registered \ (made \cup Issued)
    /\ Deps(r) \subseteq made

\* The engine has issued r's creation: its declared dependencies are there.
Ready(r) ==
    /\ up
    /\ r \in Registered \ (made \cup failed \cup Issued)
    /\ Deps(r) \subseteq made

Create(r) ==
    /\ Ready(r) /\ Needs(r) \subseteq made /\ r \notin spent
    /\ made' = made \cup {r}
    /\ UNCHANGED <<stack, up, failed, spent, late, faults>>

\* The provider retries for some time, in which the need may still appear; a Job
\* has then failed for good.
Reject(r) ==
    /\ Ready(r) /\ ~(Needs(r) \subseteq made)
    /\ failed' = failed \cup {r}
    /\ spent' = spent \cup ({r} \cap Jobs)
    /\ late' = late \cup {r}
    /\ UNCHANGED <<stack, made, up, faults>>

\* A failed Job is awaited as it is: it is not made again.
AwaitSpent(r) ==
    /\ Ready(r) /\ r \in spent
    /\ failed' = failed \cup {r}
    /\ UNCHANGED <<stack, made, up, spent, late, faults>>

\* A request that fails leaves nothing, a Job that was made and fails stays.
Fault(r) ==
    /\ Ready(r) /\ r \notin spent /\ faults < MaxFaults[stack]
    /\ failed' = failed \cup {r}
    /\ \E job \in SUBSET ({r} \cap Jobs) : spent' = spent \cup job
    /\ faults' = faults + 1
    /\ UNCHANGED <<stack, made, up, late>>

Issue(r) ==
    /\ r \in Issued \ made
    /\ Deps(r) \subseteq made
    /\ made' = made \cup {r}
    /\ UNCHANGED <<stack, up, failed, spent, late, faults>>

\* A failure ends the command, after as many of the creations that were ready as
\* are then in progress; without one it ends when everything was made.
UpEnds ==
    /\ up
    /\ failed # {} \/ Registered \subseteq made \cup Issued
    /\ up' = FALSE
    /\ UNCHANGED <<stack, made, failed, spent, late, faults>>

\* The command is killed, or loses its tunnel to the cluster.
Interrupt ==
    /\ up /\ faults < MaxFaults[stack]
    /\ up' = FALSE
    /\ faults' = faults + 1
    /\ UNCHANGED <<stack, made, failed, spent, late>>

Next ==
    \/ UpStarts \/ UpEnds \/ Interrupt
    \/ \E r \in Resources : Create(r) \/ Reject(r) \/ AwaitSpent(r) \/ Fault(r) \/ Issue(r)

Spec == Init /\ [][Next]_vars

\* The operator repeats the command, the cluster issues what it owes, and when
\* every command finds something that it can create, one does create something.
Fairness ==
    /\ WF_vars(UpStarts) /\ WF_vars(UpEnds)
    /\ SF_vars(\E r \in Resources : Create(r))
    /\ WF_vars(\E r \in Resources : Issue(r))

FairSpec == Spec /\ Fairness

-----------------------------------------------------------------------------
\* The variables have their types, what failed in a command stays unmade until
\* the next, and a Job that has failed stays unmade for ever.
TypeOK ==
    /\ stack \in Stacks
    /\ made \subseteq Resources /\ failed \subseteq Resources /\ late \subseteq Resources
    /\ spent \subseteq Jobs
    /\ up \in BOOLEAN
    /\ faults \in 0..MaxFaults[stack]
    /\ failed \cap (made \cup Issued) = {}
    /\ spent \cap made = {}
=============================================================================
