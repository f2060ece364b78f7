--------------------------- MODULE MCDeployments ---------------------------
(* Model checking of Deployments: all stacks, and the bounds on faults.     *)
EXTENDS Deployments, TLC

AllStacks == InfraStacks \cup IsolatedStacks \cup AccessStacks

\* StackPlan, in a form that TLC evaluates once: `@@ <<>>` changes nothing else.
Evaluated ==
    [st \in AllStacks |->
        LET p == StackPlan[st] IN
        [p EXCEPT !.deps = @ @@ <<>>, !.needs = @ @@ <<>>, !.below = @ @@ <<>>]]
Plans == Evaluated @@ <<>>

\* The isolated cluster's stack on Dawn is too large for a fault besides the races.
FewFaults == [st \in Stacks |-> IF st.cluster = "isolated" /\ st.env = "DAWN" THEN 0 ELSE 1]
=============================================================================
