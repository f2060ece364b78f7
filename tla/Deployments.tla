---------------------------- MODULE Deployments ----------------------------
(***************************************************************************)
(* `pulumi up` on the stacks of FRIDGE: the infrastructure's on AKS, the   *)
(* isolated cluster's for each k8s_env, and the access cluster's for each  *)
(* k8s_env and tls_environment.                                            *)
(***************************************************************************)
EXTENDS PulumiUp

Infra == INSTANCE InfraStack
Isolated == INSTANCE IsolatedStack
Access == INSTANCE AccessStack

InfraStacks == [cluster : {"infra"}, env : {"AKS"}]
IsolatedStacks == [cluster : {"isolated"}, env : Isolated!Environments]
AccessStacks ==
    [cluster : {"access"}, env : Access!Environments, tls : Access!TlsEnvironments]

ASSUME StacksAssumption == Stacks \subseteq InfraStacks \cup IsolatedStacks \cup AccessStacks

\* What their programs register.
StackPlan ==
    [st \in InfraStacks \cup IsolatedStacks \cup AccessStacks |->
        CASE st.cluster = "infra" -> Infra!StackGraph
          [] st.cluster = "isolated" -> Isolated!StackGraph(st.env)
          [] OTHER -> Access!StackGraph(st.env, st.tls)]

ASSUME PlansAssumption == \A st \in Stacks : Plan[st] = StackPlan[st]

\* Only these creations can be refused for want of something the program does
\* not wait for.  Infrastructure: none.  Isolated: the Job that configures MinIO
\* and the API's Deployment (both are awaited while the tenant may not answer yet),
\* the API's MinIO PolicyBinding, and the general network policies.  Access: reading
\* the certificate's secret, the containerd DaemonSet, the general network policies
\* and, on Dawn only, the environment's policies, one of which is in the jumpbox's
\* namespace.
Races(st) ==
    CASE st.cluster = "infra" -> {}
      [] st.cluster = "isolated" -> {"minioConfig", "policyBinding", "apiServer", "policies"}
      [] OTHER -> {"harborTlsSecret", "containerdDaemon", "policies"}
                  \cup IF st.env = "DAWN" THEN {"environmentPolicies"} ELSE {}
KnownRaces == late \subseteq Races(stack)

\* K3s's program raises where it makes the API's Service and never reaches what
\* follows.
Unreached(st) ==
    IF st.env = "K3S"
    THEN {"apiService", "gpuOperator", "policies", "environmentPolicies", "runtimeConfig"}
    ELSE {}

\* What waits for the Job of a stack: the environment's network policies and, on the
\* isolated cluster, the configuration of containerd.
BehindJob(st) ==
    CASE st.cluster = "infra" -> {}
      [] st.cluster = "isolated" -> {"minioConfig", "environmentPolicies", "runtimeConfig"}
      [] OTHER -> {"configureHarbor", "environmentPolicies"}

\* What no repetition makes, as things are.
LeftOut == Unreached(stack) \cup IF spent = {} THEN {} ELSE BehindJob(stack)

\* A command that has met no failure can always go on: until everything exists that
\* it can make, something can be created now, or the cluster owes something now.  No
\* resource waits for what only comes after it, be it declared, or a need that the
\* cluster meets with a delay; and a Job that has failed stands in the way of what
\* waits for it, and of nothing else.
CanGetFurther ==
    up /\ failed = {} /\ Resources \ made # LeftOut =>
        \/ \E r \in Resources \ spent : Ready(r) /\ Needs(r) \subseteq made
        \/ \E r \in Issued \ made : Deps(r) \subseteq made

\* Whatever races were lost and wherever commands failed, repeating `pulumi up` makes
\* in the end everything that the program gets to, but for a Job that has failed and
\* what waits for it.  (docs/deploy/services.md:150 has no exception: "`pulumi up`
\* can safely be repeated ... a repeated attempt will be successful".)
RepeatCompletes == <>[](Resources \ made = LeftOut)
=============================================================================
