----------------------------- MODULE MinioConfig -----------------------------
(***************************************************************************)
(* The Job that opens the ingress and egress buckets to the data-copy      *)
(* workflow, which has no credentials, while the MinIO tenant is coming up: *)
(* its script waits for MinIO to answer, and then sets the policy of one   *)
(* bucket after the other; its pod is started again when it fails.  The    *)
(* MinIO operator creates the buckets when the tenant is up.               *)
(***************************************************************************)
EXTENDS Naturals

CONSTANTS
    MaxRetries,     \* of the script, for MinIO to answer
    BackoffLimit,   \* of the Job: pods that may fail before it does
    MaxDowns        \* bound: times the tenant's pod is restarted

ASSUME MaxRetriesAssumption == MaxRetries \in Nat \ {0}
ASSUME BackoffLimitAssumption == BackoffLimit \in Nat
ASSUME MaxDownsAssumption == MaxDowns \in Nat

VARIABLES
    up,        \* MinIO answers
    downs,     \* times it stopped doing so
    buckets,   \* those that exist
    policy,    \* anonymous policy of each
    job,       \* phase of the Job
    failures,  \* pods of the Job that failed
    step,      \* command of the running pod's script, "none" if no pod runs
    tries,     \* failed attempts to set the alias ($i)
    unset,     \* ghost: buckets whose policy command failed in this pod
    lapsed     \* ghost: this pod was lost, or met a tenant that was not ready

vars == <<up, downs, buckets, policy, job, failures, step, tries, unset, lapsed>>

Buckets == {"ingress", "egress"}
Ready == up /\ buckets = Buckets

Init ==
    /\ up = FALSE
    /\ downs = 0
    /\ buckets = {}
    /\ policy = [b \in Buckets |-> "private"]
    /\ job = "none"
    /\ failures = 0
    /\ step = "none"
    /\ tries = 0
    /\ unset = {}
    /\ lapsed = FALSE

-----------------------------------------------------------------------------
(* The tenant.                                                              *)
TenantUp ==
    /\ ~up
    /\ up' = TRUE
    /\ UNCHANGED <<downs, buckets, policy, job, failures, step, tries, unset, lapsed>>

\* The operator restarts the tenant's pod, or its node fails.
TenantDown ==
    /\ up /\ downs < MaxDowns
    /\ up' = FALSE
    /\ downs' = downs + 1
    /\ lapsed' = (lapsed \/ step # "none")
    /\ UNCHANGED <<buckets, policy, job, failures, step, tries, unset>>

\* The buckets of the tenant's values are created when it is up.
BucketMade(b) ==
    /\ up /\ b \notin buckets
    /\ buckets' = buckets \cup {b}
    /\ UNCHANGED <<up, downs, policy, job, failures, step, tries, unset, lapsed>>

-----------------------------------------------------------------------------
(* The Job.                                                                 *)

\* Pulumi creates the Job after the tenant's chart, whose resources it does not
\* wait for.
JobCreated ==
    /\ job = "none"
    /\ job' = "Running"
    /\ UNCHANGED <<up, downs, buckets, policy, failures, step, tries, unset, lapsed>>

PodStarts ==
    /\ job = "Running" /\ step = "none"
    /\ step' = "alias"
    /\ tries' = 0
    /\ unset' = {}
    /\ lapsed' = ~Ready
    /\ UNCHANGED <<up, downs, buckets, policy, job, failures>>

\* Mutant: one pod too many is started.
PodFailsLate ==
    /\ step' = "none"
    /\ failures' = failures + 1
    /\ job' = IF failures' > BackoffLimit + 1 THEN "Failed" ELSE "Running"

\* The Job fails with the pod that exceeds the backoff limit.
PodFails ==
    /\ step' = "none"
    /\ failures' = failures + 1
    /\ job' = IF failures' > BackoffLimit THEN "Failed" ELSE "Running"

\* Mutant: the attempts are counted in a subshell.
AliasFailsUncounted ==
    /\ step = "alias" /\ ~up
    /\ UNCHANGED vars

\* "until mc alias set ..." fails while MinIO does not answer.
AliasFails ==
    /\ step = "alias" /\ ~up
    /\ tries' = tries + 1
    /\ IF tries' >= MaxRetries
       THEN PodFails
       ELSE UNCHANGED <<step, failures, job>>
    /\ UNCHANGED <<up, downs, buckets, policy, unset, lapsed>>

AliasSet ==
    /\ step = "alias" /\ up
    /\ step' = "egress"
    /\ UNCHANGED <<up, downs, buckets, policy, job, failures, tries, unset, lapsed>>

CanSet(b) == up /\ b \in buckets

\* mc anonymous set; a bucket that does not exist has no policy.
Sets(b, p) ==
    IF CanSet(b)
    THEN policy' = [policy EXCEPT ![b] = p] /\ UNCHANGED unset
    ELSE unset' = unset \cup {b} /\ UNCHANGED policy

\* Mutant: the command names the other bucket.
SetEgressSwapped ==
    /\ step = "egress"
    /\ Sets("ingress", "upload")
    /\ step' = "ingress"
    /\ UNCHANGED <<up, downs, buckets, job, failures, tries, lapsed>>

\* The script goes on when this command fails.
SetEgress ==
    /\ step = "egress"
    /\ Sets("egress", "upload")
    /\ step' = "ingress"
    /\ UNCHANGED <<up, downs, buckets, job, failures, tries, lapsed>>

\* Mutant: the last command's exit status is lost.
SetIngressAnyway ==
    /\ step = "ingress"
    /\ Sets("ingress", "download")
    /\ job' = "Complete" /\ step' = "none" /\ UNCHANGED failures
    /\ UNCHANGED <<up, downs, buckets, tries, lapsed>>

\* The last command: its exit status is the pod's.
SetIngress ==
    /\ step = "ingress"
    /\ Sets("ingress", "download")
    /\ IF CanSet("ingress")
       THEN job' = "Complete" /\ step' = "none" /\ UNCHANGED failures
       ELSE PodFails
    /\ UNCHANGED <<up, downs, buckets, tries, lapsed>>

\* The pod is evicted or its node fails.
PodLost ==
    /\ step # "none"
    /\ PodFails
    /\ lapsed' = TRUE
    /\ UNCHANGED <<up, downs, buckets, policy, tries, unset>>

Script == AliasFails \/ AliasSet \/ SetEgress \/ SetIngress

Next ==
    \/ TenantUp \/ TenantDown \/ \E b \in Buckets : BucketMade(b)
    \/ JobCreated \/ PodStarts \/ Script \/ PodLost

Spec == Init /\ [][Next]_vars

\* The Job controller and the script keep running; the tenant may never come up.
FairSpec == Spec /\ WF_vars(PodStarts \/ Script)

-----------------------------------------------------------------------------
\* The variables have their types; a Job that runs has pods left to start.
TypeOK ==
    /\ up \in BOOLEAN /\ downs \in 0..MaxDowns
    /\ buckets \subseteq Buckets /\ unset \subseteq Buckets
    /\ policy \in [Buckets -> {"private", "upload", "download"}]
    /\ job \in {"none", "Running", "Complete", "Failed"}
    /\ failures \in 0..(BackoffLimit + 1)
    /\ step \in {"none", "alias", "egress", "ingress"}
    /\ tries \in 0..MaxRetries
    /\ lapsed \in BOOLEAN
    /\ job = "Running" => failures <= BackoffLimit
    /\ step # "none" => job = "Running"

\* A Job that completed has opened the ingress bucket; it leaves the egress bucket
\* closed only if the command for it failed in the very pod that completed and
\* no earlier pod had opened it.
CompleteOpens ==
    job = "Complete" =>
        /\ policy["ingress"] = "download"
        /\ policy["egress"] = "upload" \/ "egress" \in unset

\* A pod that found the tenant ready, and was left alone, does not fail and
\* leaves no bucket closed: the Job fails or completes by half only when the
\* tenant was late or the cluster at fault in its last pod too.
OnlyLapsesFail ==
    ~lapsed => /\ job # "Failed"
               /\ unset = {}
               /\ job = "Complete" => policy["egress"] = "upload"

\* Every Job that is started ends, whatever happens to the tenant.
JobEnds == job = "Running" ~> job \in {"Complete", "Failed"}
=============================================================================
