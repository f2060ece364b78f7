-------------------------- MODULE MinioConfigProofs --------------------------
(* Proofs about MinioConfig, for any number of attempts, pods and outages.  *)
EXTENDS MinioConfig, TLAPS

\* Without the bounds that follow from the state of the Job.
Types ==
    /\ up \in BOOLEAN /\ downs \in 0..MaxDowns
    /\ buckets \subseteq Buckets /\ unset \subseteq Buckets
    /\ policy \in [Buckets -> {"private", "upload", "download"}]
    /\ job \in {"none", "Running", "Complete", "Failed"}
    /\ failures \in 0..(BackoffLimit + 1)
    /\ step \in {"none", "alias", "egress", "ingress"}
    /\ tries \in 0..MaxRetries
    /\ lapsed \in BOOLEAN

\* A pod runs only while the Job does, with attempts and pods to spare.
PodOfJob ==
    /\ job \in {"none", "Running"} => failures <= BackoffLimit
    /\ step # "none" => job = "Running"
    /\ step # "none" => tries < MaxRetries

\* What the script has done so far, and what it has not been able to do.
ScriptSoFar ==
    /\ step \in {"alias", "egress"} => unset = {}
    /\ step = "ingress" => /\ unset \subseteq {"egress"}
                           /\ policy["egress"] = "upload" \/ "egress" \in unset
    /\ job = "Complete" => /\ policy["ingress"] = "download"
                           /\ policy["egress"] = "upload" \/ "egress" \in unset

\* A pod that did not lapse runs against a tenant that is ready.
ReadyUnlessLapsed ==
    ~lapsed => /\ step # "none" => Ready
               /\ unset = {}
               /\ job # "Failed"

IInv == Types /\ PodOfJob /\ ScriptSoFar /\ ReadyUnlessLapsed

-----------------------------------------------------------------------------
LEMMA InvInit == Init => IInv
<1> SUFFICES ASSUME Init PROVE IInv  OBVIOUS
<1> USE MaxRetriesAssumption, BackoffLimitAssumption, MaxDownsAssumption DEF Init
<1>0. 0 \in 0..MaxDowns /\ 0 \in 0..MaxRetries /\ 0 \in 0..(BackoffLimit + 1)  OBVIOUS
<1>1. Types  BY <1>0, Zenon DEF Types, Buckets
<1>2. PodOfJob /\ ScriptSoFar  BY DEF PodOfJob, ScriptSoFar
<1>3. ReadyUnlessLapsed  BY DEF ReadyUnlessLapsed
<1> QED  BY <1>1, <1>2, <1>3 DEF IInv

\* The tenant.
LEMMA TenantSteps ==
    ASSUME IInv, TenantUp \/ TenantDown \/ (\E b \in Buckets : BucketMade(b))
    PROVE  IInv'
<1> USE MaxDownsAssumption DEF IInv
<1>1. CASE TenantUp
    BY <1>1 DEF TenantUp, Types, PodOfJob, ScriptSoFar, ReadyUnlessLapsed, Ready, Buckets
<1>2. CASE TenantDown
    <2>1. lapsed' \in BOOLEAN  BY <1>2, Zenon DEF TenantDown
    <2>2. /\ up' = FALSE /\ downs < MaxDowns /\ downs' = downs + 1
          /\ UNCHANGED <<buckets, policy, job, failures, step, tries, unset>>
        BY <1>2, Zenon DEF TenantDown
    <2>3. PodOfJob' /\ ScriptSoFar'  BY <2>2 DEF PodOfJob, ScriptSoFar
    <2>4. downs' \in 0..MaxDowns  BY <2>2 DEF Types
    <2>5. Types'  BY <2>1, <2>2, <2>4, Zenon DEF Types
    <2>6. ~lapsed' => ~lapsed /\ step' = "none" /\ UNCHANGED <<unset, job>>
        BY <1>2, Zenon DEF TenantDown
    <2>7. ReadyUnlessLapsed'  BY <2>6 DEF ReadyUnlessLapsed
    <2> QED  BY <2>3, <2>7, <2>5
<1>3. CASE \E b \in Buckets : BucketMade(b)
    BY <1>3 DEF BucketMade, Types, PodOfJob, ScriptSoFar, ReadyUnlessLapsed, Ready, Buckets
<1> QED  BY <1>1, <1>2, <1>3

\* The Job's pods.
LEMMA PodSteps ==
    ASSUME IInv, JobCreated \/ PodStarts \/ PodLost
    PROVE  IInv'
<1> USE MaxRetriesAssumption, BackoffLimitAssumption DEF IInv
<1>1. CASE JobCreated
    BY <1>1 DEF JobCreated, Types, PodOfJob, ScriptSoFar, ReadyUnlessLapsed, Ready
<1>2. CASE PodStarts
    <2>1. lapsed' \in BOOLEAN  BY <1>2, Zenon DEF PodStarts
    <2>2. Types' /\ PodOfJob' /\ ScriptSoFar'
        BY <1>2, <2>1 DEF PodStarts, Types, PodOfJob, ScriptSoFar
    <2>3. ReadyUnlessLapsed'
        <3>1. unset' = {} /\ job' = "Running" /\ (~lapsed' => Ready) /\ (Ready => Ready')
            BY <1>2, Zenon DEF PodStarts, Ready
        <3> QED  BY <3>1 DEF ReadyUnlessLapsed
    <2> QED  BY <2>2, <2>3
<1>3. CASE PodLost
    BY <1>3 DEF PodLost, PodFails, Types, PodOfJob, ScriptSoFar, ReadyUnlessLapsed, Ready
<1> QED  BY <1>1, <1>2, <1>3

\* The script.
LEMMA ScriptSteps ==
    ASSUME IInv, Script
    PROVE  IInv'
<1> USE MaxRetriesAssumption, BackoffLimitAssumption DEF IInv
<1>1. CASE AliasFails
    BY <1>1 DEF AliasFails, PodFails, Types, PodOfJob, ScriptSoFar, ReadyUnlessLapsed, Ready
<1>2. CASE AliasSet
    BY <1>2 DEF AliasSet, Types, PodOfJob, ScriptSoFar, ReadyUnlessLapsed, Ready
<1>3. CASE SetEgress
    BY <1>3 DEF SetEgress, Sets, CanSet, Types, PodOfJob, ScriptSoFar, ReadyUnlessLapsed, Ready, Buckets
<1>4. CASE SetIngress
    <2>1. CASE CanSet("ingress")
        BY <1>4, <2>1 DEF SetIngress, Sets, Types, PodOfJob, ScriptSoFar, ReadyUnlessLapsed, Ready, Buckets
    <2>2. CASE ~CanSet("ingress")
        <3>1. lapsed  BY <1>4, <2>2 DEF SetIngress, CanSet, ReadyUnlessLapsed, Ready, Buckets
        <3>2. /\ failures \in Nat /\ failures <= BackoffLimit /\ failures' = failures + 1
              /\ step' = "none" /\ job' = IF failures' > BackoffLimit THEN "Failed" ELSE "Running"
              /\ unset' = unset \cup {"ingress"} /\ policy' = policy
            BY <1>4, <2>2 DEF SetIngress, Sets, PodFails, Types, PodOfJob
        <3>3. Types' /\ PodOfJob'
            BY <1>4, <3>2 DEF SetIngress, Types, PodOfJob, Buckets
        <3>4. ScriptSoFar' /\ ReadyUnlessLapsed'
            BY <1>4, <2>2, <3>1 DEF SetIngress, Sets, PodFails, Types, PodOfJob, ScriptSoFar, ReadyUnlessLapsed
        <3> QED  BY <3>3, <3>4
    <2> QED  BY <2>1, <2>2
<1> QED  BY <1>1, <1>2, <1>3, <1>4 DEF Script

LEMMA InvStep == IInv /\ [Next]_vars => IInv'
<1> SUFFICES ASSUME IInv, [Next]_vars PROVE IInv'  OBVIOUS
<1>1. CASE Next  BY <1>1, TenantSteps, PodSteps, ScriptSteps DEF Next
<1>2. CASE UNCHANGED vars
    BY <1>2 DEF vars, IInv, Types, PodOfJob, ScriptSoFar, ReadyUnlessLapsed, Ready
<1> QED  BY <1>1, <1>2

LEMMA Invariance == Spec => []IInv
BY InvInit, InvStep, PTL DEF Spec

-----------------------------------------------------------------------------
\* The variables have their types, and a Job that runs has pods left to start,
\* for any number of attempts and pods (minio_config.py:50, :91).
THEOREM TypeCorrect == Spec => []TypeOK
<1>1. IInv => TypeOK  BY DEF IInv, Types, PodOfJob, TypeOK
<1> QED  BY <1>1, Invariance, PTL

\* A Job that completed has opened the ingress bucket, and the egress bucket too
\* unless the command for it failed in its last pod (minio_config.py:65-66).
THEOREM CompletionOpens == Spec => []CompleteOpens
<1>1. IInv => CompleteOpens  BY DEF IInv, ScriptSoFar, CompleteOpens
<1> QED  BY <1>1, Invariance, PTL

\* The Job fails, or completes by half, only if its last pod was lost or met a
\* tenant that was not ready (minio_config.py:54-66).
THEOREM LapsesFail == Spec => []OnlyLapsesFail
<1>1. IInv => OnlyLapsesFail  BY DEF IInv, ScriptSoFar, ReadyUnlessLapsed, OnlyLapsesFail
<1> QED  BY <1>1, Invariance, PTL
=============================================================================
