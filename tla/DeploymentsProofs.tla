------------------------- MODULE DeploymentsProofs -------------------------
(***************************************************************************)
(* First what holds of every graph of resources and needs (these proofs    *)
(* know no more of a plan than PlanAssumption says): a creation is refused *)
(* only for want of what the program does not put before it.  Then what    *)
(* the graphs of the three programs make of it, for any number of faults:  *)
(* which creations these are, and that no command is ever stuck.           *)
(***************************************************************************)
EXTENDS Deployments, TLAPS

\* What exists has all that the program puts before it.
Closed == \A s \in made : Below(s) \subseteq made

\* Nothing exists that the program does not get to.
Reached == made \subseteq Registered \cup Issued

\* What is refused for want of something does not come after it.
LateIsUndeclared == \A r \in late : ~(Needs(r) \subseteq Below(r))

IInv == TypeOK /\ Closed /\ Reached /\ LateIsUndeclared

-----------------------------------------------------------------------------
(* The plan at hand, so that the steps need not look into it.               *)
LEMMA PlanSets ==
    ASSUME stack \in Stacks
    PROVE  /\ Registered \subseteq Resources /\ Issued \subseteq Resources
           /\ Jobs \subseteq Resources \ Issued
           /\ MaxFaults[stack] \in Nat
BY PlanAssumption, MaxFaultsAssumption DEF Registered, Issued, Jobs, Resources

\* With its declared dependencies, all that is before a resource exists.
LEMMA DepsBringBelow ==
    ASSUME stack \in Stacks, NEW r \in Resources, NEW M \in SUBSET Resources,
           \A s \in M : Below(s) \subseteq M,
           Deps(r) \subseteq M
    PROVE  Below(r) \subseteq M
<1> DEFINE p == Plan[stack]
<1>1. p.below[r] = p.deps[r] \cup UNION {p.below[s] : s \in p.deps[r]}
    BY PlanAssumption DEF Resources
<1>2. p.deps[r] \subseteq M /\ \A s \in M : p.below[s] \subseteq M
    BY DEF Deps, Below
<1> HIDE DEF p
<1>3. \A s \in p.deps[r] : p.below[s] \subseteq M  BY <1>2
<1>4. p.below[r] \subseteq M  BY <1>1, <1>2, <1>3
<1> QED  BY <1>4 DEF Below, p

LEMMA PlanStays ==
    ASSUME stack' = stack
    PROVE  /\ Resources' = Resources /\ Registered' = Registered /\ Issued' = Issued
           /\ Jobs' = Jobs
           /\ \A r : Below(r)' = Below(r) /\ Needs(r)' = Needs(r)
BY DEF Resources, Registered, Issued, Jobs, Below, Needs

\* A step that makes nothing and refuses nothing.
LEMMA RacesStay ==
    ASSUME Closed, LateIsUndeclared, UNCHANGED <<stack, made, late>>
    PROVE  Closed' /\ LateIsUndeclared'
BY PlanStays DEF Closed, LateIsUndeclared

\* What is created keeps the set of what exists closed.
LEMMA MadeStaysClosed ==
    ASSUME Closed, stack \in Stacks, stack' = stack, made \subseteq Resources,
           NEW r \in Resources, Deps(r) \subseteq made, made' = made \cup {r}
    PROVE  Closed'
<1>1. Below(r) \subseteq made  BY DepsBringBelow DEF Closed
<1>2. \A s \in made' : Below(s) \subseteq made'
    BY <1>1 DEF Closed
<1> QED  BY <1>2, PlanStays DEF Closed

-----------------------------------------------------------------------------
LEMMA InitIInv == Init => IInv
<1> SUFFICES ASSUME Init PROVE IInv
    OBVIOUS
<1>1. up \in BOOLEAN  BY DEF Init
<1>2. stack \in Stacks /\ faults \in 0..MaxFaults[stack]
    BY PlanSets DEF Init
<1>3. made = {} /\ failed = {} /\ spent = {} /\ late = {}  BY DEF Init
<1> QED  BY <1>1, <1>2, <1>3 DEF IInv, TypeOK, Closed, Reached, LateIsUndeclared

LEMMA NextIInv == IInv /\ [Next]_vars => IInv'
<1> SUFFICES ASSUME IInv, [Next]_vars PROVE IInv'
    OBVIOUS
<1> USE DEF IInv, TypeOK, Reached
<1>0. stack' = stack
    BY DEF Next, vars, UpStarts, UpEnds, Interrupt, Create, Reject, AwaitSpent, Fault, Issue
<1>p. /\ Resources' = Resources /\ Registered' = Registered /\ Issued' = Issued
      /\ Jobs' = Jobs
      /\ \A r : Below(r)' = Below(r) /\ Needs(r)' = Needs(r)
    BY <1>0, PlanStays
<1>s. /\ Registered \subseteq Resources /\ Issued \subseteq Resources
      /\ Jobs \subseteq Resources \ Issued /\ MaxFaults[stack] \in Nat
    BY PlanSets
<1>1. CASE UpStarts
    BY <1>0, <1>p, <1>1, RacesStay DEF UpStarts
<1>2. CASE UpEnds
    BY <1>0, <1>p, <1>2, RacesStay DEF UpEnds
<1>3. CASE Interrupt
    <2>1. up' \in BOOLEAN  BY <1>3 DEF Interrupt
    <2>2. faults' \in 0..MaxFaults[stack]  BY <1>3, <1>s DEF Interrupt
    <2>3. UNCHANGED <<made, failed, spent, late>>  BY <1>3 DEF Interrupt
    <2>4. Closed' /\ LateIsUndeclared'  BY <1>0, <2>3, RacesStay
    <2> QED  BY <1>0, <1>p, <2>1, <2>2, <2>3, <2>4
<1>4. ASSUME NEW r \in Resources, Create(r) PROVE IInv'
    <2>1. TypeOK'  BY <1>0, <1>p, <1>4 DEF Create, Ready
    <2>2. Closed'  BY <1>0, <1>4, MadeStaysClosed DEF Create, Ready
    <2>3. LateIsUndeclared'  BY <1>p, <1>4 DEF Create, LateIsUndeclared
    <2>4. Reached'  BY <1>p, <1>4 DEF Create, Ready
    <2> QED  BY <2>1, <2>2, <2>3, <2>4
<1>5. ASSUME NEW r \in Resources, Reject(r) PROVE IInv'
    <2>1. TypeOK'  BY <1>0, <1>p, <1>5 DEF Reject, Ready
    <2>2. Closed'  BY <1>p, <1>5 DEF Reject, Closed
    <2>3. Below(r) \subseteq made  BY <1>5, DepsBringBelow DEF Reject, Ready, Closed
    <2>4. ~(Needs(r) \subseteq Below(r))  BY <1>5, <2>3 DEF Reject
    <2>5. LateIsUndeclared'  BY <1>p, <1>5, <2>4 DEF Reject, LateIsUndeclared
    <2>6. Reached'  BY <1>p, <1>5 DEF Reject
    <2> QED  BY <2>1, <2>2, <2>5, <2>6
<1>6. ASSUME NEW r \in Resources, Fault(r) PROVE IInv'
    <2>1. Closed' /\ LateIsUndeclared'  BY <1>0, <1>6, RacesStay DEF Fault
    <2>2. PICK job \in SUBSET ({r} \cap Jobs) : spent' = spent \cup job
        BY <1>6 DEF Fault
    <2>3. spent' \subseteq Jobs' /\ spent' \cap made' = {}
        BY <1>p, <1>6, <2>2 DEF Fault, Ready
    <2> QED  BY <1>0, <1>p, <1>s, <1>6, <2>1, <2>3 DEF Fault, Ready
<1>9. ASSUME NEW r \in Resources, AwaitSpent(r) PROVE IInv'
    <2>1. Closed' /\ LateIsUndeclared'  BY <1>0, <1>9, RacesStay DEF AwaitSpent
    <2> QED  BY <1>0, <1>p, <1>s, <1>9, <2>1 DEF AwaitSpent, Ready
<1>7. ASSUME NEW r \in Resources, Issue(r) PROVE IInv'
    <2>1. TypeOK'  BY <1>0, <1>p, <1>s, <1>7 DEF Issue
    <2>2. Closed'  BY <1>0, <1>7, MadeStaysClosed DEF Issue
    <2>3. LateIsUndeclared'  BY <1>p, <1>7 DEF Issue, LateIsUndeclared
    <2>4. Reached'  BY <1>p, <1>7 DEF Issue
    <2> QED  BY <2>1, <2>2, <2>3, <2>4
<1>8. CASE UNCHANGED vars
    BY <1>0, <1>p, <1>8, RacesStay DEF vars
<1> QED  BY <1>1, <1>2, <1>3, <1>4, <1>5, <1>6, <1>7, <1>8, <1>9 DEF Next

-----------------------------------------------------------------------------
\* TypeOK holds of every stack and every number of faults: in particular a
\* resource that failed is not made before the next command.
THEOREM TypeCorrect == Spec => []TypeOK
<1>1. IInv => TypeOK  BY DEF IInv
<1> QED  BY <1>1, InitIInv, NextIInv, PTL DEF Spec

-----------------------------------------------------------------------------
(* Putting components together.                                             *)

\* All has what the i-th of its parts has, and every resource is of one.
LEMMA IsolatedTogether ==
    ASSUME NEW parts
    PROVE  LET all == Isolated!Together(parts) IN
           /\ DOMAIN all = UNION {DOMAIN parts[i] : i \in DOMAIN parts}
           /\ \A i \in DOMAIN parts : \A r \in DOMAIN parts[i] :
                  (\A j \in DOMAIN parts : r \in DOMAIN parts[j] => j = i)
                      => all[r] = parts[i][r]
BY DEF Isolated!Together

LEMMA AccessTogether ==
    ASSUME NEW parts
    PROVE  LET all == Access!Together(parts) IN
           /\ DOMAIN all = UNION {DOMAIN parts[i] : i \in DOMAIN parts}
           /\ \A i \in DOMAIN parts : \A r \in DOMAIN parts[i] :
                  (\A j \in DOMAIN parts : r \in DOMAIN parts[j] => j = i)
                      => all[r] = parts[i][r]
BY DEF Access!Together

LEMMA InfraTogether ==
    ASSUME NEW parts
    PROVE  LET all == Infra!Together(parts) IN
           /\ DOMAIN all = UNION {DOMAIN parts[i] : i \in DOMAIN parts}
           /\ \A i \in DOMAIN parts : \A r \in DOMAIN parts[i] :
                  (\A j \in DOMAIN parts : r \in DOMAIN parts[j] => j = i)
                      => all[r] = parts[i][r]
BY DEF Infra!Together

-----------------------------------------------------------------------------
(* The graph of the isolated cluster.                                       *)
LEMMA IsolatedSets ==
    /\ Isolated!Certs = {"certManager", "issuers", "trust"}
    /\ Isolated!Storage("K3S") = {}
    /\ \A env \in {"AKS", "DAWN"} : Isolated!Storage(env) = {"storageClass"}
    /\ DOMAIN Isolated!StorageClasses = {"storageClass"}
    /\ DOMAIN Isolated!Tenant = {"minioReady"}
    /\ Isolated!Minio = {"minioNamespaces", "minioOperator", "minioSecrets",
                         "minioCertificate", "minioTrustBundle", "minioTenant"}
    /\ Isolated!Argo = {"argoNamespaces", "argoChart", "argoRbac"}
    /\ Isolated!Api = {"apiNamespace", "apiRbac", "policyBinding", "apiSecret", "apiServer",
                       "apiService"}
<1>1. Isolated!Certs = {"certManager", "issuers", "trust"}
    BY DEF Isolated!Certs, Isolated!CertManager
<1>2. /\ Isolated!Storage("K3S") = {}
      /\ \A env \in {"AKS", "DAWN"} : Isolated!Storage(env) = {"storageClass"}
      /\ DOMAIN Isolated!StorageClasses = {"storageClass"}
    BY DEF Isolated!Storage, Isolated!StorageClasses
<1>6. DOMAIN Isolated!Tenant = {"minioReady"}
    BY DEF Isolated!Tenant
<1>3. Isolated!Minio = {"minioNamespaces", "minioOperator", "minioSecrets",
                        "minioCertificate", "minioTrustBundle", "minioTenant"}
    BY DEF Isolated!Minio, Isolated!ObjectStorage
<1>4. Isolated!Argo = {"argoNamespaces", "argoChart", "argoRbac"}
    BY DEF Isolated!Argo, Isolated!WorkflowServer
<1>5. Isolated!Api = {"apiNamespace", "apiRbac", "policyBinding", "apiSecret", "apiServer",
                      "apiService"}
    BY DEF Isolated!Api, Isolated!ApiServer
<1> QED  BY <1>1, <1>2, <1>3, <1>4, <1>5, <1>6

\* No component's resources are also another's, so each has the dependencies that
\* its component gives it.
LEMMA IsolatedParts ==
    ASSUME NEW env \in Isolated!Environments
    PROVE  LET D == Isolated!Deps(env)
               a1 == Isolated!CertManager
               a2 == Isolated!StorageClasses
               a3 == Isolated!ObjectStorage(Isolated!MinioOpts(env))
               a4 == Isolated!MinioConfigJob(Isolated!Minio)
               a5 == Isolated!WorkflowServer(Isolated!Certs)
               a6 == Isolated!BlockStorageClaim(env)
               a7 == Isolated!WorkflowTemplates(Isolated!Argo)
               a8 == Isolated!ApiServer(Isolated!Argo)
               a9 == Isolated!DNSConfig(env, Isolated!Api)
               a10 == Isolated!GPUOperator(Isolated!Certs)
               a11 == Isolated!NetworkPolicies(Isolated!BeforePolicies(env))
               a12 == Isolated!GeneralPolicies
               a13 == Isolated!ContainerRuntimeConfig(Isolated!BeforePolicies(env))
               a14 == Isolated!TestWorkflows(env, {"gpuOperator"} \cup Isolated!Argo)
               a15 == Isolated!Tenant
               p == <<a1, a2, a3, a15, a4, a5, a6, a7, a8, a9, a10, a11, a12, a13, a14>>
           IN  /\ DOMAIN D = Isolated!Certs \cup {"storageClass", "minioReady"} \cup Isolated!Minio
                             \cup {"minioConfig"} \cup Isolated!Argo
                             \cup {"blockStorage", "templates"} \cup Isolated!Api
                             \cup {"gpuOperator", "environmentPolicies", "policies",
                                   "runtimeConfig"}
                             \cup IF env = "DAWN" THEN {"dnsConfig", "testWorkflows"} ELSE {}
               /\ \A i \in 1..15 : \A r \in DOMAIN p[i] : D[r] = p[i][r]
<1> DEFINE a1 == Isolated!CertManager
           a2 == Isolated!StorageClasses
           a3 == Isolated!ObjectStorage(Isolated!MinioOpts(env))
           a4 == Isolated!MinioConfigJob(Isolated!Minio)
           a5 == Isolated!WorkflowServer(Isolated!Certs)
           a6 == Isolated!BlockStorageClaim(env)
           a7 == Isolated!WorkflowTemplates(Isolated!Argo)
           a8 == Isolated!ApiServer(Isolated!Argo)
           a9 == Isolated!DNSConfig(env, Isolated!Api)
           a10 == Isolated!GPUOperator(Isolated!Certs)
           a11 == Isolated!NetworkPolicies(Isolated!BeforePolicies(env))
           a12 == Isolated!GeneralPolicies
           a13 == Isolated!ContainerRuntimeConfig(Isolated!BeforePolicies(env))
           a14 == Isolated!TestWorkflows(env, {"gpuOperator"} \cup Isolated!Argo)
           a15 == Isolated!Tenant
           p == <<a1, a2, a3, a15, a4, a5, a6, a7, a8, a9, a10, a11, a12, a13, a14>>
<1>1. /\ DOMAIN a1 = {"certManager", "issuers", "trust"}
      /\ DOMAIN a2 = {"storageClass"}
      /\ DOMAIN a15 = {"minioReady"}
      /\ DOMAIN a4 = {"minioConfig"}
      /\ DOMAIN a5 = {"argoNamespaces", "argoChart", "argoRbac"}
      /\ DOMAIN a6 = {"blockStorage"}
      /\ DOMAIN a7 = {"templates"}
    BY DEF Isolated!CertManager, Isolated!StorageClasses, Isolated!Tenant, Isolated!MinioConfigJob,
           Isolated!WorkflowServer, Isolated!BlockStorageClaim, Isolated!WorkflowTemplates
<1>2. DOMAIN a3 = {"minioNamespaces", "minioOperator", "minioSecrets", "minioCertificate",
                   "minioTrustBundle", "minioTenant"}
    BY DEF Isolated!ObjectStorage
<1>3. DOMAIN a8 = {"apiNamespace", "apiRbac", "policyBinding", "apiSecret", "apiServer",
                   "apiService"}
    BY DEF Isolated!ApiServer
<1>4. /\ DOMAIN a9 = IF env = "DAWN" THEN {"dnsConfig"} ELSE {}
      /\ DOMAIN a14 = IF env = "DAWN" THEN {"testWorkflows"} ELSE {}
    BY DEF Isolated!DNSConfig, Isolated!TestWorkflows
<1>5. /\ DOMAIN a10 = {"gpuOperator"}
      /\ DOMAIN a11 = {"environmentPolicies"}
      /\ DOMAIN a12 = {"policies"}
      /\ DOMAIN a13 = {"runtimeConfig"}
    BY DEF Isolated!GPUOperator, Isolated!NetworkPolicies, Isolated!GeneralPolicies,
           Isolated!ContainerRuntimeConfig
<1>6. Isolated!Deps(env) = Isolated!Together(p)
    BY DEF Isolated!Deps
<1> HIDE DEF a1, a2, a3, a4, a5, a6, a7, a8, a9, a10, a11, a12, a13, a14, a15
<1>7. \A i, j \in 1..15 : \A r \in DOMAIN p[i] \cap DOMAIN p[j] : i = j
    BY <1>1, <1>2, <1>3, <1>4, <1>5
<1>8. DOMAIN p = 1..15
    OBVIOUS
<1>9. UNION {DOMAIN p[i] : i \in 1..15}
          = UNION {DOMAIN a1, DOMAIN a2, DOMAIN a3, DOMAIN a4, DOMAIN a5, DOMAIN a6, DOMAIN a7,
                   DOMAIN a8, DOMAIN a9, DOMAIN a10, DOMAIN a11, DOMAIN a12, DOMAIN a13,
                   DOMAIN a14, DOMAIN a15}
    OBVIOUS
<1> HIDE DEF p
<1>10. \A i \in 1..15 : \A r \in DOMAIN p[i] : Isolated!Together(p)[r] = p[i][r]
    <2> SUFFICES ASSUME NEW i \in 1..15, NEW r \in DOMAIN p[i]
                 PROVE  Isolated!Together(p)[r] = p[i][r]
        OBVIOUS
    <2>1. \A j \in DOMAIN p : r \in DOMAIN p[j] => j = i  BY <1>7, <1>8
    <2>2. i \in DOMAIN p  BY <1>8
    <2> QED  BY <2>1, <2>2, IsolatedTogether
<1>11. DOMAIN Isolated!Together(p) = UNION {DOMAIN p[i] : i \in 1..15}
    BY <1>8, IsolatedTogether
<1>12. DOMAIN Isolated!Deps(env)
           = Isolated!Certs \cup {"storageClass", "minioReady"} \cup Isolated!Minio
             \cup {"minioConfig"} \cup Isolated!Argo
             \cup {"blockStorage", "templates"} \cup Isolated!Api
             \cup {"gpuOperator", "environmentPolicies", "policies", "runtimeConfig"}
             \cup IF env = "DAWN" THEN {"dnsConfig", "testWorkflows"} ELSE {}
    BY <1>1, <1>2, <1>3, <1>4, <1>5, <1>6, <1>9, <1>11, IsolatedSets
<1> QED  BY <1>6, <1>10, <1>12 DEF a1, a2, a3, a4, a5, a6, a7, a8, a9, a10, a11, a12, a13, a14, a15, p

LEMMA IsolatedResources ==
    ASSUME NEW env \in Isolated!Environments
    PROVE  Isolated!Resources(env)
               = Isolated!Certs \cup {"storageClass", "minioReady"} \cup Isolated!Minio
                 \cup {"minioConfig"} \cup Isolated!Argo
                 \cup {"blockStorage", "templates"} \cup Isolated!Api
                 \cup {"gpuOperator", "environmentPolicies", "policies", "runtimeConfig"}
                 \cup IF env = "DAWN" THEN {"dnsConfig", "testWorkflows"} ELSE {}
BY IsolatedParts DEF Isolated!Resources

\* What each depends on, resource by resource.
LEMMA IsolatedDeps ==
    ASSUME NEW env \in Isolated!Environments
    PROVE  LET D == Isolated!Deps(env)
               MinioOpts == Isolated!Certs \cup Isolated!Storage(env)
               All == Isolated!Api \cup Isolated!Argo \cup Isolated!Minio \cup {"minioConfig"}
                      \cup Isolated!Storage(env)
           IN  /\ D["certManager"] = {} /\ D["storageClass"] = {} /\ D["policies"] = {}
               /\ D["issuers"] = {"certManager"} /\ D["trust"] = {"certManager"}
               /\ D["minioNamespaces"] = MinioOpts
               /\ D["minioTrustBundle"] = MinioOpts
               /\ \A r \in {"minioOperator", "minioSecrets", "minioCertificate"} :
                      D[r] = MinioOpts \cup {"minioNamespaces"}
               /\ D["minioTenant"]
                      = MinioOpts \cup {"minioNamespaces", "minioSecrets", "minioOperator",
                                        "storageClass"}
               /\ D["minioReady"] = {"minioTenant", "minioCertificate"}
               /\ D["minioConfig"] = Isolated!Minio
               /\ D["argoNamespaces"] = Isolated!Certs
               /\ D["argoChart"] = Isolated!Certs \cup {"argoNamespaces"}
               /\ D["argoRbac"] = Isolated!Certs \cup {"argoNamespaces", "argoChart"}
               /\ D["blockStorage"]
                      = {"argoNamespaces"} \cup IF env = "AKS" THEN {} ELSE {"storageClass"}
               /\ D["templates"] = Isolated!Argo \cup {"blockStorage"}
               /\ D["apiNamespace"] = Isolated!Argo
               /\ D["apiRbac"] = Isolated!Argo \cup {"apiNamespace"}
               /\ D["policyBinding"] = Isolated!Argo \cup {"apiRbac"}
               /\ D["apiSecret"] = Isolated!Argo \cup {"apiNamespace", "minioNamespaces"}
               /\ D["apiServer"] = Isolated!Argo \cup {"apiSecret", "apiRbac"}
               /\ D["apiService"] = Isolated!Argo \cup {"apiServer"}
               /\ D["gpuOperator"] = Isolated!Certs
               /\ D["environmentPolicies"] = All /\ D["runtimeConfig"] = All
               /\ env = "DAWN" =>
                      /\ D["dnsConfig"] = Isolated!Api
                      /\ D["testWorkflows"] = {"gpuOperator"} \cup Isolated!Argo
<1> DEFINE D == Isolated!Deps(env)
           a1 == Isolated!CertManager
           a2 == Isolated!StorageClasses
           a3 == Isolated!ObjectStorage(Isolated!MinioOpts(env))
           a4 == Isolated!MinioConfigJob(Isolated!Minio)
           a5 == Isolated!WorkflowServer(Isolated!Certs)
           a6 == Isolated!BlockStorageClaim(env)
           a7 == Isolated!WorkflowTemplates(Isolated!Argo)
           a8 == Isolated!ApiServer(Isolated!Argo)
           a9 == Isolated!DNSConfig(env, Isolated!Api)
           a10 == Isolated!GPUOperator(Isolated!Certs)
           a11 == Isolated!NetworkPolicies(Isolated!BeforePolicies(env))
           a12 == Isolated!GeneralPolicies
           a13 == Isolated!ContainerRuntimeConfig(Isolated!BeforePolicies(env))
           a14 == Isolated!TestWorkflows(env, {"gpuOperator"} \cup Isolated!Argo)
           a15 == Isolated!Tenant
           p == <<a1, a2, a3, a15, a4, a5, a6, a7, a8, a9, a10, a11, a12, a13, a14>>
           Has(a) == \A r \in DOMAIN a : D[r] = a[r]
<1>1. \A i \in 1..15 : \A r \in DOMAIN p[i] : D[r] = p[i][r]
    BY IsolatedParts
<1>2. \A i \in 1..15 : Has(p[i])
    BY <1>1
<1> HIDE DEF D, Has, a1, a2, a3, a4, a5, a6, a7, a8, a9, a10, a11, a12, a13, a14, a15
<1>3. /\ Has(a1) /\ Has(a2) /\ Has(a3) /\ Has(a4) /\ Has(a5) /\ Has(a6) /\ Has(a7)
      /\ Has(a8) /\ Has(a9) /\ Has(a10) /\ Has(a11) /\ Has(a12) /\ Has(a13) /\ Has(a14)
      /\ Has(a15)
    <2>1. Has(p[1]) /\ Has(p[2]) /\ Has(p[3]) /\ Has(p[4]) /\ Has(p[5]) /\ Has(p[6]) /\ Has(p[7])
        BY <1>2
    <2>2. Has(p[8]) /\ Has(p[9]) /\ Has(p[10]) /\ Has(p[11]) /\ Has(p[12]) /\ Has(p[13])
          /\ Has(p[14]) /\ Has(p[15])
        BY <1>2
    <2> QED  BY <2>1, <2>2
<1> HIDE DEF p
<1>4. /\ D["certManager"] = {} /\ D["issuers"] = {"certManager"} /\ D["trust"] = {"certManager"}
      /\ D["storageClass"] = {}
    BY <1>3 DEF Has, a1, a2, Isolated!CertManager, Isolated!StorageClasses
<1>5. LET o == Isolated!Certs \cup Isolated!Storage(env) IN
      /\ D["minioNamespaces"] = o
      /\ D["minioTrustBundle"] = o
      /\ D["minioOperator"] = o \cup {"minioNamespaces"}
      /\ D["minioSecrets"] = o \cup {"minioNamespaces"}
      /\ D["minioCertificate"] = o \cup {"minioNamespaces"}
      /\ D["minioTenant"]
             = o \cup {"minioNamespaces", "minioSecrets", "minioOperator", "storageClass"}
      /\ D["minioReady"] = {"minioTenant", "minioCertificate"}
    BY <1>3 DEF Has, a3, a15, Isolated!Tenant, Isolated!ObjectStorage, Isolated!MinioOpts
<1>6. /\ D["minioConfig"] = Isolated!Minio
      /\ D["argoNamespaces"] = Isolated!Certs
      /\ D["argoChart"] = Isolated!Certs \cup {"argoNamespaces"}
      /\ D["argoRbac"] = Isolated!Certs \cup {"argoNamespaces", "argoChart"}
    BY <1>3 DEF Has, a4, a5, Isolated!MinioConfigJob, Isolated!WorkflowServer
<1>7. /\ D["blockStorage"] = {"argoNamespaces"} \cup IF env = "AKS" THEN {} ELSE {"storageClass"}
      /\ D["templates"] = Isolated!Argo \cup {"blockStorage"}
      /\ D["gpuOperator"] = Isolated!Certs
      /\ D["policies"] = {}
    BY <1>3 DEF Has, a6, a7, a10, a12, Isolated!BlockStorageClaim, Isolated!WorkflowTemplates,
                Isolated!GPUOperator, Isolated!GeneralPolicies
<1>8. /\ D["apiNamespace"] = Isolated!Argo
      /\ D["apiRbac"] = Isolated!Argo \cup {"apiNamespace"}
      /\ D["policyBinding"] = Isolated!Argo \cup {"apiRbac"}
      /\ D["apiSecret"] = Isolated!Argo \cup {"apiNamespace", "minioNamespaces"}
      /\ D["apiServer"] = Isolated!Argo \cup {"apiSecret", "apiRbac"}
      /\ D["apiService"] = Isolated!Argo \cup {"apiServer"}
    BY <1>3 DEF Has, a8, Isolated!ApiServer
<1>9. D["environmentPolicies"] = Isolated!BeforePolicies(env)
      /\ D["runtimeConfig"] = Isolated!BeforePolicies(env)
    BY <1>3 DEF Has, a11, a13, Isolated!NetworkPolicies, Isolated!ContainerRuntimeConfig
<1>10. ASSUME env = "DAWN"
       PROVE  D["dnsConfig"] = Isolated!Api
              /\ D["testWorkflows"] = {"gpuOperator"} \cup Isolated!Argo
    BY <1>3, <1>10 DEF Has, a9, a14, Isolated!DNSConfig, Isolated!TestWorkflows
<1>11. Isolated!BeforePolicies(env)
           = Isolated!Api \cup Isolated!Argo \cup Isolated!Minio \cup {"minioConfig"}
             \cup Isolated!Storage(env)
    BY DEF Isolated!BeforePolicies
<1> QED
    BY <1>4, <1>5, <1>6, <1>7, <1>8, <1>9, <1>10, <1>11 DEF D

\* The needs that a declared dependency does not put first are those of Races.
LEMMA IsolatedNeedsDeclared ==
    ASSUME NEW env \in Isolated!Environments, NEW B,
           \A r \in Isolated!Resources(env) :
               B[r] = Isolated!Deps(env)[r] \cup UNION {B[s] : s \in Isolated!Deps(env)[r]},
           NEW r \in Isolated!Resources(env)
                     \ {"minioConfig", "policyBinding", "apiServer", "policies"},
           r \in DOMAIN Isolated!ClusterNeeds(env)
    PROVE  Isolated!ClusterNeeds(env)[r] \subseteq B[r]
<1> DEFINE D == Isolated!Deps(env)
           N == Isolated!ClusterNeeds(env)
<1>1. \A x \in DOMAIN D : D[x] \subseteq B[x] /\ \A s \in D[x] : B[s] \subseteq B[x]
    BY DEF Isolated!Resources
<1>2. DOMAIN N = {"issuers", "trust", "minioOperator", "minioSecrets", "minioCertificate",
                  "minioTrustBundle", "minioTenant", "minioConfig", "argoChart", "argoRbac",
                  "blockStorage", "templates", "apiRbac", "policyBinding", "apiSecret",
                  "apiServer", "apiService", "policies", "environmentPolicies",
                  "testWorkflows"}
    BY DEF Isolated!ClusterNeeds
<1>3. DOMAIN D = Isolated!Resources(env)
      /\ {"apiServer", "apiSecret", "argoNamespaces"} \subseteq DOMAIN D
    <2>1. DOMAIN D = Isolated!Resources(env)
        BY DEF Isolated!Resources
    <2> HIDE DEF D
    <2>2. {"apiServer", "apiSecret", "argoNamespaces"} \subseteq Isolated!Resources(env)
        BY IsolatedResources, IsolatedSets
    <2> QED  BY <2>1, <2>2
<1>4. CASE r \in {"issuers", "trust", "minioOperator", "minioSecrets", "minioCertificate",
                  "minioTrustBundle", "minioTenant"}
    <2>1. N[r] \subseteq D[r]
        BY <1>4, IsolatedDeps, IsolatedSets DEF Isolated!ClusterNeeds
    <2> QED  BY <1>1, <1>3, <2>1
<1>5. CASE r \in {"argoChart", "argoRbac", "blockStorage", "templates", "apiRbac", "apiSecret"}
    <2>1. N[r] \subseteq D[r]
        BY <1>5, IsolatedDeps, IsolatedSets DEF Isolated!ClusterNeeds
    <2> QED  BY <1>1, <1>3, <2>1
<1>6. CASE r = "testWorkflows"
    <2>1. env = "DAWN"
        BY <1>6, IsolatedResources, IsolatedSets
    <2>2. N[r] \subseteq D[r]
        BY <1>6, <2>1, IsolatedDeps, IsolatedSets DEF Isolated!ClusterNeeds
    <2> QED  BY <1>1, <1>3, <2>2
<1>7. CASE r = "apiService"
    <2>1. "apiServer" \in D[r] /\ "apiSecret" \in D["apiServer"]
          /\ "apiNamespace" \in D["apiSecret"]
        BY <1>7, IsolatedDeps
    <2>2. "apiNamespace" \in B["apiSecret"] /\ B["apiSecret"] \subseteq B["apiServer"]
          /\ B["apiServer"] \subseteq B[r]
        BY <1>1, <1>3, <2>1
    <2>3. N[r] = {"apiNamespace"}
        BY <1>7 DEF Isolated!ClusterNeeds
    <2> QED  BY <2>2, <2>3
<1>8. CASE r = "environmentPolicies"
    <2>1. {"argoNamespaces", "minioNamespaces", "apiNamespace"} \subseteq D[r]
        BY <1>8, IsolatedDeps, IsolatedSets
    <2>0. env = "DAWN" => "storageClass" \in D[r]
        BY <1>8, IsolatedDeps, IsolatedSets
    <2>2. "certManager" \in D["argoNamespaces"]
        BY IsolatedDeps, IsolatedSets
    <2>3. "certManager" \in B[r]
        BY <1>1, <1>3, <2>1, <2>2
    <2>4. N[r] \subseteq {"argoNamespaces", "minioNamespaces", "apiNamespace", "certManager"}
                         \cup IF env = "DAWN" THEN {"storageClass"} ELSE {}
        BY <1>8 DEF Isolated!ClusterNeeds
    <2> QED  BY <1>1, <1>3, <2>0, <2>1, <2>3, <2>4
<1> QED  BY <1>2, <1>4, <1>5, <1>6, <1>7, <1>8

\* There is an order in which each resource comes after all it depends on and needs:
\* what has everything whose dependencies and needs it has, has everything.
LEMMA IsolatedOrder ==
    ASSUME NEW env \in Isolated!Environments, NEW M,
           \A r \in Isolated!Registered(env) \cup DOMAIN Isolated!Tenant :
               /\ Isolated!Deps(env)[r] \subseteq M
               /\ r \in DOMAIN Isolated!ClusterNeeds(env)
                      => Isolated!ClusterNeeds(env)[r] \subseteq M
               => r \in M
    PROVE  Isolated!Registered(env) \cup DOMAIN Isolated!Tenant \subseteq M
<1> DEFINE D == Isolated!Deps(env)
           N == Isolated!ClusterNeeds(env)
           R == Isolated!Registered(env) \cup {"minioReady"}
           Has(r) == D[r] \subseteq M /\ (r \in DOMAIN N => N[r] \subseteq M)
           End == {"apiService", "gpuOperator", "policies", "environmentPolicies",
                   "runtimeConfig", "dnsConfig", "testWorkflows"}
<1>s. Isolated!Storage(env) \subseteq {"storageClass"}
    BY IsolatedSets DEF Isolated!Environments
<1>1. \A r \in R : Has(r) => r \in M
    BY IsolatedSets
<1>2. /\ R \ End = Isolated!Certs \cup {"storageClass", "minioReady"} \cup Isolated!Minio \cup {"minioConfig"}
                   \cup Isolated!Argo \cup {"blockStorage", "templates"}
                   \cup (Isolated!Api \ {"apiService"})
      /\ {"dnsConfig", "testWorkflows"} \cap R # {} => env = "DAWN"
    BY IsolatedResources, IsolatedSets DEF Isolated!Registered
<1>3. DOMAIN N = {"issuers", "trust", "minioOperator", "minioSecrets", "minioCertificate",
                  "minioTrustBundle", "minioTenant", "minioConfig", "argoChart", "argoRbac",
                  "blockStorage", "templates", "apiRbac", "policyBinding", "apiSecret",
                  "apiServer", "apiService", "policies", "environmentPolicies",
                  "testWorkflows"}
    BY DEF Isolated!ClusterNeeds
<1> HIDE DEF D, N, R
<1>4. {"certManager", "storageClass"} \subseteq M
    <2>1. D["certManager"] = {} /\ D["storageClass"] = {}
        BY IsolatedDeps DEF D
    <2> QED  BY <1>1, <1>2, <1>3, <2>1, <1>s, IsolatedSets
<1>5. {"issuers", "trust"} \subseteq M
    <2>1. /\ D["issuers"] = {"certManager"} /\ D["trust"] = {"certManager"}
          /\ N["issuers"] = {"certManager"} /\ N["trust"] = {"certManager"}
        BY IsolatedDeps DEF D, N, Isolated!ClusterNeeds
    <2> QED  BY <1>1, <1>2, <1>3, <1>4, <2>1, <1>s, IsolatedSets
<1>6. {"minioNamespaces", "argoNamespaces"} \subseteq M
    <2>1. /\ D["minioNamespaces"] = Isolated!Certs \cup Isolated!Storage(env)
          /\ D["argoNamespaces"] = Isolated!Certs
        BY IsolatedDeps DEF D
    <2> QED  BY <1>1, <1>2, <1>3, <1>4, <1>5, <2>1, <1>s, IsolatedSets
<1>7. {"minioOperator", "minioSecrets", "minioCertificate", "minioTrustBundle"} \subseteq M
    <2>1. /\ D["minioTrustBundle"] = Isolated!Certs \cup Isolated!Storage(env)
          /\ \A r \in {"minioOperator", "minioSecrets", "minioCertificate"} :
                 D[r] = Isolated!Certs \cup Isolated!Storage(env) \cup {"minioNamespaces"}
        BY IsolatedDeps DEF D
    <2>2. /\ N["minioTrustBundle"] = {"trust"}
          /\ \A r \in {"minioOperator", "minioSecrets", "minioCertificate"} :
                 N[r] \subseteq {"minioNamespaces", "certManager"}
        BY DEF N, Isolated!ClusterNeeds
    <2> QED  BY <1>1, <1>2, <1>4, <1>5, <1>6, <2>1, <2>2, <1>s, IsolatedSets
<1>8. "minioTenant" \in M
    <2>1. /\ D["minioTenant"] = Isolated!Certs \cup Isolated!Storage(env)
                 \cup {"minioNamespaces", "minioSecrets", "minioOperator", "storageClass"}
          /\ N["minioTenant"] = {"minioNamespaces", "minioOperator"}
        BY IsolatedDeps DEF D, N, Isolated!ClusterNeeds
    <2> QED  BY <1>1, <1>2, <1>4, <1>5, <1>6, <1>7, <2>1, <1>s, IsolatedSets
<1>r. "minioReady" \in M
    <2>1. D["minioReady"] = {"minioTenant", "minioCertificate"}
        BY IsolatedDeps DEF D
    <2> QED  BY <1>1, <1>2, <1>3, <1>7, <1>8, <2>1
<1>9. Isolated!Minio \cup {"minioConfig"} \subseteq M
    <2>1. D["minioConfig"] = Isolated!Minio
        BY IsolatedDeps DEF D
    <2>2. N["minioConfig"] \subseteq Isolated!Minio \cup {"minioReady"}
        BY IsolatedSets DEF N, Isolated!ClusterNeeds
    <2> QED  BY <1>1, <1>2, <1>6, <1>7, <1>8, <1>r, <2>1, <2>2, <1>s, IsolatedSets
<1>10. Isolated!Argo \subseteq M
    <2>1. /\ D["argoChart"] = Isolated!Certs \cup {"argoNamespaces"}
          /\ D["argoRbac"] = Isolated!Certs \cup {"argoNamespaces", "argoChart"}
          /\ N["argoChart"] = {"argoNamespaces"} /\ N["argoRbac"] = {"argoNamespaces"}
        BY IsolatedDeps DEF D, N, Isolated!ClusterNeeds
    <2>2. "argoChart" \in M
        BY <1>1, <1>2, <1>4, <1>5, <1>6, <2>1, <1>s, IsolatedSets
    <2> QED  BY <1>1, <1>2, <1>4, <1>5, <1>6, <2>1, <2>2, <1>s, IsolatedSets
<1>11. {"blockStorage", "templates"} \subseteq M
    <2>1. /\ D["blockStorage"] \subseteq {"argoNamespaces", "storageClass"}
          /\ N["blockStorage"] = {"argoNamespaces"}
          /\ D["templates"] = Isolated!Argo \cup {"blockStorage"}
          /\ N["templates"] = {"argoNamespaces", "argoChart"}
        BY IsolatedDeps DEF D, N, Isolated!ClusterNeeds
    <2>2. "blockStorage" \in M
        BY <1>1, <1>2, <1>4, <1>6, <2>1
    <2> QED  BY <1>1, <1>2, <1>4, <1>10, <2>1, <2>2, <1>s, IsolatedSets
<1>12. Isolated!Api \ {"apiService"} \subseteq M
    <2>1. /\ D["apiNamespace"] = Isolated!Argo
          /\ D["apiRbac"] = Isolated!Argo \cup {"apiNamespace"}
          /\ D["policyBinding"] = Isolated!Argo \cup {"apiRbac"}
          /\ D["apiSecret"] = Isolated!Argo \cup {"apiNamespace", "minioNamespaces"}
          /\ D["apiServer"] = Isolated!Argo \cup {"apiSecret", "apiRbac"}
        BY IsolatedDeps DEF D
    <2>2. /\ N["apiRbac"] = {"apiNamespace", "argoNamespaces"}
          /\ N["policyBinding"] = {"minioNamespaces", "minioOperator"}
          /\ N["apiSecret"] = {"apiNamespace"}
          /\ N["apiServer"]
                 = {"apiSecret", "apiRbac", "policyBinding", "minioReady", "trust", "argoChart"}
        BY DEF N, Isolated!ClusterNeeds
    <2>3. "apiNamespace" \in M
        BY <1>1, <1>2, <1>3, <1>10, <2>1, <1>s, IsolatedSets
    <2>6. "apiRbac" \in M
        BY <1>1, <1>2, <1>10, <2>1, <2>2, <2>3, IsolatedSets
    <2>4. {"apiRbac", "policyBinding", "apiSecret"} \subseteq M
        BY <1>1, <1>2, <1>6, <1>7, <1>10, <2>1, <2>2, <2>3, <2>6, IsolatedSets
    <2>5. "apiServer" \in M
        BY <1>1, <1>2, <1>5, <1>r, <1>10, <2>1, <2>2, <2>4, IsolatedSets
    <2> QED  BY <2>3, <2>4, <2>5, IsolatedSets
<1>13. R \ End \subseteq M
    BY <1>2, <1>4, <1>5, <1>r, <1>9, <1>10, <1>11, <1>12, IsolatedSets
<1>14. ASSUME NEW r \in R, r \in {"apiService", "gpuOperator", "policies"}
       PROVE  r \in M
    <2>1. /\ D["apiService"] = Isolated!Argo \cup {"apiServer"}
          /\ D["gpuOperator"] = Isolated!Certs /\ D["policies"] = {}
        BY IsolatedDeps DEF D
    <2>2. /\ N["apiService"] = {"apiNamespace"}
          /\ N["policies"] = {"argoNamespaces", "minioNamespaces", "certManager"}
        BY DEF N, Isolated!ClusterNeeds
    <2>3. Has(r)
        BY <1>2, <1>3, <1>13, <1>14, <2>1, <2>2, <1>s, IsolatedSets
    <2> QED  BY <1>1, <2>3
<1>15. ASSUME NEW r \in R, r \in {"environmentPolicies", "runtimeConfig"}
       PROVE  r \in M
    <2>1. "apiService" \in R
        BY <1>15, IsolatedResources, IsolatedSets DEF R, Isolated!Registered
    <2>2. D[r] \subseteq M
        BY <1>2, <1>13, <1>14, <1>15, <2>1, <1>s, IsolatedDeps, IsolatedSets DEF D
    <2>3. N["environmentPolicies"] \subseteq {"argoNamespaces", "minioNamespaces",
                                              "apiNamespace", "certManager", "storageClass"}
        BY DEF N, Isolated!ClusterNeeds
    <2>4. Has(r)
        BY <1>2, <1>3, <1>13, <1>15, <2>2, <2>3, IsolatedSets
    <2> QED  BY <1>1, <2>4
<1>16. ASSUME NEW r \in R, r \in {"dnsConfig", "testWorkflows"}
       PROVE  r \in M
    <2>1. env = "DAWN"
        BY <1>2, <1>16
    <2>2. {"apiService", "gpuOperator"} \subseteq R
        BY <2>1, IsolatedResources, IsolatedSets DEF R, Isolated!Registered
    <2>3. /\ D["dnsConfig"] = Isolated!Api
          /\ D["testWorkflows"] = {"gpuOperator"} \cup Isolated!Argo
        BY <2>1, IsolatedDeps DEF D
    <2>4. N["testWorkflows"] = {"argoNamespaces", "argoChart"}
        BY DEF N, Isolated!ClusterNeeds
    <2>5. Has(r)
        BY <1>2, <1>3, <1>10, <1>12, <1>14, <1>16, <2>2, <2>3, <2>4, IsolatedSets
    <2> QED  BY <1>1, <2>5
<1> QED
    BY <1>13, <1>14, <1>15, <1>16, IsolatedSets DEF R

\* Nothing else depends on or needs MinIO's Job and what waits for it.
LEMMA IsolatedLast ==
    ASSUME NEW env \in Isolated!Environments,
           NEW r \in Isolated!Resources(env)
                     \ {"minioConfig", "environmentPolicies", "runtimeConfig"}
    PROVE  Isolated!Deps(env)[r] \cap {"minioConfig", "environmentPolicies", "runtimeConfig"} = {}
<1> DEFINE D == Isolated!Deps(env)
           J == {"minioConfig", "environmentPolicies", "runtimeConfig"}
<1>s. Isolated!Storage(env) \subseteq {"storageClass"}
    BY IsolatedSets DEF Isolated!Environments
<1>1. CASE r \in Isolated!Certs \cup {"storageClass", "minioReady", "gpuOperator", "policies"}
    BY <1>1, IsolatedDeps, IsolatedSets
<1>2. CASE r \in Isolated!Minio
    BY <1>2, <1>s, IsolatedDeps, IsolatedSets
<1>3. CASE r \in Isolated!Argo \cup {"blockStorage", "templates"}
    BY <1>3, IsolatedDeps, IsolatedSets
<1>4. CASE r \in Isolated!Api
    BY <1>4, IsolatedDeps, IsolatedSets
<1>5. CASE r \in {"dnsConfig", "testWorkflows"}
    <2>1. env = "DAWN"
        BY <1>5, IsolatedResources, IsolatedSets
    <2> QED  BY <1>5, <2>1, IsolatedDeps, IsolatedSets
<1> QED  BY <1>1, <1>2, <1>3, <1>4, <1>5, IsolatedResources

LEMMA IsolatedNeedsLast ==
    ASSUME NEW env \in Isolated!Environments, NEW r \in DOMAIN Isolated!ClusterNeeds(env)
    PROVE  Isolated!ClusterNeeds(env)[r]
               \cap {"minioConfig", "environmentPolicies", "runtimeConfig"} = {}
BY DEF Isolated!ClusterNeeds

-----------------------------------------------------------------------------
(* The graph of the access cluster.                                         *)
LEMMA AccessSets ==
    /\ Access!Certs = {"certManager", "issuers"}
    /\ Access!Storage = {"storageClass"}
    /\ Access!HarborOpts = {"ingress", "certManager", "issuers", "storageClass"}
<1>1. Access!Certs = {"certManager", "issuers"}
    BY DEF Access!Certs, Access!CertManager
<1>2. Access!Storage = {"storageClass"}
    BY DEF Access!Storage, Access!StorageClasses
<1> QED  BY <1>1, <1>2 DEF Access!HarborOpts, Access!Controller

\* What each of Harbor's resources depends on.
IsRegistry(H, env, tls, opts) ==
    /\ DOMAIN H = {"harborNamespace", "harbor", "harborIngress", "containerdNamespace",
                   "containerdDaemon", "harborScript", "harborSecret", "configureHarbor"}
                  \cup (IF tls = "production" THEN {} ELSE {"harborTlsSecret"})
                  \cup (IF env = "AKS" THEN {"harborLb"} ELSE {})
    /\ H["harborNamespace"] = opts
    /\ H["harbor"] = opts \cup {"harborNamespace"}
    /\ \A r \in {"harborIngress", "containerdNamespace", "containerdDaemon",
                 "harborScript", "harborSecret"} : H[r] = opts \cup {"harbor"}
    /\ H["configureHarbor"] = opts \cup {"harborNamespace", "harborScript", "harborSecret"}
    /\ tls # "production" => H["harborTlsSecret"] = opts \cup {"harborIngress"}
    /\ env = "AKS" => H["harborLb"] = opts \cup {"harbor"}

LEMMA AccessRegistry ==
    ASSUME NEW env \in Access!Environments, NEW tls \in Access!TlsEnvironments, NEW opts
    PROVE  IsRegistry(Access!ContainerRegistry(env, tls, opts), env, tls, opts)
<1> DEFINE a1 == [harborNamespace |-> opts,
                  harbor |-> opts \cup {"harborNamespace"},
                  harborIngress |-> opts \cup {"harbor"},
                  containerdNamespace |-> opts \cup {"harbor"},
                  containerdDaemon |-> opts \cup {"harbor"},
                  harborScript |-> opts \cup {"harbor"},
                  harborSecret |-> opts \cup {"harbor"},
                  configureHarbor |-> opts \cup {"harborNamespace", "harborScript", "harborSecret"}]
           a2 == Access!HarborCA(tls, opts)
           a3 == Access!HarborLoadBalancer(env, opts)
           p == <<a1, a2, a3>>
           H == Access!Together(p)
<1>1. /\ DOMAIN a1 = {"harborNamespace", "harbor", "harborIngress", "containerdNamespace",
                      "containerdDaemon", "harborScript", "harborSecret", "configureHarbor"}
      /\ a1["harborNamespace"] = opts
      /\ a1["harbor"] = opts \cup {"harborNamespace"}
      /\ \A r \in {"harborIngress", "containerdNamespace", "containerdDaemon",
                   "harborScript", "harborSecret"} : a1[r] = opts \cup {"harbor"}
      /\ a1["configureHarbor"] = opts \cup {"harborNamespace", "harborScript", "harborSecret"}
    OBVIOUS
<1>2. /\ DOMAIN a2 = IF tls = "production" THEN {} ELSE {"harborTlsSecret"}
      /\ tls # "production" => a2["harborTlsSecret"] = opts \cup {"harborIngress"}
    BY DEF Access!HarborCA
<1>3. /\ DOMAIN a3 = IF env = "AKS" THEN {"harborLb"} ELSE {}
      /\ env = "AKS" => a3["harborLb"] = opts \cup {"harbor"}
    BY DEF Access!HarborLoadBalancer
<1>4. Access!ContainerRegistry(env, tls, opts) = H
    BY DEF Access!ContainerRegistry
<1> HIDE DEF a1, a2, a3
<1>5. \A i, j \in 1..3 : \A r \in DOMAIN p[i] \cap DOMAIN p[j] : i = j
    BY <1>1, <1>2, <1>3
<1>6. /\ DOMAIN p = 1..3 /\ p[1] = a1 /\ p[2] = a2 /\ p[3] = a3
    OBVIOUS
<1> HIDE DEF p
<1>7. \A i \in 1..3 : \A r \in DOMAIN p[i] : Access!Together(p)[r] = p[i][r]
    <2> SUFFICES ASSUME NEW i \in 1..3, NEW r \in DOMAIN p[i]
                 PROVE  Access!Together(p)[r] = p[i][r]
        OBVIOUS
    <2>1. \A j \in DOMAIN p : r \in DOMAIN p[j] => j = i  BY <1>5, <1>6
    <2>2. i \in DOMAIN p  BY <1>6
    <2> QED  BY <2>1, <2>2, AccessTogether
<1>8. DOMAIN H = DOMAIN a1 \cup DOMAIN a2 \cup DOMAIN a3
    <2>1. DOMAIN H = UNION {DOMAIN p[i] : i \in 1..3}  BY <1>6, AccessTogether
    <2> QED  BY <1>6, <2>1
<1> HIDE DEF H
<1>9. /\ \A r \in DOMAIN a1 : H[r] = a1[r]
      /\ \A r \in DOMAIN a2 : H[r] = a2[r]
      /\ \A r \in DOMAIN a3 : H[r] = a3[r]
    <2>1. 1 \in 1..3 /\ 2 \in 1..3 /\ 3 \in 1..3  OBVIOUS
    <2> QED  BY <1>6, <1>7, <2>1 DEF H
<1> QED  BY <1>1, <1>2, <1>3, <1>4, <1>8, <1>9 DEF IsRegistry

\* What each resource of the stack depends on, H being Harbor's.
IsAccess(D, H, env) ==
    /\ DOMAIN D = {"jumpboxNamespace", "jumpbox", "ingress", "certManager", "issuers",
                   "storageClass", "harborCertificate", "environmentPolicies",
                   "policies"} \cup DOMAIN H
    /\ \A r \in DOMAIN H : D[r] = H[r]
    /\ \A r \in {"jumpboxNamespace", "certManager", "storageClass", "policies"} : D[r] = {}
    /\ D["jumpbox"] = {"jumpboxNamespace"}
    /\ D["ingress"] = IF env = "AKS" THEN {"jumpbox"} ELSE {}
    /\ D["issuers"] = {"certManager"}
    /\ D["harborCertificate"] = {"harborIngress", "issuers", "ingress"}
    /\ D["environmentPolicies"] = Access!HarborOpts \cup DOMAIN H

LEMMA AccessDeps ==
    ASSUME NEW env \in Access!Environments, NEW tls \in Access!TlsEnvironments
    PROVE  IsAccess(Access!Deps(env, tls),
                    Access!ContainerRegistry(env, tls, Access!HarborOpts), env)
<1> DEFINE H == Access!ContainerRegistry(env, tls, Access!HarborOpts)
           a1 == Access!FridgeAPIJumpbox
           a2 == Access!Ingress(env)
           a3 == Access!CertManager
           a4 == Access!StorageClasses
           a6 == Access!HarborCertificate
           a7 == Access!NetworkPolicies(Access!BeforePolicies(env, tls))
           a8 == Access!GeneralPolicies
           p == <<a1, a2, a3, a4, H, a6, a7, a8>>
           D == Access!Together(p)
<1>1. /\ DOMAIN a1 = {"jumpboxNamespace", "jumpbox"}
      /\ a1["jumpboxNamespace"] = {} /\ a1["jumpbox"] = {"jumpboxNamespace"}
      /\ DOMAIN a2 = {"ingress"} /\ a2["ingress"] = IF env = "AKS" THEN {"jumpbox"} ELSE {}
      /\ DOMAIN a3 = {"certManager", "issuers"}
      /\ a3["certManager"] = {} /\ a3["issuers"] = {"certManager"}
    BY DEF Access!FridgeAPIJumpbox, Access!Ingress, Access!CertManager
<1>2. /\ DOMAIN a4 = {"storageClass"} /\ a4["storageClass"] = {}
      /\ DOMAIN a6 = {"harborCertificate"}
      /\ a6["harborCertificate"] = {"harborIngress", "issuers", "ingress"}
      /\ DOMAIN a7 = {"environmentPolicies"}
      /\ a7["environmentPolicies"] = Access!BeforePolicies(env, tls)
      /\ DOMAIN a8 = {"policies"} /\ a8["policies"] = {}
    BY DEF Access!StorageClasses, Access!HarborCertificate, Access!NetworkPolicies,
           Access!GeneralPolicies
<1>3. Access!BeforePolicies(env, tls) = Access!HarborOpts \cup DOMAIN H
    <2> DEFINE H0 == Access!ContainerRegistry(env, tls, {})
    <2>0. IsRegistry(H0, env, tls, {}) /\ IsRegistry(H, env, tls, Access!HarborOpts)
        BY AccessRegistry
    <2> HIDE DEF H0, H
    <2>1. DOMAIN H0 = DOMAIN H
        BY <2>0 DEF IsRegistry
    <2> QED
        BY <2>1, AccessSets DEF H0, Access!BeforePolicies, Access!Controller
<1>4. DOMAIN H = {"harborNamespace", "harbor", "harborIngress", "containerdNamespace",
                  "containerdDaemon", "harborScript", "harborSecret", "configureHarbor"}
                 \cup (IF tls = "production" THEN {} ELSE {"harborTlsSecret"})
                 \cup (IF env = "AKS" THEN {"harborLb"} ELSE {})
    <2>1. IsRegistry(H, env, tls, Access!HarborOpts)
        BY AccessRegistry
    <2> HIDE DEF H
    <2> QED  BY <2>1 DEF IsRegistry
<1>5. Access!Deps(env, tls) = D
    BY DEF Access!Deps
<1> HIDE DEF a1, a2, a3, a4, H, a6, a7, a8
<1>6. \A i, j \in 1..8 : \A r \in DOMAIN p[i] \cap DOMAIN p[j] : i = j
    BY <1>1, <1>2, <1>4
<1>7. /\ DOMAIN p = 1..8
      /\ p[1] = a1 /\ p[2] = a2 /\ p[3] = a3 /\ p[4] = a4 /\ p[5] = H /\ p[6] = a6
      /\ p[7] = a7 /\ p[8] = a8
    OBVIOUS
<1> HIDE DEF p
<1>8. \A i \in 1..8 : \A r \in DOMAIN p[i] : Access!Together(p)[r] = p[i][r]
    <2> SUFFICES ASSUME NEW i \in 1..8, NEW r \in DOMAIN p[i]
                 PROVE  Access!Together(p)[r] = p[i][r]
        OBVIOUS
    <2>1. \A j \in DOMAIN p : r \in DOMAIN p[j] => j = i  BY <1>6, <1>7
    <2>2. i \in DOMAIN p  BY <1>7
    <2> QED  BY <2>1, <2>2, AccessTogether
<1>9. DOMAIN D = DOMAIN a1 \cup DOMAIN a2 \cup DOMAIN a3 \cup DOMAIN a4 \cup DOMAIN H
                 \cup DOMAIN a6 \cup DOMAIN a7 \cup DOMAIN a8
    <2>1. DOMAIN D = UNION {DOMAIN p[i] : i \in 1..8}  BY <1>7, AccessTogether
    <2> QED  BY <1>7, <2>1
<1> HIDE DEF D
<1>10. /\ \A r \in DOMAIN a1 : D[r] = a1[r]
       /\ \A r \in DOMAIN a2 : D[r] = a2[r]
       /\ \A r \in DOMAIN a3 : D[r] = a3[r]
       /\ \A r \in DOMAIN a4 : D[r] = a4[r]
       /\ \A r \in DOMAIN H : D[r] = H[r]
       /\ \A r \in DOMAIN a6 : D[r] = a6[r]
       /\ \A r \in DOMAIN a7 : D[r] = a7[r]
       /\ \A r \in DOMAIN a8 : D[r] = a8[r]
    <2>1. {1, 2, 3, 4, 5, 6, 7, 8} \subseteq 1..8  OBVIOUS
    <2> QED  BY <1>7, <1>8, <2>1 DEF D
<1>11. /\ D["jumpboxNamespace"] = {} /\ D["jumpbox"] = {"jumpboxNamespace"}
       /\ D["ingress"] = IF env = "AKS" THEN {"jumpbox"} ELSE {}
       /\ D["certManager"] = {} /\ D["issuers"] = {"certManager"}
    BY <1>1, <1>10
<1>12. /\ D["storageClass"] = {} /\ D["policies"] = {}
       /\ D["harborCertificate"] = {"harborIngress", "issuers", "ingress"}
       /\ D["environmentPolicies"] = Access!HarborOpts \cup DOMAIN H
    BY <1>2, <1>3, <1>10
<1>13. DOMAIN D = {"jumpboxNamespace", "jumpbox", "ingress", "certManager", "issuers",
                   "storageClass", "harborCertificate", "environmentPolicies", "policies"}
                  \cup DOMAIN H
    BY <1>1, <1>2, <1>9
<1>14. \A r \in DOMAIN H : D[r] = H[r]
    BY <1>10
<1> QED  BY <1>5, <1>11, <1>12, <1>13, <1>14 DEF H, IsAccess

LEMMA AccessNeeds ==
    ASSUME NEW env \in Access!Environments, NEW N, N = Access!ClusterNeeds(env)
    PROVE  /\ DOMAIN N = {"jumpbox", "issuers", "harbor", "harborIngress", "harborTlsSecret",
                          "harborLb", "containerdDaemon", "harborScript", "harborSecret",
                          "configureHarbor", "policies", "environmentPolicies"}
           /\ N["jumpbox"] = {"jumpboxNamespace"} /\ N["issuers"] = {"certManager"}
           /\ \A r \in {"harbor", "harborIngress", "harborScript", "harborSecret"} :
                  N[r] = {"harborNamespace"}
           /\ N["harborTlsSecret"] = {"harborCertificate"}
           /\ N["harborLb"] = {"harborNamespace", "harbor"}
           /\ N["containerdDaemon"] = {"containerdNamespace"}
           /\ N["configureHarbor"] = {"harborNamespace", "harbor", "harborScript", "harborSecret"}
           /\ N["policies"] = {"certManager", "containerdNamespace", "harborNamespace", "ingress"}
           /\ N["environmentPolicies"]
                  = {"jumpboxNamespace", "certManager", "ingress", "harborNamespace"}
                    \cup IF env = "DAWN" THEN {"storageClass"} ELSE {}
BY DEF Access!ClusterNeeds

LEMMA AccessNeedsDeclared ==
    ASSUME NEW env \in Access!Environments, NEW tls \in Access!TlsEnvironments, NEW B,
           \A r \in Access!Resources(env, tls) :
               B[r] = Access!Deps(env, tls)[r] \cup UNION {B[s] : s \in Access!Deps(env, tls)[r]},
           NEW r \in Access!Resources(env, tls) \ {"harborTlsSecret", "containerdDaemon", "policies"},
           env = "DAWN" => r # "environmentPolicies",
           r \in DOMAIN Access!ClusterNeeds(env)
    PROVE  Access!ClusterNeeds(env)[r] \subseteq B[r]
<1> DEFINE D == Access!Deps(env, tls)
           N == Access!ClusterNeeds(env)
           H == Access!ContainerRegistry(env, tls, Access!HarborOpts)
<1>d. IsAccess(D, H, env) /\ IsRegistry(H, env, tls, Access!HarborOpts)
    BY AccessDeps, AccessRegistry
<1>n. N = Access!ClusterNeeds(env)
    OBVIOUS
<1>1. \A x \in DOMAIN D : D[x] \subseteq B[x] /\ \A s \in D[x] : B[s] \subseteq B[x]
    BY DEF Access!Resources
<1>2. /\ DOMAIN D = Access!Resources(env, tls)
      /\ {"jumpbox", "ingress", "harbor", "harborScript"} \subseteq DOMAIN D
    BY <1>d DEF Access!Resources, IsAccess, IsRegistry
<1> HIDE DEF D, N, H
<1>3. CASE r \in {"jumpbox", "issuers"}
    <2>1. /\ D["jumpbox"] = {"jumpboxNamespace"} /\ D["issuers"] = {"certManager"}
          /\ N["jumpbox"] = {"jumpboxNamespace"} /\ N["issuers"] = {"certManager"}
        BY <1>n, <1>d, AccessNeeds DEF IsAccess
    <2> QED  BY <1>n, <1>1, <1>2, <1>3, <2>1
<1>4. CASE r \in {"harbor", "harborIngress", "harborScript", "harborSecret", "harborLb",
                  "configureHarbor"}
    <2>1. D["harbor"] = Access!HarborOpts \cup {"harborNamespace"}
          /\ D["harborScript"] = Access!HarborOpts \cup {"harbor"}
        BY <1>d DEF IsAccess, IsRegistry
    <2>2. r \in DOMAIN H
        BY <1>d, <1>2, <1>4 DEF IsAccess
    <2>3. CASE r = "harbor"
        BY <1>n, <1>1, <1>2, <2>1, <2>3, AccessNeeds
    <2>4. CASE r \in {"harborIngress", "harborScript", "harborSecret", "harborLb"}
        <3>1. "harbor" \in D[r]
            BY <1>d, <2>2, <2>4 DEF IsAccess, IsRegistry
        <3>2. {"harborNamespace", "harbor"} \subseteq B[r]
            BY <1>1, <1>2, <2>1, <3>1
        <3> QED  BY <1>n, <2>4, <3>2, AccessNeeds
    <2>5. CASE r = "configureHarbor"
        <3>1. {"harborNamespace", "harborScript", "harborSecret"} \subseteq D[r]
            BY <1>d, <2>2, <2>5 DEF IsAccess, IsRegistry
        <3>2. {"harborNamespace", "harbor", "harborScript", "harborSecret"} \subseteq B[r]
            BY <1>1, <1>2, <2>1, <3>1
        <3> QED  BY <1>n, <2>5, <3>2, AccessNeeds
    <2> QED  BY <1>4, <2>3, <2>4, <2>5
<1>5. CASE r = "environmentPolicies"
    <2>1. env = "AKS"
        BY <1>5 DEF Access!Environments
    <2>2. {"ingress", "certManager", "harborNamespace"} \subseteq D[r]
        BY <1>d, <1>5, AccessSets DEF IsAccess, IsRegistry
    <2>3. "jumpbox" \in D["ingress"] /\ "jumpboxNamespace" \in D["jumpbox"]
        BY <1>d, <2>1 DEF IsAccess
    <2>4. {"jumpboxNamespace", "certManager", "ingress", "harborNamespace"} \subseteq B[r]
        BY <1>1, <1>2, <2>2, <2>3
    <2> QED  BY <1>n, <1>5, <2>1, <2>4, AccessNeeds
<1> QED  BY <1>n, <1>3, <1>4, <1>5, AccessNeeds

LEMMA AccessOrder ==
    ASSUME NEW env \in Access!Environments, NEW tls \in Access!TlsEnvironments, NEW M,
           \A r \in Access!Resources(env, tls) :
               /\ Access!Deps(env, tls)[r] \subseteq M
               /\ r \in DOMAIN Access!ClusterNeeds(env)
                      => Access!ClusterNeeds(env)[r] \subseteq M
               => r \in M
    PROVE  Access!Resources(env, tls) \subseteq M
<1> DEFINE D == Access!Deps(env, tls)
           N == Access!ClusterNeeds(env)
           R == Access!Resources(env, tls)
           H == Access!ContainerRegistry(env, tls, Access!HarborOpts)
           Has(r) == D[r] \subseteq M /\ (r \in DOMAIN N => N[r] \subseteq M)
<1>1. \A r \in R : Has(r) => r \in M
    OBVIOUS
<1>2. /\ R = {"jumpboxNamespace", "jumpbox", "ingress", "certManager", "issuers",
              "storageClass", "harborCertificate", "environmentPolicies", "policies"}
             \cup DOMAIN H
      /\ \A r \in DOMAIN H : D[r] = H[r]
    BY AccessDeps DEF Access!Resources, IsAccess
<1>d. IsAccess(D, H, env) /\ IsRegistry(H, env, tls, Access!HarborOpts)
    BY AccessDeps, AccessRegistry
<1>n. N = Access!ClusterNeeds(env)
    OBVIOUS
<1> HIDE DEF D, N, R, H
<1>3. {"jumpboxNamespace", "certManager", "storageClass"} \subseteq M
    <2>1. \A r \in {"jumpboxNamespace", "certManager", "storageClass"} : Has(r)
        BY <1>n, <1>d, AccessNeeds DEF IsAccess
    <2> QED  BY <1>1, <1>2, <2>1
<1>4. {"jumpbox", "issuers"} \subseteq M
    <2>1. Has("jumpbox") /\ Has("issuers")
        BY <1>n, <1>d, <1>3, AccessNeeds DEF IsAccess
    <2> QED  BY <1>1, <1>2, <2>1
<1>5. Access!HarborOpts \subseteq M
    <2>1. Has("ingress")
        BY <1>n, <1>d, <1>4, AccessNeeds DEF IsAccess
    <2>2. "ingress" \in M
        BY <1>1, <1>2, <2>1
    <2> QED  BY <1>3, <1>4, <2>2, AccessSets
<1>6. "harborNamespace" \in M
    <2>1. "harborNamespace" \in DOMAIN H /\ H["harborNamespace"] = Access!HarborOpts
        BY <1>d DEF IsRegistry
    <2> QED  BY <1>n, <1>1, <1>2, <1>5, <2>1, AccessNeeds
<1>7. "harbor" \in M
    <2>1. "harbor" \in DOMAIN H /\ H["harbor"] = Access!HarborOpts \cup {"harborNamespace"}
        BY <1>d DEF IsRegistry
    <2> QED  BY <1>n, <1>1, <1>2, <1>5, <1>6, <2>1, AccessNeeds
<1>8. {"harborIngress", "containerdNamespace", "harborScript", "harborSecret"} \subseteq M
    <2>1. \A r \in {"harborIngress", "containerdNamespace", "harborScript", "harborSecret"} :
              r \in DOMAIN H /\ H[r] = Access!HarborOpts \cup {"harbor"}
        BY <1>d DEF IsRegistry
    <2> QED  BY <1>n, <1>1, <1>2, <1>5, <1>6, <1>7, <2>1, AccessNeeds
<1>9. "harborCertificate" \in M
    <2>1. Has("harborCertificate")
        BY <1>n, <1>d, <1>4, <1>5, <1>8, AccessNeeds, AccessSets DEF IsAccess
    <2> QED  BY <1>1, <1>2, <2>1
<1>10. DOMAIN H \subseteq M
    <2>1. "containerdDaemon" \in M
        <3>1. "containerdDaemon" \in DOMAIN H
              /\ H["containerdDaemon"] = Access!HarborOpts \cup {"harbor"}
            BY <1>d DEF IsRegistry
        <3> QED  BY <1>n, <1>1, <1>2, <1>5, <1>7, <1>8, <3>1, AccessNeeds
    <2>2. "configureHarbor" \in M
        <3>1. "configureHarbor" \in DOMAIN H
              /\ H["configureHarbor"]
                     = Access!HarborOpts \cup {"harborNamespace", "harborScript", "harborSecret"}
            BY <1>d DEF IsRegistry
        <3> QED  BY <1>n, <1>1, <1>2, <1>5, <1>6, <1>7, <1>8, <3>1, AccessNeeds
    <2>3. ASSUME tls # "production" PROVE "harborTlsSecret" \in M
        <3>1. "harborTlsSecret" \in DOMAIN H
              /\ H["harborTlsSecret"] = Access!HarborOpts \cup {"harborIngress"}
            BY <1>d, <2>3 DEF IsRegistry
        <3> QED  BY <1>n, <1>1, <1>2, <1>5, <1>8, <1>9, <3>1, AccessNeeds
    <2>4. ASSUME env = "AKS" PROVE "harborLb" \in M
        <3>1. "harborLb" \in DOMAIN H /\ H["harborLb"] = Access!HarborOpts \cup {"harbor"}
            BY <1>d, <2>4 DEF IsRegistry
        <3> QED  BY <1>n, <1>1, <1>2, <1>5, <1>6, <1>7, <3>1, AccessNeeds
    <2>5. DOMAIN H = {"harborNamespace", "harbor", "harborIngress", "containerdNamespace",
                      "containerdDaemon", "harborScript", "harborSecret", "configureHarbor"}
                     \cup (IF tls = "production" THEN {} ELSE {"harborTlsSecret"})
                     \cup (IF env = "AKS" THEN {"harborLb"} ELSE {})
        BY <1>d DEF IsRegistry
    <2> QED  BY <1>6, <1>7, <1>8, <2>1, <2>2, <2>3, <2>4, <2>5
<1>11. "policies" \in M
    <2>1. Has("policies")
        BY <1>n, <1>d, <1>3, <1>5, <1>6, <1>8, AccessNeeds, AccessSets DEF IsAccess
    <2> QED  BY <1>1, <1>2, <2>1
<1>12. "environmentPolicies" \in M
    <2>1. D["environmentPolicies"] = Access!HarborOpts \cup DOMAIN H
        BY <1>d DEF IsAccess
    <2>2. N["environmentPolicies"] \subseteq {"jumpboxNamespace", "certManager", "ingress",
                                              "harborNamespace", "storageClass"}
        BY <1>n, AccessNeeds
    <2> QED  BY <1>1, <1>2, <1>3, <1>5, <1>6, <1>10, <2>1, <2>2, AccessSets
<1> QED
    BY <1>2, <1>3, <1>4, <1>5, <1>9, <1>10, <1>11, <1>12, AccessSets DEF R

\* Nothing else depends on or needs Harbor's Job and what waits for it.
LEMMA AccessLast ==
    ASSUME NEW env \in Access!Environments, NEW tls \in Access!TlsEnvironments
    PROVE  LET D == Access!Deps(env, tls)
               J == {"configureHarbor", "environmentPolicies"}
           IN  /\ J \subseteq Access!Resources(env, tls)
               /\ "configureHarbor" \in D["environmentPolicies"]
               /\ \A r \in Access!Resources(env, tls) \ J : D[r] \cap J = {}
<1> DEFINE D == Access!Deps(env, tls)
           H == Access!ContainerRegistry(env, tls, Access!HarborOpts)
           J == {"configureHarbor", "environmentPolicies"}
<1>1. IsAccess(D, H, env) /\ IsRegistry(H, env, tls, Access!HarborOpts)
    BY AccessDeps, AccessRegistry
<1>2. Access!Resources(env, tls) = DOMAIN D
    BY DEF Access!Resources
<1> HIDE DEF D, H
<1>3. \A r \in DOMAIN H \ {"configureHarbor"} : H[r] \cap J = {}
    BY <1>1, AccessSets DEF IsRegistry
<1>4. /\ J \subseteq DOMAIN D
      /\ "configureHarbor" \in D["environmentPolicies"]
    BY <1>1 DEF IsAccess, IsRegistry
<1>5. \A r \in DOMAIN D \ (DOMAIN H \cup J) : D[r] \cap J = {}
    BY <1>1 DEF IsAccess
<1>6. \A r \in DOMAIN H \ J : D[r] \cap J = {}
    BY <1>1, <1>3 DEF IsAccess
<1> QED  BY <1>2, <1>4, <1>5, <1>6 DEF D

LEMMA AccessNeedsLast ==
    ASSUME NEW env \in Access!Environments, NEW r \in DOMAIN Access!ClusterNeeds(env)
    PROVE  Access!ClusterNeeds(env)[r] \cap {"configureHarbor", "environmentPolicies"} = {}
BY DEF Access!ClusterNeeds

-----------------------------------------------------------------------------
(* The graph of the infrastructure.                                         *)
Nodes == {"accessVnet", "accessNodes", "isolatedVnet", "isolatedNodes"}

\* What each resource depends on.
IsInfra(D) ==
    /\ DOMAIN D = {"resourceGroup", "sshKey",
                   "keyVault", "diskKey", "diskEncryptionSet", "accessPolicy",
                   "identity", "diskRole", "accessRole", "isolatedRole",
                   "routeTable", "isolatedNsg", "accessNsg", "accessVnet", "isolatedVnet",
                   "accessNodes", "isolatedNodes", "isolatedToAccess", "accessToIsolated",
                   "isolatedCluster", "accessCluster"}
    /\ D["resourceGroup"] = {} /\ D["sshKey"] = {}
    /\ \A r \in {"keyVault", "identity", "routeTable", "isolatedNsg", "accessNsg",
                 "accessVnet", "isolatedVnet"} : D[r] = {"resourceGroup"}
    /\ D["diskKey"] = {"resourceGroup", "keyVault"}
    /\ D["diskEncryptionSet"] = {"resourceGroup", "diskKey"}
    /\ D["accessPolicy"] = {"resourceGroup", "keyVault", "diskEncryptionSet"}
    /\ D["diskRole"] = {"identity", "diskEncryptionSet"}
    /\ D["accessRole"] = {"identity", "accessNodes"}
    /\ D["isolatedRole"] = {"identity", "isolatedNodes"}
    /\ D["accessNodes"] = {"resourceGroup", "accessVnet", "accessNsg"}
    /\ D["isolatedNodes"] = {"resourceGroup", "isolatedVnet", "isolatedNsg", "routeTable"}
    /\ \A r \in {"isolatedToAccess", "accessToIsolated"} : D[r] = {"resourceGroup"} \cup Nodes
    /\ D["isolatedCluster"] = {"resourceGroup", "identity", "isolatedNodes", "sshKey"}
    /\ D["accessCluster"] = {"resourceGroup", "identity", "accessNodes", "sshKey"}

LEMMA InfraDeps == IsInfra(Infra!Deps)
<1> DEFINE a1 == [resourceGroup |-> {}, sshKey |-> {}]
           a2 == Infra!Encryption
           a3 == Infra!Roles
           a4 == Infra!Networking
           a5 == Infra!IsolatedCluster
           a6 == Infra!AccessCluster
           p == <<a1, a2, a3, a4, a5, a6>>
           D == Infra!Together(p)
<1>1. /\ DOMAIN a1 = {"resourceGroup", "sshKey"}
      /\ a1["resourceGroup"] = {} /\ a1["sshKey"] = {}
    OBVIOUS
<1>2. /\ DOMAIN a2 = {"keyVault", "diskKey", "diskEncryptionSet", "accessPolicy"}
      /\ a2["keyVault"] = {"resourceGroup"}
      /\ a2["diskKey"] = {"resourceGroup", "keyVault"}
      /\ a2["diskEncryptionSet"] = {"resourceGroup", "diskKey"}
      /\ a2["accessPolicy"] = {"resourceGroup", "keyVault", "diskEncryptionSet"}
    BY DEF Infra!Encryption
<1>3. /\ DOMAIN a3 = {"identity", "diskRole", "accessRole", "isolatedRole"}
      /\ a3["identity"] = {"resourceGroup"}
      /\ a3["diskRole"] = {"identity", "diskEncryptionSet"}
      /\ a3["accessRole"] = {"identity", "accessNodes"}
      /\ a3["isolatedRole"] = {"identity", "isolatedNodes"}
    BY DEF Infra!Roles
<1>4. /\ DOMAIN a4 = {"routeTable", "isolatedNsg", "accessNsg", "accessVnet", "isolatedVnet",
                      "accessNodes", "isolatedNodes", "isolatedToAccess", "accessToIsolated"}
      /\ \A r \in {"routeTable", "isolatedNsg", "accessNsg", "accessVnet", "isolatedVnet"} :
             a4[r] = {"resourceGroup"}
      /\ a4["accessNodes"] = {"resourceGroup", "accessVnet", "accessNsg"}
      /\ a4["isolatedNodes"] = {"resourceGroup", "isolatedVnet", "isolatedNsg", "routeTable"}
      /\ \A r \in {"isolatedToAccess", "accessToIsolated"} :
             a4[r] = {"resourceGroup"} \cup Nodes
    BY DEF Infra!Networking, Nodes
<1>5. /\ DOMAIN a5 = {"isolatedCluster"} /\ DOMAIN a6 = {"accessCluster"}
      /\ a5["isolatedCluster"] = {"resourceGroup", "identity", "isolatedNodes", "sshKey"}
      /\ a6["accessCluster"] = {"resourceGroup", "identity", "accessNodes", "sshKey"}
    BY DEF Infra!IsolatedCluster, Infra!AccessCluster
<1>6. Infra!Deps = D
    BY DEF Infra!Deps
<1> HIDE DEF a1, a2, a3, a4, a5, a6
<1>7. \A i, j \in 1..6 : \A r \in DOMAIN p[i] \cap DOMAIN p[j] : i = j
    BY <1>1, <1>2, <1>3, <1>4, <1>5
<1>8. /\ DOMAIN p = 1..6
      /\ p[1] = a1 /\ p[2] = a2 /\ p[3] = a3 /\ p[4] = a4 /\ p[5] = a5 /\ p[6] = a6
    OBVIOUS
<1> HIDE DEF p
<1>9. \A i \in 1..6 : \A r \in DOMAIN p[i] : Infra!Together(p)[r] = p[i][r]
    <2> SUFFICES ASSUME NEW i \in 1..6, NEW r \in DOMAIN p[i]
                 PROVE  Infra!Together(p)[r] = p[i][r]
        OBVIOUS
    <2>1. \A j \in DOMAIN p : r \in DOMAIN p[j] => j = i  BY <1>7, <1>8
    <2>2. i \in DOMAIN p  BY <1>8
    <2> HIDE DEF D
    <2> QED  BY <2>1, <2>2, InfraTogether
<1>10. DOMAIN D = DOMAIN a1 \cup DOMAIN a2 \cup DOMAIN a3 \cup DOMAIN a4 \cup DOMAIN a5
                  \cup DOMAIN a6
    <2>1. DOMAIN D = UNION {DOMAIN p[i] : i \in 1..6}  BY <1>8, InfraTogether
    <2> QED  BY <1>8, <2>1
<1> HIDE DEF D
<1>11. /\ \A r \in DOMAIN a1 : D[r] = a1[r]
       /\ \A r \in DOMAIN a2 : D[r] = a2[r]
       /\ \A r \in DOMAIN a3 : D[r] = a3[r]
       /\ \A r \in DOMAIN a4 : D[r] = a4[r]
       /\ \A r \in DOMAIN a5 : D[r] = a5[r]
       /\ \A r \in DOMAIN a6 : D[r] = a6[r]
    <2>1. {1, 2, 3, 4, 5, 6} \subseteq 1..6  OBVIOUS
    <2> QED  BY <1>8, <1>9, <2>1 DEF D
<1>12. DOMAIN D = {"resourceGroup", "sshKey",
                   "keyVault", "diskKey", "diskEncryptionSet", "accessPolicy",
                   "identity", "diskRole", "accessRole", "isolatedRole",
                   "routeTable", "isolatedNsg", "accessNsg", "accessVnet", "isolatedVnet",
                   "accessNodes", "isolatedNodes", "isolatedToAccess", "accessToIsolated",
                   "isolatedCluster", "accessCluster"}
    BY <1>1, <1>2, <1>3, <1>4, <1>5, <1>10
<1>13. /\ D["resourceGroup"] = {} /\ D["sshKey"] = {}
       /\ D["isolatedCluster"] = {"resourceGroup", "identity", "isolatedNodes", "sshKey"}
       /\ D["accessCluster"] = {"resourceGroup", "identity", "accessNodes", "sshKey"}
    BY <1>1, <1>5, <1>11
<1>14. /\ D["keyVault"] = {"resourceGroup"}
       /\ D["diskKey"] = {"resourceGroup", "keyVault"}
       /\ D["diskEncryptionSet"] = {"resourceGroup", "diskKey"}
       /\ D["accessPolicy"] = {"resourceGroup", "keyVault", "diskEncryptionSet"}
    BY <1>2, <1>11
<1>15. /\ D["identity"] = {"resourceGroup"}
       /\ D["diskRole"] = {"identity", "diskEncryptionSet"}
       /\ D["accessRole"] = {"identity", "accessNodes"}
       /\ D["isolatedRole"] = {"identity", "isolatedNodes"}
    BY <1>3, <1>11
<1>16. /\ \A r \in {"routeTable", "isolatedNsg", "accessNsg", "accessVnet", "isolatedVnet"} :
              D[r] = {"resourceGroup"}
       /\ D["accessNodes"] = {"resourceGroup", "accessVnet", "accessNsg"}
       /\ D["isolatedNodes"] = {"resourceGroup", "isolatedVnet", "isolatedNsg", "routeTable"}
       /\ \A r \in {"isolatedToAccess", "accessToIsolated"} : D[r] = {"resourceGroup"} \cup Nodes
    BY <1>4, <1>11
<1> QED  BY <1>6, <1>12, <1>13, <1>14, <1>15, <1>16 DEF IsInfra

LEMMA InfraNeeds ==
    /\ DOMAIN Infra!Needs = DOMAIN Infra!Deps \ {"resourceGroup", "sshKey"}
    /\ \A r \in DOMAIN Infra!Needs :
           Infra!Needs[r] = {"resourceGroup"}
               \cup IF r \in DOMAIN Infra!AzureNeeds THEN Infra!AzureNeeds[r] ELSE {}
BY DEF Infra!Needs

\* What Azure asks for is an input of the request, and so among its dependencies.
LEMMA InfraNeedsAreDeps ==
    \A r \in DOMAIN Infra!Deps :
        r \in DOMAIN Infra!AzureNeeds => Infra!AzureNeeds[r] \subseteq Infra!Deps[r]
<1> DEFINE D == Infra!Deps
           A == Infra!AzureNeeds
<1>1. DOMAIN A = {"diskKey", "diskEncryptionSet", "accessPolicy", "diskRole", "accessRole",
                  "isolatedRole", "accessNodes", "isolatedNodes", "isolatedToAccess",
                  "accessToIsolated", "isolatedCluster", "accessCluster"}
    BY DEF Infra!AzureNeeds
<1>2. IsInfra(D)
    BY InfraDeps
<1> HIDE DEF D
<1>3. A["diskKey"] \subseteq D["diskKey"] /\ A["diskEncryptionSet"] \subseteq D["diskEncryptionSet"]
      /\ A["accessPolicy"] \subseteq D["accessPolicy"] /\ A["diskRole"] \subseteq D["diskRole"]
    BY <1>2 DEF IsInfra, Infra!AzureNeeds
<1>4. A["accessRole"] \subseteq D["accessRole"] /\ A["isolatedRole"] \subseteq D["isolatedRole"]
      /\ A["accessNodes"] \subseteq D["accessNodes"]
      /\ A["isolatedNodes"] \subseteq D["isolatedNodes"]
    BY <1>2 DEF IsInfra, Infra!AzureNeeds
<1>5. A["isolatedToAccess"] \subseteq D["isolatedToAccess"]
      /\ A["accessToIsolated"] \subseteq D["accessToIsolated"]
      /\ A["isolatedCluster"] \subseteq D["isolatedCluster"]
      /\ A["accessCluster"] \subseteq D["accessCluster"]
    BY <1>2 DEF IsInfra, Nodes, Infra!AzureNeeds
<1> HIDE DEF A
<1>6. \A r \in DOMAIN A : A[r] \subseteq D[r]
    BY <1>1, <1>3, <1>4, <1>5
<1> QED  BY <1>6 DEF A, D

LEMMA InfraNeedsDeclared ==
    ASSUME NEW B,
           \A r \in DOMAIN Infra!Deps :
               B[r] = Infra!Deps[r] \cup UNION {B[s] : s \in Infra!Deps[r]},
           NEW r \in DOMAIN Infra!Needs
    PROVE  Infra!Needs[r] \subseteq B[r]
<1> DEFINE D == Infra!Deps
<1>1. IsInfra(D)
    BY InfraDeps
<1>2. r \in DOMAIN D \ {"resourceGroup", "sshKey"}
    BY InfraNeeds
<1>3. \A x \in DOMAIN D : D[x] \subseteq B[x] /\ \A s \in D[x] : B[s] \subseteq B[x]
    OBVIOUS
<1> HIDE DEF D
<1>4. "resourceGroup" \in B[r]
    <2>1. "identity" \in DOMAIN D /\ D["identity"] = {"resourceGroup"}
        BY <1>1 DEF IsInfra
    <2>2. "resourceGroup" \in B["identity"]
        BY <1>3, <2>1
    <2>3. "resourceGroup" \in D[r] \/ "identity" \in D[r]
        BY <1>1, <1>2 DEF IsInfra
    <2> QED  BY <1>2, <1>3, <2>2, <2>3
<1>5. r \in DOMAIN Infra!AzureNeeds => Infra!AzureNeeds[r] \subseteq B[r]
    BY <1>2, <1>3, InfraNeedsAreDeps DEF D
<1> QED  BY <1>4, <1>5, InfraNeeds

LEMMA InfraOrder ==
    ASSUME NEW M,
           \A r \in DOMAIN Infra!Deps :
               /\ Infra!Deps[r] \subseteq M
               /\ r \in DOMAIN Infra!Needs => Infra!Needs[r] \subseteq M
               => r \in M
    PROVE  DOMAIN Infra!Deps \subseteq M
<1> DEFINE D == Infra!Deps
<1>1. IsInfra(D)
    BY InfraDeps
<1>2. "resourceGroup" \in M
    BY <1>1, InfraNeeds DEF IsInfra
<1>3. \A r \in DOMAIN D : D[r] \subseteq M => r \in M
    <2> SUFFICES ASSUME NEW r \in DOMAIN D, D[r] \subseteq M PROVE r \in M
        OBVIOUS
    <2>1. r \in DOMAIN Infra!Needs => Infra!Needs[r] \subseteq M
        BY <1>2, InfraNeeds, InfraNeedsAreDeps
    <2> QED  BY <2>1
<1> HIDE DEF D
<1>4. {"sshKey", "keyVault", "identity", "routeTable", "isolatedNsg", "accessNsg",
       "accessVnet", "isolatedVnet"} \subseteq M
    BY <1>1, <1>2, <1>3 DEF IsInfra
<1>5. {"diskKey", "accessNodes", "isolatedNodes"} \subseteq M
    BY <1>1, <1>2, <1>3, <1>4 DEF IsInfra
<1>6. {"diskEncryptionSet", "accessRole", "isolatedRole", "isolatedCluster", "accessCluster"}
          \subseteq M
    BY <1>1, <1>2, <1>3, <1>4, <1>5 DEF IsInfra
<1>7. {"isolatedToAccess", "accessToIsolated"} \subseteq M
    BY <1>1, <1>2, <1>3, <1>4, <1>5 DEF IsInfra, Nodes
<1>8. {"accessPolicy", "diskRole"} \subseteq M
    BY <1>1, <1>2, <1>3, <1>4, <1>6 DEF IsInfra
<1> QED
    BY <1>1, <1>2, <1>4, <1>5, <1>6, <1>7, <1>8 DEF IsInfra, D

-----------------------------------------------------------------------------
(* The plan of the stack at hand.                                           *)
LEMMA Clusters ==
    ASSUME stack \in Stacks
    PROVE  \/ stack.cluster = "infra"
           \/ stack.cluster = "isolated" /\ stack.env \in Isolated!Environments
           \/ /\ stack.cluster = "access"
              /\ stack.env \in Access!Environments /\ stack.tls \in Access!TlsEnvironments
BY StacksAssumption DEF InfraStacks, IsolatedStacks, AccessStacks

\* The stack's plan is the graph that its program makes.
LEMMA StackPlans ==
    ASSUME stack \in Stacks
    PROVE  /\ stack.cluster = "infra" => Plan[stack] = Infra!StackGraph
           /\ stack.cluster = "isolated" => Plan[stack] = Isolated!StackGraph(stack.env)
           /\ stack.cluster = "access" => Plan[stack] = Access!StackGraph(stack.env, stack.tls)
BY PlansAssumption, StacksAssumption DEF StackPlan

\* The stack has those resources, dependencies and needs.
IsPlan(deps, needs, registered, issued, jobs) ==
    /\ Resources = DOMAIN deps /\ Registered = registered /\ Issued = issued /\ Jobs = jobs
    /\ \A r \in Resources :
           /\ Deps(r) = deps[r]
           /\ Below(r) = deps[r] \cup UNION {Below(s) : s \in deps[r]}
           /\ r \in DOMAIN needs => Needs(r) = needs[r]
           /\ r \notin DOMAIN needs => Needs(r) = {}

LEMMA PlanOfGraph ==
    ASSUME stack \in Stacks,
           NEW deps, NEW needs, NEW registered, NEW issued, NEW jobs,
           Plan[stack] \in {Infra!Graph(deps, needs, registered, issued, jobs),
                            Isolated!Graph(deps, needs, registered, issued, jobs),
                            Access!Graph(deps, needs, registered, issued, jobs)}
    PROVE  IsPlan(deps, needs, registered, issued, jobs)
<1> DEFINE p == Plan[stack]
<1>1. /\ p.resources = DOMAIN deps /\ p.deps = deps
      /\ p.registered = registered /\ p.issued = issued /\ p.jobs = jobs
      /\ p.needs = [r \in DOMAIN deps |-> IF r \in DOMAIN needs THEN needs[r] ELSE {}]
    <2>1. p \in {Infra!Graph(deps, needs, registered, issued, jobs),
                 Isolated!Graph(deps, needs, registered, issued, jobs),
                 Access!Graph(deps, needs, registered, issued, jobs)}
        OBVIOUS
    <2> HIDE DEF p
    <2>2. CASE p = Infra!Graph(deps, needs, registered, issued, jobs)
        BY <2>2 DEF Infra!Graph
    <2>3. CASE p = Isolated!Graph(deps, needs, registered, issued, jobs)
        BY <2>3 DEF Isolated!Graph
    <2>4. CASE p = Access!Graph(deps, needs, registered, issued, jobs)
        BY <2>4 DEF Access!Graph
    <2> QED  BY <2>1, <2>2, <2>3, <2>4
<1>2. \A r \in p.resources : p.below[r] = p.deps[r] \cup UNION {p.below[s] : s \in p.deps[r]}
    BY PlanAssumption
<1> HIDE DEF p
<1>3. \A r \in DOMAIN deps :
          /\ r \in DOMAIN needs => p.needs[r] = needs[r]
          /\ r \notin DOMAIN needs => p.needs[r] = {}
    BY <1>1
<1>4. \A r \in DOMAIN deps : p.below[r] = deps[r] \cup UNION {p.below[s] : s \in deps[r]}
    BY <1>1, <1>2
<1> QED
    BY <1>1, <1>3, <1>4 DEF p, IsPlan, Resources, Registered, Issued, Jobs, Deps, Needs, Below

LEMMA PlanAt ==
    ASSUME stack \in Stacks
    PROVE  /\ stack.cluster = "infra" => IsPlan(Infra!Deps, Infra!Needs, DOMAIN Infra!Deps, {}, {})
           /\ stack.cluster = "isolated" =>
                  IsPlan(Isolated!Deps(stack.env), Isolated!ClusterNeeds(stack.env),
                         Isolated!Registered(stack.env), DOMAIN Isolated!Tenant, {"minioConfig"})
           /\ stack.cluster = "access" =>
                  IsPlan(Access!Deps(stack.env, stack.tls), Access!ClusterNeeds(stack.env),
                         Access!Resources(stack.env, stack.tls),
                         DOMAIN Access!HarborCertificate, {"configureHarbor"})
<1>1. ASSUME stack.cluster = "infra"
      PROVE  IsPlan(Infra!Deps, Infra!Needs, DOMAIN Infra!Deps, {}, {})
    <2>1. Plan[stack] = Infra!Graph(Infra!Deps, Infra!Needs, DOMAIN Infra!Deps, {}, {})
        BY <1>1, StackPlans DEF Infra!StackGraph
    <2> QED  BY <2>1, PlanOfGraph
<1>2. ASSUME stack.cluster = "isolated"
      PROVE  IsPlan(Isolated!Deps(stack.env), Isolated!ClusterNeeds(stack.env),
                    Isolated!Registered(stack.env), DOMAIN Isolated!Tenant, {"minioConfig"})
    <2>1. Plan[stack] = Isolated!Graph(Isolated!Deps(stack.env),
                                       Isolated!ClusterNeeds(stack.env),
                                       Isolated!Registered(stack.env), DOMAIN Isolated!Tenant, {"minioConfig"})
        BY <1>2, StackPlans DEF Isolated!StackGraph
    <2> QED  BY <2>1, PlanOfGraph
<1>3. ASSUME stack.cluster = "access"
      PROVE  IsPlan(Access!Deps(stack.env, stack.tls), Access!ClusterNeeds(stack.env),
                    Access!Resources(stack.env, stack.tls), DOMAIN Access!HarborCertificate, {"configureHarbor"})
    <2>1. Plan[stack] = Access!Graph(Access!Deps(stack.env, stack.tls),
                                     Access!ClusterNeeds(stack.env),
                                     Access!Resources(stack.env, stack.tls),
                                     DOMAIN Access!HarborCertificate, {"configureHarbor"})
        BY <1>3, StackPlans DEF Access!StackGraph
    <2> QED  BY <2>1, PlanOfGraph
<1> QED  BY <1>1, <1>2, <1>3

-----------------------------------------------------------------------------
(* The races of the three programs.                                         *)
LEMMA OnlyRaces ==
    ASSUME stack \in Stacks, NEW r \in Resources \ Races(stack)
    PROVE  Needs(r) \subseteq Below(r)
<1> DEFINE B == [x \in Resources |-> Below(x)]
           env == stack.env
           tls == stack.tls
<1> SUFFICES ASSUME Needs(r) # {} PROVE Needs(r) \subseteq B[r]
    OBVIOUS
<1>s. \A x \in Resources : Deps(x) \subseteq Resources
    BY PlanAssumption DEF Resources, Deps
<1>b. \A x \in Resources : B[x] = Deps(x) \cup UNION {B[s] : s \in Deps(x)}
    <2> SUFFICES ASSUME NEW x \in Resources
                 PROVE  B[x] = Deps(x) \cup UNION {B[s] : s \in Deps(x)}
        OBVIOUS
    <2>1. Below(x) = Deps(x) \cup UNION {Below(s) : s \in Deps(x)}
        BY PlanAssumption DEF Resources, Below, Deps
    <2>2. \A s \in Deps(x) : B[s] = Below(s)  BY <1>s
    <2> QED  BY <2>1, <2>2
<1> HIDE DEF B
<1>1. CASE stack.cluster = "infra"
    <2>1. IsPlan(Infra!Deps, Infra!Needs, DOMAIN Infra!Deps, {}, {})
        BY <1>1, PlanAt
    <2>2. /\ r \in DOMAIN Infra!Needs /\ Needs(r) = Infra!Needs[r]
          /\ \A x \in DOMAIN Infra!Deps :
                 B[x] = Infra!Deps[x] \cup UNION {B[s] : s \in Infra!Deps[x]}
        BY <1>b, <2>1 DEF IsPlan
    <2> QED  BY <2>2, InfraNeedsDeclared
<1>2. CASE stack.cluster = "isolated"
    <2>0. env \in Isolated!Environments
        BY <1>2, Clusters
    <2>1. IsPlan(Isolated!Deps(env), Isolated!ClusterNeeds(env), Isolated!Registered(env),
                 DOMAIN Isolated!Tenant, {"minioConfig"})
        BY <1>2, PlanAt
    <2>2. /\ Resources = Isolated!Resources(env)
          /\ r \in DOMAIN Isolated!ClusterNeeds(env) /\ Needs(r) = Isolated!ClusterNeeds(env)[r]
          /\ \A x \in Isolated!Resources(env) :
                 B[x] = Isolated!Deps(env)[x] \cup UNION {B[s] : s \in Isolated!Deps(env)[x]}
        BY <1>b, <2>1 DEF IsPlan, Isolated!Resources
    <2>3. r \notin {"minioConfig", "policyBinding", "apiServer", "policies"}
        BY <1>2 DEF Races
    <2> HIDE DEF env
    <2> QED  BY <2>0, <2>2, <2>3, IsolatedNeedsDeclared
<1>3. CASE stack.cluster = "access"
    <2>0. env \in Access!Environments /\ tls \in Access!TlsEnvironments
        BY <1>3, Clusters
    <2>1. IsPlan(Access!Deps(env, tls), Access!ClusterNeeds(env), Access!Resources(env, tls),
                 DOMAIN Access!HarborCertificate, {"configureHarbor"})
        BY <1>3, PlanAt
    <2>2. /\ Resources = Access!Resources(env, tls)
          /\ r \in DOMAIN Access!ClusterNeeds(env) /\ Needs(r) = Access!ClusterNeeds(env)[r]
          /\ \A x \in Access!Resources(env, tls) :
                 B[x] = Access!Deps(env, tls)[x]
                            \cup UNION {B[s] : s \in Access!Deps(env, tls)[x]}
        BY <1>b, <2>1 DEF IsPlan, Access!Resources
    <2>3. /\ r \notin {"harborTlsSecret", "containerdDaemon", "policies"}
          /\ env = "DAWN" => r # "environmentPolicies"
        BY <1>3 DEF Races
    <2> HIDE DEF env, tls
    <2> QED  BY <2>0, <2>2, <2>3, AccessNeedsDeclared
<1> QED  BY <1>1, <1>2, <1>3, Clusters

\* KnownRaces holds of every selection of the stacks and every number of faults:
\* whatever commands fail and are repeated, nothing but the creations listed there
\* is ever refused for want of something the program does not wait for.
THEOREM KnownRacesOnly == Spec => []KnownRaces
<1>1. IInv => KnownRaces
    <2> SUFFICES ASSUME IInv, NEW r \in late PROVE r \in Races(stack)
        BY DEF KnownRaces
    <2>1. stack \in Stacks /\ r \in Resources /\ ~(Needs(r) \subseteq Below(r))
        BY DEF IInv, TypeOK, LateIsUndeclared
    <2> QED  BY <2>1, OnlyRaces
<1> QED  BY <1>1, InitIInv, NextIInv, PTL DEF Spec

-----------------------------------------------------------------------------
(* No command is ever stuck.                                                *)
LEMMA PlanOrder ==
    ASSUME stack \in Stacks, NEW M,
           \A r \in Registered \ Issued : Deps(r) \cup Needs(r) \subseteq M => r \in M,
           \A r \in Issued : Deps(r) \subseteq M => r \in M
    PROVE  Registered \cup Issued \subseteq M
<1> DEFINE env == stack.env
           tls == stack.tls
<1>1. CASE stack.cluster = "infra"
    <2>1. IsPlan(Infra!Deps, Infra!Needs, DOMAIN Infra!Deps, {}, {})
        BY <1>1, PlanAt
    <2>2. /\ Registered = DOMAIN Infra!Deps /\ Issued = {}
          /\ \A r \in DOMAIN Infra!Deps :
                 /\ Deps(r) = Infra!Deps[r]
                 /\ IF r \in DOMAIN Infra!Needs THEN Needs(r) = Infra!Needs[r] ELSE Needs(r) = {}
        BY <2>1 DEF IsPlan
    <2>3. \A r \in DOMAIN Infra!Deps :
              /\ Infra!Deps[r] \subseteq M
              /\ r \in DOMAIN Infra!Needs => Infra!Needs[r] \subseteq M
              => r \in M
        BY <2>2
    <2> QED  BY <2>2, <2>3, InfraOrder
<1>2. CASE stack.cluster = "isolated"
    <2>0. env \in Isolated!Environments
        BY <1>2, Clusters
    <2>1. IsPlan(Isolated!Deps(env), Isolated!ClusterNeeds(env), Isolated!Registered(env),
                 DOMAIN Isolated!Tenant, {"minioConfig"})
        BY <1>2, PlanAt
    <2>2. Registered \subseteq Resources /\ Issued \subseteq Resources
        BY PlanSets
    <2>3. /\ Registered = Isolated!Registered(env) /\ Issued = DOMAIN Isolated!Tenant
          /\ \A r \in Isolated!Registered(env) \cup DOMAIN Isolated!Tenant :
                 /\ Deps(r) = Isolated!Deps(env)[r]
                 /\ IF r \in DOMAIN Isolated!ClusterNeeds(env)
                    THEN Needs(r) = Isolated!ClusterNeeds(env)[r] ELSE Needs(r) = {}
        BY <2>1, <2>2 DEF IsPlan
    <2> HIDE DEF env
    <2>4. \A r \in Isolated!Registered(env) \cup DOMAIN Isolated!Tenant :
              /\ Isolated!Deps(env)[r] \subseteq M
              /\ r \in DOMAIN Isolated!ClusterNeeds(env)
                     => Isolated!ClusterNeeds(env)[r] \subseteq M
              => r \in M
        BY <2>3
    <2> QED  BY <2>0, <2>3, <2>4, IsolatedOrder
<1>3. CASE stack.cluster = "access"
    <2>0. env \in Access!Environments /\ tls \in Access!TlsEnvironments
        BY <1>3, Clusters
    <2>1. IsPlan(Access!Deps(env, tls), Access!ClusterNeeds(env), Access!Resources(env, tls),
                 DOMAIN Access!HarborCertificate, {"configureHarbor"})
        BY <1>3, PlanAt
    <2>2. Issued \subseteq Resources
        BY PlanSets
    <2>3. /\ Registered = Access!Resources(env, tls) /\ Issued = {"harborCertificate"}
          /\ \A r \in Access!Resources(env, tls) :
                 /\ Deps(r) = Access!Deps(env, tls)[r]
                 /\ IF r \in DOMAIN Access!ClusterNeeds(env)
                    THEN Needs(r) = Access!ClusterNeeds(env)[r] ELSE Needs(r) = {}
        BY <2>1 DEF IsPlan, Access!Resources, Access!HarborCertificate
    <2>4. Issued \subseteq Registered
        BY <2>1, <2>2 DEF IsPlan, Access!Resources
    <2> HIDE DEF env, tls
    <2>5. \A r \in Access!Resources(env, tls) :
              /\ Access!Deps(env, tls)[r] \subseteq M
              /\ r \in DOMAIN Access!ClusterNeeds(env)
                     => Access!ClusterNeeds(env)[r] \subseteq M
              => r \in M
        BY <2>3
    <2>6. Access!Resources(env, tls) \subseteq M
        BY <2>0, <2>5, AccessOrder
    <2> QED  BY <2>3, <2>4, <2>6
<1> QED  BY <1>1, <1>2, <1>3, Clusters

\* What a program does not get to is what Unreached lists.
LEMMA RestIsUnreached ==
    ASSUME stack \in Stacks
    PROVE  Resources \ (Registered \cup Issued) = Unreached(stack)
<1>1. CASE stack.cluster = "infra"
    <2>1. IsPlan(Infra!Deps, Infra!Needs, DOMAIN Infra!Deps, {}, {})
        BY <1>1, PlanAt
    <2>2. stack.env = "AKS"
        BY <1>1, StacksAssumption DEF InfraStacks, IsolatedStacks, AccessStacks
    <2> QED  BY <2>1, <2>2 DEF IsPlan, Unreached
<1>2. CASE stack.cluster = "isolated"
    <2> DEFINE env == stack.env
    <2>0. env \in Isolated!Environments
        BY <1>2, Clusters
    <2>1. IsPlan(Isolated!Deps(env), Isolated!ClusterNeeds(env), Isolated!Registered(env),
                 DOMAIN Isolated!Tenant, {"minioConfig"})
        BY <1>2, PlanAt
    <2>2. /\ Resources = Isolated!Resources(env)
          /\ Registered = Isolated!Registered(env) /\ Issued = DOMAIN Isolated!Tenant
        BY <2>1 DEF IsPlan, Isolated!Resources
    <2>3. Unreached(stack)
              = IF env = "K3S" THEN {"apiService", "gpuOperator", "policies",
                                     "environmentPolicies", "runtimeConfig"} ELSE {}
        BY DEF Unreached
    <2> HIDE DEF env
    <2>4. Isolated!Resources(env) \ (Isolated!Registered(env) \cup DOMAIN Isolated!Tenant)
              = IF env = "K3S" THEN {"apiService", "gpuOperator", "policies",
                                     "environmentPolicies", "runtimeConfig"} ELSE {}
        BY <2>0, IsolatedResources, IsolatedSets DEF Isolated!Registered
    <2> QED  BY <2>2, <2>3, <2>4
<1>3. CASE stack.cluster = "access"
    <2>1. IsPlan(Access!Deps(stack.env, stack.tls), Access!ClusterNeeds(stack.env),
                 Access!Resources(stack.env, stack.tls), DOMAIN Access!HarborCertificate, {"configureHarbor"})
        BY <1>3, PlanAt
    <2>2. stack.env # "K3S"
        BY <1>3, Clusters DEF Access!Environments
    <2> QED  BY <2>1, <2>2 DEF IsPlan, Unreached, Access!Resources
<1> QED  BY <1>1, <1>2, <1>3, Clusters

\* Nothing but what waits for a stack's Job depends on it or on what waits for it,
\* or needs any of them.
LEMMA BehindJobIsLast ==
    ASSUME stack \in Stacks
    PROVE  /\ Jobs = {} => BehindJob(stack) = {}
           /\ BehindJob(stack) \subseteq Resources
           /\ Jobs \subseteq BehindJob(stack) /\ BehindJob(stack) \cap Issued = {}
           /\ \A r \in BehindJob(stack) : Jobs \subseteq {r} \cup Deps(r)
           /\ \A r \in Resources \ BehindJob(stack) :
                  (Deps(r) \cup Needs(r)) \cap BehindJob(stack) = {}
<1>1. CASE stack.cluster = "infra"
    <2>1. IsPlan(Infra!Deps, Infra!Needs, DOMAIN Infra!Deps, {}, {})
        BY <1>1, PlanAt
    <2>2. BehindJob(stack) = {}
        BY <1>1 DEF BehindJob
    <2> QED  BY <2>1, <2>2 DEF IsPlan
<1>2. CASE stack.cluster = "isolated"
    <2> DEFINE env == stack.env
               D == Isolated!Deps(env)
               N == Isolated!ClusterNeeds(env)
               J == {"minioConfig", "environmentPolicies", "runtimeConfig"}
    <2>0. env \in Isolated!Environments
        BY <1>2, Clusters
    <2>1. IsPlan(D, N, Isolated!Registered(env), DOMAIN Isolated!Tenant, {"minioConfig"})
        BY <1>2, PlanAt
    <2>2. BehindJob(stack) = J
        BY <1>2 DEF BehindJob
    <2>3. /\ Resources = Isolated!Resources(env) /\ Jobs = {"minioConfig"}
          /\ Issued = {"minioReady"}
          /\ \A r \in Resources :
                 /\ Deps(r) = D[r]
                 /\ IF r \in DOMAIN N THEN Needs(r) = N[r] ELSE Needs(r) = {}
        BY <2>1, IsolatedSets DEF IsPlan, Isolated!Resources
    <2> HIDE DEF env
    <2>4. J \subseteq Isolated!Resources(env)
        BY <2>0, IsolatedResources
    <2>5. "minioConfig" \in D["environmentPolicies"] /\ "minioConfig" \in D["runtimeConfig"]
        BY <2>0, IsolatedDeps
    <2>6. \A r \in Isolated!Resources(env) \ J : D[r] \cap J = {}
        BY <2>0, IsolatedLast DEF Isolated!Resources
    <2>7. \A r \in DOMAIN N : N[r] \cap J = {}
        BY <2>0, IsolatedNeedsLast
    <2> QED  BY <2>2, <2>3, <2>4, <2>5, <2>6, <2>7
<1>3. CASE stack.cluster = "access"
    <2> DEFINE env == stack.env
               tls == stack.tls
               D == Access!Deps(env, tls)
               N == Access!ClusterNeeds(env)
               J == {"configureHarbor", "environmentPolicies"}
    <2>0. env \in Access!Environments /\ tls \in Access!TlsEnvironments
        BY <1>3, Clusters
    <2>1. IsPlan(D, N, Access!Resources(env, tls), DOMAIN Access!HarborCertificate,
                 {"configureHarbor"})
        BY <1>3, PlanAt
    <2>2. BehindJob(stack) = J
        BY <1>3 DEF BehindJob
    <2>3. /\ Resources = Access!Resources(env, tls) /\ Jobs = {"configureHarbor"}
          /\ Issued = {"harborCertificate"}
          /\ \A r \in Resources :
                 /\ Deps(r) = D[r]
                 /\ IF r \in DOMAIN N THEN Needs(r) = N[r] ELSE Needs(r) = {}
        BY <2>1 DEF IsPlan, Access!Resources, Access!HarborCertificate
    <2> HIDE DEF env, tls
    <2>4. /\ J \subseteq Access!Resources(env, tls)
          /\ "configureHarbor" \in D["environmentPolicies"]
          /\ \A r \in Access!Resources(env, tls) \ J : D[r] \cap J = {}
        BY <2>0, AccessLast DEF Access!Resources
    <2>5. \A r \in DOMAIN N : N[r] \cap J = {}
        BY <2>0, AccessNeedsLast
    <2> QED  BY <2>2, <2>3, <2>4, <2>5
<1> QED  BY <1>1, <1>2, <1>3, Clusters

\* CanGetFurther holds of every selection of the stacks and every number of faults:
\* in each program there is an order in which resources can be made, so a command
\* without a failure never waits for what only a later resource would bring, a Job
\* that has failed is in the way of what waits for it alone, and when nothing is left
\* to do all but LeftOut exists.
THEOREM NeverStuck == Spec => []CanGetFurther
<1>1. IInv => CanGetFurther
    <2> SUFFICES ASSUME IInv, up, failed = {},
                        ~\E r \in Resources \ spent : Ready(r) /\ Needs(r) \subseteq made,
                        ~\E r \in Issued \ made : Deps(r) \subseteq made
                 PROVE  Resources \ made = LeftOut
        BY DEF CanGetFurther
    <2> DEFINE Behind == IF spent = {} THEN {} ELSE BehindJob(stack)
               M == made \cup Behind
    <2>1. stack \in Stacks /\ spent \subseteq Jobs
        BY DEF IInv, TypeOK
    <2>2. Registered \subseteq Resources /\ Issued \subseteq Resources
        BY <2>1, PlanSets
    <2>3. /\ Behind \subseteq Resources /\ spent \subseteq Behind /\ Behind \cap Issued = {}
          /\ \A r \in Resources \ Behind : (Deps(r) \cup Needs(r)) \cap Behind = {}
        BY <2>1, BehindJobIsLast
    <2>4. Behind \cap made = {}
        <3> SUFFICES ASSUME NEW r \in BehindJob(stack), r \in made, NEW j \in spent
                     PROVE  FALSE
            OBVIOUS
        <3>1. j \in {r} \cup Deps(r)
            BY <2>1, BehindJobIsLast
        <3>2. j \notin made
            BY DEF IInv, TypeOK
        <3>3. r \in Resources
            BY <2>1, BehindJobIsLast
        <3>4. Deps(r) \subseteq Below(r)
            BY <2>1, <3>3, PlanAssumption DEF Deps, Below, Resources
        <3>5. Below(r) \subseteq made
            BY DEF IInv, Closed
        <3> QED  BY <3>1, <3>2, <3>4, <3>5
    <2> HIDE DEF Behind
    <2>5. \A r \in Registered \ Issued : Deps(r) \cup Needs(r) \subseteq M => r \in M
        <3> SUFFICES ASSUME NEW r \in Registered \ Issued, r \notin Behind,
                            Deps(r) \cup Needs(r) \subseteq M
                     PROVE  r \in made
            OBVIOUS
        <3>1. Deps(r) \subseteq made /\ Needs(r) \subseteq made
            BY <2>2, <2>3
        <3>2. r \in Resources \ spent
            BY <2>2, <2>3
        <3> QED  BY <3>1, <3>2 DEF Ready
    <2>6. \A r \in Issued : Deps(r) \subseteq M => r \in M
        BY <2>2, <2>3
    <2>7. Registered \cup Issued \subseteq M
        <3> HIDE DEF M
        <3> QED  BY <2>1, <2>5, <2>6, PlanOrder
    <2>8. made \subseteq Registered \cup Issued
        BY DEF IInv, Reached
    <2>9. Resources \ (Registered \cup Issued) = Unreached(stack)
        BY <2>1, RestIsUnreached
    <2>10. Resources \ made = Unreached(stack) \cup Behind
        BY <2>2, <2>3, <2>4, <2>7, <2>8, <2>9
    <2> QED  BY <2>10 DEF LeftOut, Behind
<1> QED  BY <1>1, InitIInv, NextIInv, PTL DEF Spec
=============================================================================
