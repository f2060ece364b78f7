--------------------------- MODULE IsolatedStack ---------------------------
(***************************************************************************)
(* The resources of the isolated cluster's stack and the dependencies its  *)
(* program declares.  Every operator is a component of the program: a      *)
(* record of the component's CHILDREN and what each depends on, `opts`     *)
(* being what the component itself was given.  DOMAIN of it is what a      *)
(* depends_on on the component waits for; a resource made without opts is  *)
(* no child.  Resources of a component that come and go together are one;  *)
(* hubble and the patches of standard namespaces, which nothing depends on *)
(* and which depend on nothing, are left out.                              *)
(***************************************************************************)
EXTENDS ResourceGraph

Environments == {"AKS", "DAWN", "K3S"}   \* values of k8s_env

CertManager ==
    [certManager |-> {},
     issuers |-> {"certManager"},
     trust |-> {"certManager"}]

\* On K3s it is read without opts, and is no child.
StorageClasses == [storageClass |-> {}]

\* Mutant: the operator chart is not waited for.
ObjectStorageUnordered(opts) ==
    [minioNamespaces |-> opts,
     minioOperator |-> opts \cup {"minioNamespaces"},
     minioSecrets |-> opts \cup {"minioNamespaces"},
     minioCertificate |-> opts \cup {"minioNamespaces"},
     minioTrustBundle |-> opts,
     minioTenant |-> opts \cup {"minioNamespaces", "minioSecrets", "storageClass"}]

ObjectStorage(opts) ==
    [minioNamespaces |-> opts,
     minioOperator |-> opts \cup {"minioNamespaces"},
     minioSecrets |-> opts \cup {"minioNamespaces"},
     minioCertificate |-> opts \cup {"minioNamespaces"},
     minioTrustBundle |-> opts,
     minioTenant |->
         opts \cup {"minioNamespaces", "minioSecrets", "minioOperator", "storageClass"}]

\* The operator's answer to the tenant: pods, with the certificate's secret, that
\* answer.  Nothing in the program waits for them.
Tenant == [minioReady |-> {"minioTenant", "minioCertificate"}]

MinioConfigJob(opts) == [minioConfig |-> opts]

WorkflowServer(opts) ==
    [argoNamespaces |-> opts,
     argoChart |-> opts \cup {"argoNamespaces"},
     argoRbac |-> opts \cup {"argoNamespaces", "argoChart"}]

\* The claim is made without opts: it waits for the namespace and the class
\* whose names it uses, and is no child of the component.
BlockStorageClaim(env) ==
    [blockStorage |-> {"argoNamespaces"} \cup IF env = "AKS" THEN {} ELSE {"storageClass"}]

WorkflowTemplates(opts) == [templates |-> opts \cup {"blockStorage"}]

\* PolicyBinding names MinIO's namespace by a literal; the secret's MINIO_URL is
\* made of the namespace's output.
ApiServer(opts) ==
    [apiNamespace |-> opts,
     apiRbac |-> opts \cup {"apiNamespace"},
     policyBinding |-> opts \cup {"apiRbac"},
     apiSecret |-> opts \cup {"apiNamespace", "minioNamespaces"},
     apiServer |-> opts \cup {"apiSecret", "apiRbac"},
     apiService |-> opts \cup {"apiServer"}]

DNSConfig(env, opts) == IF env = "DAWN" THEN [dnsConfig |-> opts] ELSE <<>>

GPUOperator(opts) == [gpuOperator |-> opts]

NetworkPolicies(opts) == [environmentPolicies |-> opts]

\* The group of policies common to all environments is made without opts.
GeneralPolicies == [policies |-> {}]

ContainerRuntimeConfig(opts) == [runtimeConfig |-> opts]

TestWorkflows(env, opts) == IF env = "DAWN" THEN [testWorkflows |-> opts] ELSE <<>>

-----------------------------------------------------------------------------
(* __main__.py *)
Certs == DOMAIN CertManager
Storage(env) == IF env = "K3S" THEN {} ELSE DOMAIN StorageClasses
MinioOpts(env) == Certs \cup Storage(env)
Minio == DOMAIN ObjectStorage({})
Argo == DOMAIN WorkflowServer({})
Api == DOMAIN ApiServer({})

\* `resources`; block_storage has no children.
BeforePolicies(env) == Api \cup Argo \cup Minio \cup {"minioConfig"} \cup Storage(env)

Deps(env) ==
    Together(<<CertManager, StorageClasses,
               ObjectStorage(MinioOpts(env)), Tenant, MinioConfigJob(Minio),
               WorkflowServer(Certs), BlockStorageClaim(env),
               WorkflowTemplates(Argo),
               ApiServer(Argo), DNSConfig(env, Api),
               GPUOperator(Certs),
               NetworkPolicies(BeforePolicies(env)), GeneralPolicies,
               ContainerRuntimeConfig(BeforePolicies(env)),
               TestWorkflows(env, {"gpuOperator"} \cup Argo)>>)

Resources(env) == DOMAIN Deps(env)

\* On K3s api_svc_specs is unbound where ApiServer makes its Service: the
\* program ends there, after what it had registered.
Registered(env) ==
    IF env = "K3S"
    THEN Certs \cup DOMAIN StorageClasses \cup Minio \cup {"minioConfig"} \cup Argo
         \cup {"blockStorage", "templates"} \cup (Api \ {"apiService"})
    ELSE Resources(env)

\* What the cluster asks for: the namespace and the kind of an object exist.  A
\* Deployment is awaited until it is ready (the API's imports MinIO and mounts the
\* trust bundle's secret), and a Job until it completes (MinIO's gives up on a
\* tenant that does not answer).
ClusterNeeds(env) ==
    [issuers |-> {"certManager"},
     trust |-> {"certManager"},
     minioOperator |-> {"minioNamespaces"},
     minioSecrets |-> {"minioNamespaces"},
     minioCertificate |-> {"minioNamespaces", "certManager"},
     minioTrustBundle |-> {"trust"},
     minioTenant |-> {"minioNamespaces", "minioOperator"},
     minioConfig |-> {"minioNamespaces", "minioReady", "minioCertificate"},
     argoChart |-> {"argoNamespaces"},
     argoRbac |-> {"argoNamespaces"},
     blockStorage |-> {"argoNamespaces"},
     templates |-> {"argoNamespaces", "argoChart"},
     apiRbac |-> {"apiNamespace", "argoNamespaces"},
     policyBinding |-> {"minioNamespaces", "minioOperator"},
     apiSecret |-> {"apiNamespace"},
     apiServer |-> {"apiSecret", "apiRbac", "policyBinding", "minioReady", "trust", "argoChart"},
     apiService |-> {"apiNamespace"},
     policies |-> {"argoNamespaces", "minioNamespaces", "certManager"},
     environmentPolicies |->
         IF env = "DAWN"
         THEN {"argoNamespaces", "minioNamespaces", "apiNamespace", "certManager", "storageClass"}
         ELSE {"certManager"},
     testWorkflows |-> {"argoNamespaces", "argoChart"}]

StackGraph(env) ==
    Graph(Deps(env), ClusterNeeds(env), Registered(env), DOMAIN Tenant, {"minioConfig"})
=============================================================================
