---------------------------- MODULE AccessStack ----------------------------
(***************************************************************************)
(* The resources of the access cluster's stack and the dependencies its    *)
(* program declares, in the form of IsolatedStack: an operator per         *)
(* component, which gives the component's CHILDREN and what each depends   *)
(* on.  Here one resource is made by the cluster and only read by the      *)
(* program: the secret of Harbor's certificate.  Again hubble and the      *)
(* patches of standard namespaces are left out.                            *)
(***************************************************************************)
EXTENDS ResourceGraph

\* The values of k8s_env and tls_environment that the stack is deployed with (its
\* network policies raise on K3s).
Environments == {"AKS", "DAWN"}
TlsEnvironments == {"development", "staging", "production"}

FridgeAPIJumpbox == [jumpboxNamespace |-> {}, jumpbox |-> {"jumpboxNamespace"}]

\* The chart's values name the jumpbox's Service; on Dawn the controller is
\* there already and only looked up.
Ingress(env) == [ingress |-> IF env = "AKS" THEN {"jumpbox"} ELSE {}]

CertManager == [certManager |-> {}, issuers |-> {"certManager"}]

StorageClasses == [storageClass |-> {}]

\* Secret.get reads what cert-manager makes for the Ingress.
HarborCA(tls, opts) ==
    IF tls = "production" THEN <<>>
    ELSE [harborTlsSecret |-> opts \cup {"harborIngress"}]

HarborLoadBalancer(env, opts) ==
    IF env = "AKS" THEN [harborLb |-> opts \cup {"harbor"}] ELSE <<>>

\* Mutant: the Job's script is not waited for, and Harbor neither.
ContainerRegistryUnordered(env, tls, opts) ==
    Together(<<
        [harborNamespace |-> opts,
         harbor |-> opts \cup {"harborNamespace"},
         harborIngress |-> opts \cup {"harbor"},
         containerdNamespace |-> opts \cup {"harbor"},
         containerdDaemon |-> opts \cup {"harbor"},
         harborScript |-> opts \cup {"harbor"},
         harborSecret |-> opts \cup {"harbor"},
         configureHarbor |-> opts \cup {"harborNamespace"}],
        HarborCA(tls, opts), HarborLoadBalancer(env, opts)>>)

\* Mutant: the certificate's secret is read first and handed to the Ingress.
ContainerRegistrySecretFirst(env, tls, opts) ==
    Together(<<
        [harborNamespace |-> opts,
         harbor |-> opts \cup {"harborNamespace"},
         harborTlsSecret |-> opts \cup {"harbor"},
         harborIngress |-> opts \cup {"harbor", "harborTlsSecret"},
         containerdNamespace |-> opts \cup {"harbor"},
         containerdDaemon |-> opts \cup {"harbor"},
         harborScript |-> opts \cup {"harbor"},
         harborSecret |-> opts \cup {"harbor"},
         configureHarbor |-> opts \cup {"harborNamespace", "harborScript", "harborSecret"}],
        HarborLoadBalancer(env, opts)>>)

\* The DaemonSet's manifest names the namespace by a literal.
ContainerRegistry(env, tls, opts) ==
    Together(<<
        [harborNamespace |-> opts,
         harbor |-> opts \cup {"harborNamespace"},
         harborIngress |-> opts \cup {"harbor"},
         containerdNamespace |-> opts \cup {"harbor"},
         containerdDaemon |-> opts \cup {"harbor"},
         harborScript |-> opts \cup {"harbor"},
         harborSecret |-> opts \cup {"harbor"},
         configureHarbor |-> opts \cup {"harborNamespace", "harborScript", "harborSecret"}],
        HarborCA(tls, opts), HarborLoadBalancer(env, opts)>>)

NetworkPolicies(opts) == [environmentPolicies |-> opts]

\* The group of policies common to all environments is made without opts.
GeneralPolicies == [policies |-> {}]

\* cert-manager's answer to the annotation of Harbor's Ingress.
HarborCertificate == [harborCertificate |-> {"harborIngress", "issuers", "ingress"}]

-----------------------------------------------------------------------------
(* __main__.py *)
Certs == DOMAIN CertManager
Controller == {"ingress"}
Storage == DOMAIN StorageClasses
HarborOpts == Controller \cup Certs \cup Storage

\* `resources`; the jumpbox is not among them.
BeforePolicies(env, tls) == Certs \cup DOMAIN ContainerRegistry(env, tls, {}) \cup Controller \cup Storage

Deps(env, tls) ==
    Together(<<FridgeAPIJumpbox, Ingress(env), CertManager, StorageClasses,
               ContainerRegistry(env, tls, HarborOpts), HarborCertificate,
               NetworkPolicies(BeforePolicies(env, tls)), GeneralPolicies>>)

Resources(env, tls) == DOMAIN Deps(env, tls)

\* What the cluster asks for: the namespaces of objects and, for the secret that
\* is read, its existence.
ClusterNeeds(env) ==
    [jumpbox |-> {"jumpboxNamespace"},
     issuers |-> {"certManager"},
     harbor |-> {"harborNamespace"},
     harborIngress |-> {"harborNamespace"},
     harborTlsSecret |-> {"harborCertificate"},
     harborLb |-> {"harborNamespace", "harbor"},
     containerdDaemon |-> {"containerdNamespace"},
     harborScript |-> {"harborNamespace"},
     harborSecret |-> {"harborNamespace"},
     configureHarbor |-> {"harborNamespace", "harbor", "harborScript", "harborSecret"},
     policies |-> {"certManager", "containerdNamespace", "harborNamespace", "ingress"},
     environmentPolicies |->
         {"jumpboxNamespace", "certManager", "ingress", "harborNamespace"}
         \cup IF env = "DAWN" THEN {"storageClass"} ELSE {}]

StackGraph(env, tls) ==
    Graph(Deps(env, tls), ClusterNeeds(env), Resources(env, tls), DOMAIN HarborCertificate,
          {"configureHarbor"})
=============================================================================
