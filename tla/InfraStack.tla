----------------------------- MODULE InfraStack -----------------------------
(***************************************************************************)
(* The resources of the AKS infrastructure stack and the dependencies its  *)
(* program declares, in the form of IsolatedStack.  A dependency is either *)
(* written as depends_on or is an output of another resource that is used  *)
(* as an input.                                                            *)
(***************************************************************************)
EXTENDS ResourceGraph

\* The vault's name ends in a random suffix.
Encryption ==
    [keyVault |-> {"resourceGroup"},
     diskKey |-> {"resourceGroup", "keyVault"},
     diskEncryptionSet |-> {"resourceGroup", "diskKey"},
     accessPolicy |-> {"resourceGroup", "keyVault", "diskEncryptionSet"}]

Roles ==
    [identity |-> {"resourceGroup"},
     diskRole |-> {"identity", "diskEncryptionSet"},
     accessRole |-> {"identity", "accessNodes"},
     isolatedRole |-> {"identity", "isolatedNodes"}]

\* Mutant: the isolated subnet names its route table instead of using its id.
NetworkingByName ==
    LET group == {"resourceGroup"}
        nodes == {"accessVnet", "accessNodes", "isolatedVnet", "isolatedNodes"}
    IN  [routeTable |-> group, isolatedNsg |-> group, accessNsg |-> group,
         accessVnet |-> group, isolatedVnet |-> group,
         accessNodes |-> group \cup {"accessVnet", "accessNsg"},
         isolatedNodes |-> group \cup {"isolatedVnet", "isolatedNsg"},
         isolatedToAccess |-> group \cup nodes,
         accessToIsolated |-> group \cup nodes]

\* Mutant: the peerings wait for the VNets alone.
NetworkingUnordered ==
    LET group == {"resourceGroup"}
        vnets == {"accessVnet", "isolatedVnet"}
    IN  [routeTable |-> group, isolatedNsg |-> group, accessNsg |-> group,
         accessVnet |-> group, isolatedVnet |-> group,
         accessNodes |-> group \cup {"accessVnet", "accessNsg"},
         isolatedNodes |-> group \cup {"isolatedVnet", "isolatedNsg", "routeTable"},
         isolatedToAccess |-> group \cup vnets,
         accessToIsolated |-> group \cup vnets]

\* The peerings wait for the subnets too, which Azure changes with their VNets.
Networking ==
    LET group == {"resourceGroup"}
        nodes == {"accessVnet", "accessNodes", "isolatedVnet", "isolatedNodes"}
    IN  [routeTable |-> group, isolatedNsg |-> group, accessNsg |-> group,
         accessVnet |-> group, isolatedVnet |-> group,
         accessNodes |-> group \cup {"accessVnet", "accessNsg"},
         isolatedNodes |-> group \cup {"isolatedVnet", "isolatedNsg", "routeTable"},
         isolatedToAccess |-> group \cup nodes,
         accessToIsolated |-> group \cup nodes]

\* The disk encryption set is a parameter of the cluster that is not used.
IsolatedCluster == [isolatedCluster |-> {"resourceGroup", "identity", "isolatedNodes", "sshKey"}]
AccessCluster == [accessCluster |-> {"resourceGroup", "identity", "accessNodes", "sshKey"}]

-----------------------------------------------------------------------------
(* __main__.py *)
Deps ==
    Together(<<[resourceGroup |-> {}, sshKey |-> {}],
               Encryption, Roles, Networking, IsolatedCluster, AccessCluster>>)

\* What Azure asks for: the resources that a request refers to exist, and no
\* subnet of a VNet is being made while the VNet is peered.
AzureNeeds ==
    [diskKey |-> {"keyVault"},
     diskEncryptionSet |-> {"diskKey"},
     accessPolicy |-> {"keyVault", "diskEncryptionSet"},
     diskRole |-> {"identity", "diskEncryptionSet"},
     accessRole |-> {"identity", "accessNodes"},
     isolatedRole |-> {"identity", "isolatedNodes"},
     accessNodes |-> {"accessVnet", "accessNsg"},
     isolatedNodes |-> {"isolatedVnet", "isolatedNsg", "routeTable"},
     isolatedToAccess |-> {"isolatedVnet", "accessVnet", "isolatedNodes", "accessNodes"},
     accessToIsolated |-> {"isolatedVnet", "accessVnet", "isolatedNodes", "accessNodes"},
     isolatedCluster |-> {"isolatedNodes", "identity"},
     accessCluster |-> {"accessNodes", "identity"}]

Needs ==
    [r \in DOMAIN Deps \ {"resourceGroup", "sshKey"} |->
        {"resourceGroup"} \cup IF r \in DOMAIN AzureNeeds THEN AzureNeeds[r] ELSE {}]

StackGraph == Graph(Deps, Needs, DOMAIN Deps, {}, {})
=============================================================================
