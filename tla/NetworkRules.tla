---------------------------- MODULE NetworkRules ----------------------------
(***************************************************************************)
(* The rules of the two network security groups of an AKS deployment, as   *)
(* the infrastructure stack sets them ("base") and as the lockdown stack   *)
(* does ("lock"), and the traffic that Azure lets through under them.      *)
(*                                                                         *)
(* A host is a name and, where its address can change, the number of       *)
(* changes; an address prefix is the set of hosts it covers.  The           *)
(* Kubernetes API keeps the private address it was created with.            *)
(***************************************************************************)
EXTENDS Integers

CONSTANT MaxChanges   \* bound: changes of addresses

Names == {"allowlist", "harborIp", "fridgeIp"}
Values == [Names -> 0..MaxChanges]

Host(name) == {<<name, 0>>}
At(name, v) == {<<name, v>>}
Any(name) == {<<name, v>> : v \in 0..MaxChanges}

InternetHosts == Host("internet") \cup Host("aks") \cup Any("admin")
LoadBalancer == Host("azureLoadBalancer")
AccessNodes == Host("accessNode") \cup Any("harbor")
AccessVnet == AccessNodes
IsolatedNodes == Host("isolatedNode") \cup Host("k8sApi") \cup Any("fridgeApi")
IsolatedVnet == IsolatedNodes
Vnets == AccessVnet \cup IsolatedVnet
Everywhere == InternetHosts \cup LoadBalancer \cup Vnets

Ports == {22, 80, 443, 445, 2500, 2800}

Allow(dir, priority, from, to, ports) ==
    [dir |-> dir, priority |-> priority, allow |-> TRUE, from |-> from, to |-> to, ports |-> ports]
Deny(dir, priority, from, to) ==
    [dir |-> dir, priority |-> priority, allow |-> FALSE, from |-> from, to |-> to, ports |-> Ports]

\* Azure's own rules, below all others.  Their tag VirtualNetwork is read as the two
\* peered address spaces, without the prefix of a route to a firewall.
DefaultRules ==
    {Allow("in", 65000, Vnets, Vnets, Ports), Allow("in", 65001, LoadBalancer, Everywhere, Ports),
     Deny("in", 65500, Everywhere, Everywhere),
     Allow("out", 65000, Vnets, Vnets, Ports), Allow("out", 65001, Everywhere, InternetHosts, Ports),
     Deny("out", 65500, Everywhere, Everywhere)}

\* Mutant: the access cluster's port is opened, and nothing denies its others.
BaseIsolatedOpen ==
    {Allow("in", 100, AccessNodes, Everywhere, {443}),
     Deny("out", 4000, Everywhere, AccessVnet)}

\* The infrastructure stack: networking.py.
BaseIsolated ==
    {Allow("in", 100, AccessNodes, Everywhere, {443}),
     Deny("in", 2000, AccessVnet, Everywhere),
     Deny("out", 4000, Everywhere, AccessVnet)}

BaseAccess(v) ==
    {Allow("in", 100, InternetHosts, Everywhere, {443}),
     Allow("in", 110, InternetHosts, Everywhere, {80}),
     Allow("in", 200, At("admin", v.allowlist), Everywhere, {2500}),
     Allow("in", 400, LoadBalancer, Everywhere, Ports),
     Deny("in", 1000, IsolatedVnet, Everywhere),
     Allow("out", 100, Everywhere, IsolatedNodes, {443}),
     Deny("out", 4000, Everywhere, IsolatedVnet)}

\* Mutant: the rule for the FRIDGE API was forgotten.
LockAccessOne(v) ==
    {Allow("in", 100, InternetHosts, Everywhere, {443}),
     Allow("in", 500, IsolatedNodes, At("harbor", v.harborIp), {80, 443}),
     Deny("in", 1000, IsolatedVnet, Everywhere),
     Allow("out", 100, Everywhere, Host("k8sApi"), {443}),
     Deny("out", 4000, Everywhere, IsolatedVnet)}

\* The lockdown stack: network_security_rules.py.
LockAccess(v) ==
    {Allow("in", 100, InternetHosts, Everywhere, {443}),
     Allow("in", 200, At("admin", v.allowlist), Everywhere, {2500}),
     Allow("in", 300, At("admin", v.allowlist), Everywhere, {2800}),
     Allow("in", 400, LoadBalancer, Everywhere, Ports),
     Allow("in", 500, IsolatedNodes, At("harbor", v.harborIp), {80, 443}),
     Deny("in", 1000, IsolatedVnet, Everywhere),
     Allow("out", 100, Everywhere, Host("k8sApi"), {443}),
     Allow("out", 200, Everywhere, At("fridgeApi", v.fridgeIp), {443}),
     Deny("out", 4000, Everywhere, IsolatedVnet)}

\* Mutant: nothing denies what the rules for the APIs do not allow.
LockIsolatedOpen(v) ==
    {Allow("in", 100, AccessNodes, At("fridgeApi", v.fridgeIp), {443}),
     Allow("in", 200, AccessNodes, Host("k8sApi"), {443}),
     Allow("out", 100, IsolatedNodes, At("harbor", v.harborIp), {80, 443}),
     Allow("out", 300, IsolatedNodes, InternetHosts, {443}),
     Deny("out", 3900, Everywhere, AccessVnet),
     Deny("out", 4000, Everywhere, InternetHosts)}

\* The rules for Azure's service tags (110, 150, 160, 200) are one here.
LockIsolated(v) ==
    {Allow("in", 100, AccessNodes, At("fridgeApi", v.fridgeIp), {443}),
     Allow("in", 200, AccessNodes, Host("k8sApi"), {443}),
     Allow("in", 400, LoadBalancer, Everywhere, Ports),
     Allow("in", 1000, IsolatedVnet, IsolatedVnet, Ports),
     Deny("in", 2000, AccessVnet, Everywhere),
     Allow("out", 100, IsolatedNodes, At("harbor", v.harborIp), {80, 443}),
     Allow("out", 160, IsolatedNodes, Host("aks"), {443, 445}),
     Allow("out", 300, IsolatedNodes, InternetHosts, {443}),
     Allow("out", 350, IsolatedVnet, IsolatedVnet, Ports),
     Deny("out", 3900, Everywhere, AccessVnet),
     Deny("out", 4000, Everywhere, InternetHosts)}

-----------------------------------------------------------------------------
\* Of the rules that match, the one with the lowest number decides.
Passes(rs, dir, from, to, port) ==
    LET match == {r \in rs \cup DefaultRules :
                      r.dir = dir /\ from \in r.from /\ to \in r.to /\ port \in r.ports}
    IN  \E r \in match : r.allow /\ \A s \in match : r.priority <= s.priority
=============================================================================
