------------------------------ MODULE Lockdown ------------------------------
(***************************************************************************)
(* The network of an AKS deployment after both clusters are deployed.  Two *)
(* Pulumi stacks write the rules of the same network security groups, each *)
(* from what it last recorded of them: the infrastructure stack, and the   *)
(* lockdown stack, which also points Harbor's name at its internal address *)
(* and routes the isolated cluster's traffic through a firewall.  It reads *)
(* addresses from the outputs of other stacks.  The commands of the two     *)
(* stacks may run at the same time, with or without --refresh, and fail.    *)
(***************************************************************************)
EXTENDS NetworkRules

ASSUME MaxChangesAssumption == MaxChanges \in Nat

VARIABLES
    config,     \* admin_ip_allowlist in the infrastructure's configuration
    address,    \* addresses of Harbor and of the FRIDGE API
    value,      \* outputs of the other stacks
    changes,    \* how often an address or the allowlist was changed
    rules,      \* rules of each NSG: who set them, and from which values
    infra,      \* the infrastructure stack: its command and what it recorded
    lock,       \* the lockdown stack: the same
    record,     \* address of Harbor's record in the private zone; -1: none
    linked,     \* the zone is linked to the isolated VNet
    firewall,   \* the firewall exists
    route,      \* the route table's default route leads to it
    disturbed,  \* ghost: the NSGs that infra rewrote since lockdown last looked at them
    completed   \* ghost: a lockdown command has completed

net == <<rules, record, linked, firewall, route>>
vars == <<config, address, value, changes, rules, infra, lock, record, linked, firewall, route,
          disturbed, completed>>
ghosts == <<disturbed, completed>>

Nsgs == {"access", "isolated"}
Addresses == {"harborIp", "fridgeIp"}
LockResources == Nsgs \cup {"record", "link", "firewall", "route"}

\* What a stack asks for, reduced to the values its rules are made from.
Using(names, v) == [n \in Names |-> IF n \in names THEN v[n] ELSE 0]
Base(n, v) == [set |-> "base", from |-> Using(IF n = "access" THEN {"allowlist"} ELSE {}, v)]
Lock(n, v) ==
    [set |-> "lock", from |-> Using(IF n = "access" THEN Names ELSE Addresses, v)]
Unknown == [set |-> "unknown", from |-> [n \in Names |-> 0]]

AccessRules(r) == IF r.set = "base" THEN BaseAccess(r.from) ELSE LockAccess(r.from)
IsolatedRules(r) == IF r.set = "base" THEN BaseIsolated ELSE LockIsolated(r.from)
RulesOf(n) == IF n = "access" THEN AccessRules(rules[n]) ELSE IsolatedRules(rules[n])

\* Both clusters are deployed.
Init ==
    /\ config = 0
    /\ address = [n \in Addresses |-> 0]
    /\ value = [n \in Names |-> 0]
    /\ changes = 0
    /\ rules = [n \in Nsgs |-> Base(n, value)]
    /\ infra = [state |-> "ended", left |-> {}, sees |-> value, knows |-> rules]
    /\ lock = [state |-> "never", left |-> {}, sees |-> value, knows |-> [n \in Nsgs |-> Unknown]]
    /\ record = -1
    /\ linked = FALSE /\ firewall = FALSE /\ route = FALSE
    /\ disturbed = {}
    /\ completed = FALSE

-----------------------------------------------------------------------------
(* What changes under the two stacks.                                       *)
EditAllowlist ==
    /\ changes < MaxChanges
    /\ \E v \in 0..MaxChanges : v # config /\ config' = v
    /\ changes' = changes + 1
    /\ UNCHANGED <<address, value, infra, lock, ghosts>> /\ UNCHANGED net

\* A command of the access stack replaces Harbor's load balancer, or one of the
\* isolated stack moves the FRIDGE API.
Move(n) ==
    /\ changes < MaxChanges
    /\ address' = [address EXCEPT ![n] = @ + 1]
    /\ changes' = changes + 1
    /\ UNCHANGED <<config, value, infra, lock, ghosts>> /\ UNCHANGED net

\* The command ends and the address is an output of its stack.
Publish(n) ==
    /\ value[n] # address[n]
    /\ value' = [value EXCEPT ![n] = address[n]]
    /\ UNCHANGED <<config, address, changes, infra, lock, ghosts>> /\ UNCHANGED net

-----------------------------------------------------------------------------
(* pulumi up in the infrastructure stack.                                   *)
InfraUp(refresh) ==
    /\ infra.state # "running"
    /\ infra' = [state |-> "running", left |-> Nsgs,
                 sees |-> [value EXCEPT !["allowlist"] = config],
                 knows |-> IF refresh THEN rules ELSE infra.knows]
    /\ UNCHANGED <<config, address, value, changes, lock, ghosts>> /\ UNCHANGED net

\* Mutant: the routes are not ignored and are reset with the rules.
InfraResetsRoutes(n) ==
    LET want == Base(n, infra.sees)
    IN  /\ n \in infra.left
        /\ rules' = [rules EXCEPT ![n] = IF want = infra.knows[n] THEN @ ELSE want]
        /\ route' = (route /\ want = infra.knows[n])
        /\ disturbed' = IF want = infra.knows[n] THEN disturbed ELSE disturbed \cup {n}
        /\ infra' = [infra EXCEPT !.left = @ \ {n}, !.knows[n] = want]
        /\ UNCHANGED <<config, address, value, changes, lock, record, linked, firewall, completed>>

\* Only what differs from the recorded rules is written.  The routes of the
\* route table are ignored.
InfraWrites(n) ==
    LET want == Base(n, infra.sees)
    IN  /\ n \in infra.left
        /\ IF want = infra.knows[n]
           THEN UNCHANGED <<rules, disturbed>>
           ELSE /\ rules' = [rules EXCEPT ![n] = want]
                /\ disturbed' = disturbed \cup {n}
        /\ infra' = [infra EXCEPT !.left = @ \ {n}, !.knows[n] = want]
        /\ UNCHANGED <<config, address, value, changes, lock, record, linked, firewall, route, completed>>

InfraEnds ==
    /\ infra.state = "running" /\ infra.left = {}
    /\ infra' = [infra EXCEPT !.state = "ended"]
    /\ value' = [value EXCEPT !["allowlist"] = infra.sees["allowlist"]]
    /\ UNCHANGED <<config, address, changes, lock, ghosts>> /\ UNCHANGED net

InfraFails ==
    /\ infra.state = "running" /\ infra.left # {}
    /\ infra' = [infra EXCEPT !.state = "failed", !.left = {}]
    /\ UNCHANGED <<config, address, value, changes, lock, ghosts>> /\ UNCHANGED net

-----------------------------------------------------------------------------
(* pulumi up in the lockdown stack.                                         *)

\* A refresh reads the NSGs that the stack has imported.
LockUp(refresh) ==
    /\ lock.state # "running"
    /\ LET reads == {n \in Nsgs : refresh /\ lock.knows[n] # Unknown}
       IN  /\ lock' = [state |-> "running", left |-> LockResources, sees |-> value,
                       knows |-> [n \in Nsgs |-> IF n \in reads THEN rules[n] ELSE lock.knows[n]]]
           /\ disturbed' = disturbed \ reads
    /\ UNCHANGED <<config, address, value, changes, infra, completed>> /\ UNCHANGED net

LockNext(r) == lock' = [lock EXCEPT !.left = @ \ {r}]

\* The operator enters a group into the stack, by pulumi import.
Adopt(n) ==
    /\ lock.state # "running" /\ lock.knows[n] = Unknown
    /\ lock' = [lock EXCEPT !.knows[n] = rules[n]]
    /\ disturbed' = disturbed \ {n}
    /\ UNCHANGED <<config, address, value, changes, infra, completed>> /\ UNCHANGED net

\* A group that the stack has no record of is imported (import_) by the command,
\* which fails where its rules are not those asked for.

LockWrites(n) ==
    LET want == Lock(n, lock.sees)
    IN  /\ n \in lock.left
        /\ lock.knows[n] = Unknown => rules[n] = want
        /\ IF want = lock.knows[n]
           THEN UNCHANGED <<rules, disturbed>>
           ELSE /\ rules' = [rules EXCEPT ![n] = want]
                /\ disturbed' = disturbed \ {n}
        /\ lock' = [lock EXCEPT !.left = @ \ {n}, !.knows[n] = want]
        /\ UNCHANGED <<config, address, value, changes, infra, record, linked, firewall, route, completed>>

\* Mutant: the record takes the address after Harbor's.
LockRecordNext ==
    /\ "record" \in lock.left /\ LockNext("record")
    /\ record' = lock.sees["harborIp"] + 1
    /\ UNCHANGED <<config, address, value, changes, rules, infra, linked, firewall, route, ghosts>>

\* Mutant: a record that is there is kept.
LockRecordOnce ==
    /\ "record" \in lock.left /\ LockNext("record")
    /\ record' = IF record = -1 THEN lock.sees["harborIp"] ELSE record
    /\ UNCHANGED <<config, address, value, changes, rules, infra, linked, firewall, route, ghosts>>

LockRecord ==
    /\ "record" \in lock.left /\ LockNext("record")
    /\ record' = lock.sees["harborIp"]
    /\ UNCHANGED <<config, address, value, changes, rules, infra, linked, firewall, route, ghosts>>

LockLink ==
    /\ "link" \in lock.left /\ LockNext("link")
    /\ linked' = TRUE
    /\ UNCHANGED <<config, address, value, changes, rules, infra, record, firewall, route, ghosts>>

LockFirewall ==
    /\ "firewall" \in lock.left /\ LockNext("firewall")
    /\ firewall' = TRUE
    /\ UNCHANGED <<config, address, value, changes, rules, infra, record, linked, route, ghosts>>

\* The default route's next hop is the firewall's address.
LockRoute ==
    /\ "route" \in lock.left /\ "firewall" \notin lock.left /\ LockNext("route")
    /\ route' = TRUE
    /\ UNCHANGED <<config, address, value, changes, rules, infra, record, linked, firewall, ghosts>>

LockEnds ==
    /\ lock.state = "running" /\ lock.left = {}
    /\ lock' = [lock EXCEPT !.state = "ended"]
    /\ completed' = TRUE
    /\ UNCHANGED <<config, address, value, changes, infra, disturbed>> /\ UNCHANGED net

\* A resource fails: Azure refuses it, or an import whose rules differ.
LockFails ==
    /\ lock.state = "running" /\ lock.left # {}
    /\ lock' = [lock EXCEPT !.state = "failed", !.left = {}]
    /\ UNCHANGED <<config, address, value, changes, infra, ghosts>> /\ UNCHANGED net

InfraStep == InfraEnds \/ \E n \in Nsgs : InfraWrites(n)
LockStep ==
    \/ \E n \in Nsgs : LockWrites(n)
    \/ LockRecord \/ LockLink \/ LockFirewall \/ LockRoute \/ LockEnds

Next ==
    \/ EditAllowlist
    \/ \E n \in Addresses : Move(n) \/ Publish(n)
    \/ \E n \in Nsgs : Adopt(n)
    \/ \E refresh \in BOOLEAN : InfraUp(refresh) \/ LockUp(refresh)
    \/ InfraStep \/ InfraFails
    \/ LockStep \/ LockFails

Spec == Init /\ [][Next]_vars

-----------------------------------------------------------------------------
(* Who reaches whom.                                                        *)
IsolatedNode == <<"isolatedNode", 0>>
AccessNode == <<"accessNode", 0>>
FridgeApi == <<"fridgeApi", address["fridgeIp"]>>
Harbor == <<"harbor", address["harborIp"]>>

OutOfIsolated(to, port) == Passes(RulesOf("isolated"), "out", IsolatedNode, to, port)
IntoIsolated(from, to, port) == Passes(RulesOf("isolated"), "in", from, to, port)
OutOfAccess(to, port) == Passes(RulesOf("access"), "out", AccessNode, to, port)
IntoAccess(from, to, port) == Passes(RulesOf("access"), "in", from, to, port)

\* Traffic to the internet goes through the firewall once the route is there, and
\* the firewall lets only the names that AKS needs through.
ReachesInternet(host, port) ==
    OutOfIsolated(host, port) /\ (route => host = <<"aks", 0>> /\ port = 443)

\* Harbor's FQDN is configuration of the access stack.  It may be that of the
\* record, another name of the record's zone, or a name of another zone: the zone
\* and the record of the lockdown stack are literals.
HarborNames == {"recorded", "inZone", "elsewhere"}

\* From an isolated node.  The private zone, once linked, answers for all of its
\* names and has Harbor's internal address for one; the others are public.
ReachesHarbor(name, port) ==
    \/ /\ linked /\ name = "recorded" /\ <<"harbor", record>> = Harbor
       /\ OutOfIsolated(Harbor, port) /\ IntoAccess(IsolatedNode, Harbor, port)
    \/ /\ linked => name = "elsewhere"
       /\ ReachesInternet(<<"internet", 0>>, port)
       /\ IntoAccess(<<"internet", 0>>, AccessNode, port)

ReachesApi(api) == OutOfAccess(api, 443) /\ IntoIsolated(AccessNode, api, 443)

\* The lockdown command has completed, for the addresses there are, and infra
\* has not rewritten the rules since it last looked at them.
Settled ==
    /\ lock.state = "ended" /\ lock.sees = value /\ disturbed = {}
    /\ \A n \in Addresses : value[n] = address[n]

-----------------------------------------------------------------------------
StackStates == {"never", "running", "ended", "failed"}
RuleSets == [set : {"base", "lock", "unknown"}, from : Values]
\* The variables have their types.
TypeOK ==
    /\ config \in 0..MaxChanges /\ changes \in 0..MaxChanges
    /\ address \in [Addresses -> 0..MaxChanges] /\ value \in Values
    /\ rules \in [Nsgs -> RuleSets]
    /\ infra \in [state : StackStates, left : SUBSET Nsgs, sees : Values, knows : [Nsgs -> RuleSets]]
    /\ lock \in [state : StackStates, left : SUBSET LockResources, sees : Values,
                 knows : [Nsgs -> RuleSets]]
    /\ record \in -1..MaxChanges
    /\ {linked, firewall, route, completed} \subseteq BOOLEAN
    /\ disturbed \subseteq Nsgs

\* The registry can be reached from the isolated cluster, on both of the ports that
\* pulling an image takes: before the lockdown under any name, through its public
\* address; after it under the record's name and no other, through the internal
\* one, for then the six resources that the lockdown writes in any order, from
\* values read before, agree with each other.
RegistryReachable ==
    \A name \in HarborNames : \A port \in {80, 443} :
        /\ lock.state = "never" => ReachesHarbor(name, port)
        /\ Settled => (ReachesHarbor(name, port) <=> name = "recorded")

\* The API proxy of the access cluster reaches the FRIDGE API and the Kubernetes
\* API of the isolated one at every moment, whatever mix of base and lockdown
\* rules a running, failed or repeated command has left: only rules made for an
\* address that has changed since shut it out.
Stale(n) == rules[n].set = "lock" /\ rules[n].from["fridgeIp"] # address["fridgeIp"]
ProxyReaches ==
    /\ ReachesApi(<<"k8sApi", 0>>)
    /\ (\A n \in Nsgs : ~Stale(n)) => ReachesApi(FridgeApi)

\* After the lockdown the isolated cluster is closed: its nodes reach only
\* Harbor, on 443 the names AKS needs, which firewall.py lets through, and each
\* other, and only the API proxy's port leads into it.
Closed ==
    /\ \A host \in InternetHosts : \A port \in Ports :
           ReachesInternet(host, port) => host = <<"aks", 0>> /\ port = 443
    /\ \A h \in AccessVnet : \A port \in Ports :
           OutOfIsolated(h, port) => h = Harbor /\ port \in {80, 443}
    /\ \A port \in Ports : \A h \in AccessVnet : \A to \in IsolatedVnet :
           IntoIsolated(h, to, port) => port = 443 /\ to \in {FridgeApi, <<"k8sApi", 0>>}
LockdownCloses == Settled => Closed

\* The rules of the isolated cluster that let nothing of the internet in, and the
\* access cluster only on the API proxy's port; and let its nodes get to nothing of
\* the access cluster but, by lockdown rules, Harbor's two ports at the address
\* those were made for.
Tight ==
    {r \in {[set |-> s, from |-> v] : s \in {"base", "lock"}, v \in Values} :
        \A port \in Ports :
            /\ \A to \in IsolatedVnet :
                  /\ \A from \in InternetHosts :
                         ~Passes(IsolatedRules(r), "in", from, to, port)
                  /\ \A from \in AccessVnet :
                         Passes(IsolatedRules(r), "in", from, to, port) => port = 443
            /\ \A to \in AccessVnet :
                   Passes(IsolatedRules(r), "out", IsolatedNode, to, port) =>
                       /\ r.set = "lock"
                       /\ to = <<"harbor", r.from["harborIp"]>> /\ port \in {80, 443}}

\* At every moment, whichever of the two stacks' rules are in force: a command
\* that is at work, has failed or undoes the other stack's leaves no gap.
NeverOpen == rules["isolated"] \in Tight

\* A lockdown that completed once keeps the isolated cluster off the internet,
\* whatever the infrastructure stack does to the rules afterwards and however the
\* lockdown's next command fails: the route to the firewall stays.
StaysOffline == completed => \A port \in Ports : ~ReachesInternet(<<"internet", 0>>, port)
=============================================================================
