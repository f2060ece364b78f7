--------------------------- MODULE LockdownProofs ---------------------------
(***************************************************************************)
(* Proofs about Lockdown, for every number of changes.                      *)
(*                                                                         *)
(* What traffic passes depends on which rules each group has, so the       *)
(* invariant says which these can be (Whose), and that after a command of  *)
(* the lockdown they are those it asked for unless infra rewrote them      *)
(* (Recorded, Done).  The rest is arithmetic of priorities.                *)
(***************************************************************************)
EXTENDS Lockdown, TLAPS

LEMMA ZeroIsValue == 0 \in 0..MaxChanges
  BY MaxChangesAssumption

-----------------------------------------------------------------------------
(* The invariant.                                                           *)

\* An address is moved by a change.
Counted == address["harborIp"] <= changes /\ address["fridgeIp"] <= changes

\* Each group has the base rules or the lockdown's, for some values.
Whose == \A n \in Nsgs : \E v \in Values : rules[n] = Base(n, v) \/ rules[n] = Lock(n, v)

\* Rules that infra did not rewrite are those the lockdown recorded.
Recorded == \A n \in Nsgs : n \notin disturbed /\ lock.knows[n] # Unknown => rules[n] = lock.knows[n]

\* What a command of the lockdown has done already is as it asked.
Done ==
    lock.state \in {"running", "ended"} =>
        /\ \A n \in Nsgs \ lock.left : lock.knows[n] = Lock(n, lock.sees)
        /\ "record" \notin lock.left => record = lock.sees["harborIp"]
        /\ "link" \notin lock.left => linked
        /\ "route" \notin lock.left => route

Idle == lock.state # "running" => lock.left = {}
Untouched ==
    lock.state = "never" =>
        ~route /\ ~linked /\ \A n \in Nsgs : \E v \in Values : rules[n] = Base(n, v)
Routed == completed => route

IInv == TypeOK /\ Counted /\ Whose /\ Recorded /\ Done /\ Idle /\ Untouched /\ Routed

LEMMA UsingIsValue == ASSUME NEW names, NEW v \in Values PROVE Using(names, v) \in Values
  BY ZeroIsValue DEF Using, Values

LEMMA RuleTypes ==
  ASSUME NEW n \in Nsgs, NEW v \in Values
  PROVE  /\ Base(n, v) \in RuleSets /\ Lock(n, v) \in RuleSets
         /\ Base(n, v).set = "base" /\ Lock(n, v).set = "lock"
         /\ Lock(n, v) # Unknown
  BY UsingIsValue DEF Base, Lock, Unknown, RuleSets

LEMMA UnknownType == Unknown \in RuleSets
  BY ZeroIsValue DEF Unknown, RuleSets, Values

LEMMA InitInv == Init => IInv
<1> SUFFICES ASSUME Init PROVE IInv
  OBVIOUS
<1>1. value \in Values /\ address \in [Addresses -> 0..MaxChanges]
  BY ZeroIsValue DEF Init, Values
<1>2. rules \in [Nsgs -> RuleSets] /\ \A n \in Nsgs : rules[n] = Base(n, value)
  BY <1>1, RuleTypes DEF Init
<1>3. [n \in Nsgs |-> Unknown] \in [Nsgs -> RuleSets]
  BY UnknownType
<1>4. TypeOK
  <2>1. /\ infra \in [state : StackStates, left : SUBSET Nsgs, sees : Values, knows : [Nsgs -> RuleSets]]
        /\ lock \in [state : StackStates, left : SUBSET LockResources, sees : Values,
                      knows : [Nsgs -> RuleSets]]
    BY <1>1, <1>2, <1>3 DEF Init, StackStates
  <2>2. config \in 0..MaxChanges /\ changes \in 0..MaxChanges /\ record \in -1..MaxChanges
    BY MaxChangesAssumption DEF Init
  <2>3. {linked, firewall, route, completed} \subseteq BOOLEAN /\ disturbed \subseteq Nsgs
    BY DEF Init
  <2> QED BY <1>1, <1>2, <2>1, <2>2, <2>3 DEF TypeOK
<1>5. Counted
  BY DEF Init, Counted, Addresses
<1>6. Whose /\ Untouched
  BY <1>1, <1>2 DEF Init, Whose, Untouched
<1>7. Recorded /\ Done /\ Idle /\ Routed
  BY DEF Init, Recorded, Done, Idle, Routed
<1> QED BY <1>4, <1>5, <1>6, <1>7 DEF IInv

-----------------------------------------------------------------------------
(* Steps.                                                                   *)

\* The parts of the invariant that are about rules and the lockdown.
RulesInv == Whose /\ Recorded /\ Done /\ Idle /\ Untouched /\ Routed

\* A step that leaves the rules and the lockdown alone keeps what is said of them.
LEMMA QuietStep ==
  ASSUME RulesInv, UNCHANGED <<lock, disturbed, completed>>, UNCHANGED net
  PROVE  RulesInv'
  BY DEF RulesInv, Whose, Recorded, Done, Idle, Untouched, Routed, net

LEMMA WorldInv == ASSUME IInv, EditAllowlist \/ \E n \in Addresses : Move(n) \/ Publish(n) PROVE IInv'
<1>1. RulesInv'
  BY QuietStep DEF IInv, RulesInv, EditAllowlist, Move, Publish, ghosts
<1>2. CASE EditAllowlist
  <2>1. /\ config' \in 0..MaxChanges /\ changes < MaxChanges /\ changes' = changes + 1
        /\ UNCHANGED <<address, value, rules, infra, lock, record, linked, firewall, route, disturbed, completed>>
    BY <1>2 DEF EditAllowlist, ghosts, net
  <2>2. changes \in 0..MaxChanges /\ address["harborIp"] \in Int /\ address["fridgeIp"] \in Int
    BY DEF IInv, TypeOK, Addresses
  <2>3. changes' \in 0..MaxChanges
    BY <2>1, <2>2, MaxChangesAssumption
  <2>4. TypeOK'
    BY <2>1, <2>3 DEF IInv, TypeOK
  <2>5. Counted'
    BY <2>1, <2>2 DEF IInv, Counted
  <2> QED BY <1>1, <2>4, <2>5 DEF IInv, RulesInv
<1>3. ASSUME NEW n \in Addresses, Move(n) PROVE IInv'
  <2>1. address[n] \in 0..MaxChanges /\ address[n] <= changes /\ changes < MaxChanges /\ changes \in 0..MaxChanges
    BY <1>3 DEF IInv, TypeOK, Counted, Move, Addresses
  <2>2. address[n] + 1 \in 0..MaxChanges /\ address[n] + 1 <= changes + 1 /\ changes + 1 \in 0..MaxChanges
    BY <2>1, MaxChangesAssumption
  <2>3. address' \in [Addresses -> 0..MaxChanges]
    BY <1>3, <2>2 DEF IInv, TypeOK, Move
  <2>4. Counted'
    BY <1>3, <2>1, <2>2, MaxChangesAssumption DEF IInv, TypeOK, Counted, Move, Addresses
  <2>5. TypeOK'
    BY <1>3, <2>2, <2>3 DEF IInv, TypeOK, Move, ghosts, net
  <2> QED BY <1>1, <2>4, <2>5 DEF IInv, RulesInv
<1>4. ASSUME NEW n \in Addresses, Publish(n) PROVE IInv'
  <2>1. address[n] \in 0..MaxChanges
    BY <1>4 DEF IInv, TypeOK
  <2>2. value' \in Values
    BY <1>4, <2>1 DEF IInv, TypeOK, Publish, Values
  <2>3. TypeOK' /\ Counted'
    BY <1>4, <2>2 DEF IInv, TypeOK, Counted, Publish, ghosts, net
  <2> QED BY <1>1, <2>3 DEF IInv, RulesInv
<1> QED BY <1>2, <1>3, <1>4

LEMMA InfraUpInv == ASSUME IInv, NEW refresh \in BOOLEAN, InfraUp(refresh) PROVE IInv'
<1>1. RulesInv'
  BY QuietStep DEF IInv, RulesInv, InfraUp, ghosts
<1>2. [value EXCEPT !["allowlist"] = config] \in Values
  BY DEF IInv, TypeOK, Values
<1>3. TypeOK'
  BY <1>2 DEF IInv, TypeOK, InfraUp, StackStates, ghosts, net
<1> QED BY <1>1, <1>3 DEF IInv, RulesInv, Counted, InfraUp

LEMMA InfraEndInv == ASSUME IInv, InfraEnds \/ InfraFails PROVE IInv'
<1>1. RulesInv'
  BY QuietStep DEF IInv, RulesInv, InfraEnds, InfraFails, ghosts
<1>2. CASE InfraEnds
  <2>1. value' \in Values
    BY <1>2 DEF IInv, TypeOK, InfraEnds, Values, Names
  <2>2. TypeOK'
    BY <1>2, <2>1 DEF IInv, TypeOK, InfraEnds, StackStates, ghosts, net
  <2> QED BY <1>1, <1>2, <2>1, <2>2 DEF IInv, RulesInv, Counted, InfraEnds
<1>3. CASE InfraFails
  BY <1>1, <1>3 DEF IInv, RulesInv, TypeOK, Counted, InfraFails, StackStates, ghosts, net
<1> QED BY <1>2, <1>3

LEMMA InfraWritesInv == ASSUME IInv, NEW n \in Nsgs, InfraWrites(n) PROVE IInv'
<1> DEFINE want == Base(n, infra.sees)
<1>1. infra.sees \in Values /\ want \in RuleSets
  BY RuleTypes DEF IInv, TypeOK
<1>2. /\ rules' \in [Nsgs -> RuleSets]
      /\ \A m \in Nsgs : rules'[m] = rules[m] \/ (rules'[m] = Base(m, infra.sees) /\ m \in disturbed')
      /\ disturbed \subseteq disturbed' /\ disturbed' \subseteq Nsgs
  BY <1>1 DEF IInv, TypeOK, InfraWrites
<1>3. infra' \in [state : StackStates, left : SUBSET Nsgs, sees : Values, knows : [Nsgs -> RuleSets]]
  <2>1. infra' = [infra EXCEPT !.left = @ \ {n}, !.knows[n] = want]
    BY DEF InfraWrites
  <2> HIDE DEF want
  <2> QED BY <1>1, <2>1 DEF IInv, TypeOK
<1>4. UNCHANGED <<config, address, value, changes, lock, record, linked, firewall, route, completed>>
  BY DEF InfraWrites
<1>5. TypeOK' /\ Counted'
  BY <1>2, <1>3, <1>4 DEF IInv, TypeOK, Counted
<1>6. Whose'
  BY <1>1, <1>2 DEF IInv, Whose
<1>7. Recorded'
  BY <1>2, <1>4 DEF IInv, Recorded
<1>8. Untouched'
  BY <1>1, <1>2, <1>4 DEF IInv, Untouched
<1>9. Done' /\ Idle' /\ Routed'
  BY <1>4 DEF IInv, Done, Idle, Routed
<1> QED BY <1>5, <1>6, <1>7, <1>8, <1>9 DEF IInv

LEMMA LockUpInv == ASSUME IInv, NEW refresh \in BOOLEAN, LockUp(refresh) PROVE IInv'
<1> DEFINE reads == {n \in Nsgs : refresh /\ lock.knows[n] # Unknown}
           knows == [n \in Nsgs |-> IF n \in reads THEN rules[n] ELSE lock.knows[n]]
<1>1. /\ lock' = [state |-> "running", left |-> LockResources, sees |-> value, knows |-> knows]
      /\ disturbed' = disturbed \ reads
      /\ UNCHANGED <<config, address, value, changes, infra, completed, rules, record, linked, firewall, route>>
  BY DEF LockUp, net
<1>2. knows \in [Nsgs -> RuleSets]
  BY DEF IInv, TypeOK
<1>3. Recorded'
  BY <1>1 DEF IInv, Recorded
<1> HIDE DEF knows, reads
<1>4. TypeOK' /\ Counted'
  BY <1>1, <1>2 DEF IInv, TypeOK, Counted, StackStates
<1>5. Whose' /\ Untouched' /\ Idle' /\ Routed'
  BY <1>1 DEF IInv, Whose, Untouched, Idle, Routed
<1>6. Done'
  BY <1>1 DEF Done, LockResources, Nsgs
<1> QED BY <1>3, <1>4, <1>5, <1>6 DEF IInv

LEMMA AdoptInv == ASSUME IInv, NEW n \in Nsgs, Adopt(n) PROVE IInv'
<1>1. /\ lock' = [lock EXCEPT !.knows[n] = rules[n]] /\ disturbed' = disturbed \ {n}
      /\ lock.state # "running" /\ lock.knows[n] = Unknown
      /\ UNCHANGED <<config, address, value, changes, infra, completed, rules, record, linked, firewall, route>>
  BY DEF Adopt, net
<1>2. /\ lock' \in [state : StackStates, left : SUBSET LockResources, sees : Values, knows : [Nsgs -> RuleSets]]
      /\ lock'.state = lock.state /\ lock'.sees = lock.sees /\ lock'.left = lock.left
      /\ lock'.knows = [lock.knows EXCEPT ![n] = rules[n]]
  BY <1>1 DEF IInv, TypeOK
<1>3. lock.knows \in [Nsgs -> RuleSets] /\ disturbed \subseteq Nsgs
  BY DEF IInv, TypeOK
<1>4. TypeOK' /\ Counted'
  BY <1>1, <1>2, <1>3 DEF IInv, TypeOK, Counted
<1>5. Recorded'
  BY <1>1, <1>2, <1>3 DEF IInv, Recorded
<1>6. Whose' /\ Idle' /\ Untouched' /\ Routed'
  BY <1>1, <1>2 DEF IInv, Whose, Idle, Untouched, Routed
<1>7. Done'
  <2>1. CASE lock.state = "ended"
    <3>1. lock.knows[n] = Lock(n, lock.sees) /\ lock.sees \in Values
      BY <2>1 DEF IInv, Done, Idle, TypeOK
    <3> QED BY <1>1, <3>1, RuleTypes
  <2>2. CASE lock.state # "ended"
    BY <1>1, <1>2, <2>2 DEF Done
  <2> QED BY <2>1, <2>2
<1> QED BY <1>4, <1>5, <1>6, <1>7 DEF IInv

LEMMA LockWritesInv == ASSUME IInv, NEW n \in Nsgs, LockWrites(n) PROVE IInv'
<1> DEFINE want == Lock(n, lock.sees)
<1>1. lock.sees \in Values /\ want \in RuleSets
  BY RuleTypes DEF IInv, TypeOK
<1>2. lock' = [lock EXCEPT !.left = @ \ {n}, !.knows[n] = want] /\ n \in lock.left
  BY DEF LockWrites
<1>3. UNCHANGED <<config, address, value, changes, infra, record, linked, firewall, route, completed>>
  BY DEF LockWrites
<1>4. lock.state = "running"
  BY <1>2 DEF IInv, Idle
<1>5. \/ want = lock.knows[n] /\ UNCHANGED <<rules, disturbed>>
      \/ rules' = [rules EXCEPT ![n] = want] /\ disturbed' = disturbed \ {n}
  BY DEF LockWrites
<1>6. want = Lock(n, lock.sees)
  OBVIOUS
<1> HIDE DEF want
<1>7. /\ lock' \in [state : StackStates, left : SUBSET LockResources, sees : Values, knows : [Nsgs -> RuleSets]]
      /\ lock'.state = "running" /\ lock'.sees = lock.sees /\ lock'.left = lock.left \ {n}
      /\ lock'.knows = [lock.knows EXCEPT ![n] = want]
  BY <1>1, <1>2, <1>4 DEF IInv, TypeOK
<1>8. lock.knows \in [Nsgs -> RuleSets] /\ rules \in [Nsgs -> RuleSets] /\ disturbed \subseteq Nsgs
  BY DEF IInv, TypeOK
<1>9. rules' \in [Nsgs -> RuleSets] /\ disturbed' \subseteq Nsgs
  BY <1>1, <1>5, <1>8
<1>10. TypeOK' /\ Counted'
  BY <1>3, <1>7, <1>9 DEF IInv, TypeOK, Counted
<1>11. Whose'
  BY <1>1, <1>5, <1>6, <1>8 DEF IInv, Whose
<1>12. Recorded'
  BY <1>5, <1>7, <1>8 DEF IInv, Recorded
<1>13. Done'
  <2>1. \A m \in Nsgs \ lock'.left : lock'.knows[m] = Lock(m, lock'.sees)
    BY <1>4, <1>6, <1>7, <1>8 DEF IInv, Done
  <2> QED BY <2>1, <1>3, <1>4, <1>7 DEF IInv, Done, Nsgs
<1>14. Idle' /\ Untouched' /\ Routed'
  BY <1>3, <1>7 DEF IInv, Idle, Untouched, Routed
<1> QED BY <1>10, <1>11, <1>12, <1>13, <1>14 DEF IInv

LEMMA LockOtherInv == ASSUME IInv, LockRecord \/ LockLink \/ LockFirewall \/ LockRoute PROVE IInv'
<1> PICK r \in {"record", "link", "firewall", "route"} :
        /\ r \in lock.left /\ LockNext(r)
        /\ r = "record" => record' = lock.sees["harborIp"] /\ UNCHANGED <<linked, firewall, route>>
        /\ r = "link" => linked' = TRUE /\ UNCHANGED <<record, firewall, route>>
        /\ r = "firewall" => firewall' = TRUE /\ UNCHANGED <<record, linked, route>>
        /\ r = "route" => route' = TRUE /\ UNCHANGED <<record, linked, firewall>>
        /\ UNCHANGED <<config, address, value, changes, rules, infra, disturbed, completed>>
  BY DEF LockRecord, LockLink, LockFirewall, LockRoute, ghosts
<1>1. lock.state = "running"
  BY DEF IInv, Idle
<1>2. /\ lock' \in [state : StackStates, left : SUBSET LockResources, sees : Values, knows : [Nsgs -> RuleSets]]
      /\ lock'.state = "running" /\ lock'.sees = lock.sees /\ lock'.knows = lock.knows
      /\ lock'.left = lock.left \ {r}
  BY <1>1 DEF IInv, TypeOK, LockNext
<1>3. lock.sees["harborIp"] \in 0..MaxChanges
  BY DEF IInv, TypeOK, Values, Names
<1>4. record' \in -1..MaxChanges /\ {linked', firewall', route', completed'} \subseteq BOOLEAN
  <2>1. record' \in -1..MaxChanges
    BY <1>3, MaxChangesAssumption DEF IInv, TypeOK
  <2>2. {linked, firewall, route, completed} \subseteq BOOLEAN
    BY DEF IInv, TypeOK
  <2>3. linked' \in BOOLEAN /\ firewall' \in BOOLEAN /\ route' \in BOOLEAN /\ completed' \in BOOLEAN
    BY <2>2, Zenon
  <2> QED BY <2>1, <2>3
<1>5. TypeOK' /\ Counted'
  BY <1>2, <1>4 DEF IInv, TypeOK, Counted
<1>6. Whose' /\ Recorded' /\ Idle' /\ Untouched'
  BY <1>2 DEF IInv, Whose, Recorded, Idle, Untouched
<1>7. Done' /\ Routed'
  BY <1>1, <1>2 DEF IInv, Done, Routed, Nsgs
<1> QED BY <1>5, <1>6, <1>7 DEF IInv

LEMMA LockEndInv == ASSUME IInv, LockEnds \/ LockFails PROVE IInv'
<1>1. PICK s \in {"ended", "failed"} :
        /\ lock' = [lock EXCEPT !.state = s, !.left = {}]
        /\ lock.state = "running"
        /\ s = "ended" => lock.left = {} /\ completed' = TRUE
        /\ s = "failed" => completed' = completed
        /\ UNCHANGED <<config, address, value, changes, infra, disturbed, rules, record, linked, firewall, route>>
  <2>1. CASE LockEnds
    <3>1. lock' = [lock EXCEPT !.state = "ended", !.left = {}]
      BY <2>1 DEF LockEnds, IInv, TypeOK
    <3> QED BY <2>1, <3>1 DEF LockEnds, net
  <2>2. CASE LockFails
    BY <2>2 DEF LockFails, ghosts, net
  <2> QED BY <2>1, <2>2
<1>2. /\ lock' \in [state : StackStates, left : SUBSET LockResources, sees : Values, knows : [Nsgs -> RuleSets]]
      /\ lock'.state = s /\ lock'.sees = lock.sees /\ lock'.knows = lock.knows /\ lock'.left = {}
  BY <1>1 DEF IInv, TypeOK, StackStates
<1>3. TypeOK' /\ Counted'
  BY <1>1, <1>2 DEF IInv, TypeOK, Counted
<1>4. Whose' /\ Recorded' /\ Idle' /\ Untouched'
  BY <1>1, <1>2 DEF IInv, Whose, Recorded, Idle, Untouched
<1>5. Done' /\ Routed'
  BY <1>1, <1>2 DEF IInv, Done, Routed
<1> QED BY <1>3, <1>4, <1>5 DEF IInv

LEMMA StepInv == IInv /\ [Next]_vars => IInv'
<1> SUFFICES ASSUME IInv, [Next]_vars PROVE IInv'
  OBVIOUS
<1>1. CASE UNCHANGED vars
  BY <1>1 DEF vars, net, IInv, TypeOK, Counted, Whose, Recorded, Done, Idle, Untouched, Routed
<1>2. CASE EditAllowlist \/ \E n \in Addresses : Move(n) \/ Publish(n)
  BY <1>2, WorldInv
<1>3. CASE \E refresh \in BOOLEAN : InfraUp(refresh) \/ LockUp(refresh)
  BY <1>3, InfraUpInv, LockUpInv
<1>4. CASE InfraStep \/ InfraFails
  BY <1>4, InfraWritesInv, InfraEndInv DEF InfraStep
<1>5. CASE LockStep \/ LockFails
  BY <1>5, LockWritesInv, LockOtherInv, LockEndInv DEF LockStep
<1>6. CASE \E n \in Nsgs : Adopt(n)
  BY <1>6, AdoptInv
<1> QED BY <1>1, <1>2, <1>3, <1>4, <1>5, <1>6 DEF Next

LEMMA Invariant == Spec => []IInv
<1> QED BY InitInv, StepInv, PTL DEF Spec

\* The variables have their types.
THEOREM TypeCorrect == Spec => []TypeOK
<1>1. IInv => TypeOK
  BY DEF IInv
<1> QED BY <1>1, Invariant, PTL

-----------------------------------------------------------------------------
(* The isolated cluster stays off the internet.                             *)

\* A lockdown that completed keeps the isolated cluster off the internet, whatever
\* either stack's later commands do to the rules: nothing resets the route
\* (network_security_rules.py, networking.py).
THEOREM Offline == Spec => []StaysOffline
<1>1. IInv => StaysOffline
  BY DEF IInv, Routed, StaysOffline, ReachesInternet
<1> QED BY <1>1, Invariant, PTL
-----------------------------------------------------------------------------
(* Traffic.                                                                 *)

\* Names of hosts, by which prefixes are told apart.
LEMMA HostNames ==
  ASSUME NEW h
  PROVE  /\ h \in AccessVnet => h[1] \in {"accessNode", "harbor"}
         /\ h \in IsolatedVnet => h[1] \in {"isolatedNode", "k8sApi", "fridgeApi"}
         /\ h \in InternetHosts => h[1] \in {"internet", "aks", "admin"}
         /\ h \in LoadBalancer => h[1] = "azureLoadBalancer"
         /\ \A name : h \in Host(name) => h = <<name, 0>>
         /\ \A name, v : h \in At(name, v) => h = <<name, v>>
         /\ h \in AccessNodes <=> h \in AccessVnet
         /\ h \in IsolatedNodes <=> h \in IsolatedVnet
         /\ h \in Vnets <=> h \in AccessVnet \/ h \in IsolatedVnet
         /\ h \in Everywhere <=> h \in InternetHosts \/ h \in LoadBalancer \/ h \in Vnets
  BY DEF AccessVnet, AccessNodes, IsolatedVnet, IsolatedNodes, InternetHosts, LoadBalancer, Vnets,
         Everywhere, Host, Any, At

LEMMA KnownHosts ==
  /\ IsolatedNode \in IsolatedVnet /\ IsolatedNode \in Everywhere
  /\ AccessNode \in AccessVnet /\ AccessNode \in Everywhere
  /\ <<"internet", 0>> \in InternetHosts /\ <<"internet", 0>> \in Everywhere
  /\ <<"k8sApi", 0>> \in IsolatedVnet /\ <<"k8sApi", 0>> \in Everywhere
  /\ \A v \in 0..MaxChanges : /\ <<"harbor", v>> \in AccessVnet /\ <<"harbor", v>> \in Everywhere
                              /\ <<"fridgeApi", v>> \in IsolatedVnet /\ <<"fridgeApi", v>> \in Everywhere
  BY DEF IsolatedNode, AccessNode, AccessVnet, AccessNodes, IsolatedVnet, IsolatedNodes, InternetHosts,
         Vnets, Everywhere, Host, Any

\* A rule that denies bounds the priority of whatever lets the traffic through.
LEMMA DenyBounds ==
  ASSUME NEW rs, NEW dir, NEW from, NEW to, NEW port \in Ports,
         NEW d \in rs, d.dir = dir, from \in d.from, to \in d.to, d.ports = Ports,
         Passes(rs, dir, from, to, port)
  PROVE  \E r \in rs \cup DefaultRules :
            /\ r.dir = dir /\ from \in r.from /\ to \in r.to /\ port \in r.ports
            /\ r.allow /\ r.priority <= d.priority
  BY DEF Passes

\* Under the lockdown's rules an isolated node reaches nothing in the access
\* VNet but Harbor's two ports.
LEMMA LockOut ==
  ASSUME NEW v \in Values, NEW h \in AccessVnet, NEW port \in Ports,
         Passes(LockIsolated(v), "out", IsolatedNode, h, port)
  PROVE  h = <<"harbor", v["harborIp"]>> /\ port \in {80, 443}
<1> DEFINE d == Deny("out", 3900, Everywhere, AccessVnet)
<1>1. d \in LockIsolated(v)
  BY DEF LockIsolated
<1>2. d.dir = "out" /\ IsolatedNode \in d.from /\ h \in d.to /\ d.ports = Ports /\ d.priority = 3900
  BY KnownHosts DEF Deny
<1> HIDE DEF d
<1>3. PICK r \in LockIsolated(v) \cup DefaultRules :
        r.dir = "out" /\ h \in r.to /\ port \in r.ports /\ r.allow /\ r.priority <= 3900
  BY <1>1, <1>2, DenyBounds
<1>4. h \notin InternetHosts /\ h \notin IsolatedVnet /\ h \notin Host("aks")
  BY HostNames
<1>5. r \notin DefaultRules
  BY <1>3, <1>4 DEF DefaultRules, Allow, Deny
<1>6. r \in LockIsolated(v) => h \in At("harbor", v["harborIp"]) /\ port \in {80, 443}
  BY <1>3, <1>4 DEF LockIsolated, Allow, Deny
<1> QED BY <1>3, <1>5, <1>6, HostNames

\* Nothing of the access VNet gets into the isolated one but to the two APIs.
LEMMA LockIn ==
  ASSUME NEW v \in Values, NEW h \in AccessVnet, NEW to \in IsolatedVnet, NEW port \in Ports,
         Passes(LockIsolated(v), "in", h, to, port)
  PROVE  port = 443 /\ to \in {<<"fridgeApi", v["fridgeIp"]>>, <<"k8sApi", 0>>}
<1> DEFINE d == Deny("in", 2000, AccessVnet, Everywhere)
<1>1. d \in LockIsolated(v)
  BY DEF LockIsolated
<1>2. d.dir = "in" /\ h \in d.from /\ to \in d.to /\ d.ports = Ports /\ d.priority = 2000
  BY HostNames DEF Deny
<1> HIDE DEF d
<1>3. PICK r \in LockIsolated(v) \cup DefaultRules :
        r.dir = "in" /\ h \in r.from /\ to \in r.to /\ port \in r.ports /\ r.allow /\ r.priority <= 2000
  BY <1>1, <1>2, DenyBounds
<1>4. h \notin LoadBalancer /\ h \notin IsolatedVnet
  BY HostNames
<1>5. r \notin DefaultRules
  BY <1>3, <1>4 DEF DefaultRules, Allow, Deny
<1>6. r \in LockIsolated(v) => port = 443 /\ (to \in At("fridgeApi", v["fridgeIp"]) \/ to \in Host("k8sApi"))
  BY <1>3, <1>4 DEF LockIsolated, Allow, Deny
<1> QED BY <1>3, <1>5, <1>6, HostNames

\* The addresses that the lockdown's rules are made from.
LEMMA LockFrom ==
  ASSUME NEW n \in Nsgs, NEW v \in Values
  PROVE  /\ Lock(n, v).set = "lock" /\ Lock(n, v).from \in Values
         /\ Lock(n, v).from["harborIp"] = v["harborIp"]
         /\ Lock(n, v).from["fridgeIp"] = v["fridgeIp"]
<1> DEFINE names == IF n = "access" THEN Names ELSE Addresses
<1>1. Lock(n, v).set = "lock" /\ Lock(n, v).from = Using(names, v)
  BY DEF Lock
<1>2. "harborIp" \in names /\ "fridgeIp" \in names
  BY DEF Names, Addresses
<1> HIDE DEF names
<1> QED BY <1>1, <1>2, UsingIsValue DEF Using, Names

\* After a lockdown that is for the values there are, its rules are in place.
LEMMA SettledRules ==
  ASSUME IInv, Settled
  PROVE  /\ \A n \in Nsgs : rules[n] = Lock(n, value)
         /\ record = value["harborIp"] /\ linked /\ route
         /\ value["harborIp"] = address["harborIp"] /\ value["fridgeIp"] = address["fridgeIp"]
<1>1. lock.left = {}
  BY DEF Settled, IInv, Idle
<1>2. \A n \in Nsgs : lock.knows[n] = Lock(n, value)
  BY <1>1 DEF Settled, IInv, Done
<1>3. value \in Values
  BY DEF IInv, TypeOK
<1>4. \A n \in Nsgs : rules[n] = lock.knows[n]
  BY <1>2, <1>3, RuleTypes DEF Settled, IInv, Recorded
<1> QED BY <1>1, <1>2, <1>4 DEF Settled, IInv, Done, Addresses

\* Once the lockdown's command has completed, for the addresses there are, and
\* infra has not rewritten rules since, isolated nodes reach only Harbor, what AKS
\* needs and each other, and only the two APIs are reached from outside
\* (network_security_rules.py).
THEOREM Closes == Spec => []LockdownCloses
<1>1. ASSUME IInv, Settled PROVE Closed
  <2>1. /\ rules["isolated"] = Lock("isolated", value) /\ route
        /\ value["harborIp"] = address["harborIp"] /\ value["fridgeIp"] = address["fridgeIp"]
    BY <1>1, SettledRules DEF Nsgs
  <2>2. value \in Values
    BY <1>1 DEF IInv, TypeOK
  <2> DEFINE v == rules["isolated"].from
  <2>3. /\ v \in Values /\ rules["isolated"].set = "lock"
        /\ v["harborIp"] = address["harborIp"] /\ v["fridgeIp"] = address["fridgeIp"]
    BY <2>1, <2>2, LockFrom DEF Nsgs
  <2>4. RulesOf("isolated") = LockIsolated(v)
    BY <2>3 DEF RulesOf, AccessRules, IsolatedRules
  <2> HIDE DEF v
  <2>5. \A host \in InternetHosts, port \in Ports :
           ReachesInternet(host, port) => host = <<"aks", 0>> /\ port = 443
    BY <2>1 DEF ReachesInternet
  <2>6. \A port \in Ports, h \in AccessVnet :
           OutOfIsolated(h, port) => h = Harbor /\ port \in {80, 443}
    BY <2>3, <2>4, LockOut DEF OutOfIsolated, Harbor
  <2>7. \A port \in Ports, h \in AccessVnet, to \in IsolatedVnet :
           IntoIsolated(h, to, port) => port = 443 /\ to \in {FridgeApi, <<"k8sApi", 0>>}
    BY <2>3, <2>4, LockIn DEF IntoIsolated, FridgeApi
  <2> QED BY <2>5, <2>6, <2>7 DEF Closed
<1>2. IInv => LockdownCloses
  BY <1>1 DEF LockdownCloses
<1> QED BY <1>2, Invariant, PTL

-----------------------------------------------------------------------------
(* What is closed under either stack's rules.                               *)
LEMMA BaseOut ==
  ASSUME NEW h \in AccessVnet, NEW port \in Ports
  PROVE  ~Passes(BaseIsolated, "out", IsolatedNode, h, port)
<1> DEFINE d == Deny("out", 4000, Everywhere, AccessVnet)
<1> SUFFICES ASSUME Passes(BaseIsolated, "out", IsolatedNode, h, port) PROVE FALSE
  OBVIOUS
<1>1. d \in BaseIsolated
  BY DEF BaseIsolated
<1>2. d.dir = "out" /\ IsolatedNode \in d.from /\ h \in d.to /\ d.ports = Ports /\ d.priority = 4000
  BY KnownHosts DEF Deny
<1> HIDE DEF d
<1>3. PICK r \in BaseIsolated \cup DefaultRules : r.dir = "out" /\ r.allow /\ r.priority <= 4000
  BY <1>1, <1>2, DenyBounds
<1> QED BY <1>3 DEF BaseIsolated, DefaultRules, Allow, Deny

LEMMA BaseIn ==
  ASSUME NEW h \in AccessVnet, NEW to \in IsolatedVnet, NEW port \in Ports,
         Passes(BaseIsolated, "in", h, to, port)
  PROVE  port = 443
<1> DEFINE d == Deny("in", 2000, AccessVnet, Everywhere)
<1>1. d \in BaseIsolated
  BY DEF BaseIsolated
<1>2. d.dir = "in" /\ h \in d.from /\ to \in d.to /\ d.ports = Ports /\ d.priority = 2000
  BY HostNames DEF Deny
<1> HIDE DEF d
<1>3. PICK r \in BaseIsolated \cup DefaultRules :
        r.dir = "in" /\ port \in r.ports /\ r.allow /\ r.priority <= 2000
  BY <1>1, <1>2, DenyBounds
<1> QED BY <1>3 DEF BaseIsolated, DefaultRules, Allow, Deny

\* No rule of either stack lets the internet in, and Azure's own deny it.
LEMMA InternetNotIn ==
  ASSUME NEW rs, NEW v, rs = BaseIsolated \/ rs = LockIsolated(v),
         NEW h \in InternetHosts, NEW to, NEW port
  PROVE  ~Passes(rs, "in", h, to, port)
<1> SUFFICES ASSUME NEW r \in rs \cup DefaultRules, r.dir = "in", h \in r.from, r.allow PROVE FALSE
  BY DEF Passes
<1>1. h \notin AccessNodes /\ h \notin LoadBalancer /\ h \notin IsolatedVnet /\ h \notin Vnets
  BY HostNames
<1>2. CASE r \in DefaultRules
  BY <1>1, <1>2 DEF DefaultRules, Allow, Deny
<1>3. CASE r \in BaseIsolated
  BY <1>1, <1>3 DEF BaseIsolated, Allow, Deny
<1>4. CASE r \in LockIsolated(v)
  BY <1>1, <1>4 DEF LockIsolated, Allow, Deny
<1> QED BY <1>2, <1>3, <1>4

\* NeverOpen holds of every mix of the two stacks' rules that their commands leave,
\* for any number of changes (networking.py, network_security_rules.py).
THEOREM NeverOpens == Spec => []NeverOpen
<1>1. ASSUME IInv PROVE NeverOpen
  <2> DEFINE r == rules["isolated"]
             v == r.from
             rs == IsolatedRules(r)
  <2>1. r \in [set : {"base", "lock"}, from : Values]
    <3>1. r \in RuleSets
      BY <1>1 DEF IInv, TypeOK, Nsgs
    <3>2. r.set \in {"base", "lock"}
      BY <1>1, RuleTypes DEF IInv, Whose, Nsgs
    <3> QED BY <3>1, <3>2 DEF RuleSets
  <2> HIDE DEF r
  <2>2. \/ r.set = "base" /\ rs = BaseIsolated
        \/ r.set = "lock" /\ rs = LockIsolated(v)
    BY <2>1 DEF IsolatedRules
  <2>3. v \in Values
    BY <2>1
  <2> HIDE DEF v, rs
  <2>4. \A port \in Ports, to \in IsolatedVnet, from \in InternetHosts : ~Passes(rs, "in", from, to, port)
    BY <2>2, InternetNotIn
  <2>5. \A port \in Ports, to \in IsolatedVnet, from \in AccessVnet :
           Passes(rs, "in", from, to, port) => port = 443
    BY <2>2, <2>3, BaseIn, LockIn
  <2>6. \A port \in Ports, to \in AccessVnet : Passes(rs, "out", IsolatedNode, to, port) =>
           /\ r.set = "lock"
           /\ to = <<"harbor", v["harborIp"]>> /\ port \in {80, 443}
    BY <2>2, <2>3, BaseOut, LockOut
  <2>7. r \in Tight
    BY <2>1, <2>4, <2>5, <2>6 DEF Tight, rs, v
  <2> QED BY <2>7 DEF NeverOpen, r
<1>2. IInv => NeverOpen
  BY <1>1
<1> QED BY <1>2, Invariant, PTL

-----------------------------------------------------------------------------
(* What stays open.                                                         *)

\* Traffic passes by a rule that no matching rule comes before.
LEMMA PassesBy ==
  ASSUME NEW rs, NEW dir, NEW from, NEW to, NEW port, NEW a \in rs \cup DefaultRules,
         a.dir = dir, from \in a.from, to \in a.to, port \in a.ports, a.allow,
         \A r \in rs \cup DefaultRules :
            r.dir = dir /\ from \in r.from /\ to \in r.to /\ port \in r.ports => a.priority <= r.priority
  PROVE  Passes(rs, dir, from, to, port)
  BY DEF Passes

\* Under each of the four sets of rules the API proxy reaches the Kubernetes API,
\* and the FRIDGE API at the address that the rules were made for.
LEMMA OutBase ==
  ASSUME NEW v, NEW to \in IsolatedVnet
  PROVE  Passes(BaseAccess(v), "out", AccessNode, to, 443)
<1> DEFINE a == Allow("out", 100, Everywhere, IsolatedNodes, {443})
<1>1. a \in BaseAccess(v) /\ a = [dir |-> "out", priority |-> 100, allow |-> TRUE, from |-> Everywhere,
                                  to |-> IsolatedNodes, ports |-> {443}]
  BY DEF BaseAccess, Allow
<1> HIDE DEF a
<1>2. AccessNode \in Everywhere /\ to \in IsolatedNodes
  BY KnownHosts, HostNames
<1>3. \A r \in BaseAccess(v) \cup DefaultRules : 100 <= r.priority
  BY DEF BaseAccess, DefaultRules, Allow, Deny
<1> QED BY <1>1, <1>2, <1>3, PassesBy

LEMMA InBase ==
  ASSUME NEW to \in IsolatedVnet
  PROVE  Passes(BaseIsolated, "in", AccessNode, to, 443)
<1> DEFINE a == Allow("in", 100, AccessNodes, Everywhere, {443})
<1>1. a \in BaseIsolated /\ a = [dir |-> "in", priority |-> 100, allow |-> TRUE, from |-> AccessNodes,
                                 to |-> Everywhere, ports |-> {443}]
  BY DEF BaseIsolated, Allow
<1> HIDE DEF a
<1>2. AccessNode \in AccessNodes /\ to \in Everywhere
  BY KnownHosts, HostNames
<1>3. \A r \in BaseIsolated \cup DefaultRules : 100 <= r.priority
  BY DEF BaseIsolated, DefaultRules, Allow, Deny
<1> QED BY <1>1, <1>2, <1>3, PassesBy

LEMMA OutLock ==
  ASSUME NEW v \in Values, NEW to \in {<<"k8sApi", 0>>, <<"fridgeApi", v["fridgeIp"]>>}
  PROVE  Passes(LockAccess(v), "out", AccessNode, to, 443)
<1> DEFINE a == IF to = <<"k8sApi", 0>> THEN Allow("out", 100, Everywhere, Host("k8sApi"), {443})
                ELSE Allow("out", 200, Everywhere, At("fridgeApi", v.fridgeIp), {443})
<1>1. a \in LockAccess(v) /\ a.dir = "out" /\ a.allow /\ 443 \in a.ports /\ a.from = Everywhere /\ to \in a.to
  BY DEF LockAccess, Allow, Host, At
<1>2. AccessNode \in Everywhere
  BY KnownHosts
<1>3. ASSUME NEW r \in LockAccess(v) \cup DefaultRules, r.dir = "out", to \in r.to
      PROVE  a.priority <= r.priority
  <2>1. to \in Host("k8sApi") => to = <<"k8sApi", 0>>
    BY DEF Host
  <2> QED BY <1>3, <2>1 DEF LockAccess, DefaultRules, Allow, Deny
<1> HIDE DEF a
<1> QED BY <1>1, <1>2, <1>3, PassesBy

LEMMA InLock ==
  ASSUME NEW v \in Values, NEW to \in {<<"k8sApi", 0>>, <<"fridgeApi", v["fridgeIp"]>>}
  PROVE  Passes(LockIsolated(v), "in", AccessNode, to, 443)
<1> DEFINE a == IF to = <<"k8sApi", 0>> THEN Allow("in", 200, AccessNodes, Host("k8sApi"), {443})
                ELSE Allow("in", 100, AccessNodes, At("fridgeApi", v.fridgeIp), {443})
<1>1. a \in LockIsolated(v) /\ a.dir = "in" /\ a.allow /\ 443 \in a.ports /\ a.from = AccessNodes /\ to \in a.to
  BY DEF LockIsolated, Allow, Host, At
<1>2. AccessNode \in AccessNodes
  BY KnownHosts, HostNames
<1>3. ASSUME NEW r \in LockIsolated(v) \cup DefaultRules, r.dir = "in", to \in r.to
      PROVE  a.priority <= r.priority
  <2>1. to \in At("fridgeApi", v.fridgeIp) => to # <<"k8sApi", 0>>
    BY DEF At
  <2> QED BY <1>3, <2>1 DEF LockIsolated, DefaultRules, Allow, Deny
<1> HIDE DEF a
<1> QED BY <1>1, <1>2, <1>3, PassesBy

\* The API proxy of the access cluster reaches the isolated cluster's APIs at every
\* moment, whatever mix of the two stacks' rules is in force: only rules made for an
\* address that has changed since shut it out (networking.py,
\* network_security_rules.py).
THEOREM ProxyReachesApis == Spec => []ProxyReaches
<1>1. ASSUME IInv, NEW to \in {<<"k8sApi", 0>>, FridgeApi},
             to = FridgeApi => \A n \in Nsgs : ~Stale(n)
      PROVE  ReachesApi(to)
  <2>1. address["fridgeIp"] \in 0..MaxChanges
    BY <1>1 DEF IInv, TypeOK, Addresses
  <2>2. to \in IsolatedVnet
    BY <2>1, KnownHosts DEF FridgeApi
  <2>3. ASSUME NEW n \in Nsgs
        PROVE  /\ rules[n].from \in Values /\ rules[n].set \in {"base", "lock"}
               /\ rules[n].set = "lock" => to \in {<<"k8sApi", 0>>, <<"fridgeApi", rules[n].from["fridgeIp"]>>}
    <3>1. rules[n] \in RuleSets
      BY <1>1 DEF IInv, TypeOK
    <3>2. rules[n].set \in {"base", "lock"}
      BY <1>1, RuleTypes DEF IInv, Whose
    <3> QED BY <1>1, <3>1, <3>2 DEF RuleSets, Stale, FridgeApi
  <2>4. OutOfAccess(to, 443)
    <3>1. CASE rules["access"].set = "base"
      BY <2>2, <3>1, OutBase DEF OutOfAccess, RulesOf, AccessRules, IsolatedRules
    <3>2. CASE rules["access"].set = "lock"
      <4>1. RulesOf("access") = LockAccess(rules["access"].from)
        BY <3>2 DEF RulesOf, AccessRules, IsolatedRules
      <4>2. Passes(LockAccess(rules["access"].from), "out", AccessNode, to, 443)
        BY <2>3, <3>2, OutLock DEF Nsgs
      <4> QED BY <4>1, <4>2 DEF OutOfAccess
    <3> QED BY <2>3, <3>1, <3>2 DEF Nsgs
  <2>5. IntoIsolated(AccessNode, to, 443)
    <3>1. CASE rules["isolated"].set = "base"
      BY <2>2, <3>1, InBase DEF IntoIsolated, RulesOf, AccessRules, IsolatedRules
    <3>2. CASE rules["isolated"].set = "lock"
      <4>1. RulesOf("isolated") = LockIsolated(rules["isolated"].from)
        BY <3>2 DEF RulesOf, AccessRules, IsolatedRules
      <4>2. Passes(LockIsolated(rules["isolated"].from), "in", AccessNode, to, 443)
        BY <2>3, <3>2, InLock DEF Nsgs
      <4> QED BY <4>1, <4>2 DEF IntoIsolated
    <3> QED BY <2>3, <3>1, <3>2 DEF Nsgs
  <2> QED BY <2>4, <2>5 DEF ReachesApi
<1>2. IInv => ReachesApi(<<"k8sApi", 0>>)
  BY <1>1 DEF FridgeApi
<1>3. IInv => ProxyReaches
  BY <1>1, <1>2 DEF ProxyReaches
<1> QED BY <1>3, Invariant, PTL

-----------------------------------------------------------------------------
(* The registry.                                                            *)

\* On either of the ports that pulling an image takes.
HarborPorts == {80, 443}

LEMMA InternetOut ==
  ASSUME NEW port \in HarborPorts
  PROVE  Passes(BaseIsolated, "out", IsolatedNode, <<"internet", 0>>, port)
<1> DEFINE a == Allow("out", 65001, Everywhere, InternetHosts, Ports)
           h == <<"internet", 0>>
<1>1. a \in DefaultRules /\ a.dir = "out" /\ a.from = Everywhere /\ a.to = InternetHosts /\ port \in a.ports
      /\ a.allow /\ a.priority = 65001
  BY DEF DefaultRules, Allow, Ports, HarborPorts
<1> HIDE DEF a
<1>2. h \notin AccessVnet /\ h \notin Vnets /\ h \in InternetHosts
  BY HostNames, KnownHosts
<1> HIDE DEF h
<1>3. ASSUME NEW r \in BaseIsolated \cup DefaultRules, r.dir = "out", h \in r.to
      PROVE  65001 <= r.priority
  <2>1. CASE r \in BaseIsolated
    BY <1>2, <1>3, <2>1 DEF BaseIsolated, Allow, Deny
  <2>2. CASE r \in DefaultRules
    BY <1>2, <1>3, <2>2 DEF DefaultRules, Allow, Deny
  <2> QED BY <2>1, <2>2
<1>4. IsolatedNode \in Everywhere
  BY KnownHosts
<1>5. Passes(BaseIsolated, "out", IsolatedNode, h, port)
  <2>1. a \in BaseIsolated \cup DefaultRules /\ IsolatedNode \in a.from /\ h \in a.to
    BY <1>1, <1>2, <1>4
  <2>2. \A r \in BaseIsolated \cup DefaultRules :
           /\ r.dir = "out" /\ IsolatedNode \in r.from /\ h \in r.to /\ port \in r.ports
           => a.priority <= r.priority
    BY <1>1, <1>3
  <2> QED BY <1>1, <2>1, <2>2 DEF Passes
<1> QED BY <1>5 DEF h

LEMMA InternetIn ==
  ASSUME NEW v, NEW port \in HarborPorts
  PROVE  Passes(BaseAccess(v), "in", <<"internet", 0>>, AccessNode, port)
<1> DEFINE a == IF port = 443 THEN Allow("in", 100, InternetHosts, Everywhere, {443})
                ELSE Allow("in", 110, InternetHosts, Everywhere, {80})
<1>1. a \in BaseAccess(v) /\ a.dir = "in" /\ a.from = InternetHosts /\ a.to = Everywhere /\ port \in a.ports
      /\ a.allow /\ a.priority = IF port = 443 THEN 100 ELSE 110
  <2>1. port = 443 \/ port = 80
    BY DEF HarborPorts
  <2>2. CASE port = 443
    BY <2>2 DEF BaseAccess, Allow
  <2>3. CASE port = 80
    BY <2>3 DEF BaseAccess, Allow
  <2> QED BY <2>1, <2>2, <2>3
<1> HIDE DEF a
<1>2. ASSUME NEW r \in BaseAccess(v) \cup DefaultRules, r.dir = "in", port \in r.ports
      PROVE  a.priority <= r.priority
  BY <1>1, <1>2 DEF BaseAccess, DefaultRules, Allow, Deny, HarborPorts
<1>3. <<"internet", 0>> \in a.from /\ AccessNode \in a.to
  BY <1>1, KnownHosts
<1> QED BY <1>1, <1>2, <1>3, PassesBy

LEMMA HarborOut ==
  ASSUME NEW v \in Values, NEW port \in HarborPorts
  PROVE  Passes(LockIsolated(v), "out", IsolatedNode, <<"harbor", v["harborIp"]>>, port)
<1> DEFINE a == Allow("out", 100, IsolatedNodes, At("harbor", v.harborIp), {80, 443})
<1>1. a \in LockIsolated(v) /\ a.dir = "out" /\ a.from = IsolatedNodes /\ <<"harbor", v["harborIp"]>> \in a.to
      /\ port \in a.ports /\ a.allow /\ a.priority = 100
  BY DEF LockIsolated, Allow, At, HarborPorts
<1> HIDE DEF a
<1>2. \A r \in LockIsolated(v) \cup DefaultRules : 100 <= r.priority
  BY DEF LockIsolated, DefaultRules, Allow, Deny
<1>3. IsolatedNode \in IsolatedNodes
  BY KnownHosts, HostNames
<1> QED BY <1>1, <1>2, <1>3, PassesBy

LEMMA HarborIn ==
  ASSUME NEW v \in Values, NEW port \in HarborPorts
  PROVE  Passes(LockAccess(v), "in", IsolatedNode, <<"harbor", v["harborIp"]>>, port)
<1> DEFINE a == Allow("in", 500, IsolatedNodes, At("harbor", v.harborIp), {80, 443})
<1>1. a \in LockAccess(v) /\ a.dir = "in" /\ a.from = IsolatedNodes /\ <<"harbor", v["harborIp"]>> \in a.to
      /\ port \in a.ports /\ a.allow /\ a.priority = 500
  BY DEF LockAccess, Allow, At, HarborPorts
<1> HIDE DEF a
<1>2. IsolatedNode \in IsolatedNodes /\ IsolatedNode \notin InternetHosts /\ IsolatedNode \notin LoadBalancer
  BY KnownHosts, HostNames
<1>3. IsolatedNode \notin At("admin", v.allowlist)
  BY DEF IsolatedNode, At
<1>4. ASSUME NEW r \in LockAccess(v) \cup DefaultRules, r.dir = "in", IsolatedNode \in r.from
      PROVE  a.priority <= r.priority
  BY <1>1, <1>2, <1>3, <1>4 DEF LockAccess, DefaultRules, Allow, Deny
<1>5. a \in LockAccess(v) \cup DefaultRules /\ IsolatedNode \in a.from
  BY <1>1, <1>2
<1> QED BY <1>1, <1>4, <1>5, PassesBy

\* Isolated nodes reach the registry on both of its ports: before the lockdown at its
\* public address, and after it at the internal one, if Harbor's configured FQDN is
\* the record's, and not at all if it is another (network_security_rules.py,
\* dns_zone.py, container_registry.py).
THEOREM RegistryIsReachable == Spec => []RegistryReachable
<1>1. ASSUME IInv, Settled, NEW name \in HarborNames, NEW port \in HarborPorts
      PROVE  ReachesHarbor(name, port) <=> name = "recorded"
  <2>1. /\ rules["access"] = Lock("access", value) /\ rules["isolated"] = Lock("isolated", value)
        /\ record = value["harborIp"] /\ linked /\ route
        /\ value["harborIp"] = address["harborIp"]
    BY <1>1, SettledRules DEF Nsgs
  <2>2. value \in Values
    BY <1>1 DEF IInv, TypeOK
  <2>3. /\ rules["isolated"].set = "lock" /\ rules["isolated"].from \in Values
        /\ rules["isolated"].from["harborIp"] = record
    BY <2>1, <2>2, LockFrom DEF Nsgs
  <2>4. /\ rules["access"].set = "lock" /\ rules["access"].from \in Values
        /\ rules["access"].from["harborIp"] = record
    BY <2>1, <2>2, LockFrom DEF Nsgs
  <2>5. /\ RulesOf("isolated") = LockIsolated(rules["isolated"].from)
        /\ RulesOf("access") = LockAccess(rules["access"].from)
    BY <2>3, <2>4 DEF RulesOf, AccessRules, IsolatedRules
  <2>6. Harbor = <<"harbor", record>>
    BY <2>1 DEF Harbor
  <2>7. OutOfIsolated(Harbor, port)
    BY <2>3, <2>5, <2>6, HarborOut DEF OutOfIsolated
  <2>8. IntoAccess(IsolatedNode, Harbor, port)
    BY <2>4, <2>5, <2>6, HarborIn DEF IntoAccess
  <2>9. ~ReachesInternet(<<"internet", 0>>, port)
    BY <2>1 DEF ReachesInternet
  <2> QED BY <2>1, <2>6, <2>7, <2>8, <2>9 DEF ReachesHarbor
<1>2. ASSUME IInv, lock.state = "never", NEW name \in HarborNames, NEW port \in HarborPorts
      PROVE  ReachesHarbor(name, port)
  <2>1. ~route /\ ~linked /\ \A n \in Nsgs : rules[n].set = "base"
    BY <1>2, RuleTypes DEF IInv, Untouched
  <2>2. RulesOf("isolated") = BaseIsolated /\ RulesOf("access") = BaseAccess(rules["access"].from)
    BY <2>1 DEF RulesOf, AccessRules, IsolatedRules, Nsgs
  <2> QED BY <2>1, <2>2, InternetOut, InternetIn DEF ReachesHarbor, ReachesInternet, OutOfIsolated, IntoAccess
<1>3. IInv => RegistryReachable
  BY <1>1, <1>2 DEF RegistryReachable, HarborPorts
<1> QED BY <1>3, Invariant, PTL
=============================================================================
