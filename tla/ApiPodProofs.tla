---------------------------- MODULE ApiPodProofs ----------------------------
(***************************************************************************)
(* For all probe periods and thresholds: no call without a timeout holds   *)
(* the loop of a started pod for longer than the liveness probe allows,    *)
(* and the pod is not restarted if no handler waits.                       *)
(***************************************************************************)
EXTENDS ApiPod, TLAPS

\* What is held has been seen: at every failed liveness probe, and until the
\* next one.
HoldIsCounted ==
    /\ ~started => held = 0
    /\ loop = "idle" => held = 0
    /\ started => held + due["live"] <= (fails["live"] + 1) * LivePeriod

IInv == TypeOK /\ HoldIsCounted

\* The types of the periods and thresholds, per probe.
LEMMA ProbeTypes ==
    \A p \in Probes : /\ Period[p] \in Nat \ {0}
                      /\ Threshold[p] \in Nat \ {0}
BY ProbeAssumption DEF Probes, Period, Threshold

\* One more failure allows for one more period.
LEMMA OneMorePeriod ==
    ASSUME NEW f \in Nat, NEW p \in Nat
    PROVE  (f + 1 + 1) * p = (f + 1) * p + p /\ (f + 1) * p >= p
<1>1. (f + 1 + 1) * p = (f + 1) * p + p  BY SMT
<1>2. (f + 1) * p = f * p + p  BY SMT
<1>3. f * p \in Nat  BY SMT
<1> QED  BY <1>1, <1>2, <1>3

\* Below its threshold, a count allows for what the probe tolerates.
LEMMA Tolerated ==
    ASSUME NEW f \in Nat, NEW t \in Nat, NEW p \in Nat, f <= t - 1
    PROVE  (f + 1) * p <= p * t
<1>1. PICK d \in Nat : t = f + 1 + d  BY SMT
<1>2. p * t = (f + 1) * p + d * p  BY <1>1, SMT
<1>3. d * p \in Nat  BY SMT
<1>4. (f + 1) * p \in Nat  BY SMT
<1> QED  BY <1>2, <1>3, <1>4

LEMMA HoldBounded == IInv => HoldIsNoticed
<1> SUFFICES ASSUME IInv PROVE HoldIsNoticed
    OBVIOUS
<1>1. CASE ~started
    BY <1>1, ProbeAssumption DEF IInv, HoldIsCounted, HoldIsNoticed
<1>2. CASE started
    <2>1. fails["live"] \in Nat /\ fails["live"] <= LiveThreshold - 1 /\ due["live"] \in Nat
        BY ProbeAssumption DEF IInv, TypeOK, Probes, Threshold
    <2>2. (fails["live"] + 1) * LivePeriod <= LivePeriod * LiveThreshold
        BY <2>1, Tolerated, ProbeAssumption
    <2>3. held + due["live"] <= (fails["live"] + 1) * LivePeriod
        BY <1>2 DEF IInv, HoldIsCounted
    <2>4. held \in Nat /\ (fails["live"] + 1) * LivePeriod \in Nat
              /\ LivePeriod * LiveThreshold \in Nat
        BY <2>1, ProbeAssumption DEF IInv, TypeOK
    <2> QED  BY <2>1, <2>2, <2>3, <2>4 DEF HoldIsNoticed
<1> QED  BY <1>1, <1>2

-----------------------------------------------------------------------------
\* A process that starts has nothing to count.
LEMMA RestartsIInv == TypeOK /\ Restarts => IInv'
<1> SUFFICES ASSUME TypeOK, Restarts PROVE IInv'
    OBVIOUS
<1>1. /\ loop' = "idle" /\ phase' = "importing" /\ held' = 0 /\ UNCHANGED hung
      /\ due' = Period /\ fails' = [p \in Probes |-> 0]
    BY DEF Restarts
<1>2. busy' = FALSE /\ started' = FALSE /\ ready' = FALSE /\ waited' = FALSE
    BY DEF Restarts
<1>3. /\ busy' \in BOOLEAN /\ started' \in BOOLEAN
      /\ ready' \in BOOLEAN /\ waited' \in BOOLEAN
    BY <1>2
<1>4. Period \in [Probes -> Nat]  BY ProbeAssumption DEF Period, Probes
<1>5. TypeOK'  BY <1>1, <1>2, <1>3, <1>4, ProbeTypes DEF TypeOK
<1>6. HoldIsCounted'  BY <1>1, <1>2 DEF HoldIsCounted
<1> QED  BY <1>5, <1>6 DEF IInv

LEMMA InitIInv == Init => IInv
<1> SUFFICES ASSUME Init PROVE IInv
    OBVIOUS
<1>1. busy = FALSE /\ started = FALSE /\ ready = FALSE /\ waited = FALSE  BY DEF Init
<1>2. /\ busy \in BOOLEAN /\ started \in BOOLEAN
      /\ ready \in BOOLEAN /\ waited \in BOOLEAN
    BY <1>1
<1>3. Period \in [Probes -> Nat]  BY ProbeAssumption DEF Period, Probes
<1>4. TypeOK  BY <1>1, <1>2, <1>3, ProbeTypes DEF Init, TypeOK
<1>5. HoldIsCounted  BY <1>1 DEF Init, HoldIsCounted
<1> QED  BY <1>4, <1>5 DEF IInv

\* A step that leaves the kubelet's clocks and counters alone keeps the count if
\* it does not touch what is held, or ends the hold.
LEMMA CountKept ==
    ASSUME IInv, UNCHANGED <<due, fails, started>>, held' \in Nat,
           UNCHANGED held \/ held' = 0,
           loop' = "idle" => held' = 0
    PROVE  HoldIsCounted'
<1>1. "live" \in Probes  BY DEF Probes
<1>2. due["live"] \in Nat /\ fails["live"] \in Nat /\ held \in Nat
    BY <1>1 DEF IInv, TypeOK
<1>3. (fails["live"] + 1) * LivePeriod \in Nat  BY <1>2, ProbeAssumption
<1>4. held' <= held  BY <1>2
<1> QED  BY <1>2, <1>3, <1>4 DEF IInv, HoldIsCounted

\* The actions that are no probes and no ticks.
LEMMA ServicesIInv ==
    ASSUME IInv, NEW s \in Services, HangStarts(s) \/ HangEnds(s)
    PROVE  IInv'
<1>1. UNCHANGED <<due, fails, started, busy, phase, ready, waited>>
    BY DEF HangStarts, HangEnds
<1>2. hung' \subseteq Services /\ loop' \in Services \cup {"idle", "lost"}
    BY DEF IInv, TypeOK, HangStarts, HangEnds
<1>3. held' \in Nat /\ (UNCHANGED held \/ held' = 0)
    BY DEF IInv, TypeOK, HangStarts, HangEnds
<1>4. loop' = "idle" => held' = 0
    BY DEF IInv, HoldIsCounted, HangStarts, HangEnds
<1>5. HoldIsCounted'  BY <1>1, <1>3, <1>4, CountKept
<1>6. TypeOK'  BY <1>1, <1>2, <1>3 DEF IInv, TypeOK
<1> QED  BY <1>5, <1>6 DEF IInv

LEMMA ProcessIInv == IInv /\ Process => IInv'
<1> SUFFICES ASSUME IInv, Process PROVE IInv'
    OBVIOUS
<1>1. CASE Import
    <2>1. UNCHANGED <<due, fails, started, held, waited>>  BY <1>1 DEF Import
    <2>2. held' = 0 /\ ~started  BY <1>1 DEF Import, IInv, HoldIsCounted, TypeOK
    <2>3. HoldIsCounted'  BY <2>1, <2>2, CountKept
    <2>4. loop' \in Services \cup {"idle", "lost"} /\ phase' \in {"importing", "serving"}
        BY <1>1 DEF Import, IInv, TypeOK
    <2>5. TypeOK'  BY <1>1, <2>1, <2>2, <2>4 DEF Import, IInv, TypeOK
    <2> QED  BY <2>3, <2>5 DEF IInv
<1>2. CASE ImportFails
    BY <1>2, RestartsIInv DEF ImportFails, IInv
<1>3. ASSUME NEW s \in Traffic, RequestWaits(s) PROVE IInv'
    <2>1. UNCHANGED <<due, fails, started, held>>  BY <1>3 DEF RequestWaits
    <2>2. held' = 0  BY <1>3 DEF RequestWaits, IInv, HoldIsCounted
    <2>3. HoldIsCounted'  BY <2>1, <2>2, CountKept
    <2>4. waited' = TRUE /\ UNCHANGED <<hung, busy, phase, due, fails, started, ready, held>>
        BY <1>3 DEF RequestWaits
    <2>5. waited' \in BOOLEAN /\ loop' \in Services
        BY <1>3, <2>4, ServicesAssumption DEF RequestWaits
    <2>6. TypeOK'  BY <2>4, <2>5 DEF IInv, TypeOK
    <2> QED  BY <2>3, <2>6 DEF IInv
<1> QED  BY <1>1, <1>2, <1>3 DEF Process

-----------------------------------------------------------------------------
\* A tick of a held loop brings the next liveness probe as much closer.
LEMMA TickIInv == IInv /\ Tick => IInv'
<1> SUFFICES ASSUME IInv, Tick PROVE IInv'
    OBVIOUS
<1> USE DEF IInv
<1>1. \A p \in Active : due[p] > 0  BY DEF Tick
<1>2. Active \subseteq Probes  BY DEF Active, Probes
<1>3. due' \in [Probes -> Nat] /\ \A p \in Probes : due'[p] <= due[p]
    BY <1>1, <1>2 DEF Tick, TypeOK
<1>4. UNCHANGED <<hung, loop, phase, started, fails, ready, waited>>  BY DEF Tick
<1>5. busy' \in BOOLEAN  BY DEF Tick
<1>6. held' \in Nat  BY DEF Tick, TypeOK
<1>7. TypeOK'
    <2>1. \A p \in Probes : due'[p] <= Period[p]
        BY <1>3, ProbeTypes DEF TypeOK
    <2> QED  BY <1>3, <1>4, <1>5, <1>6, <2>1 DEF TypeOK
<1>8. HoldIsCounted'
    <2>1. CASE ~started \/ loop = "idle"
        <3>1. held' = 0  BY <2>1 DEF Tick
        <3>2. "live" \in Probes  BY DEF Probes
        <3>3. started => held' + due'["live"] <= held + due["live"]
            BY <1>3, <3>1, <3>2 DEF TypeOK
        <3>4. (fails["live"] + 1) * LivePeriod \in Nat
            BY <3>2, ProbeAssumption DEF TypeOK
        <3>5. held + due["live"] \in Nat /\ held' + due'["live"] \in Nat
            BY <3>2, <1>3, <1>6 DEF TypeOK
        <3> QED  BY <1>4, <3>1, <3>3, <3>4, <3>5 DEF HoldIsCounted
    <2>2. CASE started /\ loop # "idle"
        <3>1. "live" \in Active /\ "live" \in Probes  BY <2>2 DEF Active, Probes
        <3>2. due'["live"] = due["live"] - 1  BY <3>1 DEF Tick
        <3>3. held' = held + 1  BY <2>2 DEF Tick
        <3>4. held' + due'["live"] = held + due["live"]
            BY <3>1, <3>2, <3>3 DEF TypeOK
        <3> QED  BY <1>4, <2>2, <3>4 DEF HoldIsCounted
    <2> QED  BY <2>1, <2>2 DEF TypeOK
<1> QED  BY <1>7, <1>8

\* What a probe that does not restart the container leaves of the types.
LEMMA ProbeTypeKept ==
    ASSUME TypeOK, NEW p \in Probes,
           Again(p), Passed(p) \/ UNCHANGED fails \/ (Failed(p) /\ ~LastFailure(p))
    PROVE  /\ due' \in [Probes -> Nat] /\ fails' \in [Probes -> Nat]
           /\ \A q \in Probes : due'[q] <= Period[q] /\ fails'[q] < Threshold[q]
<1>1. Period[p] \in Nat \ {0} /\ Threshold[p] \in Nat \ {0}  BY ProbeTypes
<1>2. due' \in [Probes -> Nat] /\ \A q \in Probes : due'[q] <= Period[q]
    BY <1>1 DEF Again, TypeOK
<1>3. fails[p] \in Nat /\ fails[p] < Threshold[p]  BY DEF TypeOK
<1>4. CASE Passed(p)
    BY <1>1, <1>2, <1>4 DEF Passed, TypeOK
<1>5. CASE UNCHANGED fails
    BY <1>2, <1>5 DEF TypeOK
<1>6. CASE Failed(p) /\ ~LastFailure(p)
    <2>1. fails[p] + 1 < Threshold[p]  BY <1>1, <1>3, <1>6 DEF LastFailure
    <2> QED  BY <1>2, <2>1, <1>6 DEF Failed, TypeOK
<1> QED  BY <1>4, <1>5, <1>6

\* The startup and readiness probes: they do not count for liveness.
LEMMA OtherProbesIInv ==
    ASSUME IInv, StartPasses \/ StartFails \/ ReadyPasses \/ ReadyFails
    PROVE  IInv'
<1> USE DEF IInv
<1>0. /\ "live" \in Probes /\ "start" \in Probes /\ "ready" \in Probes
      /\ Period["live"] = LivePeriod /\ Period["ready"] = ReadyPeriod
    BY DEF Probes, Period
<1>1. CASE StartPasses
    <2>1. PICK l \in 0..LivePeriod - 1, r \in 0..ReadyPeriod - 1 :
              due' = [due EXCEPT !["live"] = l, !["ready"] = r]
        BY <1>1 DEF StartPasses
    <2>2. due' \in [Probes -> Nat] /\ \A p \in Probes : due'[p] <= Period[p]
        BY <1>0, <2>1, ProbeTypes DEF TypeOK
    <2>3. started' = TRUE /\ phase = "serving" /\ loop = "idle"  BY <1>1 DEF StartPasses
    <2>4. UNCHANGED <<hung, loop, busy, phase, fails, ready, held, waited>>  BY <1>1 DEF StartPasses
    <2>5. started' \in BOOLEAN  BY <2>3
    <2>6. TypeOK'  BY <2>2, <2>3, <2>4, <2>5 DEF TypeOK
    <2>7. held' = 0  BY <2>3, <2>4 DEF HoldIsCounted
    <2>8. due'["live"] <= LivePeriod  BY <1>0, <2>2
    <2>9. (fails["live"] + 1) * LivePeriod >= LivePeriod
          /\ (fails["live"] + 1) * LivePeriod \in Nat
        BY <1>0, ProbeAssumption, OneMorePeriod DEF TypeOK
    <2>10. held' + due'["live"] <= (fails'["live"] + 1) * LivePeriod
        BY <1>0, <2>2, <2>4, <2>7, <2>8, <2>9, ProbeAssumption
    <2>11. HoldIsCounted'  BY <2>7, <2>10 DEF HoldIsCounted
    <2> QED  BY <2>6, <2>11
<1>2. CASE StartFails
    <2>1. CASE LastFailure("start")
        BY <1>2, <2>1, RestartsIInv DEF StartFails
    <2>2. CASE ~LastFailure("start")
        <3>1. Failed("start") /\ Again("start")
              /\ UNCHANGED <<hung, loop, busy, phase, started, ready, held, waited>>
            BY <1>2, <2>2 DEF StartFails
        <3>2. TypeOK'  BY <1>0, <2>2, <3>1, ProbeTypeKept DEF TypeOK
        <3>3. ~started  BY <1>2 DEF StartFails, Due, Active
        <3>4. HoldIsCounted'  BY <3>1, <3>3 DEF HoldIsCounted
        <3> QED  BY <3>2, <3>4
    <2> QED  BY <2>1, <2>2
<1>3. ASSUME Again("ready"), UNCHANGED <<hung, phase, started, held>>,
             fails'["live"] = fails["live"], loop = "idle" \/ loop' = loop
      PROVE  HoldIsCounted'
    <2>1. due'["live"] = due["live"]  BY <1>0, <1>3 DEF Again, TypeOK
    <2>2. loop' = "idle" => held' = 0  BY <1>3 DEF HoldIsCounted
    <2> QED  BY <1>3, <2>1, <2>2 DEF HoldIsCounted
<1>4. CASE ReadyPasses
    <2>1. Passed("ready") /\ Again("ready")
          /\ UNCHANGED <<hung, loop, busy, phase, started, held, waited>>
        BY <1>4 DEF ReadyPasses
    <2>2. ready' \in BOOLEAN  BY <1>4 DEF ReadyPasses
    <2>3. TypeOK'  BY <1>0, <2>1, <2>2, ProbeTypeKept DEF TypeOK
    <2>4. fails'["live"] = fails["live"]  BY <1>0, <2>1 DEF Passed, TypeOK
    <2> QED  BY <1>3, <2>1, <2>3, <2>4
<1>5. CASE ReadyFails
    <2>1. Again("ready") /\ UNCHANGED <<hung, phase, started, held>>
        BY <1>5 DEF ReadyFails
    <2>2. UNCHANGED fails \/ (Failed("ready") /\ ~LastFailure("ready"))
        BY <1>5 DEF ReadyFails
    <2>3. ready' \in BOOLEAN  BY <1>5 DEF ReadyFails, TypeOK
    <2>4. busy' \in BOOLEAN /\ waited' \in BOOLEAN  BY <1>5 DEF ReadyFails
    <2>5. loop' \in Services \cup {"idle", "lost"} /\ (loop = "idle" \/ loop' = loop)
        <3>1. "minio" \in hung => "minio" \in Services  BY DEF TypeOK
        <3> QED  BY <1>5, <3>1 DEF ReadyFails, TypeOK
    <2>6. TypeOK'  BY <1>0, <2>1, <2>2, <2>3, <2>4, <2>5, ProbeTypeKept DEF TypeOK
    <2>7. fails'["live"] = fails["live"]  BY <1>0, <2>2 DEF Failed, TypeOK
    <2> QED  BY <1>3, <2>1, <2>5, <2>6, <2>7
<1> QED  BY <1>1, <1>2, <1>4, <1>5

\* The liveness probe: a failure counts for the period to the next.
LEMMA LiveProbesIInv ==
    ASSUME IInv, LivePasses \/ LiveFails
    PROVE  IInv'
<1> USE DEF IInv
<1>0. "live" \in Probes /\ Period["live"] = LivePeriod  BY DEF Probes, Period
<1>1. due["live"] = 0 /\ started  BY DEF LivePasses, LiveFails, Due, Active
<1>2. LivePeriod \in Nat \ {0} /\ fails["live"] \in Nat /\ held \in Nat
    BY <1>0, ProbeAssumption DEF TypeOK
<1>3. ASSUME Again("live") PROVE due'["live"] = LivePeriod
    BY <1>0, <1>3 DEF Again, TypeOK
<1>4. CASE LivePasses
    <2>1. Passed("live") /\ Again("live") /\ loop = "idle"
          /\ UNCHANGED <<hung, loop, busy, phase, started, ready, held, waited>>
        BY <1>4 DEF LivePasses
    <2>2. TypeOK'  BY <1>0, <2>1, ProbeTypeKept DEF TypeOK
    <2>3. fails'["live"] = 0 /\ held' = 0
        BY <1>0, <2>1 DEF Passed, TypeOK, HoldIsCounted
    <2>4. (fails'["live"] + 1) * LivePeriod = LivePeriod  BY <1>2, <2>3
    <2>5. HoldIsCounted'  BY <1>2, <1>3, <2>1, <2>3, <2>4 DEF HoldIsCounted
    <2> QED  BY <2>2, <2>5
<1>5. CASE LiveFails
    <2>1. CASE LastFailure("live")
        BY <1>5, <2>1, RestartsIInv DEF LiveFails
    <2>2. CASE ~LastFailure("live")
        <3>1. Failed("live") /\ Again("live")
              /\ UNCHANGED <<hung, loop, busy, phase, started, ready, held, waited>>
            BY <1>5, <2>2 DEF LiveFails
        <3>2. TypeOK'  BY <1>0, <2>2, <3>1, ProbeTypeKept DEF TypeOK
        <3>3. fails'["live"] = fails["live"] + 1  BY <1>0, <3>1 DEF Failed, TypeOK
        <3>4. (fails'["live"] + 1) * LivePeriod = (fails["live"] + 1) * LivePeriod + LivePeriod
            BY <1>2, <3>3, OneMorePeriod
        <3>5. held <= (fails["live"] + 1) * LivePeriod
            BY <1>1, <1>2 DEF HoldIsCounted
        <3>6. (fails["live"] + 1) * LivePeriod \in Nat  BY <1>2
        <3>7. held' + due'["live"] <= (fails'["live"] + 1) * LivePeriod
            BY <1>2, <1>3, <3>1, <3>4, <3>5, <3>6
        <3>8. HoldIsCounted'  BY <1>1, <3>1, <3>7 DEF HoldIsCounted
        <3> QED  BY <3>2, <3>8
    <2> QED  BY <2>1, <2>2
<1> QED  BY <1>4, <1>5

LEMMA NextIInv == IInv /\ [Next]_vars => IInv'
<1> SUFFICES ASSUME IInv, [Next]_vars PROVE IInv'
    OBVIOUS
<1>1. CASE Tick  BY <1>1, TickIInv
<1>2. ASSUME NEW s \in Services, HangStarts(s) \/ HangEnds(s) PROVE IInv'
    BY <1>2, ServicesIInv
<1>3. CASE Process  BY <1>3, ProcessIInv
<1>4. CASE Probe  BY <1>4, OtherProbesIInv, LiveProbesIInv DEF Probe
<1>5. CASE UNCHANGED vars
    BY <1>5 DEF vars, IInv, TypeOK, HoldIsCounted
<1> QED  BY <1>1, <1>2, <1>3, <1>4, <1>5 DEF Next

\* TypeOK holds for all probe settings: no probe is missed and no count passes
\* its threshold.
THEOREM TypeCorrect == Spec => []TypeOK
<1>1. IInv => TypeOK  BY DEF IInv
<1> QED  BY <1>1, InitIInv, NextIInv, PTL DEF Spec

\* HoldIsNoticed holds for all probe settings: an answer that never comes holds
\* the API for LivePeriod * LiveThreshold at most (a minute, as deployed).
THEOREM HoldNoticed == Spec => []HoldIsNoticed
BY HoldBounded, InitIInv, NextIInv, PTL DEF Spec

-----------------------------------------------------------------------------
(* Why the readiness check alone never kills the pod: after a liveness      *)
(* probe that it delayed, the next one comes before the next check.         *)
Unlucky == fails["live"] = 1 /\ due["ready"] + LivePeriod = due["live"] + ReadyPeriod

LoopAlone ==
    /\ ~started => ~busy /\ fails["live"] = 0
    /\ busy => due["ready"] = ReadyPeriod
    /\ started /\ ~waited => loop = "idle" /\ (fails["live"] = 0 \/ Unlucky)

\* Neither the startup probe nor an import restarts a started pod, and the
\* liveness probe does not as long as no handler waits.
LEMMA NoKill ==
    ASSUME TypeOK, LoopAlone, [Next]_vars, started, ~waited
    PROVE  started'
<1> USE DEF TypeOK
<1>0. "live" \in Probes /\ "ready" \in Probes /\ due["live"] \in Nat
    BY DEF Probes
<1>1. CASE Tick \/ UNCHANGED vars
    BY <1>1 DEF Tick, vars
<1>2. ASSUME NEW s \in Services, HangStarts(s) \/ HangEnds(s) PROVE started'
    BY <1>2 DEF HangStarts, HangEnds
<1>3. CASE Process
    BY <1>3 DEF Process, Import, ImportFails, RequestWaits
<1>4. CASE StartPasses \/ StartFails
    BY <1>4 DEF StartPasses, StartFails, Due, Active
<1>5. CASE LiveFails
    <2>1. busy /\ due["live"] = 0
        BY <1>5 DEF LiveFails, Due, LoopAlone
    <2>2. ~Unlucky
        BY <1>0, <2>1, ProbeAssumption DEF Unlucky, LoopAlone
    <2>3. ~LastFailure("live")
        BY <2>2, PeriodAssumption, ProbeAssumption DEF LoopAlone, LastFailure, Threshold
    <2> QED  BY <1>5, <2>3 DEF LiveFails
<1>6. CASE LivePasses \/ ReadyPasses \/ ReadyFails
    BY <1>6 DEF LivePasses, ReadyPasses, ReadyFails
<1> QED  BY <1>1, <1>2, <1>3, <1>4, <1>5, <1>6 DEF Next, Probe

LEMMA InitLoopAlone == Init => LoopAlone
BY DEF Init, LoopAlone, Probes

\* A restart begins anew.
LEMMA RestartsLoopAlone == Restarts => LoopAlone'
BY DEF Restarts, LoopAlone, Probes

LEMMA NextLoopAlone ==
    ASSUME TypeOK, LoopAlone, [Next]_vars
    PROVE  LoopAlone'
<1> USE DEF TypeOK
<1>0. /\ "live" \in Probes /\ "ready" \in Probes /\ "start" \in Probes
      /\ Period["live"] = LivePeriod /\ Period["ready"] = ReadyPeriod
      /\ due["live"] \in Nat /\ due["ready"] \in Nat /\ fails["live"] \in Nat
      /\ LivePeriod \in Nat /\ ReadyPeriod \in Nat
      /\ LivePeriod > 0 /\ ReadyPeriod > LivePeriod
    BY ProbeAssumption, PeriodAssumption DEF Probes, Period
<1>1. CASE Tick
    <2>1. busy' = FALSE /\ UNCHANGED <<started, waited, loop, fails>>
        BY <1>1 DEF Tick
    <2>2. started => due'["live"] = due["live"] - 1 /\ due'["ready"] = due["ready"] - 1
        BY <1>0, <1>1 DEF Tick, Active
    <2> QED  BY <1>0, <2>1, <2>2 DEF LoopAlone, Unlucky
<1>2. ASSUME NEW s \in Services, HangStarts(s) \/ HangEnds(s) PROVE LoopAlone'
    <2>1. UNCHANGED <<busy, started, waited, due, fails>>
        BY <1>2 DEF HangStarts, HangEnds
    <2>2. loop = "idle" => loop' = "idle"
        BY <1>2, ServicesAssumption DEF HangStarts, HangEnds
    <2> QED  BY <2>1, <2>2 DEF LoopAlone, Unlucky
<1>3. CASE Import
    <2>1. ~started /\ UNCHANGED <<busy, started, waited, due, fails>>
        BY <1>3 DEF Import
    <2> QED  BY <2>1 DEF LoopAlone
<1>4. CASE ImportFails
    BY <1>4, RestartsLoopAlone DEF ImportFails
<1>5. ASSUME NEW s \in Traffic, RequestWaits(s) PROVE LoopAlone'
    <2>1. waited' = TRUE /\ UNCHANGED <<busy, started, due, fails>>
        BY <1>5 DEF RequestWaits
    <2> QED  BY <2>1 DEF LoopAlone
<1>6. CASE StartPasses
    <2>1. ~started /\ loop' = "idle" /\ UNCHANGED <<busy, fails>>
        BY <1>6 DEF StartPasses, Due, Active
    <2> QED  BY <2>1 DEF LoopAlone
<1>7. CASE StartFails
    <2>1. ~started  BY <1>7 DEF StartFails, Due, Active
    <2>2. CASE LastFailure("start")
        BY <1>7, <2>2, RestartsLoopAlone DEF StartFails
    <2>3. CASE ~LastFailure("start")
        <3>1. Failed("start") /\ UNCHANGED <<busy, started>>
            BY <1>7, <2>3 DEF StartFails
        <3>2. fails'["live"] = fails["live"]  BY <1>0, <3>1 DEF Failed
        <3> QED  BY <2>1, <3>1, <3>2 DEF LoopAlone
    <2> QED  BY <2>2, <2>3
<1>8. CASE LivePasses
    <2>1. Passed("live") /\ Again("live") /\ UNCHANGED <<busy, started, waited, loop>>
        BY <1>8 DEF LivePasses
    <2>2. fails'["live"] = 0 /\ due'["ready"] = due["ready"]
        BY <1>0, <2>1 DEF Passed, Again
    <2> QED  BY <2>1, <2>2 DEF LoopAlone
<1>9. CASE LiveFails
    <2>1. CASE LastFailure("live")
        BY <1>9, <2>1, RestartsLoopAlone DEF LiveFails
    <2>2. CASE ~LastFailure("live")
        <3>1. Failed("live") /\ Again("live") /\ UNCHANGED <<busy, started, waited, loop>>
            BY <1>9, <2>2 DEF LiveFails
        <3>2. /\ due["live"] = 0 /\ due'["live"] = LivePeriod
              /\ due'["ready"] = due["ready"] /\ fails'["live"] = fails["live"] + 1
            BY <1>0, <1>9, <3>1 DEF LiveFails, Due, Failed, Again
        <3>3. started /\ (loop # "idle" \/ busy)
            BY <1>9 DEF LiveFails, Due, Active
        <3>4. ~waited => fails["live"] = 0 /\ due["ready"] = ReadyPeriod
            BY <1>0, <3>2, <3>3 DEF LoopAlone, Unlucky
        <3> QED  BY <1>0, <3>1, <3>2, <3>3, <3>4 DEF LoopAlone, Unlucky
    <2> QED  BY <2>1, <2>2
<1>10. ASSUME Due("ready"), started, ~waited PROVE ~Unlucky
    BY <1>0, <1>10 DEF Due, Unlucky
<1>11. CASE ReadyPasses
    <2>1. /\ Due("ready") /\ Passed("ready") /\ Again("ready")
          /\ UNCHANGED <<busy, started, waited, loop>>
        BY <1>11 DEF ReadyPasses
    <2>2. fails'["live"] = fails["live"] /\ started /\ due'["ready"] = ReadyPeriod
        BY <1>0, <2>1 DEF Passed, Due, Active, Again
    <2> QED  BY <1>10, <2>1, <2>2 DEF LoopAlone
<1>12. CASE ReadyFails
    <2>1. /\ Due("ready") /\ Again("ready") /\ UNCHANGED started
          /\ waited' = (waited \/ loop' # "idle")
        BY <1>12 DEF ReadyFails
    <2>2. UNCHANGED fails \/ Failed("ready")
        BY <1>12 DEF ReadyFails
    <2>3. fails'["live"] = fails["live"] /\ started /\ due'["ready"] = ReadyPeriod
        BY <1>0, <2>1, <2>2 DEF Failed, Due, Active, Again
    <2> QED  BY <1>10, <2>1, <2>3 DEF LoopAlone
<1>13. CASE UNCHANGED vars
    BY <1>13 DEF vars, LoopAlone, Unlucky
<1> QED
    BY <1>1, <1>2, <1>3, <1>4, <1>5, <1>6, <1>7, <1>8, <1>9, <1>11, <1>12, <1>13
    DEF Next, Process, Probe

\* OnlyWaitsKill holds for all probe settings with more than one tolerated
\* failure and a liveness period shorter than the readiness period.
THEOREM WaitsKill == Spec => OnlyWaitsKill
<1>1. TypeOK /\ LoopAlone /\ [Next]_vars => [Killed => waited]_vars
    BY NoKill DEF Killed
<1>2. TypeOK /\ LoopAlone /\ [Next]_vars => LoopAlone'
    BY NextLoopAlone
<1> QED  BY <1>1, <1>2, InitLoopAlone, TypeCorrect, PTL DEF Spec, OnlyWaitsKill
=============================================================================
