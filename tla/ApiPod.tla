------------------------------- MODULE ApiPod -------------------------------
(***************************************************************************)
(* The job API's pod as the kubelet sees it: startup, liveness and         *)
(* readiness probes against a process with one event loop.  A handler that *)
(* waits for MinIO, its STS or Argo has no timeout and holds the loop, so  *)
(* that /healthz is not served either; only the Argo check of /readyz      *)
(* gives up, after three seconds.                                          *)
(*                                                                         *)
(* A tick is the greatest common period of the probes (ten seconds).  All  *)
(* that the probes cannot tell apart (JobApi has it) is left out.          *)
(***************************************************************************)
EXTENDS Integers

CONSTANTS
    StartPeriod, StartThreshold,   \* startup_probe
    LivePeriod, LiveThreshold,     \* liveness_probe
    ReadyPeriod, ReadyThreshold,   \* readiness_probe
    Services,                      \* the services that may hang
    Traffic                        \* those that users' requests call

ASSUME ProbeAssumption ==
    /\ StartPeriod \in Nat \ {0} /\ StartThreshold \in Nat \ {0}
    /\ LivePeriod \in Nat \ {0} /\ LiveThreshold \in Nat \ {0}
    /\ ReadyPeriod \in Nat \ {0} /\ ReadyThreshold \in Nat \ {0}
\* What OnlyWaitsKill rests on.
ASSUME PeriodAssumption == LivePeriod < ReadyPeriod /\ LiveThreshold > 1
ASSUME ServicesAssumption == Services \subseteq {"argo", "minio"} /\ Traffic \subseteq Services

VARIABLES
    hung,      \* the services that accept connections and do not answer
    loop,      \* "idle", or the service a handler waits for, or "lost": the
               \* connection is dead and the answer will never come
    busy,      \* a readiness check is spending its three seconds on Argo
    phase,     \* "importing" (config.py builds the MinIO client) or "serving"
    started,   \* the startup probe has passed
    due,       \* ticks to the next probe of each kind
    fails,     \* consecutive failures of each kind
    ready,     \* the pod is an endpoint of its service
    \* Observation only.
    held,      \* ticks the loop of a started pod has been held
    waited     \* a handler of this container has waited for a service

vars == <<hung, loop, busy, phase, started, due, fails, ready, held, waited>>

Probes == {"start", "live", "ready"}
Period == [start |-> StartPeriod, live |-> LivePeriod, ready |-> ReadyPeriod]
Threshold == [start |-> StartThreshold, live |-> LiveThreshold, ready |-> ReadyThreshold]
Active == IF started THEN {"live", "ready"} ELSE {"start"}

Init ==
    /\ hung = {} /\ loop = "idle" /\ busy = FALSE
    /\ phase = "importing" /\ started = FALSE /\ ready = FALSE
    /\ due = Period /\ fails = [p \in Probes |-> 0]
    /\ held = 0 /\ waited = FALSE

\* Mutant: probes are missed.
TickEarly ==
    /\ due' = [p \in Probes |-> IF p \in Active THEN due[p] - 1 ELSE due[p]]
    /\ busy' = FALSE
    /\ held' = IF started /\ loop # "idle" THEN held + 1 ELSE 0
    /\ UNCHANGED <<hung, loop, phase, started, fails, ready, waited>>

\* Every probe that is due runs before time moves on.
Tick ==
    /\ \A p \in Active : due[p] > 0
    /\ due' = [p \in Probes |-> IF p \in Active THEN due[p] - 1 ELSE due[p]]
    /\ busy' = FALSE
    /\ held' = IF started /\ loop # "idle" THEN held + 1 ELSE 0
    /\ UNCHANGED <<hung, loop, phase, started, fails, ready, waited>>

-----------------------------------------------------------------------------
(* Services.  A call that a hang caught is answered when it ends, or not.   *)
HangStarts(s) ==
    /\ s \notin hung
    /\ hung' = hung \cup {s}
    /\ UNCHANGED <<loop, busy, phase, started, due, fails, ready, held, waited>>

HangEnds(s) ==
    /\ s \in hung
    /\ hung' = hung \ {s}
    /\ IF loop = s
       THEN \E l \in {"idle", "lost"} :
                loop' = l /\ held' = IF l = "idle" THEN 0 ELSE held
       ELSE UNCHANGED <<loop, held>>
    /\ UNCHANGED <<busy, phase, started, due, fails, ready, waited>>

-----------------------------------------------------------------------------
(* The process.                                                             *)

\* The container is killed, or exits, and starts again.
Restarts ==
    /\ loop' = "idle" /\ busy' = FALSE
    /\ phase' = "importing" /\ started' = FALSE /\ ready' = FALSE
    /\ due' = Period /\ fails' = [p \in Probes |-> 0]
    /\ held' = 0 /\ waited' = FALSE
    /\ UNCHANGED hung

\* MinioClient.__init__ has its credentials, or waits for STS.
Import ==
    /\ phase = "importing" /\ loop = "idle"
    /\ IF "minio" \in hung
       THEN loop' = "minio" /\ UNCHANGED phase
       ELSE phase' = "serving" /\ UNCHANGED loop
    /\ UNCHANGED <<hung, busy, started, due, fails, ready, held, waited>>

\* STS refuses every attempt: exit(1).
ImportFails ==
    /\ phase = "importing" /\ loop = "idle"
    /\ Restarts

\* A request of a user calls a service that hangs.
RequestWaits(s) ==
    /\ phase = "serving" /\ loop = "idle" /\ s \in hung
    /\ loop' = s /\ waited' = TRUE
    /\ UNCHANGED <<hung, busy, phase, started, due, fails, ready, held>>

-----------------------------------------------------------------------------
(* Probes.                                                                  *)
Due(p) == p \in Active /\ due[p] = 0
Again(p) == due' = [due EXCEPT ![p] = Period[p]]
Passed(p) == fails' = [fails EXCEPT ![p] = 0]
Failed(p) == fails' = [fails EXCEPT ![p] = @ + 1]
LastFailure(p) == fails[p] + 1 = Threshold[p]

\* The other probes have been running all along, each at its own phase, and
\* count from here.
StartPasses ==
    /\ Due("start") /\ phase = "serving" /\ loop = "idle"
    /\ started' = TRUE
    /\ \E l \in 0..LivePeriod - 1, r \in 0..ReadyPeriod - 1 :
           due' = [due EXCEPT !["live"] = l, !["ready"] = r]
    /\ UNCHANGED <<hung, loop, busy, phase, fails, ready, held, waited>>

\* Mutant: the startup probe has no last failure.
StartFailsPatiently ==
    /\ Due("start") /\ (phase = "importing" \/ loop # "idle")
    /\ Again("start")
    /\ UNCHANGED <<hung, loop, busy, phase, started, fails, ready, held, waited>>

StartFails ==
    /\ Due("start") /\ (phase = "importing" \/ loop # "idle")
    /\ IF LastFailure("start")
       THEN Restarts
       ELSE /\ Failed("start") /\ Again("start")
            /\ UNCHANGED <<hung, loop, busy, phase, started, ready, held, waited>>

\* Mutant: failures need not follow each other.
LivePassesForgetless ==
    /\ Due("live") /\ loop = "idle"
    /\ Again("live")
    /\ UNCHANGED <<hung, loop, busy, phase, started, fails, ready, held, waited>>

LivePasses ==
    /\ Due("live") /\ loop = "idle"
    /\ Passed("live") /\ Again("live")
    /\ UNCHANGED <<hung, loop, busy, phase, started, ready, held, waited>>

\* Mutant: the probe calls a handler that does not need the loop.
LiveFailsUnnoticed ==
    /\ Due("live") /\ (loop # "idle" \/ busy)
    /\ Passed("live") /\ Again("live")
    /\ UNCHANGED <<hung, loop, busy, phase, started, ready, held, waited>>

\* /healthz waits for the loop longer than its one second.
LiveFails ==
    /\ Due("live") /\ (loop # "idle" \/ busy)
    /\ IF LastFailure("live")
       THEN Restarts
       ELSE /\ Failed("live") /\ Again("live")
            /\ UNCHANGED <<hung, loop, busy, phase, started, ready, held, waited>>

ReadyPasses ==
    /\ Due("ready") /\ loop = "idle" /\ hung = {}
    /\ ready' = TRUE
    /\ Passed("ready") /\ Again("ready")
    /\ UNCHANGED <<hung, loop, busy, phase, started, held, waited>>

\* A service hangs or is refused, or the loop is held.  The check itself holds
\* the loop: three seconds for Argo, and for MinIO until it answers.
ReadyFails ==
    /\ Due("ready")
    /\ busy' = (loop = "idle" /\ "argo" \in hung)
    /\ loop' = IF loop = "idle" /\ "minio" \in hung THEN "minio" ELSE loop
    /\ waited' = (waited \/ loop' # "idle")
    /\ Again("ready")
    /\ IF LastFailure("ready")
       THEN ready' = FALSE /\ UNCHANGED fails
       ELSE Failed("ready") /\ UNCHANGED ready
    /\ UNCHANGED <<hung, phase, started, held>>

Process == Import \/ ImportFails \/ \E s \in Traffic : RequestWaits(s)
Probe == StartPasses \/ StartFails \/ LivePasses \/ LiveFails \/ ReadyPasses \/ ReadyFails

Next ==
    \/ Tick
    \/ \E s \in Services : HangStarts(s) \/ HangEnds(s)
    \/ Process
    \/ Probe

Spec == Init /\ [][Next]_vars

\* Time passes, the kubelet probes, and a process that may call STS and be
\* served does not fail for ever.
Fairness ==
    /\ WF_vars(Tick) /\ WF_vars(Probe) /\ SF_vars(Import)
    /\ SF_vars(StartPasses) /\ SF_vars(ReadyPasses)
    /\ WF_vars(LivePasses \/ LiveFails)

FairSpec == Spec /\ Fairness
-----------------------------------------------------------------------------
\* The variables have their types: no probe is overdue, none has reached its
\* threshold without its consequence, and only a process that serves is started.
TypeOK ==
    /\ hung \subseteq Services
    /\ loop \in Services \cup {"idle", "lost"}
    /\ busy \in BOOLEAN /\ started \in BOOLEAN /\ ready \in BOOLEAN
    /\ phase \in {"importing", "serving"} /\ (started => phase = "serving")
    /\ held \in Nat /\ waited \in BOOLEAN
    /\ due \in [Probes -> Nat] /\ fails \in [Probes -> Nat]
    /\ \A p \in Probes : due[p] <= Period[p] /\ fails[p] < Threshold[p]

\* No handler holds the loop of a started pod for longer than the liveness
\* probe's threshold: the probe is the only timeout of the calls to MinIO, STS
\* and (outside /readyz) Argo, whose answers may never come.
HoldIsNoticed == held <= LivePeriod * LiveThreshold

Killed == started /\ ~started'

\* The three seconds that /readyz gives Argo may fail one liveness probe, never
\* LiveThreshold in a row: a container none of whose handlers has waited for a
\* service is not killed, so an outage of Argo alone makes an idle pod unready
\* and does not restart it.
OnlyWaitsKill == [][Killed => waited]_vars

\* When the services have stopped hanging, the pod is an endpoint again, also
\* if the answer its loop was waiting for was lost.
BecomesReady == (<>[](hung = {})) => []<>ready

\* "use a higher failure threshold for readiness probe to allow for temporary
\* unavailability of Argo or MinIO" (api_server.py:233): a pod is not restarted
\* for a wait that the readiness probe tolerates.
OutageIsTolerated == [][Killed => held >= ReadyPeriod * ReadyThreshold]_vars
=============================================================================
