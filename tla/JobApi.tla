------------------------------- MODULE JobApi -------------------------------
(***************************************************************************)
(* The FRIDGE job API process: one uvicorn worker whose handlers are       *)
(* `async def` functions that make BLOCKING calls, so that a handler holds *)
(* the event loop from one `await` to the next, and the MinIO session      *)
(* (MinioClient) those handlers share.  The session trades the pod's       *)
(* service account token, which the kubelet rotates in a projected volume, *)
(* for short-lived STS credentials, and decides whether to trade it again  *)
(* by comparing the file with the token it cached at the last trade.       *)
(*                                                                         *)
(* Lifetimes are counted in ticks.  A token is identified relative to the  *)
(* file: "current" is the one in the file, "old" any earlier one.          *)
(***************************************************************************)
EXTENDS Integers, Sequences

CONSTANTS
    Requests,    \* requests that may be in progress at once
    NoTask,      \* no request holds the event loop
    RotateFrom,  \* age at which the kubelet may rotate the token
    RotateBy,    \* age at which it has rotated it
    CredTTL,     \* lifetime of STS credentials
    MaxTries,    \* attempts of MinioClient.__init__
    Ops          \* the handlers that are requested

ASSUME NoTaskAssumption == NoTask \notin Requests
ASSUME OpsAssumption == Ops \subseteq {"readyz", "upload", "get", "bucket", "delete", "argo"}
ASSUME MaxTriesAssumption == MaxTries \in Nat \ {0}
\* Tokens and credentials both live one hour; the kubelet rotates a token when
\* 80% of its life has passed, so it is replaced before credentials bought with
\* it at any moment of its life can expire.
ASSUME LifetimeAssumption ==
    /\ RotateFrom \in Nat \ {0}
    /\ RotateBy \in Nat
    /\ CredTTL \in Nat
    /\ RotateFrom <= RotateBy
    /\ RotateBy < CredTTL

VARIABLES
    staticKeys,  \* MINIO_ACCESS_KEY and MINIO_SECRET_KEY are set: no STS
    tokAge,      \* age of the token in SA_TOKEN_FILE
    cached,      \* _last_token
    hasClient,   \* self.client is not None
    credLeft,    \* remaining life of the credentials self.client signs with
    proc,        \* the container: "starting" (import), "serving", "down"
    tries,       \* retry_count of __init__
    running,     \* the request holding the event loop
    stage,       \* what the process's one thread is doing
    hand,        \* sa_token, local to handle_sts_auth
    offer,       \* remaining life of the credentials STS has issued
    op, pc,      \* each request's handler and its position (0: no request)
    argoDown,    \* readiness checks whose checks["argo"] is not ok
    answer,      \* the last response of each request
    \* Observation only: the requests that do not know the file's token (it was
    \* rotated since their last check, or that check could not read the file),
    \* and the credentials their last S3 call carried.
    unsure, sent

session == <<staticKeys, tokAge, cached, hasClient, credLeft>>
thread  == <<running, stage, hand, offer>>
tasks   == <<op, pc, argoDown, answer>>
ghosts  == <<unsure, sent>>
vars    == <<session, proc, tries, thread, tasks, ghosts>>

-----------------------------------------------------------------------------
(* A handler is a program of blocking steps.  "ensure" is                   *)
(* _ensure_valid_token, "read" the one await of put_object, "stat", "list"  *)
(* and "s3" are MinIO calls that differ in how their failures are answered, *)
(* "argo" and "version" are Argo calls, the latter with a timeout.          *)
Program ==
    [readyz |-> <<"version", "ensure", "list">>,
     upload |-> <<"ensure", "read", "s3">>,
     get    |-> <<"ensure", "s3">>,
     bucket |-> <<"ensure", "s3", "s3", "s3">>,
     delete |-> <<"ensure", "ensure", "stat", "s3">>,
     argo   |-> <<"argo">>]

Op == DOMAIN Program
S3Steps == {"s3", "stat", "list"}
Token == {"none", "current", "old"}
Stage == {"idle", "run", "sts", "issued", "s3", "argo"}
\* "ok" and "absent" are HTTP 200, the latter with a body that says the object
\* does not exist; "refused" is a status MinIO or Argo decided, "failed" a 500
\* of the API's own, "unready" /readyz's 503, "lost" no answer at all.
Answer == {"none", "lost", "ok", "absent", "unauthorised", "refused", "failed", "unready"}

\* Credentials from MINIO_ACCESS_KEY never expire.
Expired == ~staticKeys /\ credLeft = 0

Older(t) == IF t = "current" THEN "old" ELSE t
Less(n) == IF n > 0 THEN n - 1 ELSE 0

At(r, st) == proc = "serving" /\ running = r /\ stage = st
Step(r) == Program[op[r]][pc[r]]
Runs(r, s) == At(r, "run") /\ Step(r) = s

\* handle_sts_auth returned or raised: its local variables are gone.
StsOver == hand' = "none" /\ offer' = 0

Finish(r, a) ==
    /\ pc' = [pc EXCEPT ![r] = 0]
    /\ answer' = [answer EXCEPT ![r] = a]
    /\ running' = NoTask
    /\ stage' = "idle"

Advance(r) ==
    /\ pc' = [pc EXCEPT ![r] = @ + 1]
    /\ stage' = "run"
    /\ UNCHANGED <<running, answer>>

\* The step succeeded: go to the next one, or answer.
Continue(r) ==
    IF pc[r] < Len(Program[op[r]])
    THEN Advance(r)
    ELSE Finish(r, IF op[r] = "readyz" /\ r \in argoDown THEN "unready" ELSE "ok")

-----------------------------------------------------------------------------
Init ==
    /\ staticKeys \in BOOLEAN
    /\ tokAge = 0 /\ cached = "none" /\ hasClient = FALSE /\ credLeft = 0
    /\ proc = "starting" /\ tries = 0
    /\ running = NoTask /\ stage = "idle" /\ hand = "none" /\ offer = 0
    /\ op = [r \in Requests |-> "argo"]
    /\ pc = [r \in Requests |-> 0]
    /\ argoDown = {}
    /\ answer = [r \in Requests |-> "none"]
    /\ unsure = {}
    /\ sent = [r \in Requests |-> "none"]

\* Time passes.  The kubelet does not let a token grow older than RotateBy.
Tick ==
    /\ tokAge < RotateBy
    /\ tokAge' = tokAge + 1
    /\ credLeft' = Less(credLeft)
    /\ offer' = Less(offer)
    /\ UNCHANGED <<staticKeys, cached, hasClient, proc, tries, running, stage, hand, tasks, ghosts>>

\* The kubelet replaces the file of the projected volume.
Rotate ==
    /\ tokAge >= RotateFrom
    /\ tokAge' = 0
    /\ cached' = Older(cached)
    /\ hand' = Older(hand)
    /\ unsure' = Requests
    /\ UNCHANGED <<staticKeys, hasClient, credLeft, proc, tries, running, stage, offer, tasks, sent>>

-----------------------------------------------------------------------------
(* STS.  The operator issues credentials some time before the reply is read. *)
Issue ==
    /\ stage = "sts"
    /\ stage' = "issued"
    /\ offer' = CredTTL
    /\ UNCHANGED <<session, proc, tries, running, hand, tasks, ghosts>>

\* MinioClient.__init__, run when config.py is imported.
InitStatic ==
    /\ proc = "starting" /\ stage = "idle" /\ staticKeys
    /\ \/ proc' = "serving" /\ hasClient' = TRUE
       \/ proc' = "down" /\ UNCHANGED hasClient
    /\ UNCHANGED <<staticKeys, tokAge, cached, credLeft, tries, thread, tasks, ghosts>>

\* Mutant: the retry loop forgets its bound.
InitTryUnbounded ==
    /\ proc = "starting" /\ stage = "idle" /\ ~staticKeys
    /\ tries' = tries + 1
    /\ stage' = "sts"
    /\ hand' = "current"
    /\ UNCHANGED <<session, proc, running, offer, tasks, ghosts>>

InitTry ==
    /\ proc = "starting" /\ stage = "idle" /\ ~staticKeys
    /\ tries < MaxTries
    /\ tries' = tries + 1
    /\ stage' = "sts"
    /\ hand' = "current"
    /\ UNCHANGED <<session, proc, running, offer, tasks, ghosts>>

\* The reply is not 200, or anything raised: the loop tries again at once.
InitTryFails ==
    /\ proc = "starting" /\ stage \in {"sts", "issued"}
    /\ stage' = "idle" /\ StsOver
    /\ UNCHANGED <<session, proc, tries, running, tasks, ghosts>>

InitGivesUp ==
    /\ proc = "starting" /\ stage = "idle" /\ ~staticKeys
    /\ tries = MaxTries
    /\ proc' = "down"
    /\ UNCHANGED <<session, tries, thread, tasks, ghosts>>

\* handle_sts_auth caches the token it sent, not the one in the file now; then
\* _create_client builds a client or its exception ends the import.
InitDone ==
    /\ proc = "starting" /\ stage = "issued"
    /\ cached' = hand
    /\ stage' = "idle" /\ StsOver
    /\ \/ proc' = "serving" /\ hasClient' = TRUE /\ credLeft' = offer
       \/ proc' = "down" /\ UNCHANGED <<hasClient, credLeft>>
    /\ UNCHANGED <<staticKeys, tokAge, tries, running, tasks, ghosts>>

-----------------------------------------------------------------------------
(* The event loop.                                                          *)

\* verify_request (a threadpool dependency) passed, and the handler is queued.
Arrive(r, o) ==
    /\ proc = "serving" /\ pc[r] = 0
    /\ op' = [op EXCEPT ![r] = o]
    /\ pc' = [pc EXCEPT ![r] = 1]
    /\ argoDown' = argoDown \ {r}
    /\ answer' = [answer EXCEPT ![r] = "none"]
    /\ unsure' = unsure \ {r}
    /\ sent' = [sent EXCEPT ![r] = "none"]
    /\ UNCHANGED <<session, proc, tries, thread>>

\* verify_request refused the credentials; /readyz has no such dependency.
Refuse(r, o) ==
    /\ proc = "serving" /\ pc[r] = 0 /\ o # "readyz"
    /\ op' = [op EXCEPT ![r] = o]
    /\ answer' = [answer EXCEPT ![r] = "unauthorised"]
    /\ sent' = [sent EXCEPT ![r] = "none"]
    /\ UNCHANGED <<session, proc, tries, thread, pc, argoDown, unsure>>

\* The loop resumes a handler that is ready: a new one, or one past its await.
Resume(r) ==
    /\ At(NoTask, "idle") /\ pc[r] > 0
    /\ running' = r /\ stage' = "run"
    /\ UNCHANGED <<session, proc, tries, hand, offer, tasks, ghosts>>

\* `await file.read()`: the handler gives the loop back.
Yield(r) ==
    /\ Runs(r, "read")
    /\ pc' = [pc EXCEPT ![r] = @ + 1]
    /\ running' = NoTask /\ stage' = "idle"
    /\ UNCHANGED <<session, proc, tries, hand, offer, op, argoDown, answer, ghosts>>

\* file.read() raises: "Unable to upload object".
ReadFails(r) ==
    /\ Runs(r, "read")
    /\ Finish(r, "failed")
    /\ UNCHANGED <<session, proc, tries, hand, offer, op, argoDown, ghosts>>

\* Mutant: the check of 0.5.0, which never traded the token again.
EnsureNothing(r) ==
    /\ Runs(r, "ensure")
    /\ Continue(r)
    /\ unsure' = unsure \ {r}
    /\ UNCHANGED <<session, proc, tries, hand, offer, op, argoDown, sent>>

\* _token_has_changed is False: the file holds the cached token, or there is
\* no cached token and the comparison raised.
EnsureUnchanged(r) ==
    /\ Runs(r, "ensure") /\ cached # "old"
    /\ Continue(r)
    /\ unsure' = unsure \ {r}
    /\ UNCHANGED <<session, proc, tries, hand, offer, op, argoDown, sent>>

\* The token file cannot be read, in the first comparison or in the one under
\* the lock (or, in /readyz, it is not there): that counts as unchanged, however
\* old the cached token is.
EnsureUnreadable(r) ==
    /\ Runs(r, "ensure")
    /\ Continue(r)
    /\ unsure' = unsure \cup {r}
    /\ UNCHANGED <<session, proc, tries, hand, offer, op, argoDown, sent>>

\* Mutant: a missing _last_token counts as a change.
EnsureNotCurrent(r) ==
    /\ Runs(r, "ensure") /\ cached # "current"
    /\ stage' = "sts"
    /\ hand' = "current"
    /\ unsure' = unsure \ {r}
    /\ UNCHANGED <<session, proc, tries, running, offer, tasks, sent>>

\* Mutant: the refresh is for sessions that still have a client.
EnsureOfClient(r) ==
    /\ Runs(r, "ensure") /\ cached = "old" /\ hasClient
    /\ stage' = "sts"
    /\ hand' = "current"
    /\ unsure' = unsure \ {r}
    /\ UNCHANGED <<session, proc, tries, running, offer, tasks, sent>>

EnsureChanged(r) ==
    /\ Runs(r, "ensure") /\ cached = "old"
    /\ stage' = "sts"
    /\ hand' = "current"
    /\ unsure' = unsure \ {r}
    /\ UNCHANGED <<session, proc, tries, running, offer, tasks, sent>>

\* Mutant: the token is read again for the cache when STS has answered.
RefreshedRereading(r) ==
    /\ At(r, "issued")
    /\ cached' = "current"
    /\ \/ hasClient' = TRUE /\ credLeft' = offer /\ Continue(r)
       \/ hasClient' = FALSE /\ UNCHANGED credLeft /\ Finish(r, "failed")
    /\ StsOver
    /\ UNCHANGED <<staticKeys, tokAge, proc, tries, op, argoDown, ghosts>>

\* _last_token is set before _create_client, which on failure leaves no client.
Refreshed(r) ==
    /\ At(r, "issued")
    /\ cached' = hand
    /\ \/ hasClient' = TRUE /\ credLeft' = offer /\ Continue(r)
       \/ hasClient' = FALSE /\ UNCHANGED credLeft /\ Finish(r, "failed")
    /\ StsOver
    /\ UNCHANGED <<staticKeys, tokAge, proc, tries, op, argoDown, ghosts>>

\* Mutant: the failure path never returns to the loop.
RefreshSticks(r) ==
    /\ At(r, "sts") \/ At(r, "issued")
    /\ stage' = "idle" /\ StsOver
    /\ UNCHANGED <<session, proc, tries, running, tasks, ghosts>>

RefreshFails(r) ==
    /\ At(r, "sts") \/ At(r, "issued")
    /\ Finish(r, "failed") /\ StsOver
    /\ UNCHANGED <<session, proc, tries, op, argoDown, ghosts>>

\* self.client.<method>: AttributeError without a client.  check_object_exists
\* turns it into "does not exist", which delete_object answers with HTTP 200.
CallWithoutClient(r) ==
    /\ \E s \in S3Steps : Runs(r, s)
    /\ ~hasClient
    /\ Finish(r, IF Step(r) = "stat" THEN "absent" ELSE "failed")
    /\ UNCHANGED <<session, proc, tries, hand, offer, op, argoDown, ghosts>>

Call(r) ==
    /\ \E s \in S3Steps : Runs(r, s)
    /\ hasClient
    /\ stage' = "s3"
    /\ sent' = [sent EXCEPT ![r] = IF Expired THEN "expired" ELSE "fresh"]
    /\ UNCHANGED <<session, proc, tries, running, hand, offer, tasks, unsure>>

\* Only create_bucket skips calls: it makes the bucket unless it exists, and
\* sets versioning only when asked to.
CallSucceeds(r) ==
    /\ At(r, "s3") /\ sent[r] # "expired"
    /\ \/ Continue(r)
       \/ op[r] = "bucket" /\ Finish(r, "ok")
    /\ UNCHANGED <<session, proc, tries, hand, offer, op, argoDown, ghosts>>

\* An S3Error: handle_minio_error, or "unreachable" in _check_minio.
CallRefused(r) ==
    /\ At(r, "s3")
    /\ Finish(r, IF Step(r) = "list" THEN "unready" ELSE "refused")
    /\ UNCHANGED <<session, proc, tries, hand, offer, op, argoDown, ghosts>>

\* The connection fails.  Caught as "does not exist" by check_object_exists, as
\* "unreachable" by _check_minio, and an error everywhere else.
CallBreaks(r) ==
    /\ At(r, "s3")
    /\ Finish(r, IF Step(r) = "stat" THEN "absent"
                 ELSE IF Step(r) = "list" THEN "unready" ELSE "failed")
    /\ UNCHANGED <<session, proc, tries, hand, offer, op, argoDown, ghosts>>

\* argo_token cannot read its file, or requests finds no CA bundle: neither is a
\* RequestException, so that /readyz fails too.
ArgoUnasked(r) ==
    /\ Runs(r, "argo") \/ Runs(r, "version")
    /\ Finish(r, "failed")
    /\ UNCHANGED <<session, proc, tries, hand, offer, op, argoDown, ghosts>>

\* argo_token reads its file on every call; then requests.get or .post.
CallArgo(r) ==
    /\ Runs(r, "argo") \/ Runs(r, "version")
    /\ stage' = "argo"
    /\ UNCHANGED <<session, proc, tries, running, hand, offer, tasks, ghosts>>

\* A workflow or move handler passes Argo's status on.
ArgoAnswers(r) ==
    /\ At(r, "argo") /\ Step(r) = "argo"
    /\ \E a \in {"ok", "refused", "failed"} : Finish(r, a)
    /\ UNCHANGED <<session, proc, tries, hand, offer, op, argoDown, ghosts>>

\* _check_argo: the verdict is recorded and _check_minio runs whatever it is.
ArgoChecked(r, ok) ==
    /\ At(r, "argo") /\ Step(r) = "version"
    /\ argoDown' = IF ok THEN argoDown ELSE argoDown \cup {r}
    /\ Advance(r)
    /\ UNCHANGED <<session, proc, tries, hand, offer, op, ghosts>>

-----------------------------------------------------------------------------
(* The container dies or is killed, and the kubelet starts it again in the  *)
(* same pod: memory is lost, the projected volume is not.                   *)
Lose ==
    /\ pc' = [r \in Requests |-> 0]
    /\ answer' = [r \in Requests |-> IF pc[r] > 0 THEN "lost" ELSE answer[r]]
    /\ running' = NoTask /\ stage' = "idle"

Crash ==
    /\ proc # "down"
    /\ proc' = "down"
    /\ Lose /\ StsOver
    /\ UNCHANGED <<session, tries, op, argoDown, ghosts>>

Restart ==
    /\ proc = "down"
    /\ proc' = "starting"
    /\ tries' = 0
    /\ cached' = "none" /\ hasClient' = FALSE /\ credLeft' = 0
    /\ UNCHANGED <<staticKeys, tokAge, thread, tasks, ghosts>>

Startup == InitStatic \/ InitTry \/ InitTryFails \/ InitGivesUp \/ InitDone

Handler(r) ==
    \/ Resume(r) \/ Yield(r) \/ ReadFails(r)
    \/ EnsureUnchanged(r) \/ EnsureUnreadable(r) \/ EnsureChanged(r)
    \/ Refreshed(r) \/ RefreshFails(r)
    \/ CallWithoutClient(r) \/ Call(r)
    \/ CallSucceeds(r) \/ CallRefused(r) \/ CallBreaks(r)
    \/ ArgoUnasked(r) \/ CallArgo(r) \/ ArgoAnswers(r)
    \/ \E ok \in BOOLEAN : ArgoChecked(r, ok)

Next ==
    \/ Tick \/ Rotate \/ Issue
    \/ Startup \/ Crash \/ Restart
    \/ \E r \in Requests, o \in Ops : Arrive(r, o) \/ Refuse(r, o)
    \/ \E r \in Requests : Handler(r)

Spec == Init /\ [][Next]_vars

-----------------------------------------------------------------------------
(* Fairness.  The process's thread runs, the loop's ready queue is FIFO, the *)
(* kubelet restarts a dead container, rotates tokens and probes readiness,   *)
(* and the services answer in the end.  Reading a token, STS issuing and a   *)
(* client being built are strongly fair: they may fail any number of times,  *)
(* not for ever.                                                             *)
ClientBuilt == (InitStatic \/ InitDone \/ \E r \in Requests : Refreshed(r)) /\ hasClient'

Fairness ==
    /\ WF_vars(Tick \/ Rotate) /\ WF_vars(Restart \/ Startup)
    /\ SF_vars(Issue) /\ SF_vars(ClientBuilt)
    /\ SF_vars(\E r \in Requests : CallArgo(r)) /\ SF_vars(\E r \in Requests : EnsureChanged(r))
    /\ SF_vars(\E r \in Requests, o \in Ops \cap {"readyz"} : Arrive(r, o))
    /\ \A r \in Requests : WF_vars(Handler(r)) /\ SF_vars(Resume(r))

FairSpec == Spec /\ Fairness

-----------------------------------------------------------------------------
LifetimeType ==
    /\ tokAge \in 0..RotateBy
    /\ credLeft \in 0..CredTTL /\ offer \in 0..CredTTL

SessionType ==
    /\ staticKeys \in BOOLEAN
    /\ cached \in Token /\ hand \in Token
    /\ hasClient \in BOOLEAN

ThreadType ==
    /\ proc \in {"starting", "serving", "down"}
    /\ tries \in 0..MaxTries
    /\ running \in Requests \cup {NoTask}
    /\ stage \in Stage

TaskType ==
    /\ op \in [Requests -> Op] /\ pc \in [Requests -> Nat]
    /\ argoDown \in SUBSET Requests /\ unsure \in SUBSET Requests
    /\ answer \in [Requests -> Answer]
    /\ sent \in [Requests -> {"none", "fresh", "expired"}]

\* The state of the process, its session and its requests is well formed: in
\* particular __init__ stops after MaxTries attempts.
TypeOK == LifetimeType /\ SessionType /\ ThreadType /\ TaskType

\* While the token file still holds the token the session was last traded for,
\* a client's credentials are alive: comparing tokens (_token_has_changed) is
\* enough to know that no refresh is due, which 0.5.1 of the API relies on.
LiveWhileTokenCurrent ==
    proc = "serving" /\ hasClient /\ cached # "old" => ~Expired

\* A MinIO call goes out with expired credentials only if that request does not
\* know the token in the file: it was rotated after the request last checked it
\* (while it waited for the loop at put_object's await, or for the answer to an
\* earlier call of its own), or its last check could not read the file.
StaleCallNeedsRotation ==
    \A r \in Requests : sent[r] = "expired" => r \in unsure

\* With MINIO_ACCESS_KEY set, no check replaces those keys by STS credentials,
\* although the token file exists and was never traded: the comparison with
\* the missing _last_token raises, and that counts as "unchanged".
StaticKeysAreKept == staticKeys => stage \notin {"sts", "issued"}

\* What the thread may be doing in each step of a handler.
Doing(s) ==
    {"run"} \cup IF s = "ensure" THEN {"sts", "issued"}
              ELSE IF s \in S3Steps THEN {"s3"}
              ELSE IF s \in {"argo", "version"} THEN {"argo"} ELSE {}

\* The event loop is held only by a request in progress that can go on: by its own
\* step, or by the answer to the very call that this step makes.  No way out of a
\* handler, a failure included, leaves the loop with a request that is over.
LoopIsNeverStuck ==
    proc = "serving" =>
        IF running = NoTask THEN stage = "idle"
        ELSE pc[running] > 0 /\ stage \in Doing(Step(running))

\* The answer of every request in progress arrives, or its process dies: no
\* handler is starved by the others (given that every service answers).
EveryRequestEnds == \A r \in Requests : pc[r] > 0 ~> pc[r] = 0

\* A process left without a client, because _create_client failed after the
\* token was cached, gets one again at the latest after a rotation that a check
\* can read, if containers are not killed for ever.
ClientComesBack == (<>[][~Crash]_vars) => (~hasClient ~> hasClient)

\* _check_minio's docstring: it returns a JSON with MinIO's status, so that a
\* readiness check answers 200 or 503.
ReadinessAlwaysReports ==
    \A r \in Requests : op[r] = "readyz" => answer[r] # "failed"

-----------------------------------------------------------------------------
(* The inductive invariant behind LiveWhileTokenCurrent and                 *)
(* StaleCallNeedsRotation.                                                   *)
Checked(r) == \E i \in 1..(pc[r] - 1) : Program[op[r]][i] = "ensure"
Trading == stage \in {"sts", "issued"}

LoopInv ==
    /\ \A r \in Requests : pc[r] \in 0..Len(Program[op[r]])
    /\ running # NoTask => proc = "serving" /\ pc[running] > 0
    /\ proc = "serving" /\ running = NoTask => stage = "idle"
    /\ Trading => hand # "none"
    /\ stage = "s3" => Step(running) \in S3Steps

\* Credentials bought with the token in the file are younger than that token.
CredInv ==
    /\ proc = "serving" /\ ~staticKeys => cached # "none"
    /\ proc = "serving" /\ hasClient /\ cached = "current" =>
           staticKeys \/ credLeft + tokAge >= CredTTL
    /\ stage = "issued" /\ hand = "current" => offer + tokAge >= CredTTL

\* A request that knows the file's token knows that the session is not older.
CheckInv ==
    \A r \in Requests :
        /\ Checked(r) /\ r \notin unsure /\ ~(Trading /\ running = r) => cached # "old"
        /\ Trading /\ hand = "old" /\ (Checked(r) \/ running = r) => r \in unsure
        /\ pc[r] > 0 /\ sent[r] # "none" => Step(r) \in S3Steps

\* Why a session is never stale without a rotation: the four parts above hold
\* in every state of the process, refreshes in flight and restarts included.
SessionInv == LoopInv /\ CredInv /\ CheckInv /\ StaleCallNeedsRotation
=============================================================================
