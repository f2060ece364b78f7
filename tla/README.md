# A verification project for FRIDGE

FRIDGE runs batch jobs in an isolated Kubernetes cluster which holds sensitive
data. A second cluster, the access cluster, stands between it and the outside.
Users never talk to the isolated cluster directly: a small HTTP service, the *job
API*, submits workflows to Argo and moves objects in and out of MinIO on their
behalf. Both clusters are described as Pulumi programs.

This directory has TLA+ models of the parts of FRIDGE whose behaviour is hard to
test, configurations that check them with TLC on small instances, and proofs that
TLAPS checks for all instances. `PROJECT.json` maps every definition to the
lines it models and lists runs, mutants, findings, hazards and theorems. Paths
below are relative to `src/`.

    tlc -workers 2 -config MCJobApi.cfg MCJobApi    # a run
    tlapm JobApiProofs.tla                          # the proofs of a module
    tlc -workers 2 -config MCLockdown.cfg MCLockdown

## 1. The system

| Component | State it keeps | Operations | Talks to |
|---|---|---|---|
| **Job API, requests and MinIO session** `fridge-job-api/app` | the client, its STS credentials, `_last_token`; per request the position of its handler | routes of `storage.py`, `workflows.py`, `health_checks.py`; `MinioClient.__init__`, `_ensure_valid_token`, `_refresh_token`, `handle_sts_auth`, `_create_client` | MinIO (S3, STS), Argo, the service account token file that the kubelet rotates |
| **Job API, pod and probes** `infra/fridge/isolated-cluster/components/api_server.py` | probe counters, readiness, restarts | startup, liveness and readiness probes | `/healthz`, `/readyz` |
| **Data-copy workflow** `.../k8s/argo_workflows/templates.yaml` | background jobs of a shell script, temporary files, the volume all workflows share | download, `mv`, upload, `wait` | MinIO, Argo (its phase is what a user sees) |
| **Isolated cluster's stack** `infra/fridge/isolated-cluster` | the resources that exist | `pulumi up`, its repetition | the cluster's API server and controllers |
| **Access cluster's stack** `infra/fridge/access-cluster` | likewise | likewise | likewise, and cert-manager |
| **Harbor configuration Job** `.../scripts/harbor_config.sh`, `container_registry.py` | registries, projects, robot account; the Job's pods | the script's calls, retries of the Job | Harbor's API |
| **Job API, object routes** `storage.py`, `minio_client.py` | buckets, their versioning, versions and delete markers of each file (in MinIO) | `create_bucket`, `put_object`, `get_object`, `delete_object` | MinIO, another process of the API during an update |
| **MinIO configuration Job** `minio_config.py` | anonymous policies of the two buckets; the Job's pods | `setup.sh`, retries of the Job | MinIO while its tenant comes up |
| **AKS infrastructure stack** `infra/aks` | its resources; the rules of two network security groups (NSGs) | `pulumi up`, with and without `--refresh` | Azure |
| **AKS lockdown stack** `infra/aks-post-deployment` | the same rules, a private DNS zone, a firewall and the route to it | likewise | the rules of the infrastructure stack, the outputs of the other stacks |
| Cilium policies `k8s/cilium`, jumpbox SSH configuration, Dawn infrastructure, documentation, examples, CI | static, or none | - | - |

How they interact. A user's request passes `verify_request` and its handler calls
MinIO or Argo, synchronously, on the process's only event loop. `POST /object/move`
submits the data-copy workflow, which runs on its own and reads and writes
the same buckets that uploads go to. The kubelet rotates the token which the
session trades for credentials, and probes the process over the same event loop. The
stacks create all of this in parallel, in an order only partly declared. On AKS a last
stack, the lockdown, rewrites the rules that the first one made.

What is hard here, and what makes each part correct:

* **API**: `async def` handlers which block, with one real `await` (reading an
  uploaded file). A token check is stale when it is used after that `await`; the
  token can be rotated while it is traded; a refresh can fail half-way. Correct
  means: an unnoticed expiry of credentials is impossible without a rotation in
  between or a token file that could not be read, and what failed heals by itself.
* **Pod**: calls to MinIO and STS have no timeout, so a service that hangs holds
  the loop and the probes with it. Correct means: noticed in bounded time, not
  killed for less, ready again afterwards.
* **Object routes**: a handler is several calls to MinIO; calls break, are sent
  again by the HTTP client, and mix with those of another process. Correct means: an
  answer is true of what was done, and a bucket that was promised to be versioned
  loses nothing.
* **Data copy**: parallel jobs, waited for in list order and killed at the first
  failure seen; several workflows on one volume, for files that are uploaded again
  meanwhile. Correct means: success only if everything was copied, an end for each
  workflow, no mixed files, no newer file replaced by an older one out of turn while
  the newer one is still in the bucket.
* **Stacks**: creation is parallel and an undeclared dependency is a race.
  Correct means: the races are known and repeating the command heals them, which
  is what the documentation promises (and what a Job that has failed breaks).
* **MinIO's Job**: a bounded wait for a tenant that may be slower, a script that goes on
  after an error, pods that start over. Correct means: completion opens the
  buckets, and only a tenant that was late or a pod that was lost makes the Job fail.
* **Infrastructure and lockdown**: two stacks write the same rules, each from what it
  last recorded of them, from addresses read earlier, at the same time or in
  any order, and fail half-way. Correct means: the lockdown closes the isolated
  cluster and keeps it closed to the internet, and neither the API nor the registry
  is cut off on the way.
* **Harbor's Job**: `curl -s` hides errors, and a new pod starts over
  on what the last one left. Correct means: no project proxies another's remote, a
  retry makes good what failed, the Job ends.

`PROJECT.json` has every such hazard at its line ("hazards").

## 2. Modules

| Module | Models | Checked by | Proofs |
|---|---|---|---|
| `JobApi` | the API process: event loop, handlers, MinIO session | `MCJobApi` | `JobApiProofs` |
| `ApiPod` | the pod as the kubelet sees it | `MCApiPod` | `ApiPodProofs` |
| `ObjectPromise` | what an answer of the object routes promises (abstract) | through `Objects` | |
| `Objects` | the object routes on MinIO; implements `ObjectPromise` | `MCObjects` | `ObjectsProofs` |
| `Transfer` | what a data-copy workflow promises (abstract) | through `DataCopy` | |
| `DataCopy` | the script; implements `Transfer` | `MCDataCopy` | `DataCopyProofs` |
| `PulumiUp` | `pulumi up` on any graph of resources | `MCDeployments` | in `DeploymentsProofs` |
| `ResourceGraph` | how components make up a program's graph (constant module) | `MCDeployments` | in `DeploymentsProofs` |
| `InfraStack`, `IsolatedStack`, `AccessStack` | the graphs of the three programs (constant modules) | `MCDeployments` | in `DeploymentsProofs` |
| `Deployments` | `PulumiUp` on the graphs of all three | `MCDeployments` | `DeploymentsProofs` |
| `MinioConfig` | `setup.sh`, its Job and the tenant | `MCMinioConfig` | `MinioConfigProofs` |
| `NetworkRules` | the NSG rules of both stacks, by priority (constant module) | `MCLockdown` | through `Lockdown` |
| `Lockdown` | the commands of the two stacks that write them | `MCLockdown` | `LockdownProofs` |
| `HarborConfig` | the script and the Job | `MCHarborConfig` | `HarborConfigProofs` |

A definition marked *mutant* is a plausible bug next to the definition it would
replace. It is used by no specification; putting it in shows that a property
notices it.

### JobApi

One process, one thread. `running` is the request that holds the event loop and
`stage` what the thread is blocked in. A handler is a sequence of steps (`Program`):
`ensure` (the token check), `read` (the `await`), S3 calls, Argo calls. Each
blocking step is two actions, its start and its return, between which only the
outside world moves: time (`Tick`), the kubelet (`Rotate`), STS (`Issue`). The loop
changes hands at `Yield` and when a handler ends. `Finish` records the answer.

The token is seen relative to the file: `cached` is `"current"` if it is the one
in the file, `"old"` if an earlier one, `"none"` before the first trade. The
code compares strings; no two tokens of a pod are equal, so this is exact.
`_token_has_changed` answers FALSE when its comparison raises. Without a cached token
this is in `EnsureUnchanged`, and is what keeps static keys from ever being traded. A
file that cannot be read is `EnsureUnreadable`, which goes on whatever is cached. The
code of every other error path is there too: an upload whose body cannot be read
(`ReadFails`), an Argo token or CA bundle that cannot (`ArgoUnasked`).
`Refreshed` follows the order of the code: `_last_token` first, then the client,
which can fail and leave `None`. `unsure` has the requests that do not know the file's
token, since it was rotated after their last check or since that check could not read
it. `unsure` and `sent` are observations, that no guard of a step reads but for the
outcome of a call with expired credentials.

Whether the keys are static (`MINIO_ACCESS_KEY`) is a variable that never changes, so
that a run has both kinds of deployment.

### ApiPod

Here `JobApi` is coarse: the loop is idle, waits for a service, or waits for an
answer that will never come. Time is explicit in ticks of ten seconds, the
greatest common period of the probes. A probe that is due runs before the next tick.
`Restarts` is what the kubelet does at the threshold of the startup and liveness
probes; the readiness probe only takes the pod out of its Service. `/readyz`
gives Argo three seconds (`busy`: during that tick `/healthz` may be late or
not) and MinIO all the time it wants.

### Objects and ObjectPromise

`JobApi` has the session and treats a call as done or not; `Objects` has what the
calls do and leaves the session out. Each `Process` of the API handles one
request at a time, a call at a time (`call`): `create` is `bucket_exists`,
`make_bucket`, `set_bucket_versioning`; `delete` is `stat_object`, `remove_object`.
There are two processes only while a pod replaces another. `Execute` is MinIO:
with versioning a `put` appends and a delete adds a marker, without it both replace.
`CallReturns`, `CallRefused` and `Breaks` follow `handle_minio_error` and
`check_object_exists`: NoSuchBucket and NoSuchKey become 404, a connection error while
looking for an object becomes "not found" with HTTP 200, all else 500.
`AnswerLost` is the retry of the HTTP clients: the call was carried out, its answer
was lost and it is sent again. `get` with a version never gets to MinIO, since
`get_object` passes the version where the client expects an offset (`Callable`).

`ObjectPromise` has only the answers and whether the store did what was asked;
`P == INSTANCE ObjectPromise WITH did <- done` is the refinement.

### Transfer and DataCopy

`DataCopy` has each background job with its temporary file, the volume, the `wait`
loop and Argo's phase. A file is a version and whether it is whole. `mv` to the
volume is two steps, because it copies between file systems: it unlinks the old
file, so a job whose file was unlinked finishes one that has no name any more. `T ==
INSTANCE Transfer WITH status <- phase, ...` is the refinement: what a workflow has
copied is what its jobs with status 0 have. A file can be uploaded again at any
time (`Upload`) and deleted, all of it (`Delete`) or one version of it
(`DeleteVersion`), which makes an older one current again if it was the newest. A
download gets the version that is current when it starts. After a deletion a workflow
that comes later brings the older version in the place of the newer one; this is what
was asked for, and `NeverOlderInTurn` excepts it and nothing else.

### PulumiUp, ResourceGraph, InfraStack, IsolatedStack, AccessStack, Deployments

`PulumiUp` takes a `Plan` for each of its `Stacks`: declared dependencies (`deps`),
what a creation takes in the cluster (`needs`), what is registered before the
program raises, what the cluster issues by itself. A resource is created when its
declared dependencies exist. It is refused if its needs do not exist then (Pulumi's
retries are a delay of `Reject`). After a failure the command may end at any time,
further creations being those that were in progress; what it made stays. The operator
repeats it. A Job that was refused, or that failed, stays in the cluster (`spent`): the
programs set no `replaceUnready` on it, so a repeated command awaits it as it is and
fails again (`AwaitSpent`).

The stack modules mirror `__main__.py` and the components: an operator for each
component gives the resources that are its *children* and what they depend on,
since a `depends_on` on a component waits for its children and no others. This is
what the races hinge on: a resource made without `opts` is no child.
In `InfraStack` most dependencies are outputs used as inputs; `AzureNeeds` has what
Azure asks for. `ClusterNeeds` is our reading of Kubernetes: a namespaced object needs its
namespace, a custom resource its kind, an awaited Deployment what its containers
need to become ready, an awaited Job what it gives up on. The tenant's pods
(`minioReady`) are a resource that the cluster issues once the tenant and its
certificate are there; no resource can depend on them, and MinIO's Job and the API need
them. `Together` joins the components' resources, and `Graph` makes a
plan of them, with what is below each resource. `Deployments` puts the engine and the
graphs together: `StackPlan` is the plan of every stack, and `PlansAssumption` says
that the constant `Plan` is that function on the stacks considered. (It is a constant
so that TLC computes it once; the MC module sets it to `StackPlan`.) `Unreached` is
what the program on K3s never gets to, `BehindJob` what waits for a stack's Job, and
`LeftOut` what these come to for the state at hand.

### MinioConfig

The tenant comes up, goes down and gets its buckets from the operator, when it likes.
The script's commands are `alias` (the `until` loop, `tries` being `$i`), `egress` and
`ingress`. There is no `set -e`: only the loop's `exit 1` and the last command's
status fail the pod. `lapsed` records that a pod was lost or met a tenant that was
not ready, `unset` the buckets whose command failed in this pod.

### NetworkRules and Lockdown

`NetworkRules` has the rules of `networking.py` (Base) and of
`network_security_rules.py` (Lock) as records of priority, direction, prefixes
and ports, and Azure's default rules; `Passes` evaluates them: of the rules that
match, the one with the lowest number decides. A host is a name with the number of
changes of its address, so that a rule made for an old address is seen to be
stale; a prefix is the set of hosts in it.

In `Lockdown` each stack has a command: what it has still to write (`left`), the
configuration and outputs it read when it started (`sees`), and what it recorded of each
NSG (`knows`). The lockdown's first command finds nothing recorded and imports the
NSGs (`import_`), which fails where their rules are not those of the program; so it
completes only after the operator has adopted them (`Adopt`: `pulumi import`), and is
an update from then on. A resource is written only if what the program asks for differs
from what is recorded (`InfraWrites`, `LockWrites`); `--refresh` replaces the record by
what is there. Rules are kept as who set them and from which values. Commands of the
two stacks interleave freely, an address moves under them (`Move`) and is an output only
when the command that moved it has ended (`Publish`), a command fails with part of its
resources written. Harbor's FQDN is configuration of the access stack, while the zone
and the record of the lockdown are literals: `ReachesHarbor` takes the name, which may be
the record's, another of its zone (a linked zone answers for all its names), or one of
another zone. `ReachesHarbor`, `ReachesApi` and
`ReachesInternet` put rules, DNS record, zone link and route together. `Tight` is the
set of rules that leave no gap at the isolated cluster, whoever set them.

### HarborConfig

The script's calls in order, one action each. `curl -s` without `-f` succeeds on any
HTTP answer, so `CallFutile` and `CallRefused` go on; `set -e` ends the script
only when a call breaks or `jq` cannot read its input (`CallBreaks`, before or
after Harbor acted). A pod that failed is followed by another up to the Job's
`backoffLimit`.

## 3. Runs

| Run | Instance | Shows |
|---|---|---|
| `jobapi_session` | 2 requests, all six kinds of handler; token life 1-2 ticks, credentials 3, 2 attempts | `TypeOK`, `LiveWhileTokenCurrent`, `StaleCallNeedsRotation`, `StaticKeysAreKept`, `LoopIsNeverStuck`, and the inductive `SessionInv` |
| `jobapi_live` | 2 readiness checks; lifetimes 1 and 2 | `EveryRequestEnds`, `ClientComesBack` |
| `jobapi_readyz` (finding) | as the first, readiness only | `ReadinessAlwaysReports` fails |
| `datacopy_transfer` | 2 workflows: `<<f1, f2>>`, and `<<f1>>` or `<<>>`; f1 is uploaded once more and deleted meanwhile | `HalfFileHasCause`, `NeverOlderInTurn`; implements `Transfer` (`ImplementsTransfer`), with its liveness (`EveryTransferEnds`) |
| `datacopy_whole` (finding) | the same with one workflow | `CompleteMeansWhole` fails |
| `apipod_probes` | the periods and thresholds of `api_server.py` | `HoldIsNoticed`, `OnlyWaitsKill`, `BecomesReady` |
| `apipod_tolerates` (finding) | MinIO hangs | `OutageIsTolerated` fails |
| `deployments` | infrastructure; isolated on AKS, Dawn and K3s; access on AKS and Dawn with each certificate issuer; one fault, none for isolated on Dawn | `KnownRaces`, `CanGetFurther`, `RepeatCompletes` |
| `harbor_config` | 4 remotes and 2 retries, the real numbers | `ProxiesOwnRemote`, `MissingWasRefused`, `JobEnds` |
| `objects` | 2 processes, 1 bucket, 1 file, 2 uploads, histories of 3 | `KeepsHistory`; implements `ObjectPromise` (`AnswersAreTrue`) |
| `minio_config` | 15 attempts and 2 retries, the real numbers; the tenant goes down twice | `CompleteOpens`, `OnlyLapsesFail`, `JobEnds` |
| `lockdown` | the real rules; one change of an address or of the allowlist; three kinds of name for Harbor | `RegistryReachable`, `ProxyReaches`, `LockdownCloses`, `NeverOpen`, `StaysOffline` |

Every passing run checks its module's `TypeOK` as well.

**Why the bounds are enough.** Two requests are what a stale check takes: one
waits, the other changes the session; requests share no state but the session, and the
theorems hold for any number. Lifetimes matter only in their order (`RotateFrom <=
RotateBy < CredTTL`); the real ones are one hour for both token and credentials,
with the kubelet replacing a token at 80% of its life. In `datacopy_transfer` two jobs
of two workflows meet on a path, with an upload between their downloads, which is what
an older version takes to arrive late, and deletions, which make one current again; two
jobs of one list on a path, and any number of workflows, jobs, uploads and deletions,
are left to the theorems. Two processes are what a rolling update has; files and
buckets do not share anything, so that one of each shows every interleaving
of the calls on it; three versions are two uploads and a delete marker. Probe settings,
remotes, retries, attempts, rules, stacks and their graphs are the real ones. A fault of
the isolated stack on Dawn is not in the run (its graph is too large for both; lost
races are failures there too);
`DeploymentsProofs` has any number of faults for all the invariants. One change of an
address is what a stale rule, record or output takes; two, and the properties for any
number, are left to `LockdownProofs`. The two outages in `minio_config` allow one in the
pod that fails and one in the next. `MaxVersion`, `MaxFaults`, `MaxUploads`,
`MaxHistory`, `MaxDowns`, `MaxChanges` and the token lifetimes are the only counters
that the models cap.

`CHECK_DEADLOCK FALSE` is said where the system may stop: workflows that ended,
stacks that are complete, a Job that is done. The API, its pod, the object routes and
the network (a command can always be given again) never stop, and deadlock is checked
for them.

**Fairness.** `JobApi`: the step of the request that holds the loop is taken (weak, for
each request, its error paths being steps as well); the event loop's ready queue is
FIFO, so a handler that is ready again and again is resumed (strong on `Resume`); time
or the kubelet's rotation goes on, a process that ended starts again (weak). Strong:
readiness probes keep coming; STS answers, and a client is built, if they are asked for
again and again; Argo's token and the session's token can be read if a handler tries
again and again. All of these may fail any number of times but not for ever, which
is what "if the service is up" means in a protocol without a retry limit.
`ClientComesBack` assumes in addition that containers are not killed for ever.
`EveryRequestEnds` needs that services answer; what happens if they do not is
`ApiPod`'s question. `ApiPod`: time, probes, and (strong) that a start or a readiness
check that can succeed again and again does so. `DataCopy`: each script and each set
of jobs keeps running. A pod may be lost at any time. `PulumiUp`: the operator
repeats the command; cert-manager issues; creations are not starved by faults, which
are bounded. `HarborConfig`: the script runs on. `MinioConfig`: the Job controller and
the script run on (weak); nothing is assumed of the tenant, which may never come up.
`Objects` and `Lockdown` have safety properties only: a request may hang (that is
`JobApi`'s question), and nobody has to give the lockdown's command.

## 4. Findings

1. **/readyz can answer 500** (`jobapi_readyz`). `_check_minio` catches S3, HTTP and
   OS errors; a refresh that fails raises `HTTPException`, a missing client
   `AttributeError`. `health_checks.py:64` promises a status.
2. **A cut download is a success** (`datacopy_whole`). The script reads curl's HTTP
   code and not its exit status; the workflow prints "All copy jobs complete."
3. **The readiness threshold does not tolerate a hanging MinIO**
   (`apipod_tolerates`). The comment at `api_server.py:233` raises the readiness
   threshold for such outages, but the wait holds the event loop and the liveness
   probe restarts the pod first (3 x 20 s against 5 x 30 s).
Where the code differs from what a comment or the documentation says but no run is
spent on it (a property of a passing run has the case, or it is outside the models):

* `docs/deploy/services.md:150` says that `pulumi up` can safely be repeated and that a
  repeated attempt will be successful. It is not if a Job failed (`minio_config.py:83`,
  `container_registry.py:334`): the Job stays and is awaited as it is, until the operator
  deletes it. `RepeatCompletes` says what is then left out, `CanGetFurther` that nothing
  else is held up. That MinIO's Job can fail is one of `KnownRaces`: the tenant is not
  waited for, and the Job waits for it for a bounded time only.
* `docs/deploy/infrastructure.md:111` says that after the lockdown outbound traffic is
  only permitted to the container registry. `firewall.py:97` also lets HTTPS to four
  names of AKS through, for the bootstrapping of nodes: `Closed` has them as an
  exception.
* `docs/deploy/infrastructure.md:116` says that the private zone has a record for Harbor
  with its FQDN. The zone (`aks-post-deployment/__main__.py:16`) and the record
  (`dns_zone.py:42`) are literals and the FQDN is configuration
  (`container_registry.py:85`): under any other name the isolated cluster cannot reach
  the registry after the lockdown. `RegistryReachable` says both.
* The same section has the lockdown as one step. Its NSGs are imported
  (`network_security_rules.py:347`, `:364`) with other rules than they have, which
  Pulumi refuses: the command completes only after `pulumi import`, which no document
  mentions (`Adopt`).
* The general network policies are not last, against `isolated-cluster/__main__.py:211`:
  that group is made without `opts` (`KnownRaces` lists it).
* K3s cannot be deployed, against `docs/deploy/services.md:24`: `api_svc_specs` is
  unbound there (`RepeatCompletes` says what is never reached).
* Harbor's script prints "Harbor configuration complete." (`harbor_config.sh:42`) after
  calls that Harbor refused (`MissingWasRefused` says which).
* `delete_object` answers "not found" with HTTP 200 when the connection breaks while it
  looks for the object (`minio_client.py:243`, `:256`). `AnswersAreTrue` holds: what it
  is asked for was indeed not done.
* The MinIO Job can complete with the egress bucket closed (`minio_config.py:64`);
  `CompleteOpens` and `OnlyLapsesFail` say when.
* A plain `pulumi up` of the lockdown does not restore rules that a later
  `pulumi up` of the infrastructure replaced, because the lockdown's record has not
  changed: it takes `--refresh`. `docs/deploy/infrastructure.md:110` has the
  lockdown as the last step only. This is why `Settled`, in `LockdownCloses`, asks
  that infra has not rewritten rules since the lockdown last looked at them;
  `StaysOffline` is what holds regardless.
* The lockdown drops the rule for port 80 on the access cluster
  (`networking.py:105`), which the HTTP-01 challenge of a certificate's renewal uses.
* `get_object` passes a version where the client expects an offset
  (`minio_client.py:220`), and `move_object` accepts a version and does not pass it on
  (`storage.py:48`).
* `network_policies.py:69` names `fridge_api.yaml`; the file is `fridge-api.yaml`.
* The SSH port in `docs/deploy/infrastructure.md:36` is 2222, in `networking.py:124` 2500.

## 5. Proofs

| Theorem | For all | States |
|---|---|---|
| `JobApiProofs!TypeCorrect` | requests, lifetimes, attempts, handlers | `TypeOK` |
| `JobApiProofs!SessionInvariant` | same | `SessionInv` |
| `JobApiProofs!CredentialsLive` | same | `LiveWhileTokenCurrent` |
| `JobApiProofs!StaleCalls` | same | `StaleCallNeedsRotation` |
| `JobApiProofs!KeysAreKept` | same | `StaticKeysAreKept` |
| `JobApiProofs!LoopGoesOn` | same | `LoopIsNeverStuck` |
| `ApiPodProofs!TypeCorrect`, `HoldNoticed` | probe settings, services | `TypeOK`, `HoldIsNoticed` |
| `ApiPodProofs!WaitsKill` | those with `LivePeriod < ReadyPeriod`, `LiveThreshold > 1` | `OnlyWaitsKill` |
| `DeploymentsProofs!TypeCorrect` | faults, selections of the stacks | `TypeOK` |
| `DeploymentsProofs!KnownRacesOnly`, `NeverStuck` | same | `KnownRaces`, `CanGetFurther` |
| `HarborConfigProofs!TypeCorrect`, `ProjectsProxyTheirRemote`, `MissingOnlyIfRefused` | remotes, retries | `TypeOK`, `ProxiesOwnRemote`, `MissingWasRefused` |
| `DataCopyProofs!TypeCorrect`, `HalfFilesHaveCause`, `NeverOlder` | workflows, files, lists, uploads | `TypeOK`, `HalfFileHasCause`, `NeverOlderInTurn` |
| `DataCopyProofs!TransferIsImplemented` | same | `ImplementsTransfer` |
| `ObjectsProofs!TypeCorrect`, `HistoryIsKept` | processes, buckets, files, uploads | `TypeOK`, `KeepsHistory` |
| `ObjectsProofs!TrueAnswers` | same | `AnswersAreTrue` |
| `MinioConfigProofs!TypeCorrect`, `CompletionOpens`, `LapsesFail` | attempts, retries, outages | `TypeOK`, `CompleteOpens`, `OnlyLapsesFail` |
| `LockdownProofs!TypeCorrect`, `Closes`, `Offline` | changes | `TypeOK`, `LockdownCloses`, `StaysOffline` |
| `LockdownProofs!NeverOpens` | same | `NeverOpen` |
| `LockdownProofs!ProxyReachesApis`, `RegistryIsReachable` | same | `ProxyReaches`, `RegistryReachable` |

*JobApi.* Assumed: `RotateBy < CredTTL` (`LifetimeAssumption`), that `NoTask` is no
request, at least one attempt. Neither property is inductive. That credentials are alive
while the token is current holds because of their *ages*: `CredInv` says that
credentials bought with the current token, held or on offer, have at least `CredTTL -
tokAge` left. That an S3 call is not stale needs the position of each handler:
`CheckInv` says that a request which has made its check and is not `unsure`
knows that the cached token is not old, a trade in flight included; `LoopInv` ties the
thread's stage to the request that holds the loop. `SessionInv` is their conjunction.
It is checked by TLC too, since it is an invariant of the first run. The proof has a
step per action; the lemmas (`MoveFacts`, `QuietMove`, ...) say what a step of one
handler leaves of the others. `LoopIsNeverStuck` is inductive together with `LoopInv`
(`HolderStep`). It is the part of `EveryRequestEnds` that no fairness is needed for:
whoever holds the loop is in its own step or in the call that this step makes. That the
call is answered, and the next in the queue resumed, stays with TLC.

*ApiPod.* `HoldIsCounted`: a hold is never longer than what the failures counted so
far, plus the time to the next probe, account for. With fewer failures than the
threshold this is the bound. `LoopAlone`, for `OnlyWaitsKill`: if no handler has waited,
at most one liveness probe in a row has failed, and then the next one comes before the
next readiness check (`Unlucky`), so that nothing delays it.

*Deployments.* Assumed: what the modules say of their constants, that the stacks are some
of those there are (`StacksAssumption`) and their plans the ones of the three programs
(`PlansAssumption`, `PlanAssumption`); TLC evaluates all of these for all ten stacks.
The first half knows no more of a plan than `PlanAssumption`. The invariant is `Closed`
(what exists has all that the program puts before it) and `Reached` (nothing else
exists than what the program registers or the cluster issues), and that no Job is both spent
and made. So when a creation is issued all of `Below` exists, and a refusal lacks
something else (`LateIsUndeclared`). This holds of any graph, and is only a step: which
refusals there can be takes the graphs.

The second half opens the graphs. `Closed` alone does not say which needs are missing,
nor that something can be created; both take a fact for every resource of every program.
`OnlyRaces` says that every need of a resource outside of `Races` is below it. The lemmas
about each program (`IsolatedNeedsDeclared` and the like) show it by the resource's
dependencies and theirs, one component at a time, with the sets of children that a
`depends_on` stands for (`IsolatedSets`, ...) evaluated once. `KnownRaces` follows.
`PlanOrder` says that a set which has each resource whose dependencies and needs it has
is the whole: the proof walks through the program in an order in which the resources can
be made, which is why no cycle runs through the declared dependencies and the needs. A
command without a failure that can create nothing and is owed nothing has made such a
set, so by `RestIsUnreached` only what K3s's program never reaches is left; with a Job
that was spent, the set and what waits for the Job make up the whole. This is the
heart of `RepeatCompletes`; that creations do happen is a matter of fairness and stays
with TLC.

*HarborConfig.* The identifiers that a pod has read are those Harbor has given, and
a pod that is past a call has made, found or been refused what the call was for.

*DataCopy.* The invariant ties the volume to the jobs. `DataComesFromWriter`: what
`/data/$file` holds is what the job recorded as its last writer has, whole unless that
job was cut off; `HalfFileHasCause` follows. `FetchedInTurn`: what a job has fetched is
not older than what workflows that had ended before brought, or theirs was deleted,
because a download takes the newest version there is; so its `mv` cannot put an older
file in the place of theirs, unless theirs is gone from the bucket. `WaitedForIsDone`: the jobs before `waitFor` ended well, so that
success means all of them did. The refinement has a lemma per kind of step
(`SubmitMaps`, `JobStepMaps`, `CompleteMaps`, `EndsEarlyMaps`).

*Objects.* `CallFitsRequest`: a call is one that its request makes. `DoneByChange`:
what was done although no answer came was done by a call that changes MinIO, to a bucket
that is there; hence a refusal, or "not found", comes only when nothing was done.
`PromiseKept`: a bucket promised to be versioned is, since nothing sets versioning
back. Each step then maps to a step of `ObjectPromise` or to a stutter.

*MinioConfig.* `ScriptSoFar`: which policies are set at each command; `ReadyUnlessLapsed`:
a pod that did not lapse runs against a ready tenant.

*Lockdown.* What traffic passes depends on which rules each NSG has, so the
invariant says which they can be (`Whose`: those of one stack or the other, for some
values), that rules which infra did not rewrite are those the lockdown recorded
(`Recorded`), and that what a command has done is as it asked for (`Done`). The rest is
about priorities: `DenyBounds` (a rule that denies bounds the priority of whatever
lets the traffic through) for what is closed, `PassesBy` (no matching rule comes before
this one) for what is open. `RegistryIsReachable` is about both of Harbor's ports and
every name: the record's leads to an address that the rules let through, and every
other one to the firewall. `NeverOpen` speaks of every moment, also when the two stacks
have overwritten each other: `Whose` leaves two sets of rules for the isolated cluster,
and `BaseIn`, `BaseOut`, `LockIn`, `LockOut`, `InternetNotIn` show each of them tight for
all the values it may be made from.

Out of the prover's reach, and left to TLC: everything under fairness
(`EveryRequestEnds`, `ClientComesBack`, `EveryTransferEnds`, `BecomesReady`,
`RepeatCompletes`, `JobEnds` of both Jobs) and ENABLED; induction over data; RECURSIVE
operators, of which the modules have none.

What the models assume of the world, and the proofs with them: Pulumi writes a resource if
and only if its inputs differ from the recorded ones, and `--refresh` reads the actual
ones; an import into the lockdown's stack adopts what is there if it is what the program
asks for, and fails otherwise; a Job that has failed is not made again by itself; the
private address of the isolated cluster's Kubernetes API does not change; Azure's tag
VirtualNetwork in the default rules means the two peered address spaces; `mc
anonymous set` fails for a bucket that does not exist; the MinIO operator creates the
buckets once the tenant is up; the retry policy of both HTTP clients sends calls
again that they take to be idempotent; two tokens of a pod are never equal.

## 6. Not modelled

* The contents of objects, workflows and responses; Argo's own behaviour beyond its
  answer; the threads of `verify_request`.
* In the two cluster stacks: contents of resources, updates and deletions of existing
  ones; hubble and the patches of standard namespaces, which no resource has an edge to.
  In the infrastructure stack: sizes, names, keys.
* What the Cilium policies let through: static manifests, read by the cluster as a
  whole. The order in which they appear is in `Deployments`.
* The jumpbox's SSH configuration, the GPU operator's and containerd's node scripts:
  one-shot scripts of declarations without a protocol of their own (the resources that
  run them are in the graphs).
* `infra/dawn` (Ansible and cloud-init declarations), test workflows, examples,
  documentation, CI.

## 7. Plan

Done, in the order of importance:

1. `JobApi` with its invariant and proofs (credentials are what failed before).
2. `DataCopy` with the abstract `Transfer`; versions that overtake each other; the
   refinement proved.
3. `ApiPod` with its proofs.
4. `PulumiUp`, the three stacks, `Deployments`, with its proofs: the known races and the
   order of creation for the graphs of all programs.
5. `HarborConfig` with its proofs.
6. `Objects` with the abstract `ObjectPromise`, with its proofs.
7. `MinioConfig` with its proofs.
8. `NetworkRules` and `Lockdown` with its proofs.

Left:

9. Fewer assumptions: `PlanAssumption` from `PlansAssumption` (the functions of the
    graphs are total and stay inside their resources), which TLC evaluates now.
10. The stacks' updates of existing resources (replacement before deletion), which the
    lockdown already has for the rules that two stacks share.
11. `NetworkPolicies`: which flows the Cilium policies leave open between the steps
    of a deployment, should the manifests ever depend on the order.
