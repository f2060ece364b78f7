------------------------------ MODULE DataCopy ------------------------------
(***************************************************************************)
(* The data-copy workflow template that POST /object/move submits: a shell *)
(* script that starts one background job per file, each copying between a  *)
(* bucket and the volume all workflows share, and then waits for the jobs  *)
(* in the order of the list.  Workflows run at the same time, files are    *)
(* uploaded while they are being copied, and pods are lost.                *)
(*                                                                         *)
(* A copy of a file is its version and whether it is whole.                *)
(***************************************************************************)
EXTENDS Integers, Sequences

CONSTANTS
    Workflows,
    Files,
    Lists,        \* the lists of files that each workflow may be asked for
    FirstVersion, \* of each file, when the first workflow is submitted; 0 if none
    MaxVersion,   \* bound: uploads of each file
    Deleted       \* bound: the files that users also delete

ASSUME ListsAssumption == Lists \in [Workflows -> SUBSET Seq(Files)]
ASSUME DeletedAssumption == Deleted \subseteq Files
ASSUME VersionAssumption ==
    FirstVersion \in [Files -> Nat] /\ MaxVersion \in [Files -> Nat] /\ \A f \in Files : FirstVersion[f] <= MaxVersion[f]

VARIABLES
    uploaded,  \* number of versions of each file put into the ingress bucket
    present,   \* those that are there and can be the current one
    data,      \* what /data/$file holds
    writer,    \* the job whose mv wrote /data/$file last, or NoJob
    egress,    \* what the egress bucket holds
    phase,     \* phase of each workflow in Argo
    bucket,    \* its bucket parameter
    list,      \* its files parameter, split at ";"
    job,       \* state of each of its background jobs
    tmp,       \* $tmp_out of each of its jobs
    waitFor,   \* index of the job the script is waiting for
    before     \* ghost: the workflows that had ended when it was submitted

vars == <<uploaded, present, data, writer, egress, phase, bucket, list, job, tmp, waitFor, before>>

Absent == [version |-> 0, whole |-> TRUE]
Copies == [version : Nat, whole : BOOLEAN]
NoJob == <<>>
Ended == {"ok", "failed", "killed"}

Init ==
    /\ uploaded = FirstVersion
    /\ present = [f \in Files |-> 1..FirstVersion[f]]
    /\ data = [f \in Files |-> Absent]
    /\ writer = [f \in Files |-> NoJob]
    /\ egress = [f \in Files |-> Absent]
    /\ phase = [w \in Workflows |-> "none"]
    /\ bucket = [w \in Workflows |-> "none"]
    /\ list = [w \in Workflows |-> <<>>]
    /\ job = [w \in Workflows |-> <<>>]
    /\ tmp = [w \in Workflows |-> <<>>]
    /\ waitFor = [w \in Workflows |-> 1]
    /\ before = [w \in Workflows |-> {}]

-----------------------------------------------------------------------------
(* The ingress bucket.  It may have versioning (a bucket without it behaves *)
(* as one whose users delete only whole files).                             *)
IsCurrent(f, v) == v \in present[f] /\ \A u \in present[f] : u <= v

\* PUT or POST /object: a new file, or a new version of it.
Upload(f) ==
    /\ uploaded[f] < MaxVersion[f]
    /\ uploaded' = [uploaded EXCEPT ![f] = @ + 1]
    /\ present' = [present EXCEPT ![f] = @ \cup {uploaded[f] + 1}]
    /\ UNCHANGED <<data, writer, egress, phase, bucket, list, job, tmp, waitFor, before>>

\* DELETE /object without a version: the object goes, or a delete marker hides
\* its versions for good, because delete_object finds no marker to remove.
Delete(f) ==
    /\ present[f] # {}
    /\ present' = [present EXCEPT ![f] = {}]
    /\ UNCHANGED <<uploaded, data, writer, egress, phase, bucket, list, job, tmp, waitFor, before>>

\* DELETE /object with a version: the one before it becomes the current one.
DeleteVersion(f, v) ==
    /\ v \in present[f]
    /\ present' = [present EXCEPT ![f] = @ \ {v}]
    /\ UNCHANGED <<uploaded, data, writer, egress, phase, bucket, list, job, tmp, waitFor, before>>

-----------------------------------------------------------------------------
(* The workflow is submitted.                                               *)

\* Mutant: the list is not split at ";".
SubmitUnsplit(w, b, l) ==
    /\ phase[w] = "none"
    /\ bucket' = [bucket EXCEPT ![w] = b]
    /\ list' = [list EXCEPT ![w] = l]
    /\ phase' = [phase EXCEPT ![w] = "Running"]
    /\ job' = [job EXCEPT ![w] = <<"started">>]
    /\ tmp' = [tmp EXCEPT ![w] = <<Absent>>]
    /\ before' = [before EXCEPT ![w] = {v \in Workflows : phase[v] \in {"Succeeded", "Failed"}}]
    /\ UNCHANGED <<uploaded, present, data, writer, egress, waitFor>>

\* The script starts: every file of the list gets a background subshell.  An
\* unknown bucket ends it at once.
Submit(w, b, l) ==
    /\ phase[w] = "none"
    /\ bucket' = [bucket EXCEPT ![w] = b]
    /\ list' = [list EXCEPT ![w] = l]
    /\ IF b \in {"ingress", "egress"}
       THEN /\ phase' = [phase EXCEPT ![w] = "Running"]
            /\ job' = [job EXCEPT ![w] = [i \in DOMAIN l |-> "started"]]
            /\ tmp' = [tmp EXCEPT ![w] = [i \in DOMAIN l |-> Absent]]
       ELSE /\ phase' = [phase EXCEPT ![w] = "Failed"]
            /\ UNCHANGED <<job, tmp>>
    /\ before' = [before EXCEPT ![w] = {v \in Workflows : phase[v] \in {"Succeeded", "Failed"}}]
    /\ UNCHANGED <<uploaded, present, data, writer, egress, waitFor>>

-----------------------------------------------------------------------------
(* A background job.                                                        *)
JobAt(w, i, b, s) ==
    /\ phase[w] = "Running" /\ bucket[w] = b
    /\ i \in DOMAIN list[w] /\ job[w][i] = s

JobGoes(w, i, s) == job' = [job EXCEPT ![w][i] = s]

\* Mutant: some version of the object is downloaded, not the current one.
DownloadAny(w, i) ==
    /\ JobAt(w, i, "ingress", "started")
    /\ \E v \in present[list[w][i]], whole \in BOOLEAN :
           tmp' = [tmp EXCEPT ![w][i] = [version |-> v, whole |-> whole]]
    /\ JobGoes(w, i, "fetched")
    /\ UNCHANGED <<uploaded, present, data, writer, egress, phase, bucket, list, waitFor, before>>

\* curl ended with a 2xx code.  Its own exit status is not looked at, so that a
\* body cut short after the headers counts as a download.
Download(w, i) ==
    /\ JobAt(w, i, "ingress", "started")
    /\ \E v \in present[list[w][i]], whole \in BOOLEAN :
           /\ IsCurrent(list[w][i], v)
           /\ tmp' = [tmp EXCEPT ![w][i] = [version |-> v, whole |-> whole]]
    /\ JobGoes(w, i, "fetched")
    /\ UNCHANGED <<uploaded, present, data, writer, egress, phase, bucket, list, waitFor, before>>

\* No such object, an error status, or no connection (code 000); or the file to
\* send is missing.  The subshell exits with 1.
JobFails(w, i) ==
    /\ JobAt(w, i, "ingress", "started") \/ JobAt(w, i, "egress", "started")
    /\ JobGoes(w, i, "failed")
    /\ UNCHANGED <<uploaded, present, data, writer, egress, phase, bucket, list, tmp, waitFor, before>>

\* mv across file systems: the old file is unlinked and a new one is written.
MoveStarts(w, i) ==
    /\ JobAt(w, i, "ingress", "fetched")
    /\ data' = [data EXCEPT ![list[w][i]] = [tmp[w][i] EXCEPT !.whole = FALSE]]
    /\ writer' = [writer EXCEPT ![list[w][i]] = <<w, i>>]
    /\ JobGoes(w, i, "moving")
    /\ UNCHANGED <<uploaded, present, egress, phase, bucket, list, tmp, waitFor, before>>

\* Mutant: mv writes into the existing file, which a second mv mixes with the first.
MoveEndsShared(w, i) ==
    /\ JobAt(w, i, "ingress", "moving")
    /\ data' = [data EXCEPT ![list[w][i]] =
                    IF writer[list[w][i]] = <<w, i>> THEN tmp[w][i] ELSE [@ EXCEPT !.whole = FALSE]]
    /\ JobGoes(w, i, "ok")
    /\ UNCHANGED <<uploaded, present, writer, egress, phase, bucket, list, tmp, waitFor, before>>

\* If another job unlinked the file meanwhile, this one finished a file that
\* has no name any more.
MoveEnds(w, i) ==
    /\ JobAt(w, i, "ingress", "moving")
    /\ data' = IF writer[list[w][i]] = <<w, i>>
               THEN [data EXCEPT ![list[w][i]] = tmp[w][i]] ELSE data
    /\ JobGoes(w, i, "ok")
    /\ UNCHANGED <<uploaded, present, writer, egress, phase, bucket, list, tmp, waitFor, before>>

\* The volume is full: mv fails and leaves what it had written.
MoveBreaks(w, i) ==
    /\ JobAt(w, i, "ingress", "moving")
    /\ JobGoes(w, i, "failed")
    /\ UNCHANGED <<uploaded, present, data, writer, egress, phase, bucket, list, tmp, waitFor, before>>

\* curl -T sends the file as it is; the object appears in the bucket at once,
\* and the answer says so, or is lost and the job reports a failure.
Send(w, i) ==
    /\ JobAt(w, i, "egress", "started")
    /\ data[list[w][i]].version > 0
    /\ egress' = [egress EXCEPT ![list[w][i]] = data[list[w][i]]]
    /\ \/ JobGoes(w, i, "ok")
       \/ JobGoes(w, i, "failed")
    /\ UNCHANGED <<uploaded, present, data, writer, phase, bucket, list, tmp, waitFor, before>>

-----------------------------------------------------------------------------
(* The script waits for its jobs in the order of the list.                  *)

\* The jobs that have not ended are gone with the container.
Killed(w) ==
    job' = [job EXCEPT ![w] = [i \in DOMAIN @ |-> IF @[i] \in Ended THEN @[i] ELSE "killed"]]

\* Mutant: code=$? is taken after another command.
WaitAny(w) ==
    /\ phase[w] = "Running" /\ waitFor[w] <= Len(list[w])
    /\ job[w][waitFor[w]] \in Ended
    /\ waitFor' = [waitFor EXCEPT ![w] = @ + 1]
    /\ UNCHANGED <<uploaded, present, data, writer, egress, phase, bucket, list, job, tmp, before>>

WaitOk(w) ==
    /\ phase[w] = "Running" /\ waitFor[w] <= Len(list[w])
    /\ job[w][waitFor[w]] = "ok"
    /\ waitFor' = [waitFor EXCEPT ![w] = @ + 1]
    /\ UNCHANGED <<uploaded, present, data, writer, egress, phase, bucket, list, job, tmp, before>>

\* Mutant: only the first job's failure ends the script.
WaitFirstFails(w) ==
    /\ phase[w] = "Running" /\ waitFor[w] = 1 /\ list[w] # <<>>
    /\ job[w][1] = "failed"
    /\ phase' = [phase EXCEPT ![w] = "Failed"]
    /\ Killed(w)
    /\ UNCHANGED <<uploaded, present, data, writer, egress, bucket, list, tmp, waitFor, before>>

WaitFails(w) ==
    /\ phase[w] = "Running" /\ waitFor[w] <= Len(list[w])
    /\ job[w][waitFor[w]] = "failed"
    /\ phase' = [phase EXCEPT ![w] = "Failed"]
    /\ Killed(w)
    /\ UNCHANGED <<uploaded, present, data, writer, egress, bucket, list, tmp, waitFor, before>>

Complete(w) ==
    /\ phase[w] = "Running" /\ waitFor[w] > Len(list[w])
    /\ phase' = [phase EXCEPT ![w] = "Succeeded"]
    /\ UNCHANGED <<uploaded, present, data, writer, egress, bucket, list, job, tmp, waitFor, before>>

\* The pod is evicted or its node fails; the template has no retry strategy.
PodLost(w) ==
    /\ phase[w] = "Running"
    /\ phase' = [phase EXCEPT ![w] = "Failed"]
    /\ Killed(w)
    /\ UNCHANGED <<uploaded, present, data, writer, egress, bucket, list, tmp, waitFor, before>>

JobStep(w, i) ==
    \/ Download(w, i) \/ JobFails(w, i)
    \/ MoveStarts(w, i) \/ MoveEnds(w, i) \/ MoveBreaks(w, i)
    \/ Send(w, i)

Script(w) == WaitOk(w) \/ WaitFails(w) \/ Complete(w)

Next ==
    \/ \E f \in Files : Upload(f)
    \/ \E f \in Deleted : Delete(f) \/ \E v \in present[f] : DeleteVersion(f, v)
    \/ \E w \in Workflows :
        \/ \E b \in {"ingress", "egress", "other"}, l \in Lists[w] : Submit(w, b, l)
        \/ \E i \in DOMAIN list[w] : JobStep(w, i)
        \/ Script(w)
        \/ PodLost(w)

Spec == Init /\ [][Next]_vars

\* The jobs and the script keep running; curl ends, one way or another.
FairSpec ==
    /\ Spec
    /\ \A w \in Workflows :
           /\ WF_vars(Script(w))
           /\ WF_vars(\E i \in DOMAIN list[w] : JobStep(w, i))

-----------------------------------------------------------------------------
\* The variables have their types; a running workflow has one job per entry of
\* its list and waits for one of them at a time.
TypeOK ==
    /\ uploaded \in [Files -> Nat] /\ \A f \in Files : uploaded[f] <= MaxVersion[f]
    /\ present \in [Files -> SUBSET Nat] /\ \A f \in Files : present[f] \subseteq 1..uploaded[f]
    /\ data \in [Files -> Copies] /\ egress \in [Files -> Copies]
    /\ phase \in [Workflows -> {"none", "Running", "Succeeded", "Failed"}]
    /\ bucket \in [Workflows -> {"none", "ingress", "egress", "other"}]
    /\ list \in [Workflows -> Seq(Files)]
    /\ waitFor \in [Workflows -> Nat \ {0}]
    /\ before \in [Workflows -> SUBSET Workflows]
    /\ \A w \in Workflows :
           /\ phase[w] = "Running" => DOMAIN job[w] = DOMAIN list[w]
           /\ waitFor[w] <= Len(list[w]) + 1

Named(w) == {list[w][i] : i \in DOMAIN list[w]}
DoneBy(w) == {list[w][i] : i \in {j \in DOMAIN job[w] : job[w][j] = "ok"}}

\* Waiting for the jobs one by one implements the promise of Transfer: a
\* workflow succeeds only when every file was copied, whatever the order in
\* which jobs end, and it always ends: a failed job ends it too, also when the
\* script waits for others first.
T == INSTANCE Transfer WITH
         status <- phase,
         wanted <- [w \in Workflows |-> Named(w)],
         copied <- [w \in Workflows |-> DoneBy(w)]
ImplementsTransfer == T!Spec
EveryTransferEnds == T!FairSpec

\* A file on the volume that is not whole, and that no running job is writing,
\* was written by a job that failed or was killed during its mv, or whose download
\* was cut short: copies of the same file by several workflows, or by a list that
\* repeats it, never mix or truncate each other.
Writing(f) == writer[f] # NoJob /\ job[writer[f][1]][writer[f][2]] = "moving"
HalfFileHasCause ==
    \A f \in Files :
        ~data[f].whole /\ ~Writing(f) =>
            \E w \in Workflows : \E i \in DOMAIN list[w] :
                /\ writer[f] = <<w, i>> /\ list[w][i] = f /\ bucket[w] = "ingress"
                /\ \/ job[w][i] \in {"failed", "killed"}
                   \/ job[w][i] = "ok" /\ ~tmp[w][i].whole

\* A version on the volume is overwritten by an older one only by a workflow that
\* was submitted before the one that wrote the newer version had ended, or when
\* the newer version was deleted from the bucket: whoever submits after a workflow
\* has ended gets at least what it got, as long as that is there, however slow the
\* downloads are and however often files are uploaded and deleted meanwhile.
NeverOlderInTurn ==
    [][\A f \in Files : data'[f].version < data[f].version =>
           \/ writer[f][1] \notin before[writer'[f][1]]
           \/ data[f].version \notin present[f]]_vars

\* "All copy jobs complete." (templates.yaml:95): what a workflow that succeeded
\* downloaded is whole.
CompleteMeansWhole ==
    \A w \in Workflows :
        phase[w] = "Succeeded" /\ bucket[w] = "ingress" =>
            \A i \in DOMAIN list[w] : tmp[w][i].whole
=============================================================================
