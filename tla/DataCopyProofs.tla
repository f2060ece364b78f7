---------------------------- MODULE DataCopyProofs ----------------------------
(***************************************************************************)
(* For any number of workflows, files, lists and uploads: files on the     *)
(* volume do not mix, later workflows do not bring older versions, and a   *)
(* workflow succeeds only when all its files were copied.                  *)
(***************************************************************************)
EXTENDS DataCopy, SequenceTheorems, TLAPS

JobStates == {"started", "fetched", "moving"} \cup Ended
Jobs == Workflows \X (Nat \ {0})

Types ==
    /\ uploaded \in [Files -> Nat] /\ \A f \in Files : uploaded[f] <= MaxVersion[f]
    /\ present \in [Files -> SUBSET Nat] /\ \A f \in Files : present[f] \subseteq 1..uploaded[f]
    /\ data \in [Files -> Copies] /\ egress \in [Files -> Copies]
    /\ writer \in [Files -> Jobs \cup {NoJob}]
    /\ phase \in [Workflows -> {"none", "Running", "Succeeded", "Failed"}]
    /\ bucket \in [Workflows -> {"none", "ingress", "egress", "other"}]
    /\ list \in [Workflows -> Seq(Files)]
    /\ job \in [Workflows -> Seq(JobStates)]
    /\ tmp \in [Workflows -> Seq(Copies)]
    /\ waitFor \in [Workflows -> Nat \ {0}]
    /\ before \in [Workflows -> SUBSET Workflows]

\* A workflow that was accepted has a job for each entry of its list.
JobsFitList ==
    \A w \in Workflows :
        /\ Len(tmp[w]) = Len(job[w]) /\ Len(job[w]) <= Len(list[w])
        /\ phase[w] = "Running" => Len(job[w]) = Len(list[w])
        /\ phase[w] = "none" => Len(job[w]) = 0 /\ waitFor[w] = 1 /\ before[w] = {}
        /\ waitFor[w] <= Len(list[w]) + 1

\* Job i of w has written file f last.
Wrote(f, w, i) ==
    /\ i \in 1..Len(job[w]) /\ list[w][i] = f /\ bucket[w] = "ingress"
    /\ job[w][i] \in {"moving"} \cup Ended
    /\ data[f].version = tmp[w][i].version
    /\ job[w][i] = "ok" => data[f] = tmp[w][i]

DataComesFromWriter ==
    \A f \in Files : IF writer[f] = NoJob THEN data[f] = Absent
                                         ELSE Wrote(f, writer[f][1], writer[f][2])

\* No job has a version that was never uploaded.
VersionsWereUploaded ==
    \A w \in Workflows : \A i \in 1..Len(job[w]) : tmp[w][i].version <= uploaded[list[w][i]]

\* Version t does not go back behind version n of file f, if n is still there.
NotBehind(f, n, t) == n <= t \/ n \notin present[f]

\* What w has fetched is not older than what workflows that ended before it had,
\* except for what has been deleted.
FetchedInTurn ==
    \A w \in Workflows : \A v \in before[w] :
        /\ phase[v] \in {"Succeeded", "Failed"}
        /\ \A i \in 1..Len(job[w]), j \in 1..Len(job[v]) :
               job[w][i] = "fetched" /\ list[v][j] = list[w][i] =>
                   NotBehind(list[w][i], tmp[v][j].version, tmp[w][i].version)

\* The jobs that the script has waited for are done.
WaitedForIsDone ==
    \A w \in Workflows : phase[w] = "Running" =>
        \A i \in 1..Len(job[w]) : i < waitFor[w] => job[w][i] = "ok"

IInv ==
    /\ Types /\ JobsFitList /\ DataComesFromWriter /\ VersionsWereUploaded
    /\ FetchedInTurn /\ WaitedForIsDone

-----------------------------------------------------------------------------
(* Lemmas about the parts of a state.                                       *)
LEMMA AbsentIsCopy == Absent \in Copies /\ Absent.version = 0 /\ Absent.whole
BY DEF Absent, Copies

LEMMA JobAtFacts ==
    ASSUME Types, JobsFitList, NEW w \in Workflows, NEW i, NEW b, NEW s, JobAt(w, i, b, s)
    PROVE  /\ phase[w] = "Running" /\ bucket[w] = b
           /\ i \in 1..Len(job[w]) /\ i \in Nat \ {0} /\ job[w][i] = s
           /\ Len(tmp[w]) = Len(job[w]) /\ Len(list[w]) = Len(job[w])
           /\ list[w][i] \in Files /\ tmp[w][i] \in Copies
<1>1. /\ phase[w] = "Running" /\ bucket[w] = b /\ i \in DOMAIN list[w] /\ job[w][i] = s
      /\ list[w] \in Seq(Files) /\ tmp[w] \in Seq(Copies)
      /\ Len(tmp[w]) = Len(job[w]) /\ Len(list[w]) = Len(job[w])
    BY DEF JobAt, Types, JobsFitList
<1>2. i \in 1..Len(list[w]) /\ Len(list[w]) \in Nat  BY <1>1
<1>3. list[w][i] \in Files /\ tmp[w][i] \in Copies  BY <1>1, <1>2, ElementOfSeq
<1> QED  BY <1>1, <1>2, <1>3

\* What JobGoes does to the jobs.
LEMMA SetJob ==
    ASSUME Types, NEW w \in Workflows, NEW i \in 1..Len(job[w]), NEW t \in JobStates, JobGoes(w, i, t)
    PROVE  /\ job' \in [Workflows -> Seq(JobStates)]
           /\ \A v \in Workflows : Len(job'[v]) = Len(job[v])
           /\ \A v \in Workflows : \A j \in 1..Len(job[v]) :
                  job'[v][j] = IF v = w /\ j = i THEN t ELSE job[v][j]
<1> DEFINE s == job[w]
           n == [s EXCEPT ![i] = t]
<1>1. s \in Seq(JobStates)  BY DEF Types
<1>2. job' = [job EXCEPT ![w] = n]  BY DEF JobGoes
<1>3. n \in Seq(JobStates) /\ Len(n) = Len(s) /\ \A j \in 1..Len(s) : n[j] = IF j = i THEN t ELSE s[j]
    BY <1>1, ExceptSeq
<1> HIDE DEF n
<1>4. job'[w] = n /\ \A v \in Workflows : v # w => job'[v] = job[v]  BY <1>2 DEF Types
<1> QED  BY <1>2, <1>3, <1>4 DEF Types

\* What Download does to $tmp_out.
GetsTmp(w, i, c) == tmp' = [tmp EXCEPT ![w][i] = c]

LEMMA SetTmp ==
    ASSUME Types, NEW w \in Workflows, NEW i \in 1..Len(tmp[w]), NEW c \in Copies,
           GetsTmp(w, i, c)
    PROVE  /\ tmp' \in [Workflows -> Seq(Copies)]
           /\ \A v \in Workflows : Len(tmp'[v]) = Len(tmp[v])
           /\ \A v \in Workflows : \A j \in 1..Len(tmp[v]) :
                  tmp'[v][j] = IF v = w /\ j = i THEN c ELSE tmp[v][j]
<1> DEFINE s == tmp[w]
           n == [s EXCEPT ![i] = c]
<1>1. s \in Seq(Copies)  BY DEF Types
<1>2. tmp' = [tmp EXCEPT ![w] = n]  BY DEF GetsTmp
<1>3. n \in Seq(Copies) /\ Len(n) = Len(s) /\ \A j \in 1..Len(s) : n[j] = IF j = i THEN c ELSE s[j]
    BY <1>1, ExceptSeq
<1> HIDE DEF n
<1>4. tmp'[w] = n /\ \A v \in Workflows : v # w => tmp'[v] = tmp[v]  BY <1>2 DEF Types
<1> QED  BY <1>2, <1>3, <1>4 DEF Types

\* What the end of the container does to the jobs.
LEMMA KilledEffect ==
    ASSUME Types, NEW w \in Workflows, Killed(w)
    PROVE  /\ job' \in [Workflows -> Seq(JobStates)]
           /\ \A v \in Workflows : Len(job'[v]) = Len(job[v])
           /\ \A v \in Workflows : \A j \in 1..Len(job[v]) :
                  job'[v][j] = IF v = w /\ job[v][j] \notin Ended THEN "killed" ELSE job[v][j]
<1> DEFINE s == job[w]
           n == [i \in 1..Len(s) |-> IF s[i] \in Ended THEN s[i] ELSE "killed"]
<1>1. s \in Seq(JobStates) /\ DOMAIN s = 1..Len(s) /\ Len(s) \in Nat  BY DEF Types
<1>2. job' = [job EXCEPT ![w] = n]  BY <1>1 DEF Killed
<1>3. /\ n \in Seq(JobStates) /\ Len(n) = Len(s)
      /\ \A j \in 1..Len(s) : n[j] = IF s[j] \notin Ended THEN "killed" ELSE s[j]
    BY <1>1 DEF JobStates, Ended
<1> HIDE DEF n
<1>4. job'[w] = n /\ \A v \in Workflows : v # w => job'[v] = job[v]  BY <1>2 DEF Types
<1> QED  BY <1>2, <1>3, <1>4 DEF Types

-----------------------------------------------------------------------------
(* The invariant holds initially and each action preserves it.              *)
LEMMA InvInit == Init => IInv
<1> SUFFICES ASSUME Init PROVE IInv  OBVIOUS
<1> USE DEF Init
<1>1. Types
    <2>1. uploaded \in [Files -> Nat] /\ \A f \in Files : uploaded[f] <= MaxVersion[f]
        BY VersionAssumption
    <2>7. present \in [Files -> SUBSET Nat] /\ \A f \in Files : present[f] \subseteq 1..uploaded[f]
        BY VersionAssumption
    <2>2. data \in [Files -> Copies] /\ egress \in [Files -> Copies]  BY AbsentIsCopy
    <2>3. writer \in [Files -> Jobs \cup {NoJob}]  OBVIOUS
    <2>4. <<>> \in Seq(Files) /\ <<>> \in Seq(JobStates) /\ <<>> \in Seq(Copies)  OBVIOUS
    <2>5. /\ list \in [Workflows -> Seq(Files)] /\ job \in [Workflows -> Seq(JobStates)]
          /\ tmp \in [Workflows -> Seq(Copies)]
        BY <2>4
    <2>6. /\ phase \in [Workflows -> {"none", "Running", "Succeeded", "Failed"}]
          /\ bucket \in [Workflows -> {"none", "ingress", "egress", "other"}]
          /\ waitFor \in [Workflows -> Nat \ {0}] /\ before \in [Workflows -> SUBSET Workflows]
        OBVIOUS
    <2> QED  BY <2>1, <2>2, <2>3, <2>5, <2>6, <2>7 DEF Types
<1>2. JobsFitList
    <2> SUFFICES ASSUME NEW w \in Workflows
                 PROVE  /\ Len(tmp[w]) = Len(job[w]) /\ Len(job[w]) <= Len(list[w])
                        /\ phase[w] = "Running" => Len(job[w]) = Len(list[w])
                        /\ phase[w] = "none" => Len(job[w]) = 0 /\ waitFor[w] = 1 /\ before[w] = {}
                        /\ waitFor[w] <= Len(list[w]) + 1
        BY DEF JobsFitList
    <2>1. Len(tmp[w]) = 0 /\ Len(job[w]) = 0 /\ Len(list[w]) = 0  OBVIOUS
    <2>2. phase[w] = "none" /\ waitFor[w] = 1 /\ before[w] = {}  OBVIOUS
    <2> HIDE DEF Init
    <2> QED  BY <2>1, <2>2
<1>3. DataComesFromWriter  BY DEF DataComesFromWriter
<1>4. VersionsWereUploaded /\ FetchedInTurn /\ WaitedForIsDone
    BY DEF VersionsWereUploaded, FetchedInTurn, WaitedForIsDone
<1> QED  BY <1>1, <1>2, <1>3, <1>4 DEF IInv

LEMMA UploadStep ==
    ASSUME IInv, NEW f \in Files, Upload(f)
    PROVE  IInv'
<1>0. Types /\ JobsFitList  BY DEF IInv
<1>1. /\ uploaded[f] < MaxVersion[f] /\ uploaded' = [uploaded EXCEPT ![f] = @ + 1]
      /\ present' = [present EXCEPT ![f] = @ \cup {uploaded[f] + 1}]
      /\ UNCHANGED <<data, writer, egress, phase, bucket, list, job, tmp, waitFor, before>>
    BY DEF Upload
<1>2. /\ uploaded' \in [Files -> Nat] /\ present' \in [Files -> SUBSET Nat]
      /\ \A g \in Files : /\ uploaded[g] <= uploaded'[g] /\ uploaded'[g] <= MaxVersion[g]
                         /\ present'[g] \subseteq 1..uploaded'[g]
                         /\ \A n \in present'[g] : n \in present[g] \/ n > uploaded[g]
    <2>1. /\ uploaded \in [Files -> Nat] /\ MaxVersion \in [Files -> Nat]
          /\ present \in [Files -> SUBSET Nat]
          /\ \A g \in Files : uploaded[g] <= MaxVersion[g] /\ present[g] \subseteq 1..uploaded[g]
        BY <1>0, VersionAssumption DEF Types
    <2>2. uploaded[f] \in Nat /\ MaxVersion[f] \in Nat /\ uploaded[f] + 1 <= MaxVersion[f]  BY <1>1, <2>1
    <2>3. \A g \in Files : uploaded'[g] = IF g = f THEN uploaded[f] + 1 ELSE uploaded[g]  BY <1>1, <2>1
    <2>4. \A g \in Files : present'[g] = IF g = f THEN present[f] \cup {uploaded[f] + 1} ELSE present[g]
        BY <1>1, <2>1
    <2>5. uploaded' \in [Files -> Nat] /\ present' \in [Files -> SUBSET Nat]
        BY <1>1, <2>1, <2>2
    <2> QED  BY <2>1, <2>2, <2>3, <2>4, <2>5
<1>3. Types' /\ JobsFitList'  BY <1>0, <1>1, <1>2 DEF Types, JobsFitList
<1>4. DataComesFromWriter' /\ WaitedForIsDone'
    BY <1>1 DEF IInv, DataComesFromWriter, Wrote, WaitedForIsDone
<1>5. \A v \in Workflows : \A i \in 1..Len(job[v]) :
          /\ list[v][i] \in Files /\ tmp[v][i].version \in Nat
          /\ tmp[v][i].version <= uploaded[list[v][i]]
    <2> SUFFICES ASSUME NEW v \in Workflows, NEW i \in 1..Len(job[v])
                 PROVE  /\ list[v][i] \in Files /\ tmp[v][i].version \in Nat
                        /\ tmp[v][i].version <= uploaded[list[v][i]]
        OBVIOUS
    <2>1. list[v] \in Seq(Files) /\ tmp[v] \in Seq(Copies) /\ job[v] \in Seq(JobStates)
        BY <1>0 DEF Types
    <2>2. i \in 1..Len(list[v]) /\ i \in 1..Len(tmp[v])  BY <1>0, <2>1 DEF JobsFitList
    <2>3. list[v][i] \in Files /\ tmp[v][i] \in Copies  BY <2>1, <2>2, ElementOfSeq
    <2> QED  BY <2>3 DEF Copies, IInv, VersionsWereUploaded
<1>6. VersionsWereUploaded'
    <2> SUFFICES ASSUME NEW v \in Workflows, NEW i \in 1..Len(job[v])
                 PROVE  tmp[v][i].version <= uploaded'[list[v][i]]
        BY <1>1 DEF VersionsWereUploaded
    <2>1. list[v][i] \in Files /\ tmp[v][i].version \in Nat /\ tmp[v][i].version <= uploaded[list[v][i]]
        BY <1>5
    <2>2. uploaded[list[v][i]] \in Nat /\ uploaded'[list[v][i]] \in Nat
          /\ uploaded[list[v][i]] <= uploaded'[list[v][i]]
        BY <1>0, <1>2, <2>1 DEF Types
    <2> QED  BY <2>1, <2>2
<1>7. FetchedInTurn'
    <2> SUFFICES ASSUME NEW u \in Workflows, NEW v \in before[u]
                 PROVE  /\ phase[v] \in {"Succeeded", "Failed"}
                        /\ \A k \in 1..Len(job[u]), j \in 1..Len(job[v]) :
                               job[u][k] = "fetched" /\ list[v][j] = list[u][k] =>
                                   NotBehind(list[u][k], tmp[v][j].version, tmp[u][k].version)'
        BY <1>1 DEF FetchedInTurn, NotBehind
    <2>1. v \in Workflows /\ phase[v] \in {"Succeeded", "Failed"}
        BY <1>0 DEF Types, IInv, FetchedInTurn
    <2>2. ASSUME NEW k \in 1..Len(job[u]), NEW j \in 1..Len(job[v]),
                 job[u][k] = "fetched", list[v][j] = list[u][k]
          PROVE  NotBehind(list[u][k], tmp[v][j].version, tmp[u][k].version)'
        <3>1. NotBehind(list[u][k], tmp[v][j].version, tmp[u][k].version)
            BY <2>2 DEF IInv, FetchedInTurn
        <3>2. list[u][k] \in Files /\ tmp[v][j].version <= uploaded[list[u][k]]
              /\ tmp[v][j].version \in Nat /\ uploaded[list[u][k]] \in Nat
            BY <1>0, <1>5, <2>1, <2>2 DEF Types
        <3>3. tmp[v][j].version \in present'[list[u][k]] => tmp[v][j].version \in present[list[u][k]]
            BY <1>2, <3>2
        <3> QED  BY <1>1, <3>1, <3>3 DEF NotBehind
    <2> QED  BY <2>1, <2>2
<1> QED  BY <1>3, <1>4, <1>6, <1>7 DEF IInv

\* A deletion takes versions away and nothing else.
LEMMA DeleteStep ==
    ASSUME IInv, NEW f \in Deleted,
           Delete(f) \/ \E n \in present[f] : DeleteVersion(f, n)
    PROVE  IInv'
<1>0. Types /\ JobsFitList /\ f \in Files  BY DeletedAssumption DEF IInv
<1>1. UNCHANGED <<uploaded, data, writer, egress, phase, bucket, list, job, tmp, waitFor, before>>
    BY DEF Delete, DeleteVersion
<1>2. PICK X : X \subseteq present[f] /\ present' = [present EXCEPT ![f] = X]
    <2>1. CASE Delete(f)  BY <2>1 DEF Delete
    <2>2. CASE \E n \in present[f] : DeleteVersion(f, n)
        <3>1. PICK n : present' = [present EXCEPT ![f] = @ \ {n}]  BY <2>2 DEF DeleteVersion
        <3> QED  BY <3>1
    <2> QED  BY <2>1, <2>2
<1>3. present' \in [Files -> SUBSET Nat] /\ \A g \in Files : present'[g] \subseteq present[g]
    BY <1>0, <1>2 DEF Types
<1>4. Types' /\ JobsFitList'  BY <1>0, <1>1, <1>3 DEF Types, JobsFitList
<1>5. DataComesFromWriter' /\ VersionsWereUploaded' /\ WaitedForIsDone'
    BY <1>1 DEF IInv, DataComesFromWriter, Wrote, VersionsWereUploaded, WaitedForIsDone
<1>6. FetchedInTurn'
    <2> SUFFICES ASSUME NEW u \in Workflows, NEW v \in before[u]
                 PROVE  /\ phase[v] \in {"Succeeded", "Failed"}
                        /\ \A k \in 1..Len(job[u]), j \in 1..Len(job[v]) :
                               job[u][k] = "fetched" /\ list[v][j] = list[u][k] =>
                                   NotBehind(list[u][k], tmp[v][j].version, tmp[u][k].version)'
        BY <1>1 DEF FetchedInTurn, NotBehind
    <2>1. phase[v] \in {"Succeeded", "Failed"}  BY DEF IInv, FetchedInTurn
    <2>2. ASSUME NEW k \in 1..Len(job[u]), NEW j \in 1..Len(job[v]),
                 job[u][k] = "fetched", list[v][j] = list[u][k]
          PROVE  NotBehind(list[u][k], tmp[v][j].version, tmp[u][k].version)'
        <3>1. NotBehind(list[u][k], tmp[v][j].version, tmp[u][k].version)
            BY <2>2 DEF IInv, FetchedInTurn
        <3>2. list[u] \in Seq(Files) /\ k \in 1..Len(list[u])
            BY <1>0 DEF Types, JobsFitList
        <3>3. list[u][k] \in Files  BY <3>2, ElementOfSeq
        <3> QED  BY <1>1, <1>3, <3>1, <3>3 DEF NotBehind
    <2> QED  BY <2>1, <2>2
<1> QED  BY <1>4, <1>5, <1>6 DEF IInv

LEMMA SubmitStep ==
    ASSUME IInv, NEW w \in Workflows, NEW b \in {"ingress", "egress", "other"},
           NEW l \in Lists[w], Submit(w, b, l)
    PROVE  IInv'
<1>0. Types /\ JobsFitList /\ l \in Seq(Files)  BY ListsAssumption DEF IInv
<1> DEFINE Ran == {v \in Workflows : phase[v] \in {"Succeeded", "Failed"}}
<1>1. /\ phase[w] = "none"
      /\ bucket' = [bucket EXCEPT ![w] = b] /\ list' = [list EXCEPT ![w] = l]
      /\ before' = [before EXCEPT ![w] = Ran]
      /\ UNCHANGED <<uploaded, present, data, writer, egress, waitFor>>
    BY DEF Submit
<1>2. PICK js \in Seq(JobStates), ts \in Seq(Copies), ph \in {"Running", "Failed"} :
          /\ phase' = [phase EXCEPT ![w] = ph]
          /\ job' = [job EXCEPT ![w] = js] /\ tmp' = [tmp EXCEPT ![w] = ts]
          /\ Len(js) = Len(ts) /\ Len(js) <= Len(l) /\ (ph = "Running" => Len(js) = Len(l))
          /\ \A i \in 1..Len(js) : js[i] = "started" /\ ts[i] = Absent
    <2>1. CASE b \in {"ingress", "egress"}
        <3> DEFINE js == [i \in 1..Len(l) |-> "started"]
                   ts == [i \in 1..Len(l) |-> Absent]
        <3>1. DOMAIN l = 1..Len(l) /\ Len(l) \in Nat  BY <1>0
        <3>2. /\ phase' = [phase EXCEPT ![w] = "Running"]
              /\ job' = [job EXCEPT ![w] = js] /\ tmp' = [tmp EXCEPT ![w] = ts]
            BY <2>1, <3>1 DEF Submit
        <3>3. js \in Seq(JobStates) /\ Len(js) = Len(l) /\ \A i \in 1..Len(l) : js[i] = "started"
            BY <3>1 DEF JobStates
        <3>4. ts \in Seq(Copies) /\ Len(ts) = Len(l) /\ \A i \in 1..Len(l) : ts[i] = Absent
            BY <3>1, AbsentIsCopy
        <3> HIDE DEF js, ts
        <3> USE <3>3, <3>4
        <3> WITNESS js \in Seq(JobStates), ts \in Seq(Copies), "Running" \in {"Running", "Failed"}
        <3> QED  BY <3>1, <3>2, <3>3, <3>4
    <2>2. CASE b = "other"
        <3> DEFINE js == job[w]
                   ts == tmp[w]
        <3>1. phase' = [phase EXCEPT ![w] = "Failed"] /\ UNCHANGED <<job, tmp>>  BY <2>2 DEF Submit
        <3>2. job = [job EXCEPT ![w] = js] /\ tmp = [tmp EXCEPT ![w] = ts]  BY <1>0 DEF Types
        <3>3. js \in Seq(JobStates) /\ ts \in Seq(Copies) /\ Len(js) = 0 /\ Len(ts) = 0 /\ Len(l) \in Nat
            BY <1>0, <1>1 DEF Types, JobsFitList
        <3> HIDE DEF js, ts
        <3> USE <3>3
        <3> WITNESS js \in Seq(JobStates), ts \in Seq(Copies), "Failed" \in {"Running", "Failed"}
        <3> QED  BY <3>1, <3>2, <3>3
    <2> QED  BY <2>1, <2>2
<1>3. /\ phase'[w] = ph /\ job'[w] = js /\ tmp'[w] = ts /\ list'[w] = l /\ bucket'[w] = b /\ before'[w] = Ran
      /\ \A v \in Workflows : v # w =>
             /\ phase'[v] = phase[v] /\ job'[v] = job[v] /\ tmp'[v] = tmp[v]
             /\ list'[v] = list[v] /\ bucket'[v] = bucket[v] /\ before'[v] = before[v]
    BY <1>0, <1>1, <1>2 DEF Types
<1>4. Types'  BY <1>0, <1>1, <1>2 DEF Types
<1>5. JobsFitList'
    <2> SUFFICES ASSUME NEW v \in Workflows
                 PROVE  /\ Len(tmp'[v]) = Len(job'[v]) /\ Len(job'[v]) <= Len(list'[v])
                        /\ phase'[v] = "Running" => Len(job'[v]) = Len(list'[v])
                        /\ phase'[v] = "none" => Len(job'[v]) = 0 /\ waitFor'[v] = 1 /\ before'[v] = {}
                        /\ waitFor'[v] <= Len(list'[v]) + 1
        BY DEF JobsFitList
    <2>1. CASE v = w
        <3>1. waitFor'[w] = 1 /\ Len(l) \in Nat  BY <1>0, <1>1 DEF JobsFitList
        <3> QED  BY <1>2, <1>3, <2>1, <3>1
    <2>2. CASE v # w  BY <1>0, <1>1, <1>3, <2>2 DEF JobsFitList
    <2> QED  BY <2>1, <2>2
<1>6. Len(job[w]) = 0  BY <1>0, <1>1 DEF JobsFitList
<1>7. DataComesFromWriter'
    <2> SUFFICES ASSUME NEW f \in Files
                 PROVE  IF writer[f] = NoJob THEN data[f] = Absent
                        ELSE Wrote(f, writer[f][1], writer[f][2])'
        BY <1>1 DEF DataComesFromWriter
    <2>1. IF writer[f] = NoJob THEN data[f] = Absent ELSE Wrote(f, writer[f][1], writer[f][2])
        BY DEF IInv, DataComesFromWriter
    <2>2. CASE writer[f] = NoJob  BY <2>1, <2>2
    <2>3. CASE writer[f] # NoJob
        <3>1. writer[f][1] \in Workflows  BY <1>0, <2>3 DEF Types, Jobs
        <3>2. PICK v, j : writer[f][1] = v /\ writer[f][2] = j /\ Wrote(f, v, j)
            BY <2>1, <2>3, <3>1
        <3>3. v \in Workflows /\ v # w  BY <3>1, <1>6, <3>2 DEF Wrote
        <3>4. Wrote(f, v, j)'
            BY <1>1, <1>3, <3>2, <3>3 DEF Wrote
        <3> QED  BY <1>1, <2>3, <3>2, <3>4
    <2> QED  BY <2>2, <2>3
<1>8. VersionsWereUploaded'
    <2> SUFFICES ASSUME NEW v \in Workflows, NEW i \in 1..Len(job'[v])
                 PROVE  tmp'[v][i].version <= uploaded[list'[v][i]]
        BY <1>1 DEF VersionsWereUploaded
    <2>1. CASE v = w
        <3>1. tmp'[v][i].version = 0  BY <1>2, <1>3, <2>1, AbsentIsCopy
        <3>2. i \in 1..Len(l)  BY <1>0, <1>2, <1>3, <2>1
        <3>3. uploaded[l[i]] \in Nat  BY <1>0, <3>2, ElementOfSeq DEF Types
        <3> QED  BY <1>3, <2>1, <3>1, <3>3
    <2>2. CASE v # w  BY <1>3, <2>2 DEF IInv, VersionsWereUploaded
    <2> QED  BY <2>1, <2>2
<1>9. FetchedInTurn'
    <2> SUFFICES ASSUME NEW u \in Workflows, NEW v \in before'[u]
                 PROVE  /\ phase'[v] \in {"Succeeded", "Failed"}
                        /\ \A i \in 1..Len(job'[u]), j \in 1..Len(job'[v]) :
                               job'[u][i] = "fetched" /\ list'[v][j] = list'[u][i] =>
                                   NotBehind(list'[u][i], tmp'[v][j].version, tmp'[u][i].version)
        BY <1>1 DEF FetchedInTurn, NotBehind
    <2>1. CASE u = w  BY <1>1, <1>2, <1>3, <2>1
    <2>2. CASE u # w
        <3>1. v \in before[u] /\ v \in Workflows  BY <1>0, <1>3, <2>2 DEF Types
        <3>2. v # w  BY <1>1, <3>1 DEF IInv, FetchedInTurn
        <3>3. /\ phase[v] \in {"Succeeded", "Failed"}
              /\ \A i \in 1..Len(job[u]), j \in 1..Len(job[v]) :
                     job[u][i] = "fetched" /\ list[v][j] = list[u][i] =>
                         NotBehind(list[u][i], tmp[v][j].version, tmp[u][i].version)
            BY <3>1 DEF IInv, FetchedInTurn
        <3> QED  BY <1>3, <2>2, <3>1, <3>2, <3>3
    <2> QED  BY <2>1, <2>2
<1>10. WaitedForIsDone'
    <2> SUFFICES ASSUME NEW v \in Workflows, phase'[v] = "Running", NEW i \in 1..Len(job'[v]), i < waitFor[v]
                 PROVE  job'[v][i] = "ok"
        BY <1>1 DEF WaitedForIsDone
    <2>1. v # w  BY <1>0, <1>1 DEF JobsFitList
    <2> QED  BY <1>3, <2>1 DEF IInv, WaitedForIsDone
<1> QED  BY <1>4, <1>5, <1>7, <1>8, <1>9, <1>10 DEF IInv

\* What every step of a job but Download preserves.
LEMMA JobFrame ==
    ASSUME IInv, NEW w \in Workflows, NEW i, NEW b, NEW s \in JobStates \ Ended, NEW t \in JobStates,
           JobAt(w, i, b, s), JobGoes(w, i, t), t # "fetched",
           data' \in [Files -> Copies], egress' \in [Files -> Copies],
           writer' \in [Files -> Jobs \cup {NoJob}],
           UNCHANGED <<uploaded, present, phase, bucket, list, tmp, waitFor, before>>
    PROVE  Types' /\ JobsFitList' /\ VersionsWereUploaded' /\ FetchedInTurn' /\ WaitedForIsDone'
<1>0. Types /\ JobsFitList  BY DEF IInv
<1>1. i \in 1..Len(job[w]) /\ job[w][i] = s  BY <1>0, JobAtFacts
<1>2. /\ job' \in [Workflows -> Seq(JobStates)]
      /\ \A v \in Workflows : Len(job'[v]) = Len(job[v])
      /\ \A v \in Workflows : \A j \in 1..Len(job[v]) :
             job'[v][j] = IF v = w /\ j = i THEN t ELSE job[v][j]
    BY <1>0, <1>1, SetJob
<1>3. Types'  BY <1>0, <1>2 DEF Types
<1>4. JobsFitList'  BY <1>0, <1>2 DEF JobsFitList
<1>5. VersionsWereUploaded'  BY <1>2 DEF IInv, VersionsWereUploaded
<1>6. FetchedInTurn'
    <2> SUFFICES ASSUME NEW u \in Workflows, NEW v \in before[u]
                 PROVE  /\ phase[v] \in {"Succeeded", "Failed"}
                        /\ \A k \in 1..Len(job'[u]), j \in 1..Len(job'[v]) :
                               job'[u][k] = "fetched" /\ list[v][j] = list[u][k] =>
                                   NotBehind(list[u][k], tmp[v][j].version, tmp[u][k].version)
        BY DEF FetchedInTurn, NotBehind
    <2>1. v \in Workflows  BY <1>0 DEF Types
    <2>2. /\ phase[v] \in {"Succeeded", "Failed"}
          /\ \A k \in 1..Len(job[u]), j \in 1..Len(job[v]) :
                 job[u][k] = "fetched" /\ list[v][j] = list[u][k] =>
                     NotBehind(list[u][k], tmp[v][j].version, tmp[u][k].version)
        BY DEF IInv, FetchedInTurn
    <2>3. Len(job'[u]) = Len(job[u]) /\ Len(job'[v]) = Len(job[v])  BY <1>2, <2>1
    <2>4. \A k \in 1..Len(job[u]) : job'[u][k] = "fetched" => job[u][k] = "fetched"  BY <1>2
    <2> QED  BY <2>2, <2>3, <2>4
<1>7. WaitedForIsDone'
    <2>1. s # "ok"  BY DEF Ended
    <2>2. \A v \in Workflows : \A j \in 1..Len(job[v]) : job[v][j] = "ok" => job'[v][j] = "ok"
        BY <1>1, <1>2, <2>1
    <2> QED  BY <1>2, <2>2 DEF IInv, WaitedForIsDone
<1> QED  BY <1>3, <1>4, <1>5, <1>6, <1>7

\* A job that has not moved its file wrote none.
LEMMA WriterOf ==
    ASSUME IInv, NEW f \in Files, writer[f] # NoJob
    PROVE  /\ writer[f][1] \in Workflows /\ writer[f][2] \in Nat \ {0}
           /\ writer[f] = <<writer[f][1], writer[f][2]>>
           /\ Wrote(f, writer[f][1], writer[f][2])
<1>1. writer[f] \in Jobs  BY DEF IInv, Types
<1>2. /\ writer[f][1] \in Workflows /\ writer[f][2] \in Nat \ {0}
      /\ writer[f] = <<writer[f][1], writer[f][2]>>
    BY <1>1 DEF Jobs
<1> QED  BY <1>2 DEF IInv, DataComesFromWriter

\* What the last writer of a file needs to keep, when other jobs go on.
LEMMA WroteKept ==
    ASSUME NEW f \in Files, NEW w \in Workflows, NEW i, Wrote(f, w, i),
           data'[f] = data[f], UNCHANGED <<bucket, list>>,
           Len(job'[w]) = Len(job[w]), tmp'[w][i] = tmp[w][i],
           \/ job'[w][i] = job[w][i]
           \/ job'[w][i] \in {"failed", "killed"}
    PROVE  Wrote(f, w, i)'
<1>1. job'[w][i] \in {"moving"} \cup Ended  BY DEF Wrote, Ended
<1>2. job'[w][i] = "ok" => data[f] = tmp[w][i]  BY DEF Wrote
<1> QED  BY <1>1, <1>2 DEF Wrote

LEMMA JobFailsStep ==
    ASSUME IInv, NEW w \in Workflows, NEW i, JobFails(w, i)
    PROVE  IInv'
<1>0. Types /\ JobsFitList  BY DEF IInv
<1>1. /\ JobGoes(w, i, "failed")
      /\ UNCHANGED <<uploaded, present, data, writer, egress, phase, bucket, list, tmp, waitFor, before>>
    BY DEF JobFails
<1>2. PICK b : JobAt(w, i, b, "started")  BY DEF JobFails
<1>3. "started" \in JobStates \ Ended /\ "failed" \in JobStates  BY DEF JobStates, Ended
<1>4. /\ data' \in [Files -> Copies] /\ egress' \in [Files -> Copies]
      /\ writer' \in [Files -> Jobs \cup {NoJob}]
    BY <1>0, <1>1 DEF Types
<1>5. Types' /\ JobsFitList' /\ VersionsWereUploaded' /\ FetchedInTurn' /\ WaitedForIsDone'
    BY <1>1, <1>2, <1>3, <1>4, JobFrame
<1>6. i \in 1..Len(job[w])  BY <1>0, <1>2, JobAtFacts
<1>7. \A v \in Workflows : /\ Len(job'[v]) = Len(job[v])
                           /\ \A j \in 1..Len(job[v]) :
                                  job'[v][j] = IF v = w /\ j = i THEN "failed" ELSE job[v][j]
    BY <1>0, <1>1, <1>3, <1>6, SetJob
<1>8. DataComesFromWriter'
    <2> SUFFICES ASSUME NEW f \in Files, writer[f] # NoJob
                 PROVE  Wrote(f, writer[f][1], writer[f][2])'
        BY <1>1 DEF IInv, DataComesFromWriter
    <2>1. writer[f][1] \in Workflows /\ Wrote(f, writer[f][1], writer[f][2])  BY WriterOf
    <2>2. writer[f][2] \in 1..Len(job[writer[f][1]])  BY <2>1 DEF Wrote
    <2> QED  BY <1>1, <1>7, <2>1, <2>2, WroteKept
<1> QED  BY <1>5, <1>8 DEF IInv

LEMMA MoveStartsStep ==
    ASSUME IInv, NEW w \in Workflows, NEW i, MoveStarts(w, i)
    PROVE  IInv'
<1>0. Types /\ JobsFitList  BY DEF IInv
<1> DEFINE n == list[w][i]
           c == [tmp[w][i] EXCEPT !.whole = FALSE]
<1>1. /\ JobAt(w, i, "ingress", "fetched") /\ JobGoes(w, i, "moving")
      /\ data' = [data EXCEPT ![n] = c] /\ writer' = [writer EXCEPT ![n] = <<w, i>>]
      /\ UNCHANGED <<uploaded, present, egress, phase, bucket, list, tmp, waitFor, before>>
    BY DEF MoveStarts
<1>2. "fetched" \in JobStates \ Ended /\ "moving" \in JobStates  BY DEF JobStates, Ended
<1>3. /\ i \in 1..Len(job[w]) /\ i \in Nat \ {0} /\ job[w][i] = "fetched" /\ bucket[w] = "ingress"
      /\ n \in Files /\ tmp[w][i] \in Copies
    BY <1>0, <1>1, JobAtFacts
<1>4. c \in Copies /\ c.version = tmp[w][i].version  BY <1>3 DEF Copies
<1> HIDE DEF c, n
<1>5. <<w, i>> \in Jobs /\ <<w, i>> # NoJob  BY <1>3 DEF Jobs, NoJob
<1>6. /\ data' \in [Files -> Copies] /\ egress' \in [Files -> Copies]
      /\ writer' \in [Files -> Jobs \cup {NoJob}]
    BY <1>0, <1>1, <1>3, <1>4, <1>5 DEF Types
<1>7. Types' /\ JobsFitList' /\ VersionsWereUploaded' /\ FetchedInTurn' /\ WaitedForIsDone'
    BY <1>1, <1>2, <1>6, JobFrame
<1>8. \A v \in Workflows : /\ Len(job'[v]) = Len(job[v])
                           /\ \A j \in 1..Len(job[v]) :
                                  job'[v][j] = IF v = w /\ j = i THEN "moving" ELSE job[v][j]
    BY <1>0, <1>1, <1>2, <1>3, SetJob
<1>9. DataComesFromWriter'
    <2> SUFFICES ASSUME NEW f \in Files
                 PROVE  IF writer'[f] = NoJob THEN data'[f] = Absent
                        ELSE Wrote(f, writer[f][1], writer[f][2])'
        BY DEF DataComesFromWriter
    <2>1. CASE f = n
        <3>1. data'[f] = c /\ writer'[f] = <<w, i>>  BY <1>0, <1>1, <1>3, <2>1 DEF Types
        <3>2. job'[w][i] = "moving" /\ Len(job'[w]) = Len(job[w])  BY <1>3, <1>8
        <3>3. /\ data'[f].version = tmp'[w][i].version
              /\ list'[w][i] = f /\ bucket'[w] = "ingress" /\ i \in 1..Len(job'[w])
            BY <1>1, <1>3, <1>4, <2>1, <3>1, <3>2 DEF n
        <3>4. Wrote(f, w, i)'  BY <3>2, <3>3 DEF Wrote
        <3> QED  BY <1>5, <3>1, <3>4
    <2>2. CASE f # n
        <3>1. data'[f] = data[f] /\ writer'[f] = writer[f]  BY <1>0, <1>1, <2>2 DEF Types
        <3>2. CASE writer[f] = NoJob  BY <3>1, <3>2 DEF IInv, DataComesFromWriter
        <3>3. CASE writer[f] # NoJob
            <4>1. PICK v \in Workflows, j \in Nat : writer[f] = <<v, j>> /\ Wrote(f, v, j)
                BY <3>3, WriterOf
            <4>2. j \in 1..Len(job[v]) /\ ~(v = w /\ j = i)  BY <2>2, <4>1 DEF Wrote, n
            <4>3. Wrote(f, v, j)'  BY <1>1, <1>8, <3>1, <4>1, <4>2, WroteKept
            <4>4. writer'[f] = <<v, j>>  BY <3>1, <4>1
            <4> QED  BY <3>3, <4>1, <4>3, <4>4
        <3> QED  BY <3>2, <3>3
    <2> QED  BY <2>1, <2>2
<1> QED  BY <1>7, <1>9 DEF IInv

LEMMA MoveEndsStep ==
    ASSUME IInv, NEW w \in Workflows, NEW i, MoveEnds(w, i)
    PROVE  IInv'
<1>0. Types /\ JobsFitList  BY DEF IInv
<1> DEFINE n == list[w][i]
<1>1. /\ JobAt(w, i, "ingress", "moving") /\ JobGoes(w, i, "ok")
      /\ data' = IF writer[n] = <<w, i>> THEN [data EXCEPT ![n] = tmp[w][i]] ELSE data
      /\ UNCHANGED <<uploaded, present, writer, egress, phase, bucket, list, tmp, waitFor, before>>
    BY DEF MoveEnds
<1>2. "moving" \in JobStates \ Ended /\ "ok" \in JobStates  BY DEF JobStates, Ended
<1>3. /\ i \in 1..Len(job[w]) /\ i \in Nat \ {0} /\ job[w][i] = "moving" /\ bucket[w] = "ingress"
      /\ n \in Files /\ tmp[w][i] \in Copies
    BY <1>0, <1>1, JobAtFacts
<1> HIDE DEF n
<1>4. /\ data' \in [Files -> Copies] /\ egress' \in [Files -> Copies]
      /\ writer' \in [Files -> Jobs \cup {NoJob}]
    BY <1>0, <1>1, <1>3 DEF Types
<1>5. Types' /\ JobsFitList' /\ VersionsWereUploaded' /\ FetchedInTurn' /\ WaitedForIsDone'
    BY <1>1, <1>2, <1>4, JobFrame
<1>6. \A v \in Workflows : /\ Len(job'[v]) = Len(job[v])
                           /\ \A j \in 1..Len(job[v]) :
                                  job'[v][j] = IF v = w /\ j = i THEN "ok" ELSE job[v][j]
    BY <1>0, <1>1, <1>2, <1>3, SetJob
<1>7. DataComesFromWriter'
    <2> SUFFICES ASSUME NEW f \in Files
                 PROVE  IF writer[f] = NoJob THEN data'[f] = Absent
                        ELSE Wrote(f, writer[f][1], writer[f][2])'
        BY <1>1 DEF DataComesFromWriter
    <2>1. CASE writer[f] = <<w, i>>
        <3>1. Wrote(f, w, i) /\ writer[f] # NoJob  BY <1>3, <2>1, WriterOf DEF NoJob
        <3>2. f = n  BY <3>1 DEF Wrote, n
        <3>3. data'[f] = tmp[w][i]  BY <1>0, <1>1, <2>1, <3>2 DEF Types
        <3>4. job'[w][i] = "ok" /\ Len(job'[w]) = Len(job[w])  BY <1>3, <1>6
        <3>5. /\ data'[f] = tmp'[w][i] /\ list'[w][i] = f /\ bucket'[w] = "ingress"
              /\ i \in 1..Len(job'[w])
            BY <1>1, <1>3, <3>2, <3>3, <3>4 DEF n
        <3>6. Wrote(f, w, i)'  BY <3>4, <3>5 DEF Wrote, Ended
        <3> QED  BY <1>1, <2>1, <3>1, <3>6
    <2>2. CASE writer[f] # <<w, i>>
        <3>1. data'[f] = data[f]  BY <1>0, <1>1, <2>2 DEF Types
        <3>2. CASE writer[f] = NoJob  BY <3>1, <3>2 DEF IInv, DataComesFromWriter
        <3>3. CASE writer[f] # NoJob
            <4>1. /\ writer[f][1] \in Workflows /\ Wrote(f, writer[f][1], writer[f][2])
                  /\ ~(writer[f][1] = w /\ writer[f][2] = i)
                BY <2>2, <3>3, WriterOf
            <4>2. writer[f][2] \in 1..Len(job[writer[f][1]])  BY <4>1 DEF Wrote
            <4>3. Wrote(f, writer[f][1], writer[f][2])'
                BY <1>1, <1>6, <3>1, <4>1, <4>2, WroteKept
            <4> QED  BY <3>3, <4>3
        <3> QED  BY <3>2, <3>3
    <2> QED  BY <2>1, <2>2
<1> QED  BY <1>5, <1>7 DEF IInv

LEMMA MoveBreaksStep ==
    ASSUME IInv, NEW w \in Workflows, NEW i, MoveBreaks(w, i)
    PROVE  IInv'
<1>0. Types /\ JobsFitList  BY DEF IInv
<1>1. /\ JobAt(w, i, "ingress", "moving") /\ JobGoes(w, i, "failed")
      /\ UNCHANGED <<uploaded, present, data, writer, egress, phase, bucket, list, tmp, waitFor, before>>
    BY DEF MoveBreaks
<1>2. "moving" \in JobStates \ Ended /\ "failed" \in JobStates  BY DEF JobStates, Ended
<1>3. /\ data' \in [Files -> Copies] /\ egress' \in [Files -> Copies]
      /\ writer' \in [Files -> Jobs \cup {NoJob}]
    BY <1>0, <1>1 DEF Types
<1>4. Types' /\ JobsFitList' /\ VersionsWereUploaded' /\ FetchedInTurn' /\ WaitedForIsDone'
    BY <1>1, <1>2, <1>3, JobFrame
<1>5. i \in 1..Len(job[w])  BY <1>0, <1>1, JobAtFacts
<1>6. \A v \in Workflows : /\ Len(job'[v]) = Len(job[v])
                           /\ \A j \in 1..Len(job[v]) :
                                  job'[v][j] = IF v = w /\ j = i THEN "failed" ELSE job[v][j]
    BY <1>0, <1>1, <1>2, <1>5, SetJob
<1>7. DataComesFromWriter'
    <2> SUFFICES ASSUME NEW f \in Files, writer[f] # NoJob
                 PROVE  Wrote(f, writer[f][1], writer[f][2])'
        BY <1>1 DEF IInv, DataComesFromWriter
    <2>1. writer[f][1] \in Workflows /\ Wrote(f, writer[f][1], writer[f][2])  BY WriterOf
    <2>2. writer[f][2] \in 1..Len(job[writer[f][1]])  BY <2>1 DEF Wrote
    <2> QED  BY <1>1, <1>6, <2>1, <2>2, WroteKept
<1> QED  BY <1>4, <1>7 DEF IInv

LEMMA SendStep ==
    ASSUME IInv, NEW w \in Workflows, NEW i, Send(w, i)
    PROVE  IInv'
<1>0. Types /\ JobsFitList  BY DEF IInv
<1> DEFINE n == list[w][i]
<1>1. /\ JobAt(w, i, "egress", "started") /\ egress' = [egress EXCEPT ![n] = data[n]]
      /\ UNCHANGED <<uploaded, present, data, writer, phase, bucket, list, tmp, waitFor, before>>
    BY DEF Send
<1>2. PICK t \in {"ok", "failed"} : JobGoes(w, i, t)  BY DEF Send
<1>3. "started" \in JobStates \ Ended /\ t \in JobStates  BY DEF JobStates, Ended
<1>4. i \in 1..Len(job[w]) /\ bucket[w] = "egress" /\ n \in Files  BY <1>0, <1>1, JobAtFacts
<1> HIDE DEF n
<1>5. /\ data' \in [Files -> Copies] /\ egress' \in [Files -> Copies]
      /\ writer' \in [Files -> Jobs \cup {NoJob}]
    BY <1>0, <1>1, <1>4 DEF Types
<1>6. Types' /\ JobsFitList' /\ VersionsWereUploaded' /\ FetchedInTurn' /\ WaitedForIsDone'
    BY <1>1, <1>2, <1>3, <1>5, JobFrame
<1>7. \A v \in Workflows : /\ Len(job'[v]) = Len(job[v])
                           /\ \A j \in 1..Len(job[v]) :
                                  job'[v][j] = IF v = w /\ j = i THEN t ELSE job[v][j]
    BY <1>0, <1>2, <1>3, <1>4, SetJob
<1>8. DataComesFromWriter'
    <2> SUFFICES ASSUME NEW f \in Files, writer[f] # NoJob
                 PROVE  Wrote(f, writer[f][1], writer[f][2])'
        BY <1>1 DEF IInv, DataComesFromWriter
    <2>1. PICK v \in Workflows, j \in Nat : writer[f] = <<v, j>> /\ Wrote(f, v, j)  BY WriterOf
    <2>2. j \in 1..Len(job[v]) /\ v # w  BY <1>4, <2>1 DEF Wrote
    <2>3. Wrote(f, v, j)'  BY <1>1, <1>7, <2>1, <2>2, WroteKept
    <2> QED  BY <1>1, <2>1, <2>3
<1> QED  BY <1>6, <1>8 DEF IInv

LEMMA DownloadStep ==
    ASSUME IInv, NEW w \in Workflows, NEW i, Download(w, i)
    PROVE  IInv'
<1>0. Types /\ JobsFitList  BY DEF IInv
<1> DEFINE n == list[w][i]
<1>1. /\ JobAt(w, i, "ingress", "started") /\ JobGoes(w, i, "fetched")
      /\ UNCHANGED <<uploaded, present, data, writer, egress, phase, bucket, list, waitFor, before>>
    BY DEF Download
<1>2. /\ i \in 1..Len(job[w]) /\ i \in 1..Len(tmp[w]) /\ n \in Files
      /\ job[w][i] = "started" /\ phase[w] = "Running"
    BY <1>0, <1>1, JobAtFacts
<1>3. PICK c \in Copies : /\ c.version \in Nat /\ IsCurrent(n, c.version)
                          /\ c.version <= uploaded[n] /\ GetsTmp(w, i, c)
    <2>1. PICK t \in present[n], whole \in BOOLEAN :
              IsCurrent(n, t) /\ tmp' = [tmp EXCEPT ![w][i] = [version |-> t, whole |-> whole]]
        BY DEF Download
    <2>2. t \in Nat /\ uploaded[n] \in Nat /\ t \in 1..uploaded[n]  BY <1>0, <1>2 DEF Types
    <2> DEFINE d == [version |-> t, whole |-> whole]
    <2>3. d \in Copies /\ d.version = t  BY <2>2 DEF Copies
    <2>4. GetsTmp(w, i, d)  BY <2>1 DEF GetsTmp
    <2> HIDE DEF d
    <2> QED  BY <2>1, <2>2, <2>3, <2>4
<1> HIDE DEF n
<1>4. /\ tmp' \in [Workflows -> Seq(Copies)]
      /\ \A v \in Workflows : Len(tmp'[v]) = Len(tmp[v])
      /\ \A v \in Workflows : \A j \in 1..Len(tmp[v]) :
             tmp'[v][j] = IF v = w /\ j = i THEN c ELSE tmp[v][j]
    BY <1>0, <1>2, <1>3, SetTmp
<1>5. /\ job' \in [Workflows -> Seq(JobStates)]
      /\ \A v \in Workflows : Len(job'[v]) = Len(job[v])
      /\ \A v \in Workflows : \A j \in 1..Len(job[v]) :
             job'[v][j] = IF v = w /\ j = i THEN "fetched" ELSE job[v][j]
    <2>1. "fetched" \in JobStates  BY DEF JobStates
    <2> QED  BY <1>0, <1>1, <1>2, <2>1, SetJob
<1>6. \A v \in Workflows : Len(tmp[v]) = Len(job[v])  BY <1>0 DEF JobsFitList
<1>7. Types'  BY <1>0, <1>1, <1>4, <1>5 DEF Types
<1>8. JobsFitList'  BY <1>0, <1>1, <1>4, <1>5 DEF JobsFitList
<1>9. DataComesFromWriter'
    <2> SUFFICES ASSUME NEW f \in Files, writer[f] # NoJob
                 PROVE  Wrote(f, writer[f][1], writer[f][2])'
        BY <1>1 DEF IInv, DataComesFromWriter
    <2>1. PICK v \in Workflows, j \in Nat : writer[f] = <<v, j>> /\ Wrote(f, v, j)  BY WriterOf
    <2>2. j \in 1..Len(job[v]) /\ ~(v = w /\ j = i)  BY <1>2, <2>1 DEF Wrote, Ended
    <2>3. Wrote(f, v, j)'  BY <1>1, <1>4, <1>5, <1>6, <2>1, <2>2, WroteKept
    <2> QED  BY <1>1, <2>1, <2>3
<1>10. VersionsWereUploaded'
    <2> SUFFICES ASSUME NEW v \in Workflows, NEW j \in 1..Len(job[v])
                 PROVE  tmp'[v][j].version <= uploaded[list[v][j]]
        BY <1>1, <1>5 DEF VersionsWereUploaded
    <2>1. tmp[v][j].version <= uploaded[list[v][j]]  BY DEF IInv, VersionsWereUploaded
    <2>2. CASE v = w /\ j = i
        <3>1. c.version <= uploaded[list[v][j]]  BY <1>3, <2>2 DEF n
        <3>2. tmp'[v][j] = c  BY <1>4, <1>6, <2>2
        <3> QED  BY <3>1, <3>2
    <2>3. CASE ~(v = w /\ j = i)  BY <1>4, <1>6, <2>1, <2>3
    <2> QED  BY <2>2, <2>3
<1>11. FetchedInTurn'
    <2> SUFFICES ASSUME NEW u \in Workflows, NEW v \in before[u]
                 PROVE  /\ phase[v] \in {"Succeeded", "Failed"}
                        /\ \A k \in 1..Len(job[u]), j \in 1..Len(job[v]) :
                               job'[u][k] = "fetched" /\ list[v][j] = list[u][k] =>
                                   NotBehind(list[u][k], tmp'[v][j].version, tmp'[u][k].version)
        <3>1. \A u \in Workflows : before[u] \subseteq Workflows  BY <1>0 DEF Types
        <3> QED  BY <1>1, <1>5, <3>1 DEF FetchedInTurn, NotBehind
    <2>1. v \in Workflows  BY <1>0 DEF Types
    <2>2. /\ phase[v] \in {"Succeeded", "Failed"}
          /\ \A k \in 1..Len(job[u]), j \in 1..Len(job[v]) :
                 job[u][k] = "fetched" /\ list[v][j] = list[u][k] =>
                     NotBehind(list[u][k], tmp[v][j].version, tmp[u][k].version)
        BY DEF IInv, FetchedInTurn
    <2>3. v # w  BY <1>2, <2>2
    <2>4. ASSUME NEW k \in 1..Len(job[u]), NEW j \in 1..Len(job[v]),
                 job'[u][k] = "fetched", list[v][j] = list[u][k]
          PROVE  NotBehind(list[u][k], tmp'[v][j].version, tmp'[u][k].version)
        <3>1. tmp'[v][j] = tmp[v][j]  BY <1>4, <1>6, <2>1, <2>3
        <3>2. CASE u = w /\ k = i
            <4>1. tmp'[u][k] = c  BY <1>4, <1>6, <3>2
            <4>2. list[u][k] = n  BY <3>2 DEF n
            <4> QED  BY <1>3, <3>1, <4>1, <4>2 DEF NotBehind, IsCurrent
        <3>3. CASE ~(u = w /\ k = i)
            <4>1. tmp'[u][k] = tmp[u][k] /\ job'[u][k] = job[u][k]  BY <1>4, <1>5, <1>6, <3>3
            <4> QED  BY <2>2, <2>4, <3>1, <4>1
        <3> QED  BY <3>2, <3>3
    <2> QED  BY <2>2, <2>4
<1>12. WaitedForIsDone'
    <2>1. \A v \in Workflows : \A j \in 1..Len(job[v]) : job[v][j] = "ok" => job'[v][j] = "ok"
        BY <1>2, <1>5
    <2> QED  BY <1>1, <1>5, <2>1 DEF IInv, WaitedForIsDone
<1> QED  BY <1>7, <1>8, <1>9, <1>10, <1>11, <1>12 DEF IInv

\* The script's steps and the loss of the pod leave files and copies alone.
LEMMA WaitOkStep ==
    ASSUME IInv, NEW w \in Workflows, WaitOk(w)
    PROVE  IInv'
<1>0. Types /\ JobsFitList  BY DEF IInv
<1>1. /\ phase[w] = "Running" /\ waitFor[w] <= Len(list[w]) /\ job[w][waitFor[w]] = "ok"
      /\ waitFor' = [waitFor EXCEPT ![w] = @ + 1]
      /\ UNCHANGED <<uploaded, present, data, writer, egress, phase, bucket, list, job, tmp, before>>
    BY DEF WaitOk
<1>2. /\ waitFor[w] \in Nat \ {0} /\ waitFor'[w] = waitFor[w] + 1
      /\ waitFor' \in [Workflows -> Nat \ {0}]
      /\ \A v \in Workflows : v # w => waitFor'[v] = waitFor[v]
    BY <1>0, <1>1 DEF Types
<1>3. Types'  BY <1>0, <1>1, <1>2 DEF Types
<1>4. JobsFitList'
    <2> SUFFICES ASSUME NEW v \in Workflows
                 PROVE  /\ Len(tmp[v]) = Len(job[v]) /\ Len(job[v]) <= Len(list[v])
                        /\ phase[v] = "Running" => Len(job[v]) = Len(list[v])
                        /\ phase[v] = "none" => Len(job[v]) = 0 /\ waitFor'[v] = 1 /\ before[v] = {}
                        /\ waitFor'[v] <= Len(list[v]) + 1
        BY <1>1 DEF JobsFitList
    <2>1. list[v] \in Seq(Files)  BY <1>0 DEF Types
    <2>2. Len(list[v]) \in Nat  BY <2>1
    <2>3. CASE v = w  BY <1>0, <1>1, <1>2, <2>2, <2>3 DEF JobsFitList
    <2>4. CASE v # w  BY <1>0, <1>2, <2>4 DEF JobsFitList
    <2> QED  BY <2>3, <2>4
<1>5. DataComesFromWriter' /\ VersionsWereUploaded' /\ FetchedInTurn'
    BY <1>1 DEF IInv, DataComesFromWriter, Wrote, VersionsWereUploaded, FetchedInTurn, NotBehind
<1>6. WaitedForIsDone'
    <2> SUFFICES ASSUME NEW v \in Workflows, phase[v] = "Running", NEW i \in 1..Len(job[v]), i < waitFor'[v]
                 PROVE  job[v][i] = "ok"
        BY <1>1 DEF WaitedForIsDone
    <2>1. i < waitFor[v] => job[v][i] = "ok"  BY DEF IInv, WaitedForIsDone
    <2>2. CASE v = w /\ ~(i < waitFor[v])
        <3>1. i = waitFor[w]  BY <1>2, <2>2
        <3> QED  BY <1>1, <2>2, <3>1
    <2>3. CASE v # w  BY <1>2, <2>1, <2>3
    <2> QED  BY <2>1, <2>2, <2>3
<1> QED  BY <1>3, <1>4, <1>5, <1>6 DEF IInv

\* The container ends early: WaitFails or PodLost.
LEMMA EndsEarlyStep ==
    ASSUME IInv, NEW w \in Workflows, WaitFails(w) \/ PodLost(w)
    PROVE  IInv'
<1>0. Types /\ JobsFitList  BY DEF IInv
<1>1. /\ phase[w] = "Running" /\ phase' = [phase EXCEPT ![w] = "Failed"] /\ Killed(w)
      /\ UNCHANGED <<uploaded, present, data, writer, egress, bucket, list, tmp, waitFor, before>>
    BY DEF WaitFails, PodLost
<1>2. /\ job' \in [Workflows -> Seq(JobStates)]
      /\ \A v \in Workflows : Len(job'[v]) = Len(job[v])
      /\ \A v \in Workflows : \A j \in 1..Len(job[v]) :
             job'[v][j] = IF v = w /\ job[v][j] \notin Ended THEN "killed" ELSE job[v][j]
    BY <1>0, <1>1, KilledEffect
<1>3. /\ phase' \in [Workflows -> {"none", "Running", "Succeeded", "Failed"}]
      /\ \A v \in Workflows : phase'[v] = IF v = w THEN "Failed" ELSE phase[v]
    BY <1>0, <1>1 DEF Types
<1>4. Types'  BY <1>0, <1>1, <1>2, <1>3 DEF Types
<1>5. JobsFitList'  BY <1>0, <1>1, <1>2, <1>3 DEF JobsFitList
<1>6. DataComesFromWriter'
    <2> SUFFICES ASSUME NEW f \in Files, writer[f] # NoJob
                 PROVE  Wrote(f, writer[f][1], writer[f][2])'
        BY <1>1 DEF IInv, DataComesFromWriter
    <2>1. PICK v \in Workflows, j \in Nat : writer[f] = <<v, j>> /\ Wrote(f, v, j)  BY WriterOf
    <2>2. j \in 1..Len(job[v])  BY <2>1 DEF Wrote
    <2>3. Wrote(f, v, j)'  BY <1>1, <1>2, <2>1, <2>2, WroteKept
    <2> QED  BY <1>1, <2>1, <2>3
<1>7. VersionsWereUploaded'  BY <1>1, <1>2 DEF IInv, VersionsWereUploaded
<1>8. FetchedInTurn'
    <2> SUFFICES ASSUME NEW u \in Workflows, NEW v \in before[u]
                 PROVE  /\ phase'[v] \in {"Succeeded", "Failed"}
                        /\ \A k \in 1..Len(job'[u]), j \in 1..Len(job'[v]) :
                               job'[u][k] = "fetched" /\ list[v][j] = list[u][k] =>
                                   NotBehind(list[u][k], tmp[v][j].version, tmp[u][k].version)
        BY <1>1 DEF FetchedInTurn, NotBehind
    <2>1. v \in Workflows  BY <1>0 DEF Types
    <2>2. /\ phase[v] \in {"Succeeded", "Failed"}
          /\ \A k \in 1..Len(job[u]), j \in 1..Len(job[v]) :
                 job[u][k] = "fetched" /\ list[v][j] = list[u][k] =>
                     NotBehind(list[u][k], tmp[v][j].version, tmp[u][k].version)
        BY DEF IInv, FetchedInTurn
    <2>3. Len(job'[u]) = Len(job[u]) /\ Len(job'[v]) = Len(job[v])  BY <1>2, <2>1
    <2>4. \A k \in 1..Len(job[u]) : job'[u][k] = "fetched" => job[u][k] = "fetched"  BY <1>2
    <2> QED  BY <1>3, <2>1, <2>2, <2>3, <2>4
<1>9. WaitedForIsDone'
    <2>1. \A v \in Workflows : \A j \in 1..Len(job[v]) : job[v][j] = "ok" => job'[v][j] = "ok"
        BY <1>2 DEF Ended
    <2>2. \A v \in Workflows : phase'[v] = "Running" => phase[v] = "Running"  BY <1>3
    <2> QED  BY <1>1, <1>2, <2>1, <2>2 DEF IInv, WaitedForIsDone
<1> QED  BY <1>4, <1>5, <1>6, <1>7, <1>8, <1>9 DEF IInv

LEMMA CompleteStep ==
    ASSUME IInv, NEW w \in Workflows, Complete(w)
    PROVE  IInv'
<1>0. Types /\ JobsFitList  BY DEF IInv
<1>1. /\ phase[w] = "Running" /\ phase' = [phase EXCEPT ![w] = "Succeeded"]
      /\ UNCHANGED <<uploaded, present, data, writer, egress, bucket, list, job, tmp, waitFor, before>>
    BY DEF Complete
<1>2. /\ phase' \in [Workflows -> {"none", "Running", "Succeeded", "Failed"}]
      /\ \A v \in Workflows : phase'[v] = IF v = w THEN "Succeeded" ELSE phase[v]
    BY <1>0, <1>1 DEF Types
<1>3. Types'  BY <1>0, <1>1, <1>2 DEF Types
<1>4. JobsFitList'  BY <1>0, <1>1, <1>2 DEF JobsFitList
<1>5. DataComesFromWriter' /\ VersionsWereUploaded'
    BY <1>1 DEF IInv, DataComesFromWriter, Wrote, VersionsWereUploaded
<1>6. FetchedInTurn'
    <2>1. \A u \in Workflows : before[u] \subseteq Workflows  BY <1>0 DEF Types
    <2>2. \A v \in Workflows : phase[v] \in {"Succeeded", "Failed"} => phase'[v] \in {"Succeeded", "Failed"}
        BY <1>2
    <2> QED  BY <1>1, <2>1, <2>2 DEF IInv, FetchedInTurn, NotBehind
<1>7. WaitedForIsDone'
    <2>1. \A v \in Workflows : phase'[v] = "Running" => phase[v] = "Running"  BY <1>2
    <2> QED  BY <1>1, <2>1 DEF IInv, WaitedForIsDone
<1> QED  BY <1>3, <1>4, <1>5, <1>6, <1>7 DEF IInv

LEMMA InvStep == IInv /\ [Next]_vars => IInv'
<1> SUFFICES ASSUME IInv, [Next]_vars PROVE IInv'  OBVIOUS
<1>1. CASE \E f \in Files : Upload(f)  BY <1>1, UploadStep
<1>6. CASE \E f \in Deleted : Delete(f) \/ \E n \in present[f] : DeleteVersion(f, n)
    BY <1>6, DeleteStep
<1>2. CASE \E w \in Workflows : \E b \in {"ingress", "egress", "other"}, l \in Lists[w] : Submit(w, b, l)
    BY <1>2, SubmitStep
<1>3. CASE \E w \in Workflows : \E i \in DOMAIN list[w] : JobStep(w, i)
    BY <1>3, DownloadStep, JobFailsStep, MoveStartsStep, MoveEndsStep, MoveBreaksStep, SendStep DEF JobStep
<1>4. CASE \E w \in Workflows : Script(w) \/ PodLost(w)
    BY <1>4, WaitOkStep, EndsEarlyStep, CompleteStep DEF Script
<1>5. CASE UNCHANGED vars
    BY <1>5 DEF vars, IInv, Types, JobsFitList, DataComesFromWriter, Wrote, VersionsWereUploaded,
                FetchedInTurn, NotBehind, WaitedForIsDone
<1> QED  BY <1>1, <1>2, <1>3, <1>4, <1>5, <1>6 DEF Next

LEMMA Invariance == Spec => []IInv
<1> QED  BY InvInit, InvStep, PTL DEF Spec

-----------------------------------------------------------------------------
\* The variables have their types; a running workflow has one job per entry of
\* its list and waits for one of them at a time.
THEOREM TypeCorrect == Spec => []TypeOK
<1>1. IInv => TypeOK
    <2> SUFFICES ASSUME IInv PROVE TypeOK  OBVIOUS
    <2>1. Types /\ JobsFitList  BY DEF IInv
    <2>2. ASSUME NEW w \in Workflows
          PROVE  /\ phase[w] = "Running" => DOMAIN job[w] = DOMAIN list[w]
                 /\ waitFor[w] <= Len(list[w]) + 1
        <3>1. job[w] \in Seq(JobStates) /\ list[w] \in Seq(Files)  BY <2>1 DEF Types
        <3>2. DOMAIN job[w] = 1..Len(job[w]) /\ DOMAIN list[w] = 1..Len(list[w])  BY <3>1
        <3> QED  BY <2>1, <3>2 DEF JobsFitList
    <2> QED  BY <2>1, <2>2 DEF TypeOK, Types
<1> QED  BY <1>1, Invariance, PTL

\* A file that is not whole, and that no running job is writing, was written by a
\* job that failed or was killed during its mv, or whose download was cut short:
\* copies of one file by any number of jobs never mix.
THEOREM HalfFilesHaveCause == Spec => []HalfFileHasCause
<1>1. IInv => HalfFileHasCause
    <2> SUFFICES ASSUME IInv, NEW f \in Files, ~data[f].whole, ~Writing(f)
                 PROVE  \E w \in Workflows : \E i \in DOMAIN list[w] :
                            /\ writer[f] = <<w, i>> /\ list[w][i] = f /\ bucket[w] = "ingress"
                            /\ \/ job[w][i] \in {"failed", "killed"}
                               \/ job[w][i] = "ok" /\ ~tmp[w][i].whole
        BY DEF HalfFileHasCause
    <2>1. writer[f] # NoJob  BY AbsentIsCopy DEF IInv, DataComesFromWriter
    <2>2. PICK w \in Workflows, i \in Nat : writer[f] = <<w, i>> /\ Wrote(f, w, i)  BY <2>1, WriterOf
    <2>3. list[w] \in Seq(Files) /\ job[w] \in Seq(JobStates) /\ Len(job[w]) <= Len(list[w])
        BY DEF IInv, Types, JobsFitList
    <2>4. i \in DOMAIN list[w]  BY <2>2, <2>3 DEF Wrote
    <2>5. job[w][i] # "moving"  BY <2>1, <2>2 DEF Writing
    <2>6. \/ job[w][i] = "failed" \/ job[w][i] = "killed"
          \/ job[w][i] = "ok" /\ data[f] = tmp[w][i]
        BY <2>2, <2>5 DEF Wrote, Ended
    <2>7. CASE job[w][i] = "ok" /\ data[f] = tmp[w][i]
        <3>1. ~tmp[w][i].whole  BY <2>7
        <3> QED  BY <2>2, <2>4, <2>7, <3>1 DEF Wrote
    <2>8. CASE job[w][i] = "failed" \/ job[w][i] = "killed"
        BY <2>2, <2>4, <2>8 DEF Wrote
    <2> QED  BY <2>6, <2>7, <2>8
<1> QED  BY <1>1, Invariance, PTL

\* A workflow never puts an older version of a file in place of the one that a
\* workflow brought which had ended before it was submitted, unless that version
\* was deleted from the bucket: with any number of versions, uploads and deletions.
THEOREM NeverOlder == Spec => NeverOlderInTurn
<1> DEFINE Mono == \A f \in Files : data'[f].version < data[f].version =>
                       \/ writer[f][1] \notin before[writer'[f][1]]
                       \/ data[f].version \notin present[f]
<1>1. IInv /\ [Next]_vars => Mono
    <2> SUFFICES ASSUME IInv, [Next]_vars, NEW f \in Files, data'[f].version < data[f].version
                 PROVE  \/ writer[f][1] \notin before[writer'[f][1]]
                        \/ data[f].version \notin present[f]
        OBVIOUS
    <2>0. Types /\ JobsFitList  BY DEF IInv
    <2>1. data[f] \in Copies /\ data[f].version \in Nat  BY <2>0 DEF Types, Copies
    <2>2. data'[f] # data[f]  BY <2>1
    <2>3. PICK w, i : w \in Workflows /\ (MoveStarts(w, i) \/ MoveEnds(w, i))
        <3>1. data' # data  BY <2>2
        <3> QED  BY <3>1 DEF Next, vars, Upload, Delete, DeleteVersion, Submit, JobStep, Download, JobFails, MoveBreaks, Send,
                             Script, WaitOk, WaitFails, Complete, PodLost
    <2>4. CASE MoveStarts(w, i)
        <3> DEFINE n == list[w][i]
                   c == [tmp[w][i] EXCEPT !.whole = FALSE]
        <3>1. /\ JobAt(w, i, "ingress", "fetched")
              /\ data' = [data EXCEPT ![n] = c] /\ writer' = [writer EXCEPT ![n] = <<w, i>>]
            BY <2>4 DEF MoveStarts
        <3>2. n \in Files /\ tmp[w][i] \in Copies /\ i \in 1..Len(job[w]) /\ job[w][i] = "fetched"
            BY <2>0, <2>3, <3>1, JobAtFacts
        <3>3. c.version = tmp[w][i].version /\ tmp[w][i].version \in Nat  BY <3>2 DEF Copies
        <3> HIDE DEF c
        <3>4. f = n /\ data'[f] = c  BY <2>0, <2>2, <3>1, <3>2 DEF Types
        <3>5. writer'[f] = <<w, i>>  BY <2>0, <3>1, <3>2, <3>4 DEF Types
        <3>6. writer[f] # NoJob  BY <2>1, <3>3, <3>4, AbsentIsCopy DEF IInv, DataComesFromWriter
        <3>7. PICK v \in Workflows, j \in Nat : writer[f] = <<v, j>> /\ Wrote(f, v, j)  BY <3>6, WriterOf
        <3>8. j \in 1..Len(job[v]) /\ list[v][j] = list[w][i] /\ data[f].version = tmp[v][j].version
            BY <3>4, <3>7 DEF Wrote
        <3>9. ASSUME v \in before[w] PROVE data[f].version \notin present[f]
            <4>1. NotBehind(f, tmp[v][j].version, tmp[w][i].version)
                BY <2>3, <3>2, <3>4, <3>8, <3>9 DEF IInv, FetchedInTurn, n
            <4>2. ~(tmp[v][j].version <= tmp[w][i].version)  BY <2>1, <3>3, <3>4, <3>8
            <4> QED  BY <3>8, <4>1, <4>2 DEF NotBehind
        <3> QED  BY <3>5, <3>7, <3>9
    <2>5. CASE MoveEnds(w, i)
        <3> DEFINE n == list[w][i]
        <3>1. data' = IF writer[n] = <<w, i>> THEN [data EXCEPT ![n] = tmp[w][i]] ELSE data
            BY <2>5 DEF MoveEnds
        <3>2. f = n /\ writer[f] = <<w, i>> /\ data'[f] = tmp[w][i]  BY <2>0, <2>2, <3>1 DEF Types
        <3>3. writer[f] # NoJob  BY <3>2 DEF NoJob
        <3>4. writer[f][1] = w /\ writer[f][2] = i  BY <3>2
        <3>5. Wrote(f, w, i)  BY <3>3, <3>4, WriterOf
        <3> QED  BY <2>1, <3>2, <3>5 DEF Wrote
    <2> QED  BY <2>3, <2>4, <2>5
<1>2. Mono => [Mono]_vars  OBVIOUS
<1> QED  BY <1>1, Invariance, PTL DEF Spec, NeverOlderInTurn

-----------------------------------------------------------------------------
(* The refinement.                                                          *)

\* What a step of a job does to the files that its workflow has copied.
LEMMA DoneByStep ==
    ASSUME IInv, NEW w \in Workflows, NEW i, NEW b, NEW s, NEW t \in JobStates,
           JobAt(w, i, b, s), s # "ok", JobGoes(w, i, t), list' = list
    PROVE  \A v \in Workflows :
               DoneBy(v)' = IF v = w /\ t = "ok" THEN DoneBy(w) \cup {list[w][i]} ELSE DoneBy(v)
<1>0. Types /\ JobsFitList  BY DEF IInv
<1>1. i \in 1..Len(job[w]) /\ job[w][i] = s  BY <1>0, JobAtFacts
<1>2. /\ job' \in [Workflows -> Seq(JobStates)]
      /\ \A v \in Workflows : Len(job'[v]) = Len(job[v])
      /\ \A v \in Workflows : \A j \in 1..Len(job[v]) :
             job'[v][j] = IF v = w /\ j = i THEN t ELSE job[v][j]
    BY <1>0, <1>1, SetJob
<1> SUFFICES ASSUME NEW v \in Workflows
             PROVE  DoneBy(v)' = IF v = w /\ t = "ok" THEN DoneBy(w) \cup {list[w][i]} ELSE DoneBy(v)
    OBVIOUS
<1>3. DOMAIN job'[v] = 1..Len(job[v]) /\ DOMAIN job[v] = 1..Len(job[v])  BY <1>0, <1>2 DEF Types
<1> DEFINE Ok == {j \in 1..Len(job[v]) : job[v][j] = "ok"}
           OkNext == {j \in 1..Len(job[v]) : job'[v][j] = "ok"}
<1>4. DoneBy(v) = {list[v][j] : j \in Ok} /\ DoneBy(v)' = {list[v][j] : j \in OkNext}
    BY <1>3 DEF DoneBy
<1>5. CASE v = w /\ t = "ok"
    <2>1. OkNext = Ok \cup {i}  BY <1>1, <1>2, <1>5
    <2> HIDE DEF Ok, OkNext
    <2> QED  BY <1>4, <1>5, <2>1
<1>6. CASE ~(v = w /\ t = "ok")
    <2>1. OkNext = Ok  BY <1>1, <1>2, <1>6
    <2> HIDE DEF Ok, OkNext
    <2> QED  BY <1>4, <1>6, <2>1
<1> QED  BY <1>5, <1>6

\* The abstract state.
Wanted == [w \in Workflows |-> Named(w)]
Copied == [w \in Workflows |-> DoneBy(w)]

LEMMA JobStepMaps ==
    ASSUME IInv, NEW w \in Workflows, NEW i, JobStep(w, i)
    PROVE  (\E f \in Files : T!Copy(w, f)) \/ UNCHANGED <<phase, Wanted, Copied>>
<1>0. Types /\ JobsFitList  BY DEF IInv
<1>1. PICK b \in {"ingress", "egress"}, s \in {"started", "fetched", "moving"}, t \in JobStates :
          JobAt(w, i, b, s) /\ JobGoes(w, i, t)
    <2>0. "fetched" \in JobStates /\ "failed" \in JobStates /\ "moving" \in JobStates /\ "ok" \in JobStates
        BY DEF JobStates, Ended
    <2>1. CASE Download(w, i)
        <3>1. JobAt(w, i, "ingress", "started") /\ JobGoes(w, i, "fetched")  BY <2>1 DEF Download
        <3> QED  BY <2>0, <3>1
    <2>2. CASE MoveStarts(w, i)
        <3>1. JobAt(w, i, "ingress", "fetched") /\ JobGoes(w, i, "moving")  BY <2>2 DEF MoveStarts
        <3> QED  BY <2>0, <3>1
    <2>3. CASE MoveEnds(w, i)
        <3>1. JobAt(w, i, "ingress", "moving") /\ JobGoes(w, i, "ok")  BY <2>3 DEF MoveEnds
        <3> QED  BY <2>0, <3>1
    <2>4. CASE MoveBreaks(w, i)
        <3>1. JobAt(w, i, "ingress", "moving") /\ JobGoes(w, i, "failed")  BY <2>4 DEF MoveBreaks
        <3> QED  BY <2>0, <3>1
    <2>5. CASE JobFails(w, i)
        <3>1. PICK b \in {"ingress", "egress"} : JobAt(w, i, b, "started") /\ JobGoes(w, i, "failed")
            BY <2>5 DEF JobFails
        <3> QED  BY <2>0, <3>1
    <2>6. CASE Send(w, i)
        <3>1. PICK t \in {"ok", "failed"} : JobAt(w, i, "egress", "started") /\ JobGoes(w, i, t)
            BY <2>6 DEF Send
        <3> QED  BY <2>0, <3>1
    <2> QED  BY <2>1, <2>2, <2>3, <2>4, <2>5, <2>6 DEF JobStep
<1>2. phase' = phase /\ list' = list
    BY DEF JobStep, Download, JobFails, MoveStarts, MoveEnds, MoveBreaks, Send
<1>3. phase[w] = "Running" /\ list[w][i] \in Files /\ i \in 1..Len(list[w]) /\ list[w] \in Seq(Files)
    BY <1>0, <1>1, JobAtFacts DEF Types
<1>4. s # "ok"  OBVIOUS
<1>5. \A v \in Workflows :
          DoneBy(v)' = IF v = w /\ t = "ok" THEN DoneBy(w) \cup {list[w][i]} ELSE DoneBy(v)
    BY <1>1, <1>2, <1>4, DoneByStep
<1>6. Wanted' = Wanted  BY <1>2 DEF Wanted, Named
<1>7. CASE t = "ok"
    <2>1. list[w][i] \in Wanted[w]  BY <1>3 DEF Wanted, Named
    <2>2. Copied' = [Copied EXCEPT ![w] = @ \cup {list[w][i]}]  BY <1>5, <1>7 DEF Copied
    <2>3. T!Copy(w, list[w][i])  BY <1>2, <1>3, <1>6, <2>1, <2>2 DEF T!Copy, Wanted, Copied
    <2> QED  BY <1>3, <2>3
<1>8. CASE t # "ok"
    <2>1. Copied' = Copied  BY <1>5, <1>8 DEF Copied
    <2> QED  BY <1>2, <1>6, <2>1
<1> QED  BY <1>7, <1>8

\* A workflow is submitted with the files of its list, none of them copied.
LEMMA SubmitMaps ==
    ASSUME IInv, NEW w \in Workflows, NEW b \in {"ingress", "egress", "other"},
           NEW l \in Lists[w], Submit(w, b, l)
    PROVE  \E F \in SUBSET Files : T!Submit(w, F) \/ T!Reject(w, F)
<1>0. Types /\ JobsFitList /\ l \in Seq(Files)  BY ListsAssumption DEF IInv
<1> DEFINE F == {l[j] : j \in DOMAIN l}
<1>1. phase[w] = "none" /\ list' = [list EXCEPT ![w] = l]  BY DEF Submit
<1>2. F \in SUBSET Files  BY <1>0, ElementOfSeq
<1>3. Wanted' = [Wanted EXCEPT ![w] = F]
    <2>1. \A v \in Workflows : list'[v] = IF v = w THEN l ELSE list[v]  BY <1>0, <1>1 DEF Types
    <2> QED  BY <2>1 DEF Wanted, Named
<1>4. \A v \in Workflows : DoneBy(v)' = DoneBy(v)
    <2> SUFFICES ASSUME NEW v \in Workflows PROVE DoneBy(v)' = DoneBy(v)  OBVIOUS
    <2>1. CASE v # w
        <3>1. list'[v] = list[v] /\ job'[v] = job[v]  BY <1>0, <2>1 DEF Submit, Types
        <3> QED  BY <3>1 DEF DoneBy
    <2>2. CASE v = w
        <3>1. DOMAIN job[w] = {}
            <4>1. job[w] \in Seq(JobStates) /\ Len(job[w]) = 0  BY <1>0, <1>1 DEF Types, JobsFitList
            <4> QED  BY <4>1
        <3>2. \A j \in DOMAIN job'[w] : job'[w][j] # "ok"
            <4>1. CASE b = "other"
                <5>1. job' = job  BY <4>1 DEF Submit
                <5> QED  BY <3>1, <5>1
            <4>2. CASE b # "other"
                <5>1. job' = [job EXCEPT ![w] = [j \in DOMAIN l |-> "started"]]  BY <4>2 DEF Submit
                <5>2. job'[w] = [j \in DOMAIN l |-> "started"]  BY <1>0, <5>1 DEF Types
                <5> QED  BY <5>2
            <4> QED  BY <4>1, <4>2
        <3>3. {j \in DOMAIN job[w] : job[w][j] = "ok"} = {}  BY <3>1
        <3>4. {j \in DOMAIN job'[w] : job'[w][j] = "ok"} = {}  BY <3>2
        <3>5. DoneBy(w) = {}  BY <3>3 DEF DoneBy
        <3>6. DoneBy(w)' = {}  BY <3>4 DEF DoneBy
        <3> QED  BY <2>2, <3>5, <3>6
    <2> QED  BY <2>1, <2>2
<1>5. Copied' = Copied  BY <1>4 DEF Copied
<1>6. PICK ph \in {"Running", "Failed"} : phase' = [phase EXCEPT ![w] = ph]
    <2>1. CASE b = "other"  BY <2>1 DEF Submit
    <2>2. CASE b # "other"  BY <2>2 DEF Submit
    <2> QED  BY <2>1, <2>2
<1> HIDE DEF F
<1>7. CASE ph = "Running"
    <2>1. T!Submit(w, F)  BY <1>1, <1>3, <1>5, <1>6, <1>7 DEF T!Submit, Wanted, Copied
    <2> QED  BY <1>2, <2>1
<1>8. CASE ph = "Failed"
    <2>1. T!Reject(w, F)  BY <1>1, <1>3, <1>5, <1>6, <1>8 DEF T!Reject, Wanted, Copied
    <2> QED  BY <1>2, <2>1
<1> QED  BY <1>7, <1>8

\* Complete succeeds with all files copied: the script has waited for each job.
LEMMA CompleteMaps ==
    ASSUME IInv, NEW w \in Workflows, Complete(w)
    PROVE  T!Succeed(w)
<1>1. Types /\ JobsFitList /\ WaitedForIsDone  BY DEF IInv
<1>2. /\ phase[w] = "Running" /\ waitFor[w] > Len(list[w])
      /\ phase' = [phase EXCEPT ![w] = "Succeeded"] /\ list' = list /\ job' = job
    BY DEF Complete
<1>3. list[w] \in Seq(Files) /\ job[w] \in Seq(JobStates) /\ Len(job[w]) = Len(list[w]) /\ waitFor[w] \in Nat
    BY <1>1, <1>2 DEF Types, JobsFitList
<1>4. \A j \in 1..Len(job[w]) : job[w][j] = "ok"
    BY <1>1, <1>2, <1>3 DEF WaitedForIsDone
<1>5. DOMAIN list[w] = 1..Len(job[w]) /\ DOMAIN job[w] = 1..Len(job[w])  BY <1>3
<1>6. Named(w) \subseteq DoneBy(w)  BY <1>4, <1>5 DEF Named, DoneBy
<1>7. Wanted' = Wanted /\ Copied' = Copied  BY <1>2 DEF Wanted, Copied, Named, DoneBy
<1>8. Wanted[w] \subseteq Copied[w]  BY <1>6 DEF Wanted, Copied
<1> QED  BY <1>2, <1>7, <1>8 DEF T!Succeed, Wanted, Copied

\* A container that ends early keeps what its jobs copied.
LEMMA EndsEarlyMaps ==
    ASSUME IInv, NEW w \in Workflows, WaitFails(w) \/ PodLost(w)
    PROVE  T!Fail(w)
<1>0. Types  BY DEF IInv
<1>1. /\ phase[w] = "Running" /\ phase' = [phase EXCEPT ![w] = "Failed"] /\ Killed(w) /\ list' = list
    BY DEF WaitFails, PodLost
<1>2. /\ job' \in [Workflows -> Seq(JobStates)]
      /\ \A v \in Workflows : Len(job'[v]) = Len(job[v])
      /\ \A v \in Workflows : \A j \in 1..Len(job[v]) :
             job'[v][j] = IF v = w /\ job[v][j] \notin Ended THEN "killed" ELSE job[v][j]
    BY <1>0, <1>1, KilledEffect
<1>3. \A v \in Workflows : DoneBy(v)' = DoneBy(v)
    <2> SUFFICES ASSUME NEW v \in Workflows PROVE DoneBy(v)' = DoneBy(v)  OBVIOUS
    <2>1. DOMAIN job'[v] = 1..Len(job[v]) /\ DOMAIN job[v] = 1..Len(job[v])  BY <1>0, <1>2 DEF Types
    <2>2. \A j \in 1..Len(job[v]) : job'[v][j] = "ok" <=> job[v][j] = "ok"  BY <1>2 DEF Ended
    <2>3. {j \in DOMAIN job'[v] : job'[v][j] = "ok"} = {j \in DOMAIN job[v] : job[v][j] = "ok"}
        BY <2>1, <2>2
    <2> QED  BY <1>1, <2>3 DEF DoneBy
<1>4. Wanted' = Wanted /\ Copied' = Copied  BY <1>1, <1>3 DEF Wanted, Copied, Named
<1> QED  BY <1>1, <1>4 DEF T!Fail, Wanted, Copied

\* Waiting for the jobs one by one in the order of the list implements the
\* promise of Transfer: a workflow copies only files it was asked for, and
\* succeeds only when all of them were copied.
THEOREM TransferIsImplemented == Spec => ImplementsTransfer
<1>1. Init => T!Init
    <2> SUFFICES ASSUME Init PROVE T!Init  OBVIOUS
    <2>1. \A w \in Workflows : Named(w) = {} /\ DoneBy(w) = {}
        <3>1. \A w \in Workflows : Len(list[w]) = 0 /\ Len(job[w]) = 0  BY DEF Init
        <3>2. /\ list \in [Workflows -> Seq(Files)] /\ job \in [Workflows -> Seq(JobStates)]
            BY InvInit DEF IInv, Types
        <3>3. \A w \in Workflows : DOMAIN list[w] = {} /\ DOMAIN job[w] = {}
            <4> SUFFICES ASSUME NEW w \in Workflows PROVE DOMAIN list[w] = {} /\ DOMAIN job[w] = {}
                OBVIOUS
            <4>1. list[w] \in Seq(Files) /\ job[w] \in Seq(JobStates)  BY <3>2
            <4>2. DOMAIN list[w] = 1..Len(list[w]) /\ DOMAIN job[w] = 1..Len(job[w])  BY <4>1
            <4>3. DOMAIN list[w] = 1..0 /\ DOMAIN job[w] = 1..0  BY <3>1, <4>2
            <4> QED  BY <4>3
        <3> QED  BY <3>3 DEF Named, DoneBy
    <2>2. phase = [w \in Workflows |-> "none"]  BY DEF Init
    <2> QED  BY <2>1, <2>2 DEF T!Init
<1>2. IInv /\ [Next]_vars => [T!Next]_T!tvars
    <2> SUFFICES ASSUME IInv, [Next]_vars PROVE T!Next \/ UNCHANGED <<phase, Wanted, Copied>>
        BY DEF T!tvars, Wanted, Copied
    <2>1. CASE \E w \in Workflows : \E b \in {"ingress", "egress", "other"}, l \in Lists[w] : Submit(w, b, l)
        BY <2>1, SubmitMaps DEF T!Next
    <2>2. CASE \E w \in Workflows : \E i \in DOMAIN list[w] : JobStep(w, i)
        BY <2>2, JobStepMaps DEF T!Next
    <2>3. CASE \E w \in Workflows : Complete(w)
        BY <2>3, CompleteMaps DEF T!Next, T!End
    <2>4. CASE \E w \in Workflows : WaitFails(w) \/ PodLost(w)
        BY <2>4, EndsEarlyMaps DEF T!Next, T!End
    <2>6. CASE \E f \in Deleted : Delete(f) \/ \E n \in present[f] : DeleteVersion(f, n)
        <3>1. UNCHANGED <<phase, list, job>>  BY <2>6 DEF Delete, DeleteVersion
        <3> QED  BY <3>1 DEF Wanted, Copied, Named, DoneBy
    <2>5. CASE (\E f \in Files : Upload(f)) \/ (\E w \in Workflows : WaitOk(w)) \/ UNCHANGED vars
        <3>1. UNCHANGED <<phase, list, job>>  BY <2>5 DEF Upload, WaitOk, vars
        <3> QED  BY <3>1 DEF Wanted, Copied, Named, DoneBy
    <2> QED  BY <2>1, <2>2, <2>3, <2>4, <2>5, <2>6 DEF Next, Script
<1> QED  BY <1>1, <1>2, Invariance, PTL DEF Spec, T!Spec, ImplementsTransfer
=============================================================================
