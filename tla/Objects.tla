------------------------------- MODULE Objects -------------------------------
(***************************************************************************)
(* The object routes of the job API: the calls each handler makes to MinIO, *)
(* one after the other, while a second process of the API (the other pod of *)
(* a rolling update) makes its own.  A call can break, its answer can be   *)
(* lost and the HTTP client send it again, and a process can die between    *)
(* two calls.  Sessions and tokens are the subject of JobApi.               *)
(*                                                                         *)
(* The content of the n-th upload is the number n.                          *)
(***************************************************************************)
EXTENDS Integers, Sequences

CONSTANTS
    Processes,    \* of the API: one, or two during a rolling update
    Buckets,
    Files,
    MaxUploads,   \* bound: uploads asked for
    MaxHistory    \* bound: versions and delete markers kept of one file

ASSUME MaxUploadsAssumption == MaxUploads \in Nat
ASSUME MaxHistoryAssumption == MaxHistory \in Nat

VARIABLES
    versioning,  \* MinIO: "none" if there is no such bucket, else "off" or "on"
    history,     \* MinIO: versions of each file, the latest last
    uploads,     \* number of uploads asked for
    request,     \* what each process was asked last
    call,        \* the MinIO call its handler is making
    answer,      \* what it answered, "none" until it does
    done,        \* ghost: MinIO has done what the request asks for
    promised     \* ghost: buckets that create_bucket told to be versioned

minio == <<versioning, history>>
vars == <<versioning, history, uploads, request, call, answer, done, promised>>

Marker == 0
NoVersion == 0
Contents == 1..MaxUploads

\* The version is the one a get or a delete names, or the content of an upload.
Requests ==
    [op : {"create", "put", "get", "delete"}, bucket : Buckets, file : Files,
     version : 0..MaxUploads, versioning : BOOLEAN]
NoRequest == [op |-> "none"]

Calls == {"exists", "make", "setVersioning", "put", "get", "stat", "remove"}

-----------------------------------------------------------------------------
(* MinIO.                                                                   *)
Kept(b, f) == {history[b][f][i] : i \in DOMAIN history[b][f]}

\* Whether the latest version, or the one named, can be read.
Present(b, f, v) ==
    LET h == history[b][f]
    IN  IF v = NoVersion THEN h # <<>> /\ h[Len(h)] # Marker ELSE v \in Kept(b, f)

Dropped(h, i) == [j \in 1..(Len(h) - 1) |-> IF j < i THEN h[j] ELSE h[j + 1]]

\* A versioned bucket keeps what was there under the new version.
Add(b, f, v) ==
    /\ versioning[b] = "on" => Len(history[b][f]) < MaxHistory
    /\ history' = [history EXCEPT ![b][f] = IF versioning[b] = "on" THEN Append(@, v) ELSE <<v>>]

\* Deleting a file hides it in a versioned bucket, and removes it in another.
Hide(b, f) ==
    IF versioning[b] = "on"
    THEN Add(b, f, Marker)
    ELSE history' = [history EXCEPT ![b][f] = <<>>]

\* Deleting a version that is gone succeeds and does nothing.
DropVersion(b, f, v) ==
    IF v \in Kept(b, f)
    THEN \E i \in DOMAIN history[b][f] :
             /\ history[b][f][i] = v
             /\ history' = [history EXCEPT ![b][f] = Dropped(@, i)]
    ELSE UNCHANGED history

\* MinIO carries out the call a process is making.
Execute(p) ==
    LET q == request[p]
    IN  CASE call[p] = "make" ->
                 /\ versioning' = [versioning EXCEPT ![q.bucket] = "off"]
                 /\ UNCHANGED history
          [] call[p] = "setVersioning" ->
                 /\ versioning' = [versioning EXCEPT ![q.bucket] = "on"]
                 /\ UNCHANGED history
          [] call[p] = "put" -> Add(q.bucket, q.file, q.version) /\ UNCHANGED versioning
          [] call[p] = "remove" ->
                 /\ IF q.version = NoVersion
                    THEN Hide(q.bucket, q.file)
                    ELSE DropVersion(q.bucket, q.file, q.version)
                 /\ UNCHANGED versioning
          [] OTHER -> UNCHANGED minio

\* The error code MinIO answers with instead, if any.
ErrorCode(p) ==
    LET q == request[p]
        there == versioning[q.bucket] # "none"
    IN  CASE call[p] = "exists" -> "none"
          [] call[p] = "make" -> IF there THEN "BucketAlreadyOwnedByYou" ELSE "none"
          [] call[p] \in {"setVersioning", "put", "remove"} ->
                 IF there THEN "none" ELSE "NoSuchBucket"
          [] OTHER ->
                 IF there /\ Present(q.bucket, q.file, q.version) THEN "none" ELSE "NoSuchKey"

-----------------------------------------------------------------------------
(* The handlers.                                                            *)
Init ==
    /\ versioning = [b \in Buckets |-> "none"]
    /\ history = [b \in Buckets |-> [f \in Files |-> <<>>]]
    /\ uploads = 0
    /\ request = [p \in Processes |-> NoRequest]
    /\ call = [p \in Processes |-> "idle"]
    /\ answer = [p \in Processes |-> "lost"]
    /\ done = [p \in Processes |-> FALSE]
    /\ promised = {}

Goes(p, c) == call' = [call EXCEPT ![p] = c]

Answers(p, a) ==
    /\ Goes(p, "idle")
    /\ answer' = [answer EXCEPT ![p] = a]
    /\ request' = [request EXCEPT ![p] = NoRequest]

FirstCall(op) ==
    CASE op = "create" -> "exists" [] op = "put" -> "put" [] op = "get" -> "get" [] OTHER -> "stat"

Ask(p, q) ==
    /\ call[p] = "idle"
    /\ uploads' = IF q.op = "put" THEN uploads + 1 ELSE uploads
    /\ request' = [request EXCEPT ![p] = q]
    /\ Goes(p, FirstCall(q.op))
    /\ answer' = [answer EXCEPT ![p] = "none"]
    /\ done' = [done EXCEPT ![p] = FALSE]
    /\ UNCHANGED <<versioning, history, promised>>

AskCreate(p, b, v) ==
    \E f \in Files : Ask(p, [op |-> "create", bucket |-> b, file |-> f,
                             version |-> NoVersion, versioning |-> v])

AskPut(p, b, f) ==
    /\ uploads < MaxUploads
    /\ Ask(p, [op |-> "put", bucket |-> b, file |-> f,
               version |-> uploads + 1, versioning |-> FALSE])

AskOther(p, op, b, f, v) ==
    Ask(p, [op |-> op, bucket |-> b, file |-> f, version |-> v, versioning |-> FALSE])

\* Mutant: versioning is set only on a bucket that was just made.
NextCallNew(p) ==
    LET q == request[p]
    IN  CASE call[p] = "exists" /\ versioning[q.bucket] = "none" -> "make"
          [] call[p] = "make" /\ q.versioning -> "setVersioning"
          [] call[p] = "stat" -> "remove"
          [] OTHER -> "idle"

\* What is left to do after a call; "idle" if that was all.
NextCall(p) ==
    LET q == request[p]
    IN  CASE call[p] = "exists" /\ versioning[q.bucket] = "none" -> "make"
          [] call[p] \in {"exists", "make"} /\ q.versioning -> "setVersioning"
          [] call[p] = "stat" -> "remove"
          [] OTHER -> "idle"

\* The arguments of client.get_object() are passed by place, so that the version
\* ends up as the length and the client fails to build its request.
Callable(p) == call[p] # "idle" /\ ~(call[p] = "get" /\ request[p].version # NoVersion)

\* The call is carried out and its answer arrives: the handler goes on, or
\* answers.
CallReturns(p) ==
    /\ Callable(p) /\ ErrorCode(p) = "none"
    /\ Execute(p)
    /\ IF NextCall(p) # "idle"
       THEN /\ Goes(p, NextCall(p))
            /\ UNCHANGED <<request, answer, done, promised>>
       ELSE /\ Answers(p, "ok")
            /\ done' = [done EXCEPT ![p] = TRUE]
            /\ promised' = IF request[p].versioning
                           THEN promised \cup {request[p].bucket} ELSE promised
    /\ UNCHANGED uploads

\* Mutant: the exception is made but not raised.
CallRefusedGoesOn(p) ==
    /\ Callable(p) /\ ErrorCode(p) # "none"
    /\ answer' = [answer EXCEPT ![p] = "refused"]
    /\ request' = [request EXCEPT ![p] = NoRequest]
    /\ UNCHANGED <<versioning, history, uploads, call, done, promised>>

\* handle_minio_error: NoSuchBucket and NoSuchKey become HTTP 404, the others 500.
CallRefused(p) ==
    /\ Callable(p) /\ ErrorCode(p) # "none"
    /\ Answers(p, IF ErrorCode(p) \in {"NoSuchBucket", "NoSuchKey"} THEN "refused" ELSE "failed")
    /\ UNCHANGED <<versioning, history, uploads, done, promised>>

\* A call that changes MinIO is carried out but its answer is lost: the HTTP
\* client, to which they are all idempotent, sends it again.
AnswerLost(p) ==
    /\ call[p] \in {"make", "setVersioning", "put", "remove"} /\ ErrorCode(p) = "none"
    /\ Execute(p)
    /\ done' = [done EXCEPT ![p] = @ \/ NextCall(p) = "idle"]
    /\ UNCHANGED <<uploads, request, call, answer, promised>>

\* Mutant: every look-up that fails counts as a file that is there.
BreaksFound(p) ==
    /\ call[p] # "idle"
    /\ IF call[p] = "stat"
       THEN Answers(p, "ok")
       ELSE Answers(p, "failed")
    /\ UNCHANGED <<versioning, history, uploads, done, promised>>

\* No connection, or a request that cannot be built: HTTP 500, except that
\* check_object_exists takes it for a file that does not exist.
Breaks(p) ==
    /\ call[p] # "idle"
    /\ Answers(p, IF call[p] = "stat" THEN "absent" ELSE "failed")
    /\ UNCHANGED <<versioning, history, uploads, done, promised>>

\* MinIO answers with an error of its own (SlowDown, InternalError): HTTP 500.
ServerError(p) ==
    /\ Callable(p)
    /\ Answers(p, "failed")
    /\ UNCHANGED <<versioning, history, uploads, done, promised>>

\* The process dies between two calls; the client gets no answer.
Dies(p) ==
    /\ call[p] # "idle"
    /\ Answers(p, "lost")
    /\ UNCHANGED <<versioning, history, uploads, done, promised>>

Handler(p) == CallReturns(p) \/ CallRefused(p) \/ Breaks(p) \/ ServerError(p)

Next ==
    \E p \in Processes :
        \/ \E b \in Buckets :
            \/ \E v \in BOOLEAN : AskCreate(p, b, v)
            \/ \E f \in Files :
                \/ AskPut(p, b, f)
                \/ \E op \in {"get", "delete"}, v \in 0..uploads : AskOther(p, op, b, f, v)
        \/ Handler(p)
        \/ AnswerLost(p)
        \/ Dies(p)

Spec == Init /\ [][Next]_vars

-----------------------------------------------------------------------------
\* The variables have their types; a process that makes a call has a request.
TypeOK ==
    /\ versioning \in [Buckets -> {"none", "off", "on"}]
    /\ history \in [Buckets -> [Files -> Seq(0..MaxUploads)]]
    /\ uploads \in 0..MaxUploads
    /\ call \in [Processes -> Calls \cup {"idle"}]
    /\ request \in [Processes -> Requests \cup {NoRequest}]
    /\ \A p \in Processes : call[p] # "idle" => request[p] \in Requests
    /\ answer \in [Processes -> {"none", "ok", "refused", "absent", "failed", "lost"}]
    /\ done \in [Processes -> BOOLEAN]
    /\ promised \subseteq Buckets

\* Once create_bucket has answered that a bucket is versioned, nothing that was
\* uploaded to it is lost, whatever calls were interrupted, sent again or made
\* by another process at the same time, unless a delete names that version.
DropsByName(b, f, c) ==
    \E p \in Processes :
        /\ call[p] = "remove" /\ request[p].version = c
        /\ request[p].bucket = b /\ request[p].file = f
KeepsHistory ==
    [][\A b \in promised : \A f \in Files : \A c \in Kept(b, f) \ {Marker} :
           c \in Kept(b, f)' \/ DropsByName(b, f, c)]_vars

\* The answers of the API are true of MinIO: "ok" means done, HTTP 404 and the
\* answer "not found" mean that nothing was done; only HTTP 500 and a lost
\* answer leave it open.
P == INSTANCE ObjectPromise WITH did <- done
AnswersAreTrue == P!Spec
=============================================================================
