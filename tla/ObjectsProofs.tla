----------------------------- MODULE ObjectsProofs -----------------------------
(***************************************************************************)
(* For any number of processes, buckets, files and uploads: a bucket that  *)
(* create_bucket called versioned keeps its history, and the answers are   *)
(* true.                                                                   *)
(***************************************************************************)
EXTENDS Objects, SequenceTheorems, TLAPS

History == [Buckets -> [Files -> Seq(0..MaxUploads)]]

\* The calls of each request; only the last one of create_bucket may be left when
\* versioning was asked for.
CallsOf(q) ==
    CASE q.op = "create" ->
             {"exists", "make"} \cup IF q.versioning THEN {"setVersioning"} ELSE {}
      [] q.op = "put" -> {"put"}
      [] q.op = "get" -> {"get"}
      [] OTHER -> {"stat", "remove"}

CallFitsRequest ==
    \A p \in Processes : call[p] # "idle" =>
        /\ call[p] \in CallsOf(request[p])
        /\ request[p].versioning => request[p].op = "create"

\* A request is being answered exactly while a call is made for it.
AnswerPending == \A p \in Processes : call[p] # "idle" <=> answer[p] = "none"

\* What was done although the answer was lost was done by a call that changes
\* MinIO, to a bucket that is there.
DoneByChange ==
    \A p \in Processes : call[p] # "idle" /\ done[p] =>
        /\ call[p] \in {"make", "setVersioning", "put", "remove"}
        /\ versioning[request[p].bucket] # "none"

PromiseKept == \A b \in promised : versioning[b] = "on"

IInv == TypeOK /\ CallFitsRequest /\ AnswerPending /\ DoneByChange /\ PromiseKept

-----------------------------------------------------------------------------
(* Histories.                                                               *)

\* Dropping one version leaves the others.
LEMMA DroppedKeeps ==
    ASSUME NEW S, NEW h \in Seq(S), NEW i \in DOMAIN h
    PROVE  /\ Dropped(h, i) \in Seq(S)
           /\ \A k \in DOMAIN h : k # i =>
                  \E j \in DOMAIN Dropped(h, i) : Dropped(h, i)[j] = h[k]
<1>1. Len(h) \in Nat /\ DOMAIN h = 1..Len(h) /\ i \in 1..Len(h)  OBVIOUS
<1>2. /\ DOMAIN Dropped(h, i) = 1..(Len(h) - 1)
      /\ \A j \in 1..(Len(h) - 1) : Dropped(h, i)[j] = IF j < i THEN h[j] ELSE h[j + 1]
    BY DEF Dropped
<1>3. \A j \in 1..(Len(h) - 1) : Dropped(h, i)[j] \in S
    <2> SUFFICES ASSUME NEW j \in 1..(Len(h) - 1) PROVE Dropped(h, i)[j] \in S  OBVIOUS
    <2>1. j \in 1..Len(h) /\ j + 1 \in 1..Len(h)  BY <1>1
    <2>2. h[j] \in S /\ h[j + 1] \in S  BY <1>1, <2>1, ElementOfSeq
    <2> QED  BY <1>2, <2>2
<1>4. Dropped(h, i) \in Seq(S)
    <2>1. Len(h) - 1 \in Nat  BY <1>1
    <2> DEFINE d == Dropped(h, i)
    <2>2. d = [j \in 1..(Len(h) - 1) |-> d[j]]  BY <1>2 DEF Dropped
    <2>3. \A j \in 1..(Len(h) - 1) : d[j] \in S  BY <1>3
    <2> HIDE DEF d
    <2>4. [j \in 1..(Len(h) - 1) |-> d[j]] \in Seq(S)  BY <2>1, <2>3, IsASeq
    <2>5. d \in Seq(S)  BY <2>2, <2>4
    <2> QED  BY <2>5 DEF d
<1>5. ASSUME NEW k \in DOMAIN h, k # i
      PROVE  \E j \in DOMAIN Dropped(h, i) : Dropped(h, i)[j] = h[k]
    <2>1. CASE k < i
        <3>1. k \in 1..(Len(h) - 1)  BY <1>1, <2>1
        <3> QED  BY <1>2, <2>1, <3>1
    <2>2. CASE k > i
        <3>1. k - 1 \in 1..(Len(h) - 1) /\ ~(k - 1 < i) /\ (k - 1) + 1 = k  BY <1>1, <2>2
        <3>2. Dropped(h, i)[k - 1] = h[(k - 1) + 1]  BY <1>2, <3>1
        <3> QED  BY <1>2, <3>1, <3>2
    <2> QED  BY <1>1, <1>5, <2>1, <2>2
<1> QED  BY <1>4, <1>5

-----------------------------------------------------------------------------
(* What a call does to MinIO.                                               *)
Types == \* of MinIO's state
    versioning \in [Buckets -> {"none", "off", "on"}] /\ history \in History

\* The request that a call is made for.
LEMMA RequestOfCall ==
    ASSUME TypeOK, NEW p \in Processes, call[p] # "idle"
    PROVE  /\ request[p] \in Requests
           /\ request[p].bucket \in Buckets /\ request[p].file \in Files
           /\ request[p].version \in 0..MaxUploads
           /\ request[p].versioning \in BOOLEAN
           /\ call[p] \in Calls
<1>1. request[p] \in Requests /\ call[p] \in Calls  BY DEF TypeOK
<1> QED  BY <1>1 DEF Requests

\* Adding a version to a file.
LEMMA AddEffect ==
    ASSUME Types, NEW b \in Buckets, NEW f \in Files, NEW v \in 0..MaxUploads, Add(b, f, v)
    PROVE  /\ history' \in History
           /\ \A c \in Buckets, g \in Files : versioning[c] = "on" => Kept(c, g) \subseteq Kept(c, g)'
<1> DEFINE h == history[b][f]
           new == IF versioning[b] = "on" THEN Append(h, v) ELSE <<v>>
<1>1. history \in History /\ h \in Seq(0..MaxUploads)  BY DEF Types, History
<1>2. history' = [history EXCEPT ![b][f] = new]  BY DEF Add
<1>3. new \in Seq(0..MaxUploads)
    <2>1. Append(h, v) \in Seq(0..MaxUploads) /\ <<v>> \in Seq(0..MaxUploads)  BY <1>1
    <2> QED  BY <2>1
<1> HIDE DEF new, h
<1>4. history' \in History  BY <1>1, <1>2, <1>3 DEF History
<1>5. ASSUME NEW c \in Buckets, NEW g \in Files, versioning[c] = "on", NEW x \in Kept(c, g)
      PROVE  x \in Kept(c, g)'
    <2>1. CASE c = b /\ g = f
        <3>1. history'[c][g] = Append(h, v)  BY <1>1, <1>2, <1>5, <2>1 DEF History, new
        <3>2. PICK k \in DOMAIN h : x = h[k]  BY <2>1 DEF Kept, h
        <3>3. k \in 1..Len(h) /\ Len(h) \in Nat  BY <1>1, <3>2
        <3>4. k \in DOMAIN Append(h, v) /\ Append(h, v)[k] = h[k]  BY <1>1, <3>3
        <3> QED  BY <3>1, <3>2, <3>4 DEF Kept
    <2>2. CASE ~(c = b /\ g = f)
        <3>1. history'[c][g] = history[c][g]  BY <1>1, <1>2, <2>2 DEF History
        <3> QED  BY <3>1 DEF Kept
    <2> QED  BY <2>1, <2>2
<1> QED  BY <1>4, <1>5

\* Hiding a file in a bucket.
LEMMA HideEffect ==
    ASSUME Types, MaxUploads \in Nat, NEW b \in Buckets, NEW f \in Files, Hide(b, f)
    PROVE  /\ history' \in History
           /\ \A c \in Buckets, g \in Files : versioning[c] = "on" => Kept(c, g) \subseteq Kept(c, g)'
<1>1. CASE versioning[b] = "on"
    <2>1. Add(b, f, Marker) /\ Marker \in 0..MaxUploads  BY <1>1 DEF Hide, Marker
    <2> QED  BY <2>1, AddEffect
<1>2. CASE versioning[b] # "on"
    <2>1. history' = [history EXCEPT ![b][f] = <<>>] /\ history \in History
        BY <1>2 DEF Hide, Types
    <2>2. history' \in History  BY <2>1 DEF History
    <2>3. \A c \in Buckets, g \in Files : versioning[c] = "on" => history'[c][g] = history[c][g]
        BY <1>2, <2>1 DEF History
    <2> QED  BY <2>2, <2>3 DEF Kept
<1> QED  BY <1>1, <1>2

\* Dropping a version of a file.
LEMMA DropEffect ==
    ASSUME Types, NEW b \in Buckets, NEW f \in Files, NEW v, DropVersion(b, f, v)
    PROVE  /\ history' \in History
           /\ \A c \in Buckets, g \in Files : \A x \in Kept(c, g) :
                  x \in Kept(c, g)' \/ (c = b /\ g = f /\ x = v)
<1>1. CASE v \in Kept(b, f)
    <2> DEFINE h == history[b][f]
    <2>1. PICK i \in DOMAIN h : h[i] = v /\ history' = [history EXCEPT ![b][f] = Dropped(@, i)]
        BY <1>1 DEF DropVersion
    <2>2. history \in History /\ h \in Seq(0..MaxUploads)  BY DEF Types, History
    <2>3. Dropped(h, i) \in Seq(0..MaxUploads)  BY <2>1, <2>2, DroppedKeeps
    <2>4. history' \in History  BY <2>1, <2>2, <2>3 DEF History
    <2>5. ASSUME NEW c \in Buckets, NEW g \in Files, NEW x \in Kept(c, g), ~(c = b /\ g = f /\ x = v)
          PROVE  x \in Kept(c, g)'
        <3>1. CASE c = b /\ g = f
            <4>1. history'[c][g] = Dropped(h, i)  BY <2>1, <2>2, <3>1 DEF History
            <4>2. PICK k \in DOMAIN h : x = h[k]  BY <3>1 DEF Kept
            <4>3. k # i  BY <2>1, <2>5, <3>1, <4>2
            <4>4. \E j \in DOMAIN Dropped(h, i) : Dropped(h, i)[j] = h[k]
                BY <2>1, <2>2, <4>2, <4>3, DroppedKeeps
            <4> QED  BY <4>1, <4>2, <4>4 DEF Kept
        <3>2. CASE ~(c = b /\ g = f)
            <4>1. history'[c][g] = history[c][g]  BY <2>1, <2>2, <3>2 DEF History
            <4> QED  BY <4>1 DEF Kept
        <3> QED  BY <3>1, <3>2
    <2> QED  BY <2>4, <2>5
<1>2. CASE v \notin Kept(b, f)
    <2>1. history' = history  BY <1>2 DEF DropVersion
    <2> QED  BY <2>1 DEF Types, Kept
<1> QED  BY <1>1, <1>2

\* A call that MinIO carries out: what it changes, and what it leaves.
LEMMA ExecuteEffect ==
    ASSUME TypeOK, NEW p \in Processes, call[p] # "idle", ErrorCode(p) = "none", Execute(p)
    PROVE  /\ Types'
           /\ \A b \in Buckets : versioning[b] = "on" => versioning'[b] = "on"
           /\ \A b \in Buckets : versioning[b] # "none" => versioning'[b] # "none"
           /\ call[p] \in {"make", "setVersioning", "put", "remove"} =>
                  versioning'[request[p].bucket] # "none"
           /\ call[p] = "setVersioning" => versioning'[request[p].bucket] = "on"
           /\ \A b \in Buckets, f \in Files : versioning[b] = "on" =>
                  \A x \in Kept(b, f) : x \in Kept(b, f)' \/ DropsByName(b, f, x)
<1> DEFINE q == request[p]
<1>1. /\ Types /\ q.bucket \in Buckets /\ q.file \in Files /\ q.version \in 0..MaxUploads
      /\ call[p] \in Calls
    BY RequestOfCall DEF TypeOK, Types, History
<1>2. CASE call[p] = "make"
    <2>1. versioning[q.bucket] = "none"  BY <1>2 DEF ErrorCode
    <2>2. versioning' = [versioning EXCEPT ![q.bucket] = "off"] /\ history' = history
        BY <1>2 DEF Execute
    <2> QED  BY <1>1, <1>2, <2>1, <2>2 DEF Types, Kept
<1>3. CASE call[p] = "setVersioning"
    <2>1. versioning' = [versioning EXCEPT ![q.bucket] = "on"] /\ history' = history
        BY <1>3 DEF Execute
    <2> QED  BY <1>1, <1>3, <2>1 DEF Types, Kept
<1>4. CASE call[p] = "put"
    <2>1. versioning' = versioning /\ Add(q.bucket, q.file, q.version)  BY <1>4 DEF Execute
    <2>2. versioning[q.bucket] # "none"  BY <1>4 DEF ErrorCode
    <2> HIDE DEF q
    <2>3. /\ history' \in History
          /\ \A c \in Buckets, g \in Files : versioning[c] = "on" => Kept(c, g) \subseteq Kept(c, g)'
        BY <1>1, <2>1, AddEffect
    <2> QED  BY <1>1, <1>4, <2>1, <2>2, <2>3 DEF Types, q
<1>5. CASE call[p] = "remove"
    <2>1. versioning' = versioning  BY <1>5 DEF Execute
    <2>2. versioning[q.bucket] # "none"  BY <1>5 DEF ErrorCode
    <2>3. CASE q.version = NoVersion
        <3>1. Hide(q.bucket, q.file)  BY <1>5, <2>3 DEF Execute
        <3> HIDE DEF q
        <3>2. /\ history' \in History
              /\ \A c \in Buckets, g \in Files : versioning[c] = "on" => Kept(c, g) \subseteq Kept(c, g)'
            BY <1>1, <3>1, MaxUploadsAssumption, HideEffect
        <3> QED  BY <1>1, <1>5, <2>1, <2>2, <3>2 DEF Types, q
    <2>4. CASE q.version # NoVersion
        <3>1. DropVersion(q.bucket, q.file, q.version)  BY <1>5, <2>4 DEF Execute
        <3> HIDE DEF q
        <3>2. /\ history' \in History
              /\ \A c \in Buckets, g \in Files : \A x \in Kept(c, g) :
                     x \in Kept(c, g)' \/ (c = q.bucket /\ g = q.file /\ x = q.version)
            BY <1>1, <3>1, DropEffect
        <3>3. \A c \in Buckets, g \in Files : \A x :
                  c = q.bucket /\ g = q.file /\ x = q.version => DropsByName(c, g, x)
            BY <1>5 DEF DropsByName, q
        <3> QED  BY <1>1, <1>5, <2>1, <2>2, <3>2, <3>3 DEF Types, q
    <2> QED  BY <2>3, <2>4
<1>6. CASE call[p] \in {"exists", "get", "stat"}
    <2>1. UNCHANGED minio  BY <1>6 DEF Execute
    <2> QED  BY <1>1, <1>6, <2>1 DEF minio, Types, Kept
<1> QED  BY <1>1, <1>2, <1>3, <1>4, <1>5, <1>6 DEF Calls

-----------------------------------------------------------------------------
(* The invariant.                                                           *)
LEMMA InvInit == Init => IInv
<1> SUFFICES ASSUME Init PROVE IInv  OBVIOUS
<1>1. TypeOK
    <2>1. [b \in Buckets |-> [f \in Files |-> <<>>]] \in History  BY DEF History
    <2> QED  BY <2>1, MaxUploadsAssumption DEF Init, TypeOK, History
<1>2. CallFitsRequest /\ AnswerPending /\ DoneByChange /\ PromiseKept
    BY DEF Init, CallFitsRequest, AnswerPending, DoneByChange, PromiseKept
<1> QED  BY <1>1, <1>2 DEF IInv

LEMMA AskStep ==
    ASSUME IInv, NEW p \in Processes, NEW q \in Requests, Ask(p, q), uploads' \in 0..MaxUploads,
           q.versioning => q.op = "create"
    PROVE  IInv'
<1> USE DEF IInv
<1>1. q.op \in {"create", "put", "get", "delete"}  BY DEF Requests
<1>2. FirstCall(q.op) \in Calls \cap CallsOf(q)  BY <1>1 DEF FirstCall, CallsOf, Calls
<1> DEFINE c == FirstCall(q.op)
<1>3. c \in Calls /\ c # "idle" /\ c \in CallsOf(q)  BY <1>2 DEF Calls
<1> HIDE DEF c
<1>4. /\ request' = [request EXCEPT ![p] = q] /\ call' = [call EXCEPT ![p] = c]
      /\ answer' = [answer EXCEPT ![p] = "none"] /\ done' = [done EXCEPT ![p] = FALSE]
      /\ UNCHANGED <<versioning, history, promised>>
    BY DEF Ask, Goes, c
<1>5. TypeOK'  BY <1>3, <1>4 DEF TypeOK
<1>6. CallFitsRequest'
    <2> SUFFICES ASSUME NEW r \in Processes, call'[r] # "idle"
                 PROVE  /\ call'[r] \in CallsOf(request'[r])
                        /\ request'[r].versioning => request'[r].op = "create"
        BY DEF CallFitsRequest, CallsOf
    <2>1. CASE r = p  BY <1>3, <1>4, <2>1 DEF TypeOK
    <2>2. CASE r # p  BY <1>4, <2>2 DEF TypeOK, CallFitsRequest
    <2> QED  BY <2>1, <2>2
<1>7. AnswerPending'  BY <1>3, <1>4 DEF TypeOK, AnswerPending
<1>8. DoneByChange'  BY <1>4 DEF TypeOK, DoneByChange
<1>9. PromiseKept'  BY <1>4 DEF PromiseKept
<1> QED  BY <1>5, <1>6, <1>7, <1>8, <1>9

\* A handler that answers without calling MinIO any more.
LEMMA AnswerStep ==
    ASSUME IInv, NEW p \in Processes, NEW a \in {"ok", "refused", "absent", "failed", "lost"},
           Answers(p, a), UNCHANGED <<versioning, history, uploads, done, promised>>
    PROVE  IInv'
<1> USE DEF IInv
<1>1. /\ request' = [request EXCEPT ![p] = NoRequest] /\ call' = [call EXCEPT ![p] = "idle"]
      /\ answer' = [answer EXCEPT ![p] = a]
    BY DEF Answers, Goes
<1>2. TypeOK'  BY <1>1 DEF TypeOK
<1>3. CallFitsRequest'
    <2> SUFFICES ASSUME NEW r \in Processes, call'[r] # "idle"
                 PROVE  /\ call'[r] \in CallsOf(request'[r])
                        /\ request'[r].versioning => request'[r].op = "create"
        BY DEF CallFitsRequest, CallsOf
    <2>1. r # p  BY <1>1 DEF TypeOK
    <2> QED  BY <1>1, <2>1 DEF TypeOK, CallFitsRequest
<1>4. AnswerPending'  BY <1>1 DEF TypeOK, AnswerPending
<1>5. DoneByChange'  BY <1>1 DEF TypeOK, DoneByChange
<1>6. PromiseKept'  BY DEF PromiseKept
<1> QED  BY <1>2, <1>3, <1>4, <1>5, <1>6

\* The calls of a handler follow each other within its request; versioning is the
\* last thing that a request for it asks for.
LEMMA NextCallFits ==
    ASSUME IInv, NEW p \in Processes, call[p] # "idle"
    PROVE  /\ NextCall(p) \in Calls \cup {"idle"}
           /\ NextCall(p) # "idle" =>
                  NextCall(p) \in CallsOf(request[p]) /\ call[p] \in {"exists", "make", "stat"}
           /\ NextCall(p) = "idle" /\ request[p].versioning => call[p] = "setVersioning"
<1>1. /\ request[p] \in Requests /\ call[p] \in Calls /\ call[p] \in CallsOf(request[p])
      /\ request[p].versioning => request[p].op = "create"
    BY RequestOfCall DEF IInv, CallFitsRequest
<1>2. request[p].op \in {"create", "put", "get", "delete"}  BY <1>1 DEF Requests
<1> QED  BY <1>1, <1>2 DEF NextCall, CallsOf, Calls

LEMMA CallReturnsStep ==
    ASSUME IInv, NEW p \in Processes, CallReturns(p)
    PROVE  IInv'
<1>0. TypeOK /\ CallFitsRequest /\ AnswerPending /\ DoneByChange /\ PromiseKept  BY DEF IInv
<1>p. promised \subseteq Buckets  BY <1>0 DEF TypeOK
<1>d. done \in [Processes -> BOOLEAN] /\ call \in [Processes -> Calls \cup {"idle"}]
    BY <1>0 DEF TypeOK
<1>q. request \in [Processes -> Requests \cup {NoRequest}]  BY <1>0 DEF TypeOK
<1>1. call[p] # "idle" /\ ErrorCode(p) = "none" /\ Execute(p)  BY DEF CallReturns, Callable
<1>2. /\ request[p] \in Requests /\ request[p].bucket \in Buckets /\ call[p] \in CallsOf(request[p])
      /\ request[p].versioning => request[p].op = "create"
    BY <1>0, <1>1, RequestOfCall DEF CallFitsRequest
<1>3. /\ Types'
      /\ \A b \in Buckets : versioning[b] = "on" => versioning'[b] = "on"
      /\ \A b \in Buckets : versioning[b] # "none" => versioning'[b] # "none"
      /\ call[p] = "setVersioning" => versioning'[request[p].bucket] = "on"
    BY <1>0, <1>1, ExecuteEffect
<1>4. \A r \in Processes : call[r] # "idle" => request[r].bucket \in Buckets
    BY <1>0, RequestOfCall
<1>5. CASE NextCall(p) # "idle"
    <2> DEFINE c == NextCall(p)
    <2>1. /\ c \in Calls /\ c # "idle" /\ c \in CallsOf(request[p])
          /\ call[p] \in {"exists", "make", "stat"}
        BY <1>1, <1>5, NextCallFits
    <2>2. /\ call' = [call EXCEPT ![p] = c]
          /\ UNCHANGED <<request, answer, done, promised, uploads>>
        BY <1>5 DEF CallReturns, Goes
    <2> HIDE DEF c
    <2>3. ~done[p]
        <3>1. call[p] = "make" => versioning[request[p].bucket] = "none"  BY <1>1 DEF ErrorCode
        <3> QED  BY <1>0, <1>1, <2>1, <3>1 DEF DoneByChange
    <2>4. TypeOK'  BY <1>0, <1>3, <2>1, <2>2, <1>2 DEF TypeOK, Types, History
    <2>5. CallFitsRequest'
        <3> SUFFICES ASSUME NEW r \in Processes, call'[r] # "idle"
                     PROVE  /\ call'[r] \in CallsOf(request'[r])
                            /\ request'[r].versioning => request'[r].op = "create"
            BY DEF CallFitsRequest, CallsOf
        <3>1. CASE r = p  BY <1>2, <2>1, <2>2, <3>1, <1>d, <1>q
        <3>2. CASE r # p  BY <1>0, <2>2, <3>2, <1>d, <1>q DEF CallFitsRequest
        <3> QED  BY <3>1, <3>2
    <2>6. AnswerPending'  BY <1>0, <1>1, <2>1, <2>2, <1>d DEF AnswerPending
    <2>7. DoneByChange'
        <3> SUFFICES ASSUME NEW r \in Processes, call'[r] # "idle", done'[r]
                     PROVE  /\ call'[r] \in {"make", "setVersioning", "put", "remove"}
                            /\ versioning'[request'[r].bucket] # "none"
            BY DEF DoneByChange
        <3>1. r # p /\ call'[r] = call[r]  BY <1>d, <2>2, <2>3
        <3> QED  BY <1>0, <1>3, <1>4, <2>2, <3>1 DEF DoneByChange
    <2>8. PromiseKept'  BY <1>0, <1>p, <1>3, <2>2 DEF PromiseKept
    <2> QED  BY <2>4, <2>5, <2>6, <2>7, <2>8 DEF IInv
<1>6. CASE NextCall(p) = "idle"
    <2>1. /\ request' = [request EXCEPT ![p] = NoRequest] /\ call' = [call EXCEPT ![p] = "idle"]
          /\ answer' = [answer EXCEPT ![p] = "ok"] /\ done' = [done EXCEPT ![p] = TRUE]
          /\ promised' = IF request[p].versioning THEN promised \cup {request[p].bucket} ELSE promised
          /\ UNCHANGED uploads
        BY <1>6 DEF CallReturns, Answers, Goes
    <2>2. TypeOK'  BY <1>0, <1>2, <1>3, <2>1 DEF TypeOK, Types, History
    <2>3. CallFitsRequest'
        <3> SUFFICES ASSUME NEW r \in Processes, call'[r] # "idle"
                     PROVE  /\ call'[r] \in CallsOf(request'[r])
                            /\ request'[r].versioning => request'[r].op = "create"
            BY DEF CallFitsRequest, CallsOf
        <3>1. r # p  BY <1>d, <2>1
        <3> QED  BY <1>0, <2>1, <3>1, <1>q DEF CallFitsRequest
    <2>4. AnswerPending'  BY <1>0, <1>d, <2>1 DEF TypeOK, AnswerPending
    <2>5. DoneByChange'
        <3> SUFFICES ASSUME NEW r \in Processes, call'[r] # "idle", done'[r]
                     PROVE  /\ call'[r] \in {"make", "setVersioning", "put", "remove"}
                            /\ versioning'[request'[r].bucket] # "none"
            BY DEF DoneByChange
        <3>1. r # p  BY <1>d, <2>1
        <3>2. call'[r] = call[r] /\ request'[r] = request[r] /\ done'[r] = done[r]
            BY <1>d, <1>q, <2>1, <3>1
        <3> QED  BY <1>0, <1>3, <1>4, <3>2 DEF DoneByChange
    <2>6. request[p].versioning => versioning'[request[p].bucket] = "on"
        BY <1>1, <1>3, <1>6, NextCallFits
    <2>7. PromiseKept'  BY <1>0, <1>p, <1>3, <2>1, <2>6 DEF PromiseKept
    <2> QED  BY <2>2, <2>3, <2>4, <2>5, <2>7 DEF IInv
<1> QED  BY <1>5, <1>6

LEMMA AnswerLostStep ==
    ASSUME IInv, NEW p \in Processes, AnswerLost(p)
    PROVE  IInv'
<1>0. TypeOK /\ CallFitsRequest /\ AnswerPending /\ DoneByChange /\ PromiseKept  BY DEF IInv
<1>p. promised \subseteq Buckets  BY <1>0 DEF TypeOK
<1>d. done \in [Processes -> BOOLEAN] /\ call \in [Processes -> Calls \cup {"idle"}]
    BY <1>0 DEF TypeOK
<1>q. request \in [Processes -> Requests \cup {NoRequest}]  BY <1>0 DEF TypeOK
<1>1. /\ call[p] \in {"make", "setVersioning", "put", "remove"} /\ ErrorCode(p) = "none" /\ Execute(p)
      /\ done' = [done EXCEPT ![p] = @ \/ NextCall(p) = "idle"]
      /\ UNCHANGED <<uploads, request, call, answer, promised>>
    BY DEF AnswerLost
<1>2. /\ Types'
      /\ \A b \in Buckets : versioning[b] = "on" => versioning'[b] = "on"
      /\ \A b \in Buckets : versioning[b] # "none" => versioning'[b] # "none"
      /\ versioning'[request[p].bucket] # "none"
    BY <1>0, <1>1, ExecuteEffect
<1>3. \A r \in Processes : call[r] # "idle" => request[r].bucket \in Buckets
    BY <1>0, RequestOfCall
<1>4. \A r \in Processes : r # p => done'[r] = done[r]  BY <1>1, <1>d
<1>5. done' \in [Processes -> BOOLEAN]
    <2>1. (done[p] \/ NextCall(p) = "idle") \in BOOLEAN  BY Zenon
    <2> QED  BY <1>1, <1>d, <2>1
<1>6. TypeOK'  BY <1>0, <1>1, <1>2, <1>5 DEF TypeOK, Types, History
<1>7. CallFitsRequest'  BY <1>0, <1>1 DEF CallFitsRequest, CallsOf
<1>8. AnswerPending'  BY <1>0, <1>1 DEF AnswerPending
<1>9. DoneByChange'
    <2> SUFFICES ASSUME NEW r \in Processes, call'[r] # "idle", done'[r]
                 PROVE  /\ call'[r] \in {"make", "setVersioning", "put", "remove"}
                        /\ versioning'[request'[r].bucket] # "none"
        BY DEF DoneByChange
    <2>1. CASE r = p  BY <1>1, <1>2, <2>1
    <2>2. CASE r # p
        <3>1. done[r] /\ call[r] # "idle"  BY <1>1, <1>4, <2>2
        <3> QED  BY <1>0, <1>1, <1>2, <1>3, <3>1 DEF DoneByChange
    <2> QED  BY <2>1, <2>2
<1>10. PromiseKept'  BY <1>0, <1>p, <1>1, <1>2 DEF PromiseKept
<1> QED  BY <1>6, <1>7, <1>8, <1>9, <1>10 DEF IInv

LEMMA InvStep == IInv /\ [Next]_vars => IInv'
<1> SUFFICES ASSUME IInv, [Next]_vars PROVE IInv'  OBVIOUS
<1>1. ASSUME NEW p \in Processes, NEW b \in Buckets, NEW v \in BOOLEAN, AskCreate(p, b, v)
      PROVE  IInv'
    <2>1. PICK f \in Files : Ask(p, [op |-> "create", bucket |-> b, file |-> f,
                                     version |-> NoVersion, versioning |-> v])
        BY <1>1 DEF AskCreate
    <2> DEFINE q == [op |-> "create", bucket |-> b, file |-> f, version |-> NoVersion, versioning |-> v]
    <2>2. q \in Requests /\ q.op = "create"  BY MaxUploadsAssumption DEF Requests, NoVersion
    <2>3. Ask(p, q)  BY <2>1
    <2> HIDE DEF q
    <2>4. uploads' \in 0..MaxUploads  BY <2>2, <2>3 DEF Ask, IInv, TypeOK
    <2> QED  BY <2>2, <2>3, <2>4, AskStep
<1>2. ASSUME NEW p \in Processes, NEW b \in Buckets, NEW f \in Files, AskPut(p, b, f)
      PROVE  IInv'
    <2> DEFINE q == [op |-> "put", bucket |-> b, file |-> f, version |-> uploads + 1, versioning |-> FALSE]
    <2>1. uploads \in 0..MaxUploads /\ uploads < MaxUploads /\ Ask(p, q)
        BY <1>2 DEF AskPut, IInv, TypeOK
    <2>2. q \in Requests /\ q.op = "put" /\ ~q.versioning
        BY <2>1, MaxUploadsAssumption DEF Requests
    <2> HIDE DEF q
    <2>3. uploads' \in 0..MaxUploads  BY <2>1, <2>2, MaxUploadsAssumption DEF Ask
    <2> QED  BY <2>1, <2>2, <2>3, AskStep
<1>3. ASSUME NEW p \in Processes, NEW b \in Buckets, NEW f \in Files,
             NEW op \in {"get", "delete"}, NEW v \in 0..uploads, AskOther(p, op, b, f, v)
      PROVE  IInv'
    <2> DEFINE q == [op |-> op, bucket |-> b, file |-> f, version |-> v, versioning |-> FALSE]
    <2>1. uploads \in 0..MaxUploads /\ Ask(p, q)  BY <1>3 DEF AskOther, IInv, TypeOK
    <2>2. q \in Requests /\ q.op # "put" /\ ~q.versioning
        BY <2>1, MaxUploadsAssumption DEF Requests
    <2> HIDE DEF q
    <2>3. uploads' \in 0..MaxUploads  BY <2>1, <2>2 DEF Ask
    <2> QED  BY <2>1, <2>2, <2>3, AskStep
<1>4. ASSUME NEW p \in Processes, CallRefused(p)
      PROVE  IInv'
    BY <1>4, AnswerStep DEF CallRefused
<1>5. ASSUME NEW p \in Processes, Breaks(p)
      PROVE  IInv'
    BY <1>5, AnswerStep DEF Breaks
<1>6. ASSUME NEW p \in Processes, ServerError(p) \/ Dies(p)
      PROVE  IInv'
    BY <1>6, AnswerStep DEF ServerError, Dies
<1>7. CASE UNCHANGED vars
    BY <1>7 DEF vars, IInv, TypeOK, CallFitsRequest, AnswerPending, DoneByChange, PromiseKept
<1> QED
    BY <1>1, <1>2, <1>3, <1>4, <1>5, <1>6, <1>7, CallReturnsStep, AnswerLostStep DEF Next, Handler

LEMMA Invariance == Spec => []IInv
BY InvInit, InvStep, PTL DEF Spec

-----------------------------------------------------------------------------
\* The variables have their types, for any number of processes and uploads.
THEOREM TypeCorrect == Spec => []TypeOK
<1>1. IInv => TypeOK  BY DEF IInv
<1> QED  BY <1>1, Invariance, PTL

\* Once create_bucket has answered that a bucket is versioned, no upload to it is
\* lost by a call that does not name it (minio_client.py:173-188): for any number
\* of processes, and whatever calls break, are sent again or are cut off.
THEOREM HistoryIsKept == Spec => KeepsHistory
<1>1. IInv /\ [Next]_vars =>
          [\A b \in promised : \A f \in Files : \A c \in Kept(b, f) \ {Marker} :
               c \in Kept(b, f)' \/ DropsByName(b, f, c)]_vars
    <2> SUFFICES ASSUME IInv, Next, NEW b \in promised, NEW f \in Files, NEW c \in Kept(b, f)
                 PROVE  c \in Kept(b, f)' \/ DropsByName(b, f, c)
        OBVIOUS
    <2>1. TypeOK /\ b \in Buckets /\ versioning[b] = "on"  BY DEF IInv, TypeOK, PromiseKept
    <2>2. ASSUME NEW p \in Processes, CallReturns(p) \/ AnswerLost(p)
          PROVE  c \in Kept(b, f)' \/ DropsByName(b, f, c)
        <3>1. call[p] # "idle" /\ ErrorCode(p) = "none" /\ Execute(p)
            BY <2>2 DEF CallReturns, AnswerLost, Callable
        <3> QED  BY <2>1, <3>1, ExecuteEffect
    <2>3. CASE history' = history  BY <2>3 DEF Kept
    <2> QED
        BY <2>2, <2>3 DEF Next, Handler, AskCreate, AskPut, AskOther, Ask, CallRefused, Breaks,
                          ServerError, Dies
<1> QED  BY <1>1, Invariance, PTL DEF Spec, KeepsHistory

\* The answers of the API are true of MinIO (minio_client.py:163-266): every step
\* of the handlers is a step of ObjectPromise, or changes neither an answer nor
\* what was done.
THEOREM TrueAnswers == Spec => AnswersAreTrue
<1>1. Init => P!Init  BY DEF Init, P!Init
<1>2. IInv /\ [Next]_vars => [P!Next]_(P!ovars)
    <2> SUFFICES ASSUME IInv, Next PROVE P!Next \/ UNCHANGED <<answer, done>>
        BY DEF vars, P!ovars
    <2>0. TypeOK /\ AnswerPending /\ DoneByChange  BY DEF IInv
    <2>d. done \in [Processes -> BOOLEAN]  BY <2>0 DEF TypeOK
    <2>1. ASSUME NEW p \in Processes, NEW q, Ask(p, q)
          PROVE  P!Next
        <3>1. P!Ask(p)  BY <2>0, <2>1 DEF Ask, AnswerPending, P!Ask
        <3> QED  BY <3>1 DEF P!Next
    <2>2. ASSUME NEW p \in Processes, NEW a \in {"ok", "refused", "absent", "failed", "lost"},
                 call[p] # "idle", Answers(p, a), UNCHANGED done,
                 a # "ok", a \in {"refused", "absent"} => ~done[p]
          PROVE  P!Next
        <3>1. answer[p] = "none"  BY <2>0, <2>2 DEF AnswerPending
        <3>2. done' = [done EXCEPT ![p] = done[p]] /\ done'[p] = done[p]  BY <2>d, <2>2
        <3>3. P!Tell(p, a)  BY <2>2, <3>1, <3>2, Zenon DEF Answers, P!Tell
        <3> QED  BY <2>2, <3>3 DEF P!Next
    <2>3. ASSUME NEW p \in Processes, CallReturns(p)
          PROVE  P!Next \/ UNCHANGED <<answer, done>>
        <3>1. CASE NextCall(p) # "idle"  BY <2>3, <3>1 DEF CallReturns
        <3>2. CASE NextCall(p) = "idle"
            <4>1. answer[p] = "none"  BY <2>0, <2>3 DEF AnswerPending, CallReturns, Callable
            <4>2. /\ answer' = [answer EXCEPT ![p] = "ok"]
                  /\ done' = [done EXCEPT ![p] = TRUE] /\ done'[p]
                BY <2>d, <2>3, <3>2 DEF CallReturns, Answers
            <4>3. P!Tell(p, "ok")  BY <4>1, <4>2, Zenon DEF P!Tell
            <4> QED  BY <4>3 DEF P!Next
        <3> QED  BY <3>1, <3>2
    <2>4. ASSUME NEW p \in Processes, AnswerLost(p)
          PROVE  P!Next \/ UNCHANGED <<answer, done>>
        <3>1. answer[p] = "none"  BY <2>0, <2>4 DEF AnswerPending, AnswerLost
        <3>2. CASE NextCall(p) = "idle"
            <4>1. P!Do(p)  BY <2>4, <3>1, <3>2, Zenon DEF AnswerLost, P!Do
            <4> QED  BY <4>1 DEF P!Next
        <3>3. CASE NextCall(p) # "idle"
            <4>1. (done[p] \/ NextCall(p) = "idle") = done[p]  BY <2>d, <3>3, Zenon
            <4>2. done' = done  BY <2>d, <2>4, <4>1 DEF AnswerLost
            <4> QED  BY <2>4, <4>2 DEF AnswerLost
        <3> QED  BY <3>2, <3>3
    <2>5. ASSUME NEW p \in Processes, CallRefused(p)
          PROVE  P!Next
        <3>1. call[p] # "idle" /\ ErrorCode(p) # "none"  BY <2>5 DEF CallRefused, Callable
        <3>2. ErrorCode(p) \in {"NoSuchBucket", "NoSuchKey"} => ~done[p]
            BY <2>0, <3>1 DEF DoneByChange, ErrorCode
        <3> QED  BY <2>2, <2>5, <3>1, <3>2 DEF CallRefused
    <2>6. ASSUME NEW p \in Processes, Breaks(p)
          PROVE  P!Next
        <3>1. call[p] = "stat" => ~done[p]  BY <2>0 DEF DoneByChange
        <3> QED  BY <2>2, <2>6, <3>1 DEF Breaks
    <2>7. ASSUME NEW p \in Processes, ServerError(p) \/ Dies(p)
          PROVE  P!Next
        BY <2>2, <2>7 DEF ServerError, Dies, Callable
    <2> QED
        BY <2>1, <2>3, <2>4, <2>5, <2>6, <2>7 DEF Next, Handler, AskCreate, AskPut, AskOther
<1> QED  BY <1>1, <1>2, Invariance, PTL DEF Spec, AnswersAreTrue, P!Spec
=============================================================================
