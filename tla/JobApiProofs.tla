---------------------------- MODULE JobApiProofs ----------------------------
(***************************************************************************)
(* Proofs about JobApi, for any number of requests and any lifetimes that  *)
(* satisfy the module's assumptions.                                       *)
(***************************************************************************)
EXTENDS JobApi, TLAPS

\* The age of a token and the life of credentials stay in range as time passes.
LEMMA LessType ==
    ASSUME NEW n \in Nat, NEW m \in 0..n
    PROVE  Less(m) \in 0..n
  BY DEF Less

\* The shape of the handlers: what a position in a program implies.
LEMMA ProgramShape ==
    ASSUME NEW o \in Op
    PROVE  /\ Program[o] \in Seq({"version", "ensure", "list", "read", "s3", "stat", "argo"})
           /\ Len(Program[o]) \in 1..4
           /\ \A i \in 1..Len(Program[o]) :
                /\ Program[o][i] \in S3Steps =>
                     /\ \E j \in 1..(i - 1) : Program[o][j] = "ensure"
                     /\ i < Len(Program[o]) => Program[o][i + 1] \in S3Steps
                /\ Program[o][i] \in {"read", "version"} => i < Len(Program[o])
  <1>1. CASE o = "readyz"
    BY <1>1 DEF Program, S3Steps
  <1>2. CASE o = "upload"
    BY <1>2 DEF Program, S3Steps
  <1>3. CASE o = "get"
    BY <1>3 DEF Program, S3Steps
  <1>4. CASE o = "bucket"
    BY <1>4 DEF Program, S3Steps
  <1>5. CASE o = "delete"
    BY <1>5 DEF Program, S3Steps
  <1>6. CASE o = "argo"
    BY <1>6 DEF Program, S3Steps
  <1>7. o \in {"readyz", "upload", "get", "bucket", "delete", "argo"}
    BY DEF Op, Program
  <1> QED BY <1>1, <1>2, <1>3, <1>4, <1>5, <1>6, <1>7

LEMMA OpsType == Ops \subseteq Op
  BY OpsAssumption DEF Op, Program

LEMMA FirstStep ==
    ASSUME NEW o \in Ops
    PROVE  o \in Op /\ 1 \in 0..Len(Program[o]) /\ 1 \in Nat
  <1>1. o \in Op
    BY OpsType
  <1>2. Len(Program[o]) \in 1..4
    BY <1>1, ProgramShape
  <1>3. ASSUME NEW n \in 1..4 PROVE 1 \in 0..n
    OBVIOUS
  <1> QED BY <1>1, <1>2, <1>3

-----------------------------------------------------------------------------
(* Type correctness.                                                        *)
LEMMA FinishType ==
    ASSUME TypeOK, NEW r \in Requests, NEW a \in Answer, Finish(r, a)
    PROVE  /\ pc' \in [Requests -> Nat]
           /\ answer' \in [Requests -> Answer]
           /\ running' \in Requests \cup {NoTask}
           /\ stage' \in Stage
  BY DEF Finish, TypeOK, ThreadType, TaskType, Stage

LEMMA ContinueType ==
    ASSUME TypeOK, NEW r \in Requests, Continue(r)
    PROVE  /\ pc' \in [Requests -> Nat]
           /\ answer' \in [Requests -> Answer]
           /\ running' \in Requests \cup {NoTask}
           /\ stage' \in Stage
  <1>1. CASE Advance(r)
    BY <1>1 DEF Advance, TypeOK, ThreadType, TaskType, Stage
  <1>2. CASE \E a \in {"ok", "unready"} : Finish(r, a)
    BY <1>2, FinishType DEF Answer
  <1> QED BY <1>1, <1>2 DEF Continue

LEMMA InitType == Init => TypeOK
  <1> SUFFICES ASSUME Init PROVE TypeOK
    OBVIOUS
  <1>1. SessionType
    BY DEF Init, SessionType, Token
  <1>5. LifetimeType
    BY LifetimeAssumption DEF Init, LifetimeType
  <1>2. ThreadType
    BY MaxTriesAssumption DEF Init, ThreadType, Stage
  <1>3. "argo" \in Op
    BY DEF Op, Program
  <1>4. TaskType
    BY <1>3 DEF Init, TaskType, Answer
  <1> QED BY <1>1, <1>2, <1>4, <1>5 DEF TypeOK

LEMMA NextType == TypeOK /\ [Next]_vars => TypeOK'
  <1> SUFFICES ASSUME TypeOK, [Next]_vars PROVE TypeOK'
    OBVIOUS
  <1> USE DEF TypeOK, LifetimeType, SessionType, ThreadType, TaskType, Token, Stage
  <1> USE DEF session, thread, tasks, ghosts
  <1>1. CASE Tick
    BY <1>1, LessType, LifetimeAssumption DEF Tick
  <1>2. CASE Rotate
    BY <1>2, LifetimeAssumption DEF Rotate, Older
  <1>3. CASE Issue
    BY <1>3, LifetimeAssumption DEF Issue
  <1>4. CASE InitStatic
    BY <1>4 DEF InitStatic
  <1>5. CASE InitTry
    BY <1>5, MaxTriesAssumption DEF InitTry
  <1>6. CASE InitTryFails
    BY <1>6, LifetimeAssumption DEF InitTryFails, StsOver
  <1>7. CASE InitGivesUp
    BY <1>7 DEF InitGivesUp
  <1>8. CASE InitDone
    <2>1. SessionType'
      BY <1>8, LifetimeAssumption DEF InitDone, StsOver
    <2>2. ThreadType'
      BY <1>8, LifetimeAssumption DEF InitDone, StsOver
    <2>3. TaskType'
      BY <1>8, LifetimeAssumption DEF InitDone, StsOver
    <2>4. LifetimeType'
      BY <1>8, LifetimeAssumption DEF InitDone, StsOver
    <2> QED BY <2>1, <2>2, <2>3, <2>4
  <1>9. CASE Crash
    <2>1. SessionType'
      BY <1>9, LifetimeAssumption DEF Crash, Lose, StsOver, Answer
    <2>2. ThreadType'
      BY <1>9, LifetimeAssumption DEF Crash, Lose, StsOver, Answer
    <2>3. TaskType'
      BY <1>9, LifetimeAssumption DEF Crash, Lose, StsOver, Answer
    <2>4. LifetimeType'
      BY <1>9, LifetimeAssumption DEF Crash, Lose, StsOver, Answer
    <2> QED BY <2>1, <2>2, <2>3, <2>4
  <1>10. CASE Restart
    <2>1. SessionType'
      BY <1>10, MaxTriesAssumption, LifetimeAssumption DEF Restart
    <2>2. ThreadType'
      BY <1>10, MaxTriesAssumption, LifetimeAssumption DEF Restart
    <2>3. TaskType'
      BY <1>10, MaxTriesAssumption, LifetimeAssumption DEF Restart
    <2>4. LifetimeType'
      BY <1>10, MaxTriesAssumption, LifetimeAssumption DEF Restart
    <2> QED BY <2>1, <2>2, <2>3, <2>4
  <1>11. CASE \E r \in Requests, o \in Ops : Arrive(r, o) \/ Refuse(r, o)
    BY <1>11, OpsType DEF Arrive, Refuse, Answer
  <1>12. ASSUME NEW r \in Requests, Resume(r) PROVE TypeOK'
    BY <1>12 DEF Resume, At
  <1>13. ASSUME NEW r \in Requests, Yield(r) PROVE TypeOK'
    BY <1>13 DEF Yield, Runs, At
  <1>14. ASSUME NEW r \in Requests, EnsureUnchanged(r) PROVE TypeOK'
    BY <1>14, ContinueType DEF EnsureUnchanged
  <1>15. ASSUME NEW r \in Requests, EnsureChanged(r) PROVE TypeOK'
    BY <1>15 DEF EnsureChanged
  <1>16. ASSUME NEW r \in Requests, Refreshed(r) PROVE TypeOK'
    <2>1. Continue(r) \/ Finish(r, "failed")
      BY <1>16 DEF Refreshed
    <2>2. ThreadType' /\ pc' \in [Requests -> Nat] /\ answer' \in [Requests -> Answer]
      BY <1>16, <2>1, ContinueType, FinishType DEF Refreshed, Answer
    <2>3. SessionType'
      BY <1>16 DEF Refreshed, StsOver
    <2>4. LifetimeType'
      BY <1>16, LifetimeAssumption DEF Refreshed, StsOver
    <2> QED BY <1>16, <2>2, <2>3, <2>4 DEF Refreshed
  <1>17. ASSUME NEW r \in Requests, RefreshFails(r) PROVE TypeOK'
    BY <1>17, FinishType, LifetimeAssumption DEF RefreshFails, StsOver, Answer
  <1>18. ASSUME NEW r \in Requests, CallWithoutClient(r) PROVE TypeOK'
    BY <1>18, FinishType DEF CallWithoutClient, Answer
  <1>19. ASSUME NEW r \in Requests, Call(r) PROVE TypeOK'
    BY <1>19 DEF Call
  <1>20. ASSUME NEW r \in Requests, CallSucceeds(r) PROVE TypeOK'
    BY <1>20, ContinueType, FinishType DEF CallSucceeds, Answer
  <1>21. ASSUME NEW r \in Requests, CallRefused(r) PROVE TypeOK'
    BY <1>21, FinishType DEF CallRefused, Answer
  <1>22. ASSUME NEW r \in Requests, CallBreaks(r) PROVE TypeOK'
    BY <1>22, FinishType DEF CallBreaks, Answer
  <1>23. ASSUME NEW r \in Requests, CallArgo(r) PROVE TypeOK'
    BY <1>23 DEF CallArgo
  <1>24. ASSUME NEW r \in Requests, ArgoAnswers(r) PROVE TypeOK'
    BY <1>24, FinishType DEF ArgoAnswers, Answer
  <1>25. ASSUME NEW r \in Requests, NEW ok \in BOOLEAN, ArgoChecked(r, ok) PROVE TypeOK'
    BY <1>25 DEF ArgoChecked, Advance
  <1>26. CASE UNCHANGED vars
    BY <1>26 DEF vars
  <1>27. ASSUME NEW r \in Requests, ReadFails(r) PROVE TypeOK'
    BY <1>27, FinishType DEF ReadFails, Answer
  <1>28. ASSUME NEW r \in Requests, EnsureUnreadable(r) PROVE TypeOK'
    BY <1>28, ContinueType DEF EnsureUnreadable
  <1>29. ASSUME NEW r \in Requests, ArgoUnasked(r) PROVE TypeOK'
    BY <1>29, FinishType DEF ArgoUnasked, Answer
  <1> QED
    BY <1>1, <1>2, <1>3, <1>4, <1>5, <1>6, <1>7, <1>8, <1>9, <1>10, <1>11,
       <1>12, <1>13, <1>14, <1>15, <1>16, <1>17, <1>18, <1>19, <1>20,
       <1>21, <1>22, <1>23, <1>24, <1>25, <1>26, <1>27, <1>28, <1>29 DEF Next,
       Startup, Handler

\* TypeOK holds in every state, for any requests, lifetimes and retry bound.
THEOREM TypeCorrect == Spec => []TypeOK
  BY InitType, NextType, PTL DEF Spec

-----------------------------------------------------------------------------
(* The loop.  Positions stay inside their programs, and only a serving      *)
(* process has a handler on its loop.                                       *)
LEMMA StepShape ==
    ASSUME TypeOK, LoopInv, NEW r \in Requests, pc[r] > 0
    PROVE  /\ pc[r] \in 1..Len(Program[op[r]])
           /\ Len(Program[op[r]]) \in 1..4
           /\ Step(r) \in S3Steps =>
                /\ Checked(r)
                /\ pc[r] < Len(Program[op[r]]) => Program[op[r]][pc[r] + 1] \in S3Steps
           /\ Step(r) \in {"read", "version"} => pc[r] < Len(Program[op[r]])
  <1>1. op[r] \in Op
    BY DEF TypeOK, TaskType
  <1>2. pc[r] \in 1..Len(Program[op[r]])
    BY <1>1, ProgramShape DEF LoopInv
  <1> QED
    BY <1>1, <1>2, ProgramShape DEF Step, Checked

Moves(r) ==
    \/ pc' = [pc EXCEPT ![r] = 0]
    \/ pc[r] < Len(Program[op[r]]) /\ pc' = [pc EXCEPT ![r] = @ + 1]

LEMMA ContinueMoves ==
    ASSUME NEW r, Continue(r)
    PROVE  Moves(r) /\ stage' \in {"run", "idle"}
  BY DEF Continue, Advance, Finish, Moves

LEMMA MoveRange ==
    ASSUME TypeOK, LoopInv, NEW r \in Requests, op' = op, Moves(r)
    PROVE  \A q \in Requests : pc'[q] \in 0..Len(Program[op'[q]])
  <1>1. ASSUME NEW q \in Requests PROVE pc'[q] \in 0..Len(Program[op[q]])
    <2>1. pc \in [Requests -> Nat] /\ pc[q] \in 0..Len(Program[op[q]])
      BY DEF TypeOK, TaskType, LoopInv
    <2>2. Len(Program[op[q]]) \in 1..4
      BY ProgramShape DEF TypeOK, TaskType
    <2> QED BY <2>1, <2>2 DEF Moves
  <1> QED BY <1>1

LEMMA LoopStep == TypeOK /\ LoopInv /\ [Next]_vars => LoopInv'
  <1> SUFFICES ASSUME TypeOK, LoopInv, [Next]_vars PROVE LoopInv'
    OBVIOUS
  <1> USE DEF TypeOK, SessionType, ThreadType, TaskType, LoopInv, Trading
  <1> USE DEF Step, session, thread, tasks, ghosts
  <1>1. CASE Tick
    BY <1>1 DEF Tick
  <1>2. CASE Rotate
    BY <1>2 DEF Rotate, Older, Token
  <1>3. CASE Issue
    BY <1>3 DEF Issue
  <1>4. CASE InitStatic
    BY <1>4 DEF InitStatic
  <1>5. CASE InitTry
    BY <1>5, NoTaskAssumption DEF InitTry
  <1>6. CASE InitTryFails
    BY <1>6 DEF InitTryFails
  <1>7. CASE InitGivesUp
    BY <1>7 DEF InitGivesUp
  <1>8. CASE InitDone
    BY <1>8 DEF InitDone
  <1>9. CASE Crash
    BY <1>9, ProgramShape DEF Crash, Lose
  <1>10. CASE Restart
    BY <1>10 DEF Restart
  <1>11. CASE \E r \in Requests, o \in Ops : Arrive(r, o)
    <2>1. PICK r \in Requests, o \in Ops : Arrive(r, o)
      BY <1>11
    <2>2. 1 \in 0..Len(Program[o])
      BY FirstStep
    <2>3. ASSUME NEW q \in Requests PROVE pc'[q] \in 0..Len(Program[op'[q]])
      BY <2>1, <2>2, <2>3 DEF Arrive
    <2>4. running # NoTask => pc'[running] > 0
      BY <2>1 DEF Arrive
    <2> QED BY <2>1, <2>3, <2>4 DEF Arrive
  <1>12. CASE \E r \in Requests, o \in Ops : Refuse(r, o)
    BY <1>12, OpsType, ProgramShape DEF Refuse
  <1>13. CASE UNCHANGED vars
    BY <1>13 DEF vars
  <1>14. ASSUME NEW r \in Requests, Resume(r) PROVE LoopInv'
    <2>1. running' = r /\ pc' = pc /\ op' = op /\ proc' = "serving" /\ stage' = "run"
      BY <1>14 DEF Resume, At
    <2>2. pc[r] > 0 /\ r # NoTask
      BY <1>14, NoTaskAssumption DEF Resume
    <2> QED BY <2>1, <2>2
  <1>15. ASSUME NEW r \in Requests, Yield(r) PROVE LoopInv'
    BY <1>15, StepShape DEF Yield, Runs, At
  <1>16. ASSUME NEW r \in Requests, EnsureUnchanged(r) PROVE LoopInv'
    <2>1. \A q \in Requests : pc'[q] \in 0..Len(Program[op'[q]])
      BY <1>16, ContinueMoves, MoveRange DEF EnsureUnchanged
    <2>2. CASE Advance(r)
      BY <1>16, <2>1, <2>2 DEF EnsureUnchanged, Runs, At, Advance
    <2>3. CASE running' = NoTask /\ stage' = "idle"
      BY <1>16, <2>1, <2>3 DEF EnsureUnchanged, Runs, At
    <2> QED BY <1>16, <2>2, <2>3 DEF EnsureUnchanged, Continue, Finish
  <1>17. ASSUME NEW r \in Requests, EnsureChanged(r) PROVE LoopInv'
    BY <1>17 DEF EnsureChanged, Runs, At
  <1>18. ASSUME NEW r \in Requests, Refreshed(r) PROVE LoopInv'
    <2>1. \A q \in Requests : pc'[q] \in 0..Len(Program[op'[q]])
      BY <1>18, ContinueMoves, MoveRange DEF Refreshed, Finish, Moves
    <2>2. CASE Advance(r)
      BY <1>18, <2>1, <2>2 DEF Refreshed, At, Advance
    <2>3. CASE running' = NoTask /\ stage' = "idle"
      BY <1>18, <2>1, <2>3 DEF Refreshed, At
    <2> QED BY <1>18, <2>2, <2>3 DEF Refreshed, Continue, Finish
  <1>19. ASSUME NEW r \in Requests, RefreshFails(r) PROVE LoopInv'
    BY <1>19, StepShape DEF RefreshFails, At, Finish
  <1>20. ASSUME NEW r \in Requests, CallWithoutClient(r) PROVE LoopInv'
    BY <1>20, StepShape DEF CallWithoutClient, Runs, At, Finish
  <1>21. ASSUME NEW r \in Requests, Call(r) PROVE LoopInv'
    BY <1>21 DEF Call, Runs, At
  <1>22. ASSUME NEW r \in Requests, CallSucceeds(r) PROVE LoopInv'
    BY <1>22, StepShape DEF CallSucceeds, At, Continue, Advance, Finish
  <1>23. ASSUME NEW r \in Requests, CallRefused(r) PROVE LoopInv'
    BY <1>23, StepShape DEF CallRefused, At, Finish
  <1>24. ASSUME NEW r \in Requests, CallBreaks(r) PROVE LoopInv'
    BY <1>24, StepShape DEF CallBreaks, At, Finish
  <1>25. ASSUME NEW r \in Requests, CallArgo(r) PROVE LoopInv'
    BY <1>25 DEF CallArgo, Runs, At
  <1>26. ASSUME NEW r \in Requests, ArgoAnswers(r) PROVE LoopInv'
    BY <1>26, StepShape DEF ArgoAnswers, At, Finish
  <1>27. ASSUME NEW r \in Requests, NEW ok \in BOOLEAN, ArgoChecked(r, ok) PROVE LoopInv'
    BY <1>27, StepShape DEF ArgoChecked, At, Advance
  <1>28. ASSUME NEW r \in Requests, ReadFails(r) PROVE LoopInv'
    BY <1>28, StepShape DEF ReadFails, Runs, At, Finish
  <1>29. ASSUME NEW r \in Requests, EnsureUnreadable(r) PROVE LoopInv'
    <2>1. \A q \in Requests : pc'[q] \in 0..Len(Program[op'[q]])
      BY <1>29, ContinueMoves, MoveRange DEF EnsureUnreadable
    <2>2. CASE Advance(r)
      BY <1>29, <2>1, <2>2 DEF EnsureUnreadable, Runs, At, Advance
    <2>3. CASE running' = NoTask /\ stage' = "idle"
      BY <1>29, <2>1, <2>3 DEF EnsureUnreadable, Runs, At
    <2> QED BY <1>29, <2>2, <2>3 DEF EnsureUnreadable, Continue, Finish
  <1>30. ASSUME NEW r \in Requests, ArgoUnasked(r) PROVE LoopInv'
    BY <1>30, StepShape DEF ArgoUnasked, Runs, At, Finish
  <1> QED
    BY <1>1, <1>2, <1>3, <1>4, <1>5, <1>6, <1>7, <1>8, <1>9, <1>10, <1>11,
       <1>12, <1>13, <1>14, <1>15, <1>16, <1>17, <1>18, <1>19, <1>20,
       <1>21, <1>22, <1>23, <1>24, <1>25, <1>26, <1>27, <1>28, <1>29, <1>30 DEF Next, Startup,
       Handler

-----------------------------------------------------------------------------
(* The session.  Credentials bought with the token in the file are younger  *)
(* than it, and it is rotated before they can expire.                       *)
LEMMA CredStep == TypeOK /\ LoopInv /\ CredInv /\ [Next]_vars => CredInv'
  <1> SUFFICES ASSUME TypeOK, LoopInv, CredInv, [Next]_vars PROVE CredInv'
    OBVIOUS
  <1> USE LifetimeAssumption
  <1> USE DEF TypeOK, LifetimeType, SessionType, ThreadType, LoopInv, Trading, CredInv
  <1> USE DEF Token, session, thread, tasks, ghosts
  <1>1. CASE Tick
    BY <1>1 DEF Tick, Less
  <1>2. CASE Rotate
    BY <1>2 DEF Rotate, Older
  <1>3. CASE Issue
    BY <1>3 DEF Issue
  <1>4. CASE InitStatic
    BY <1>4 DEF InitStatic
  <1>5. CASE InitTry
    BY <1>5 DEF InitTry
  <1>6. CASE InitTryFails
    BY <1>6 DEF InitTryFails
  <1>7. CASE InitGivesUp
    BY <1>7 DEF InitGivesUp
  <1>8. CASE InitDone
    BY <1>8 DEF InitDone
  <1>9. CASE Crash
    BY <1>9 DEF Crash, Lose
  <1>10. CASE Restart
    BY <1>10 DEF Restart
  <1>11. CASE \E r \in Requests, o \in Ops : Arrive(r, o) \/ Refuse(r, o)
    BY <1>11 DEF Arrive, Refuse
  <1>12. CASE UNCHANGED vars
    BY <1>12 DEF vars
  <1>13. ASSUME NEW r \in Requests, Resume(r) PROVE CredInv'
    BY <1>13 DEF Resume, At
  <1>14. ASSUME NEW r \in Requests, Yield(r) PROVE CredInv'
    BY <1>14 DEF Yield, Runs, At
  <1>15. ASSUME NEW r \in Requests, EnsureUnchanged(r) PROVE CredInv'
    BY <1>15 DEF EnsureUnchanged, Runs, At, Continue, Advance, Finish
  <1>16. ASSUME NEW r \in Requests, EnsureChanged(r) PROVE CredInv'
    BY <1>16 DEF EnsureChanged, Runs, At
  <1>17. ASSUME NEW r \in Requests, Refreshed(r) PROVE CredInv'
    BY <1>17 DEF Refreshed, At, Continue, Advance, Finish
  <1>18. ASSUME NEW r \in Requests, RefreshFails(r) PROVE CredInv'
    BY <1>18 DEF RefreshFails, At, Finish
  <1>19. ASSUME NEW r \in Requests, CallWithoutClient(r) PROVE CredInv'
    BY <1>19 DEF CallWithoutClient, Runs, At, Finish
  <1>20. ASSUME NEW r \in Requests, Call(r) PROVE CredInv'
    BY <1>20 DEF Call, Runs, At
  <1>21. ASSUME NEW r \in Requests, CallSucceeds(r) PROVE CredInv'
    BY <1>21 DEF CallSucceeds, At, Continue, Advance, Finish
  <1>22. ASSUME NEW r \in Requests, CallRefused(r) PROVE CredInv'
    BY <1>22 DEF CallRefused, At, Finish
  <1>23. ASSUME NEW r \in Requests, CallBreaks(r) PROVE CredInv'
    BY <1>23 DEF CallBreaks, At, Finish
  <1>24. ASSUME NEW r \in Requests, CallArgo(r) PROVE CredInv'
    BY <1>24 DEF CallArgo, Runs, At
  <1>25. ASSUME NEW r \in Requests, ArgoAnswers(r) PROVE CredInv'
    BY <1>25 DEF ArgoAnswers, At, Finish
  <1>26. ASSUME NEW r \in Requests, NEW ok \in BOOLEAN, ArgoChecked(r, ok) PROVE CredInv'
    BY <1>26 DEF ArgoChecked, At, Advance
  <1>27. ASSUME NEW r \in Requests, ReadFails(r) PROVE CredInv'
    BY <1>27 DEF ReadFails, Runs, At, Finish
  <1>28. ASSUME NEW r \in Requests, EnsureUnreadable(r) PROVE CredInv'
    BY <1>28 DEF EnsureUnreadable, Runs, At, Continue, Advance, Finish
  <1>29. ASSUME NEW r \in Requests, ArgoUnasked(r) PROVE CredInv'
    BY <1>29 DEF ArgoUnasked, Runs, At, Finish
  <1> QED
    BY <1>1, <1>2, <1>3, <1>4, <1>5, <1>6, <1>7, <1>8, <1>9, <1>10, <1>11,
       <1>12, <1>13, <1>14, <1>15, <1>16, <1>17, <1>18, <1>19, <1>20,
       <1>21, <1>22, <1>23, <1>24, <1>25, <1>26, <1>27, <1>28, <1>29 DEF Next, Startup, Handler

-----------------------------------------------------------------------------
(* The check.  A request moves along its program, and whatever it checked   *)
(* stays true of the session until the token is rotated.                    *)
LEMMA MoveFacts ==
    ASSUME TypeOK, LoopInv, NEW r \in Requests, pc[r] > 0, op' = op, Moves(r)
    PROVE  \A q \in Requests :
             /\ Checked(q)' => Checked(q) \/ (q = r /\ Step(r) = "ensure")
             /\ q # r => pc'[q] = pc[q] /\ Step(q)' = Step(q)
             /\ Step(r) \in S3Steps /\ pc'[r] > 0 => Step(r)' \in S3Steps
  <1> USE DEF TypeOK, TaskType
  <1>1. Step(r) \in S3Steps /\ pc'[r] > 0 => Step(r)' \in S3Steps
    <2> SUFFICES ASSUME Step(r) \in S3Steps, pc'[r] > 0
                 PROVE  Step(r)' \in S3Steps
      OBVIOUS
    <2>1. pc[r] < Len(Program[op[r]]) /\ pc'[r] = pc[r] + 1
      BY DEF Moves
    <2>2. Program[op[r]][pc[r] + 1] \in S3Steps
      BY <2>1, StepShape
    <2>3. Step(r)' = Program[op[r]][pc[r] + 1]
      BY <2>1 DEF Step
    <2> QED BY <2>2, <2>3
  <1>2. ASSUME NEW q \in Requests
        PROVE  /\ Checked(q)' => Checked(q) \/ (q = r /\ Step(r) = "ensure")
               /\ q # r => pc'[q] = pc[q] /\ Step(q)' = Step(q)
    <2>1. CASE q # r
      <3>1. pc'[q] = pc[q]
        BY <2>1 DEF Moves
      <3>2. Checked(q)' => Checked(q)
        BY <3>1 DEF Checked
      <3>3. Step(q)' = Step(q)
        BY <3>1 DEF Step
      <3> QED BY <2>1, <3>1, <3>2, <3>3
    <2>2. CASE q = r /\ pc' = [pc EXCEPT ![r] = 0]
      <3>1. pc'[q] = 0
        BY <2>2
      <3> QED BY <3>1, <2>2 DEF Checked, Step
    <2>3. CASE q = r /\ pc' = [pc EXCEPT ![r] = @ + 1]
      <3>1. pc'[q] = pc[q] + 1 /\ pc[q] \in Nat
        BY <2>3
      <3>2. Checked(q)' => Checked(q) \/ Step(q) = "ensure"
        BY <3>1 DEF Checked, Step
      <3> QED BY <2>3, <3>2
    <2> QED BY <2>1, <2>2, <2>3 DEF Moves
  <1> QED BY <1>1, <1>2

LEMMA StillFacts ==
    ASSUME op' = op, pc' = pc
    PROVE  \A q \in Requests : (Checked(q)' <=> Checked(q)) /\ Step(q)' = Step(q)
  BY DEF Checked, Step

\* A step of r that leaves the session and the observations alone, and either
\* ends the request or is not its check, keeps what every request knows.
LEMMA QuietMove ==
    ASSUME TypeOK, LoopInv, CheckInv, StaleCallNeedsRotation,
           NEW r \in Requests, pc[r] > 0, running = r, op' = op, Moves(r),
           pc'[r] = 0 \/ (Step(r) # "ensure" /\ ~Trading),
           stage' \in {"run", "idle"},
           cached' = cached \/ (Trading /\ cached' = hand),
           unsure' = unsure, sent' = sent
    PROVE  CheckInv' /\ StaleCallNeedsRotation'
  <1>1. StaleCallNeedsRotation'
    BY DEF StaleCallNeedsRotation
  <1>2. ~Trading'
    BY DEF Trading
  <1>3. ASSUME NEW q \in Requests
        PROVE  Checked(q)' /\ q \notin unsure' => cached' # "old"
    <2> SUFFICES ASSUME Checked(q)', q \notin unsure PROVE cached' # "old"
      OBVIOUS
    <2>1. q = r => pc'[r] # 0
      BY DEF Checked
    <2>2. Checked(q) /\ ~(Trading /\ running = q)
      BY <2>1, MoveFacts
    <2> QED BY <2>2 DEF CheckInv
  <1>4. ASSUME NEW q \in Requests
        PROVE  pc'[q] > 0 /\ sent'[q] # "none" => Step(q)' \in S3Steps
    BY MoveFacts DEF CheckInv
  <1> QED BY <1>1, <1>2, <1>3, <1>4 DEF CheckInv

LEMMA CredLive == TypeOK /\ CredInv => LiveWhileTokenCurrent
  BY LifetimeAssumption
     DEF TypeOK, LifetimeType, SessionType, CredInv, LiveWhileTokenCurrent, Expired, Token

LEMMA CheckStep ==
    TypeOK /\ LoopInv /\ CredInv /\ CheckInv /\ StaleCallNeedsRotation /\ [Next]_vars
      => CheckInv' /\ StaleCallNeedsRotation'
  <1> DEFINE Goal == CheckInv' /\ StaleCallNeedsRotation'
  <1> SUFFICES ASSUME TypeOK, LoopInv, CredInv, CheckInv, StaleCallNeedsRotation, [Next]_vars
               PROVE  Goal
    OBVIOUS
  <1> USE DEF TypeOK, ThreadType, TaskType, CheckInv, StaleCallNeedsRotation, Trading
  <1> USE DEF session, thread, tasks, ghosts
  <1>1. CASE Tick
    BY <1>1, StillFacts DEF Tick
  <1>2. CASE Rotate
    BY <1>2, StillFacts DEF Rotate, Older
  <1>3. CASE Issue
    BY <1>3, StillFacts DEF Issue
  <1>4. CASE InitStatic
    BY <1>4, StillFacts DEF InitStatic
  <1>5. CASE InitTry
    BY <1>5, StillFacts, NoTaskAssumption DEF InitTry
  <1>6. CASE InitTryFails
    <2>1. UNCHANGED <<cached, unsure, sent>> /\ ~Trading' /\ running = NoTask
      BY <1>6 DEF InitTryFails, LoopInv
    <2>2. UNCHANGED <<op, pc>>
      BY <1>6 DEF InitTryFails
    <2> QED BY <2>1, <2>2, StillFacts, NoTaskAssumption
  <1>7. CASE InitGivesUp
    BY <1>7, StillFacts DEF InitGivesUp
  <1>8. CASE InitDone
    BY <1>8, StillFacts DEF InitDone
  <1>9. CASE Crash
    BY <1>9 DEF Crash, Lose, Checked
  <1>10. CASE Restart
    BY <1>10, StillFacts DEF Restart
  <1>11. CASE \E r \in Requests, o \in Ops : Arrive(r, o)
    <2>1. PICK r \in Requests, o \in Ops : Arrive(r, o)
      BY <1>11
    <2>2. ~Checked(r)' /\ sent'[r] = "none" /\ r # running
      BY <2>1, NoTaskAssumption DEF Arrive, Checked, LoopInv
    <2>3. ASSUME NEW q \in Requests, q # r
          PROVE  /\ Checked(q)' => Checked(q)
                 /\ Step(q)' = Step(q) /\ pc'[q] = pc[q] /\ sent'[q] = sent[q]
                 /\ q \in unsure' <=> q \in unsure
      BY <2>1, <2>3 DEF Arrive, Checked, Step
    <2>4. cached' = cached /\ hand' = hand /\ stage' = stage /\ running' = running
      BY <2>1 DEF Arrive
    <2> QED BY <2>2, <2>3, <2>4
  <1>12. CASE \E r \in Requests, o \in Ops : Refuse(r, o)
    BY <1>12 DEF Refuse, Checked, Step
  <1>13. CASE UNCHANGED vars
    BY <1>13, StillFacts DEF vars
  <1>14. ASSUME NEW r \in Requests, Resume(r) PROVE Goal
    BY <1>14, StillFacts DEF Resume, At
  <1>15. ASSUME NEW r \in Requests, Yield(r) PROVE Goal
    <2>1. running = r /\ pc[r] > 0 /\ Step(r) = "read" /\ ~Trading
      BY <1>15, NoTaskAssumption DEF Yield, Runs, At, LoopInv
    <2>2. pc[r] < Len(Program[op[r]])
      BY <2>1, StepShape
    <2>3. Moves(r) /\ stage' = "idle"
      BY <1>15, <2>2 DEF Yield, Moves
    <2>4. op' = op /\ cached' = cached /\ unsure' = unsure /\ sent' = sent
      BY <1>15 DEF Yield
    <2> QED BY <2>1, <2>3, <2>4, QuietMove
  <1>16. ASSUME NEW r \in Requests, EnsureUnchanged(r) PROVE Goal
    BY SMTT(30), <1>16, MoveFacts, ContinueMoves DEF EnsureUnchanged, Runs, At, LoopInv, S3Steps
  <1>17. ASSUME NEW r \in Requests, EnsureChanged(r) PROVE Goal
    <2>1. sent[r] = "none"
      BY <1>17 DEF EnsureChanged, Runs, At, S3Steps, LoopInv
    <2>2. running = r /\ running' = r /\ hand' = "current" /\ cached' = cached
          /\ stage' = "sts" /\ stage = "run" /\ sent' = sent
          /\ unsure' = unsure \ {r}
      BY <1>17 DEF EnsureChanged, Runs, At
    <2>3. \A q \in Requests :
            (Checked(q)' <=> Checked(q)) /\ Step(q)' = Step(q) /\ pc'[q] = pc[q]
      BY <1>17, StillFacts DEF EnsureChanged
    <2> QED BY <2>1, <2>2, <2>3
  <1>18. ASSUME NEW r \in Requests, Refreshed(r) PROVE Goal
    <2>1. Moves(r) /\ stage' \in {"run", "idle"} /\ op' = op /\ pc[r] > 0
      BY <1>18, ContinueMoves, NoTaskAssumption DEF Refreshed, At, Finish, Moves, LoopInv
    <2>2. cached' = hand /\ running = r /\ stage = "issued"
          /\ unsure' = unsure /\ sent' = sent
      BY <1>18 DEF Refreshed, At
    <2>3. ASSUME NEW q \in Requests
          PROVE  Checked(q)' /\ q \notin unsure' => cached' # "old"
      BY <2>1, <2>2, <2>3, MoveFacts
    <2>4. ASSUME NEW q \in Requests
          PROVE  pc'[q] > 0 /\ sent'[q] # "none" => Step(q)' \in S3Steps
      BY <2>1, <2>2, <2>4, MoveFacts
    <2> QED BY <2>1, <2>2, <2>3, <2>4
  <1>19. ASSUME NEW r \in Requests, RefreshFails(r) PROVE Goal
    <2>1. pc'[r] = 0 /\ Moves(r) /\ pc[r] > 0
      BY <1>19, NoTaskAssumption DEF RefreshFails, At, Finish, Moves, LoopInv
    <2> QED BY <1>19, <2>1, QuietMove DEF RefreshFails, At, Finish
  <1>20. ASSUME NEW r \in Requests, CallWithoutClient(r) PROVE Goal
    BY <1>20, QuietMove DEF CallWithoutClient, Runs, At, Finish, Moves, LoopInv, S3Steps
  <1>21. ASSUME NEW r \in Requests, Call(r) PROVE Goal
    <2>1. Checked(r) /\ ~Trading /\ proc = "serving" /\ hasClient
      BY <1>21, StepShape, NoTaskAssumption DEF Call, Runs, At, LoopInv, Trading
    <2>2. Expired => r \in unsure
      BY <2>1, CredLive DEF LiveWhileTokenCurrent
    <2>3. \A q \in Requests :
            (Checked(q)' <=> Checked(q)) /\ Step(q)' = Step(q) /\ pc'[q] = pc[q]
      BY <1>21, StillFacts DEF Call
    <2>4. cached' = cached /\ unsure' = unsure /\ Step(r) \in S3Steps /\ stage' = "s3"
      BY <1>21 DEF Call, Runs
    <2>5. sent' = [sent EXCEPT ![r] = IF Expired THEN "expired" ELSE "fresh"]
      BY <1>21 DEF Call
    <2> QED BY <2>1, <2>2, <2>3, <2>4, <2>5
  <1>22. ASSUME NEW r \in Requests, CallSucceeds(r) PROVE Goal
    <2>1. Moves(r) /\ stage' \in {"run", "idle"} /\ pc[r] > 0
      BY <1>22, ContinueMoves, NoTaskAssumption DEF CallSucceeds, At, Finish, Moves, LoopInv
    <2>2. Step(r) # "ensure" /\ ~Trading
      BY <1>22 DEF CallSucceeds, At, LoopInv, S3Steps
    <2> QED BY <1>22, <2>1, <2>2, QuietMove DEF CallSucceeds, At
  <1>23. ASSUME NEW r \in Requests, CallRefused(r) PROVE Goal
    BY <1>23, QuietMove DEF CallRefused, At, Finish, Moves, LoopInv
  <1>24. ASSUME NEW r \in Requests, CallBreaks(r) PROVE Goal
    BY <1>24, QuietMove DEF CallBreaks, At, Finish, Moves, LoopInv
  <1>25. ASSUME NEW r \in Requests, CallArgo(r) PROVE Goal
    BY <1>25, StillFacts DEF CallArgo, Runs, At
  <1>26. ASSUME NEW r \in Requests, ArgoAnswers(r) PROVE Goal
    BY <1>26, QuietMove DEF ArgoAnswers, At, Finish, Moves, LoopInv
  <1>27. ASSUME NEW r \in Requests, NEW ok \in BOOLEAN, ArgoChecked(r, ok) PROVE Goal
    <2>1. running = r /\ pc[r] > 0
      BY <1>27, NoTaskAssumption DEF ArgoChecked, At, LoopInv
    <2>2. pc[r] < Len(Program[op[r]])
      BY <1>27, <2>1, StepShape DEF ArgoChecked
    <2>3. Moves(r) /\ stage' = "run"
      BY <1>27, <2>2 DEF ArgoChecked, Advance, Moves
    <2>4. Step(r) # "ensure" /\ ~Trading
      BY <1>27 DEF ArgoChecked, At
    <2>5. op' = op /\ cached' = cached /\ unsure' = unsure /\ sent' = sent
      BY <1>27 DEF ArgoChecked
    <2> QED BY <2>1, <2>3, <2>4, <2>5, QuietMove
  <1>28. ASSUME NEW r \in Requests, ReadFails(r) PROVE Goal
    BY <1>28, QuietMove DEF ReadFails, Runs, At, Finish, Moves, LoopInv
  <1>29. ASSUME NEW r \in Requests, EnsureUnreadable(r) PROVE Goal
    BY SMTT(30), <1>29, MoveFacts, ContinueMoves DEF EnsureUnreadable, Runs, At, LoopInv, S3Steps
  <1>30. ASSUME NEW r \in Requests, ArgoUnasked(r) PROVE Goal
    BY <1>30, QuietMove DEF ArgoUnasked, Runs, At, Finish, Moves, LoopInv
  <1> QED
    BY <1>1, <1>2, <1>3, <1>4, <1>5, <1>6, <1>7, <1>8, <1>9, <1>10, <1>11,
       <1>12, <1>13, <1>14, <1>15, <1>16, <1>17, <1>18, <1>19, <1>20,
       <1>21, <1>22, <1>23, <1>24, <1>25, <1>26, <1>27, <1>28, <1>29, <1>30 DEF Next, Startup,
       Handler

-----------------------------------------------------------------------------
LEMMA InitInv == Init => SessionInv
  <1> SUFFICES ASSUME Init PROVE SessionInv
    OBVIOUS
  <1>1. LoopInv
    <2>1. "argo" \in Op
      BY DEF Op, Program
    <2>2. 0 \in 0..Len(Program["argo"])
      BY DEF Program
    <2> QED BY <2>1, <2>2 DEF Init, LoopInv, Trading
  <1>2. CredInv
    BY DEF Init, CredInv
  <1>3. CheckInv /\ StaleCallNeedsRotation
    BY DEF Init, CheckInv, Checked, Trading, StaleCallNeedsRotation
  <1> QED BY <1>1, <1>2, <1>3 DEF SessionInv

\* The parts of SessionInv hold in every state of every run of the process.
THEOREM SessionInvariant == Spec => []SessionInv
  <1>1. TypeOK /\ SessionInv /\ [Next]_vars => SessionInv'
    BY LoopStep, CredStep, CheckStep DEF SessionInv
  <1> QED BY InitInv, <1>1, TypeCorrect, PTL DEF Spec

\* While the token in the file is the one last traded, the client's credentials
\* are alive, whatever the lifetimes, the delays of STS and the restarts.
THEOREM CredentialsLive == Spec => []LiveWhileTokenCurrent
  <1>1. TypeOK /\ SessionInv => LiveWhileTokenCurrent
    BY CredLive DEF SessionInv
  <1> QED BY <1>1, TypeCorrect, SessionInvariant, PTL

\* A call with expired credentials comes only from a request that does not know
\* the file's token: after a rotation since its check, or after a check that could
\* not read the file.  This holds for any number of interleaved requests.
THEOREM StaleCalls == Spec => []StaleCallNeedsRotation
  <1>1. SessionInv => StaleCallNeedsRotation
    BY DEF SessionInv
  <1> QED BY <1>1, SessionInvariant, PTL

-----------------------------------------------------------------------------
(* With static keys there is no cached token, and so never a trade.          *)
NoToken == staticKeys => cached = "none" /\ stage \notin {"sts", "issued"}

\* The keys of MINIO_ACCESS_KEY are never traded for STS credentials, however
\* often the token rotates and the container restarts.
THEOREM KeysAreKept == Spec => []StaticKeysAreKept
  <1>1. Init => NoToken
    BY DEF Init, NoToken
  <1>2. NoToken /\ [Next]_vars => NoToken'
    <2> SUFFICES ASSUME NoToken, [Next]_vars PROVE NoToken'
      OBVIOUS
    <2> USE DEF NoToken, session, thread
    <2>1. CASE Tick \/ Rotate \/ Issue
      BY <2>1 DEF Tick, Rotate, Issue, Older
    <2>2. CASE Startup
      BY <2>2 DEF Startup, InitStatic, InitTry, InitTryFails, InitGivesUp, InitDone
    <2>3. CASE Crash \/ Restart
      BY <2>3 DEF Crash, Lose, Restart
    <2>4. CASE \E r \in Requests, o \in Ops : Arrive(r, o) \/ Refuse(r, o)
      BY <2>4 DEF Arrive, Refuse
    <2>5. CASE UNCHANGED vars
      BY <2>5 DEF vars
    <2>6. ASSUME NEW r \in Requests, Handler(r) PROVE NoToken'
      <3>1. CASE Resume(r) \/ Yield(r) \/ ReadFails(r)
        BY <3>1 DEF Resume, Yield, ReadFails, Finish
      <3>7. CASE ArgoUnasked(r) \/ CallArgo(r) \/ ArgoAnswers(r)
        BY <3>7 DEF ArgoUnasked, CallArgo, ArgoAnswers, Finish
      <3>2. CASE EnsureUnchanged(r) \/ EnsureUnreadable(r) \/ EnsureChanged(r)
        BY <3>2 DEF EnsureUnchanged, EnsureUnreadable, EnsureChanged, Continue, Advance, Finish
      <3>3. CASE Refreshed(r) \/ RefreshFails(r)
        BY <3>3 DEF Refreshed, RefreshFails, At, Finish
      <3>4. CASE CallWithoutClient(r) \/ Call(r) \/ CallRefused(r) \/ CallBreaks(r)
        BY <3>4 DEF CallWithoutClient, Call, CallRefused, CallBreaks, Finish
      <3>5. CASE CallSucceeds(r)
        BY <3>5 DEF CallSucceeds, Continue, Advance, Finish
      <3>6. CASE \E ok \in BOOLEAN : ArgoChecked(r, ok)
        BY <3>6 DEF ArgoChecked, Advance
      <3> QED BY <2>6, <3>1, <3>2, <3>3, <3>4, <3>5, <3>6, <3>7 DEF Handler
    <2> QED BY <2>1, <2>2, <2>3, <2>4, <2>5, <2>6 DEF Next
  <1>3. NoToken => StaticKeysAreKept
    BY DEF NoToken, StaticKeysAreKept
  <1> QED BY <1>1, <1>2, <1>3, PTL DEF Spec
-----------------------------------------------------------------------------
(* The holder of the loop.  Every action of a handler either stays in its    *)
(* step, goes to the next one, or gives the loop back.                       *)
LEMMA HolderStep ==
    TypeOK /\ LoopInv /\ LoopIsNeverStuck /\ [Next]_vars => LoopIsNeverStuck'
  <1> SUFFICES ASSUME TypeOK, LoopInv, LoopIsNeverStuck, [Next]_vars PROVE LoopIsNeverStuck'
    OBVIOUS
  <1> USE DEF TypeOK, SessionType, ThreadType, TaskType, LoopInv, Trading, LoopIsNeverStuck
  <1> USE DEF Step, Doing, S3Steps, session, thread, tasks, ghosts
  <1>0. NoTask \notin Requests
    BY NoTaskAssumption
  <1>1. CASE Tick
    BY <1>1 DEF Tick
  <1>2. CASE Rotate
    BY <1>2 DEF Rotate
  <1>3. CASE Issue
    BY <1>3 DEF Issue
  <1>4. CASE InitStatic
    BY <1>4 DEF InitStatic
  <1>5. CASE InitTry
    BY <1>5 DEF InitTry
  <1>6. CASE InitTryFails
    BY <1>6 DEF InitTryFails
  <1>7. CASE InitGivesUp
    BY <1>7 DEF InitGivesUp
  <1>8. CASE InitDone
    BY <1>8 DEF InitDone
  <1>9. CASE Crash
    BY <1>9 DEF Crash, Lose
  <1>10. CASE Restart
    BY <1>10 DEF Restart
  <1>11. CASE \E r \in Requests, o \in Ops : Arrive(r, o) \/ Refuse(r, o)
    BY <1>11 DEF Arrive, Refuse
  <1>12. CASE UNCHANGED vars
    BY <1>12 DEF vars
  <1>13. ASSUME NEW r \in Requests, Resume(r) PROVE LoopIsNeverStuck'
    BY <1>0, <1>13 DEF Resume, At
  <1>14. ASSUME NEW r \in Requests, Yield(r) PROVE LoopIsNeverStuck'
    BY <1>0, <1>14 DEF Yield, Runs, At
  <1>15. ASSUME NEW r \in Requests, EnsureUnchanged(r) PROVE LoopIsNeverStuck'
    BY <1>0, <1>15 DEF EnsureUnchanged, Runs, At, Continue, Advance, Finish
  <1>16. ASSUME NEW r \in Requests, EnsureChanged(r) PROVE LoopIsNeverStuck'
    BY <1>0, <1>16 DEF EnsureChanged, Runs, At
  <1>17. ASSUME NEW r \in Requests, Refreshed(r) PROVE LoopIsNeverStuck'
    BY <1>0, <1>17 DEF Refreshed, At, Continue, Advance, Finish
  <1>18. ASSUME NEW r \in Requests, RefreshFails(r) PROVE LoopIsNeverStuck'
    BY <1>0, <1>18 DEF RefreshFails, At, Finish
  <1>19. ASSUME NEW r \in Requests, CallWithoutClient(r) PROVE LoopIsNeverStuck'
    BY <1>0, <1>19 DEF CallWithoutClient, Runs, At, Finish
  <1>20. ASSUME NEW r \in Requests, Call(r) PROVE LoopIsNeverStuck'
    BY <1>0, <1>20 DEF Call, Runs, At
  <1>21. ASSUME NEW r \in Requests, CallSucceeds(r) PROVE LoopIsNeverStuck'
    BY <1>0, <1>21 DEF CallSucceeds, At, Continue, Advance, Finish
  <1>22. ASSUME NEW r \in Requests, CallRefused(r) PROVE LoopIsNeverStuck'
    BY <1>0, <1>22 DEF CallRefused, At, Finish
  <1>23. ASSUME NEW r \in Requests, CallBreaks(r) PROVE LoopIsNeverStuck'
    BY <1>0, <1>23 DEF CallBreaks, At, Finish
  <1>24. ASSUME NEW r \in Requests, CallArgo(r) PROVE LoopIsNeverStuck'
    BY <1>0, <1>24 DEF CallArgo, Runs, At
  <1>25. ASSUME NEW r \in Requests, ArgoAnswers(r) PROVE LoopIsNeverStuck'
    BY <1>0, <1>25 DEF ArgoAnswers, At, Finish
  <1>26. ASSUME NEW r \in Requests, NEW ok \in BOOLEAN, ArgoChecked(r, ok)
         PROVE  LoopIsNeverStuck'
    BY <1>0, <1>26 DEF ArgoChecked, At, Advance
  <1>27. ASSUME NEW r \in Requests, ReadFails(r) PROVE LoopIsNeverStuck'
    BY <1>0, <1>27 DEF ReadFails, Runs, At, Finish
  <1>28. ASSUME NEW r \in Requests, EnsureUnreadable(r) PROVE LoopIsNeverStuck'
    BY <1>0, <1>28 DEF EnsureUnreadable, Runs, At, Continue, Advance, Finish
  <1>29. ASSUME NEW r \in Requests, ArgoUnasked(r) PROVE LoopIsNeverStuck'
    BY <1>0, <1>29 DEF ArgoUnasked, Runs, At, Finish
  <1> QED
    BY <1>1, <1>2, <1>3, <1>4, <1>5, <1>6, <1>7, <1>8, <1>9, <1>10,
       <1>11, <1>12, <1>13, <1>14, <1>15, <1>16, <1>17, <1>18, <1>19,
       <1>20, <1>21, <1>22, <1>23, <1>24, <1>25, <1>26, <1>27, <1>28, <1>29 DEF Next,
       Startup, Handler

\* LoopIsNeverStuck holds for any number of requests: whatever call fails, nothing
\* but the answer to the holder's own call keeps the others waiting.
THEOREM LoopGoesOn == Spec => []LoopIsNeverStuck
  <1>1. Init => LoopIsNeverStuck
    BY DEF Init, LoopIsNeverStuck
  <1>2. SessionInv => LoopInv
    BY DEF SessionInv
  <1> QED BY <1>1, <1>2, HolderStep, TypeCorrect, SessionInvariant, PTL DEF Spec
=============================================================================
