--------------------------- MODULE ObjectPromise ---------------------------
(***************************************************************************)
(* What the answer to an object request of the job API promises: "ok" that *)
(* the object store did what was asked, at least once; "refused" and       *)
(* "absent" that it did not; "failed", or no answer, promises nothing.     *)
(***************************************************************************)
CONSTANT Processes

VARIABLES
    answer,   \* of each API process to its last request; "none" until given
    did       \* the store has done what that request asks for

ovars == <<answer, did>>

Init ==
    /\ answer = [p \in Processes |-> "lost"]
    /\ did = [p \in Processes |-> FALSE]

Ask(p) ==
    /\ answer[p] # "none"
    /\ answer' = [answer EXCEPT ![p] = "none"]
    /\ did' = [did EXCEPT ![p] = FALSE]

Do(p) ==
    /\ answer[p] = "none"
    /\ did' = [did EXCEPT ![p] = TRUE]
    /\ UNCHANGED answer

Tell(p, a) ==
    /\ answer[p] = "none"
    /\ a = "ok" => did'[p]
    /\ a \in {"refused", "absent"} => ~did'[p]
    /\ \E d \in {TRUE, did[p]} : did' = [did EXCEPT ![p] = d]
    /\ answer' = [answer EXCEPT ![p] = a]

Next ==
    \E p \in Processes :
        \/ Ask(p) \/ Do(p)
        \/ \E a \in {"ok", "refused", "absent", "failed", "lost"} : Tell(p, a)

Spec == Init /\ [][Next]_ovars
=============================================================================
