------------------------------ MODULE Transfer ------------------------------
(***************************************************************************)
(* What a data-copy workflow promises its submitter: it names files, copies *)
(* them one by one in any order, and ends once, in success only when every *)
(* file it named was copied.                                               *)
(***************************************************************************)
EXTENDS Naturals

CONSTANTS Workflows, Files

VARIABLES
    status,   \* each workflow's phase in Argo
    wanted,   \* the files it was asked to copy
    copied    \* the files it has copied

tvars == <<status, wanted, copied>>

Init ==
    /\ status = [w \in Workflows |-> "none"]
    /\ wanted = [w \in Workflows |-> {}]
    /\ copied = [w \in Workflows |-> {}]

Submit(w, F) ==
    /\ status[w] = "none"
    /\ status' = [status EXCEPT ![w] = "Running"]
    /\ wanted' = [wanted EXCEPT ![w] = F]
    /\ UNCHANGED copied

Reject(w, F) ==
    /\ status[w] = "none"
    /\ status' = [status EXCEPT ![w] = "Failed"]
    /\ wanted' = [wanted EXCEPT ![w] = F]
    /\ UNCHANGED copied

Copy(w, f) ==
    /\ status[w] = "Running" /\ f \in wanted[w]
    /\ copied' = [copied EXCEPT ![w] = @ \cup {f}]
    /\ UNCHANGED <<status, wanted>>

Succeed(w) ==
    /\ status[w] = "Running" /\ wanted[w] \subseteq copied[w]
    /\ status' = [status EXCEPT ![w] = "Succeeded"]
    /\ UNCHANGED <<wanted, copied>>

Fail(w) ==
    /\ status[w] = "Running"
    /\ status' = [status EXCEPT ![w] = "Failed"]
    /\ UNCHANGED <<wanted, copied>>

End(w) == Succeed(w) \/ Fail(w)

Next ==
    \E w \in Workflows :
        \/ \E F \in SUBSET Files : Submit(w, F) \/ Reject(w, F)
        \/ \E f \in Files : Copy(w, f)
        \/ End(w)

Spec == Init /\ [][Next]_tvars
FairSpec == Spec /\ \A w \in Workflows : WF_tvars(End(w))
=============================================================================
