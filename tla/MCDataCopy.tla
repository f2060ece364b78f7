----------------------------- MODULE MCDataCopy -----------------------------
(* Model checking of DataCopy: a workflow for two files, and a workflow for  *)
(* one of them, which is uploaded again and deleted meanwhile, or for none.  *)
EXTENDS DataCopy

CONSTANTS f1, f2, w1, w2

OneEach == [w \in Workflows |-> IF w = w1 THEN {<<f1, f2>>} ELSE {<<>>, <<f1>>}]
Once == [f \in Files |-> 1]
Uploads == [f \in Files |-> IF f = f1 THEN 2 ELSE 1]
=============================================================================
