--------------------------- MODULE MCHarborConfig ---------------------------
(* Model checking of Harbor's configuration Job with its four remotes and   *)
(* the two further pods that its backoff limit allows.                      *)
EXTENDS HarborConfig
=============================================================================
