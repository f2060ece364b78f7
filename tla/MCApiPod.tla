------------------------------ MODULE MCApiPod ------------------------------
(* Model checking of ApiPod with the periods and thresholds of              *)
(* api_server.py, in ticks of ten seconds.                                  *)
EXTENDS ApiPod
=============================================================================
