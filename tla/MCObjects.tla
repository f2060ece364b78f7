----------------------------- MODULE MCObjects -----------------------------
(* Model checking of Objects: two processes, one bucket, one file.          *)
EXTENDS Objects
=============================================================================
