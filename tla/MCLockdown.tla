----------------------------- MODULE MCLockdown -----------------------------
(* Model checking of Lockdown.                                              *)
EXTENDS Lockdown
=============================================================================
