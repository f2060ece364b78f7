---------------------------- MODULE MCMinioConfig ----------------------------
(* Model checking of MinioConfig, with the numbers of the code.             *)
EXTENDS MinioConfig
=============================================================================
