------------------------------- MODULE MCBench ------------------------------
(* Three benches: one can be killed and leave its server, one find it, and   *)
(* one come after.                                                           *)
EXTENDS Bench
=============================================================================
