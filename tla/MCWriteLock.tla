----------------------------- MODULE MCWriteLock -----------------------------
(* WriteLock on three ticket writers: one that SIGKILL may reach, one that   *)
(* signals and failing commands may end, and one that nothing disturbs.      *)
EXTENDS WriteLock, TLC

CONSTANTS w1, w2, w3, none
=============================================================================
