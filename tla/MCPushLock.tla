----------------------------- MODULE MCPushLock -----------------------------
(* TLC instance of PushLock. *)
EXTENDS PushLock, TLC

ThreadSymmetry == Permutations(Threads)
=============================================================================
