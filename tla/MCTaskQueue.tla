---------------------------- MODULE MCTaskQueue -----------------------------
(* TaskQueue for TLC; the bounds are the constants of the configurations.   *)
EXTENDS TaskQueue, TLC

CONSTANTS w1, w2, t1

Workers == Permutations({w1, w2})
=============================================================================
