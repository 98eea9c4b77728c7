--------------------------- MODULE MCDanteWorker ----------------------------
(* DanteWorker for TLC: two workers and one task whose plan names one tool   *)
(* twice, so that the tools alone never tell the actions apart.              *)
EXTENDS DanteWorker, TLC

CONSTANTS w1, w2, tool

Workers == Permutations({w1, w2})

MCToolOf == [k \in Key |-> tool]
=============================================================================
