---------------------------- MODULE MCContinuity ----------------------------
(* One to two workers, tasks and backends, one model per backend.            *)
EXTENDS Continuity, TLC

CONSTANTS b1, b2

MCOneRoute == <<b1>>
MCRoutes == <<b1, b2>>
MCOneProvider == [b \in {b1} |-> b]
MCProviderOf == [b \in {b1, b2} |-> b]

Symmetry == Permutations(Worker)
=============================================================================
