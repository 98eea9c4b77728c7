-------------------------------- MODULE MCNode ---------------------------------
(* The starts of a node's processes and the calls of its workspace tools.     *)
(* The two share no file and no variable, so every property of the one or the *)
(* other is decided by the behaviours in which only one of them moves.        *)
EXTENDS NodeStartup, Workspace, TLC

CONSTANTS p1, p2, c1, c2, n1, n2, n3, ws, inner, beside, f1, f2

MCUnder == {<<d, d>> : d \in Dir} \cup {<<inner, ws>>}
MCDirOf == (f1 :> inner) @@ (f2 :> beside)

Symmetry == Permutations({p1, p2}) \cup Permutations({c1, c2}) \cup Permutations({n1, n2, n3})

Unused == files = [f \in File |-> Nothing] /\ call = [c \in Call |-> Nothing]
NotStarted == db.tables = {} /\ file = None /\ temps = {} /\ at = [p \in Proc |-> "off"]

MCInit == SInit /\ FInit /\ (Unused \/ NotStarted)
MCNext ==
    \/ Unused /\ SNext /\ UNCHANGED fvars
    \/ NotStarted /\ FNext /\ UNCHANGED svars

MCSpec == MCInit /\ [][MCNext]_<<svars, fvars>>
=============================================================================
