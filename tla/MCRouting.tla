------------------------------ MODULE MCRouting ------------------------------
(* A free cloud model that may turn out paid, a local model that may have lost *)
(* its approval or be registered as a cloud model, and a second one on either *)
(* side of the boundary for the fallbacks.                                     *)
EXTENDS Routing

Cloud(id) ==
    [id |-> id, local |-> FALSE, cost |-> "zero", verified |-> TRUE, stage |-> "production",
     available |-> TRUE, privacy |-> {"public", "internal"}, tools |-> TRUE, meta |-> {},
     served |-> TRUE]

Local(id) ==
    [id |-> id, local |-> TRUE, cost |-> "local_compute", verified |-> FALSE, stage |-> "production",
     available |-> TRUE, privacy |-> Classes, tools |-> TRUE,
     meta |-> {"identity", "evals", "qualified"}, served |-> TRUE]

\* What each id may be registered as.
MCRefs == {Cloud(1), [Cloud(1) EXCEPT !.cost = "paid"],
           Local(2), [Local(2) EXCEPT !.stage = "evaluated"], Cloud(2),
           [Local(3) EXCEPT !.cost = "zero"]}
=============================================================================
