------------------------------ MODULE MCEvidence ------------------------------
(* One task, two processes, a content with a good final field and one whose   *)
(* field is blank; a contract that asks for all there is, and a lesser one.   *)
EXTENDS Evidence, TLC

MCSays == [c \in Content |-> Field]
MCTexts == [c \in Content |-> IF c = "text" THEN Field ELSE {}]
Everything == [tools |-> Tool, names |-> Name, fields |-> Field]
MCContracts == {Everything, [Everything EXCEPT !.fields = {}]}
Processes == Permutations(Worker)
MCObservations == {Everything}
=============================================================================
