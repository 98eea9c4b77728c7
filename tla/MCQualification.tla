--------------------------- MODULE MCQualification ---------------------------
(* A required check and the optional tool check; facts that are complete and *)
(* facts that are not; up to three intents or two whole runs.                *)
EXTENDS Qualification

MCChecks == <<"load", "tool_calling">>
=============================================================================
