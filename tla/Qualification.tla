---------------------------- MODULE Qualification ----------------------------
(***************************************************************************)
(* dante/qualification.py, for one scope (node, runtime, backend, model):  *)
(* the append-only log of qualification records, the runner that writes an *)
(* intent before its checks and a verdict after them, and the assessment   *)
(* that the registry's gate asks for before a local model is used.         *)
(*                                                                         *)
(* The facts an identity is made of change on their own.  The runner       *)
(* observes them twice, before and after its checks, and is alone, as      *)
(* docs/node-qualification.md asks; it may die at any step.                *)
(***************************************************************************)
EXTENDS Naturals, Sequences, FiniteSets

CONSTANTS
    Facts,          \* the values QualificationIdentity.identity_data may take
    Complete,       \* those for which missing_facts() is empty
    Checks,         \* the checks of the suite, in the order they are run
    Required,       \* REQUIRED_CHECKS
    ToolCalling,    \* Check.TOOL_CALLING
    Returning,      \* TRUE: facts that changed during a run may change back in it
    MaxRecords,     \* bound on the length of the log
    None

VARIABLES
    facts,          \* what QualificationProbe.observe returns now
    log,            \* model_qualifications, in order of arrival
    run,            \* the run in progress, or None
    newest          \* history: how far the last run begun has come

vars == <<facts, log, run, newest>>

Check == {Checks[i] : i \in DOMAIN Checks}
Outcome == {"passed", "failed", "unknown", "unsupported"}
Source == {"synthetic", "hardware"}

\* The evidence of a run so far, and the facts it was measured under.
Evidence == UNION {[C -> Outcome] : C \in SUBSET Check}

Record ==
    [phase: {"intent", "completed"}, identity: Facts, source: Source,
     checks: Evidence, interrupted: BOOLEAN, under: SUBSET Facts]

ASSUME QualificationConstants ==
    /\ Complete \subseteq Facts
    /\ Checks \in Seq(Check)
    /\ Required \subseteq Check /\ ToolCalling \in Check
    /\ Returning \in BOOLEAN
    /\ MaxRecords \in Nat

QInit ==
    /\ facts \in Facts
    /\ log = <<>>
    /\ run = None
    /\ newest = "none"

-----------------------------------------------------------------------------
(* assess and QualificationStore.                                          *)

Passed(r) == {c \in DOMAIN r.checks : r.checks[c] = "passed"}
Failed(r) == r.interrupted \/ \E c \in DOMAIN r.checks : r.checks[c] = "failed"

\* missing_facts() is empty.
NothingMissing(identity) == identity \in Complete

Assess(r, current) ==
    IF r.identity # current THEN "stale"
    ELSE IF Failed(r) THEN "failed"
    ELSE IF /\ Required \subseteq Passed(r)
            /\ NothingMissing(current)
            /\ r.phase = "completed"
            /\ r.source = "hardware"
         THEN "qualified" ELSE "unknown"

\* Seeded fault: the last run that was completed decides.
StatusOfCompleted(current) ==
    LET completed == {i \in DOMAIN log : log[i].phase = "completed"}
    IN  IF completed = {} THEN "unknown"
        ELSE Assess(log[CHOOSE i \in completed : \A j \in completed : j <= i], current)

\* status of the latest record of the scope.
Status(current) ==
    IF log = <<>> THEN "unknown" ELSE Assess(log[Len(log)], current)

\* require_qualified, which NodeQualificationGate calls.
RequireQualified(current, toolUse) ==
    /\ Status(current) = "qualified"
    /\ toolUse => ToolCalling \in Passed(log[Len(log)])

-----------------------------------------------------------------------------
(* QualificationRunner.run.                                                *)

At(stage) == run # None /\ run.at = stage

\* The first observation.
Observe(source) ==
    /\ run = None
    /\ Len(log) + 2 <= MaxRecords
    /\ run' = [at |-> "intend", identity |-> facts, source |-> source,
               checks |-> <<>>, interrupted |-> FALSE, under |-> {}]
    /\ UNCHANGED <<facts, log, newest>>

RecordOf(phase) ==
    [phase |-> phase, identity |-> run.identity, source |-> run.source,
     checks |-> run.checks, interrupted |-> run.interrupted, under |-> run.under]

\* The intent is on disk before the first check.
Intend ==
    /\ At("intend")
    /\ log' = Append(log, RecordOf("intent"))
    /\ run' = [run EXCEPT !.at = "check"]
    /\ newest' = "running"
    /\ UNCHANGED facts

\* The next check is run and its outcome kept.
RunCheck(outcome) ==
    /\ At("check")
    /\ Cardinality(DOMAIN run.checks) < Len(Checks)
    /\ LET c == Checks[Cardinality(DOMAIN run.checks) + 1]
       IN  run' = [run EXCEPT !.checks = [d \in DOMAIN run.checks \cup {c} |->
                                            IF d = c THEN outcome ELSE run.checks[d]],
                              !.under = @ \cup {facts}]
    /\ UNCHANGED <<facts, log, newest>>

\* A check, the performance measurement or the second observation raises.
Raise ==
    /\ At("check")
    /\ run' = [run EXCEPT !.at = "complete", !.interrupted = TRUE]
    /\ UNCHANGED <<facts, log, newest>>

\* Seeded fault: the facts are not observed again.
ReobserveNot ==
    /\ At("check")
    /\ DOMAIN run.checks = Check
    /\ run' = [run EXCEPT !.at = "complete"]
    /\ UNCHANGED <<facts, log, newest>>

\* The second observation.
Reobserve ==
    /\ At("check")
    /\ DOMAIN run.checks = Check
    /\ run' = [run EXCEPT !.at = "complete", !.interrupted = facts # run.identity]
    /\ UNCHANGED <<facts, log, newest>>

\* The verdict is appended.
CompleteRun ==
    /\ At("complete")
    /\ log' = Append(log, RecordOf("completed"))
    /\ newest' = IF /\ ~Failed(run) /\ Required \subseteq Passed(run)
                 THEN "passed" ELSE "not passed"
    /\ run' = None
    /\ UNCHANGED facts

\* The process of the runner dies.
CrashRun ==
    /\ run # None
    /\ run' = None
    /\ UNCHANGED <<facts, log, newest>>

\* A driver, a runtime, a model file or its configuration changes.
Change(new) ==
    /\ new # facts
    /\ (run # None /\ ~Returning) => new \notin run.under \cup {run.identity}
    /\ facts' = new
    /\ UNCHANGED <<log, run, newest>>

QNext ==
    \/ \E source \in Source : Observe(source)
    \/ Intend
    \/ \E outcome \in Outcome : RunCheck(outcome)
    \/ Raise
    \/ Reobserve
    \/ CompleteRun
    \/ CrashRun
    \/ \E new \in Facts : Change(new)

QSpec == QInit /\ [][QNext]_vars

-----------------------------------------------------------------------------
(* Properties.                                                             *)

\* Every variable keeps its type, and an intent holds no evidence.
QTypeOK ==
    /\ facts \in Facts
    /\ log \in Seq(Record)
    /\ \A i \in DOMAIN log : log[i].phase = "intent" => log[i].checks = <<>>
    /\ newest \in {"none", "running", "passed", "not passed"}
    /\ run # None =>
         run \in [at: {"intend", "check", "complete"}, identity: Facts, source: Source,
                  checks: Evidence, interrupted: BOOLEAN, under: SUBSET Facts]

\* A model is not admitted on the strength of an older run: from the moment a new
\* run has begun its checks, through its crash and its restart, only that run can
\* qualify it (the intent written first, latest() by order of arrival).
NewestRunDecides ==
    \A current \in Facts : Status(current) = "qualified" => newest = "passed"

\* What admits a model to a route was measured: every required check, and the
\* tool check for a route with tools, passed while the facts were those of now
\* (the two observations of run, and the comparison in assess).
AdmittedMeansMeasured ==
    \A toolUse \in BOOLEAN :
        RequireQualified(facts, toolUse) =>
            LET r == log[Len(log)]
            IN  /\ r.under \subseteq {facts}
                /\ Required \cup (IF toolUse THEN {ToolCalling} ELSE {}) \subseteq Passed(r)

\* A run during which the facts changed is assessed failed, as
\* docs/node-qualification.md:75 says of the state `failed'.
ChangeFailsRun ==
    \A i \in DOMAIN log :
        (log[i].phase = "completed" /\ ~(log[i].under \subseteq {log[i].identity})) =>
            Assess(log[i], log[i].identity) = "failed"
=============================================================================
