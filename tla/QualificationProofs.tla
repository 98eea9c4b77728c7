-------------------------- MODULE QualificationProofs --------------------------
(***************************************************************************)
(* What is proved of Qualification for any facts, suite of checks and      *)
(* length of the log: the types, that the newest run decides, and that a   *)
(* model is admitted on measurements of the facts of now.                  *)
(***************************************************************************)
EXTENDS Qualification, FiniteSetTheorems, SequenceTheorems, TLAPS

-----------------------------------------------------------------------------
(* Types.                                                                  *)

Run == [at: {"intend", "check", "complete"}, identity: Facts, source: Source,
        checks: Evidence, interrupted: BOOLEAN, under: SUBSET Facts]

\* The types, and no evidence before the intent.
RunTyped == run # None => run \in Run /\ (run.at = "intend" => run.checks = <<>>)

LEMMA NoEvidence == <<>> \in Evidence
  <1>1. <<>> \in [{} -> Outcome]
    OBVIOUS
  <1>2. {} \in SUBSET Check
    OBVIOUS
  <1> QED
    BY <1>1, <1>2 DEF Evidence

\* What one more check leaves is evidence.
LEMMA MoreEvidence ==
    ASSUME NEW checks \in Evidence, NEW c \in Check, NEW outcome \in Outcome
    PROVE  [d \in DOMAIN checks \cup {c} |-> IF d = c THEN outcome ELSE checks[d]] \in Evidence
  <1>1. PICK C \in SUBSET Check : checks \in [C -> Outcome]
    BY DEF Evidence
  <1>2. PICK D \in SUBSET Check : D = DOMAIN checks \cup {c}
    BY <1>1
  <1>3. [d \in D |-> IF d = c THEN outcome ELSE checks[d]] \in [D -> Outcome]
    BY <1>1, <1>2
  <1> QED
    BY <1>2, <1>3 DEF Evidence

\* The next check of the suite is one of its checks.
LEMMA NextCheck ==
    ASSUME NEW checks \in Evidence, Cardinality(DOMAIN checks) < Len(Checks)
    PROVE  Checks[Cardinality(DOMAIN checks) + 1] \in Check
  <1>1. PICK C \in SUBSET Check : checks \in [C -> Outcome]
    BY DEF Evidence
  <1>2. Checks \in Seq(Check) /\ Len(Checks) \in Nat /\ DOMAIN Checks = 1..Len(Checks)
    BY QualificationConstants
  <1>3. IsFiniteSet(Check)
    <2>1. IsFiniteSet(DOMAIN Checks)
      BY <1>2, FS_Interval
    <2>2. Check = {Checks[i] : i \in DOMAIN Checks}
      BY DEF Check
    <2>3. PICK f : f = [i \in DOMAIN Checks |-> Checks[i]]
      OBVIOUS
    <2>4. f \in Surjection(DOMAIN Checks, Check)
      BY <2>2, <2>3 DEF Surjection
    <2> QED
      BY <2>1, <2>4, FS_Surjection
  <1>4. Cardinality(DOMAIN checks) \in Nat
    BY <1>1, <1>3, FS_Subset, FS_CardinalityType
  <1> QED
    BY <1>2, <1>4 DEF Check

\* A record of a run is a record of the log.
LEMMA RecordOfType ==
    ASSUME run \in Run, NEW phase \in {"intent", "completed"}
    PROVE  RecordOf(phase) \in Record
  BY DEF RecordOf, Record, Run

LEMMA QTypeInit == QInit => QTypeOK /\ RunTyped
  BY DEF QInit, QTypeOK, RunTyped

LEMMA QTypeStep == QTypeOK /\ RunTyped /\ [QNext]_vars => QTypeOK' /\ RunTyped'
  <1> SUFFICES ASSUME QTypeOK, RunTyped, [QNext]_vars PROVE QTypeOK' /\ RunTyped'
    OBVIOUS
  <1>1. /\ facts \in Facts /\ log \in Seq(Record)
        /\ \A i \in DOMAIN log : log[i].phase = "intent" => log[i].checks = <<>>
        /\ newest \in {"none", "running", "passed", "not passed"}
        /\ run # None => run \in Run /\ (run.at = "intend" => run.checks = <<>>)
    BY DEF QTypeOK, RunTyped
  <1>2. ASSUME facts' \in Facts, log' \in Seq(Record),
               \A i \in DOMAIN log' : log'[i].phase = "intent" => log'[i].checks = <<>>,
               newest' \in {"none", "running", "passed", "not passed"},
               run' # None => run' \in Run /\ (run'.at = "intend" => run'.checks = <<>>)
        PROVE  QTypeOK' /\ RunTyped'
    BY <1>2 DEF QTypeOK, RunTyped, Run
  <1>3. ASSUME NEW source \in Source, Observe(source) PROVE QTypeOK' /\ RunTyped'
    <2>1. run' \in Run /\ run'.checks = <<>>
      BY <1>1, <1>3, NoEvidence DEF Observe, Run
    <2> QED
      BY <1>1, <1>2, <1>3, <2>1 DEF Observe
  <1>4. ASSUME run \in Run, NEW phase \in {"intent", "completed"},
               phase = "intent" => run.checks = <<>>, log' = Append(log, RecordOf(phase))
        PROVE  /\ log' \in Seq(Record)
               /\ \A i \in DOMAIN log' : log'[i].phase = "intent" => log'[i].checks = <<>>
    <2>1. PICK r \in Record : r = RecordOf(phase)
      BY <1>4, RecordOfType
    <2>2. r.phase = "intent" => r.checks = <<>>
      BY <1>4, <2>1 DEF RecordOf
    <2>3. log' = Append(log, r) /\ log \in Seq(Record)
      BY <1>1, <1>4, <2>1
    <2>4. /\ log' \in Seq(Record) /\ DOMAIN log' = 1..Len(log) + 1 /\ DOMAIN log = 1..Len(log)
          /\ Len(log) \in Nat /\ log'[Len(log) + 1] = r
          /\ \A i \in 1..Len(log) : log'[i] = log[i]
      BY <2>3, AppendProperties
    <2>5. ASSUME NEW i \in DOMAIN log', log'[i].phase = "intent" PROVE log'[i].checks = <<>>
      <3>1. CASE i \in DOMAIN log
        BY <1>1, <2>4, <2>5, <3>1
      <3>2. CASE i = Len(log) + 1
        BY <2>2, <2>4, <2>5, <3>2
      <3> QED
        BY <2>4, <3>1, <3>2
    <2> QED
      BY <2>4, <2>5
  <1>5. CASE Intend
    <2>1. run \in Run /\ run.checks = <<>> /\ run.at = "intend"
      BY <1>1, <1>5 DEF Intend, At
    <2>2. run' \in Run /\ run'.at = "check"
      BY <2>1, <1>5 DEF Intend, Run
    <2> QED
      BY <1>1, <1>2, <1>4, <1>5, <2>1, <2>2 DEF Intend
  <1>6. ASSUME NEW outcome \in Outcome, RunCheck(outcome) PROVE QTypeOK' /\ RunTyped'
    <2>1. run \in Run /\ run.at = "check" /\ run.checks \in Evidence /\ run.under \in SUBSET Facts
      BY <1>1, <1>6 DEF RunCheck, At, Run
    <2>2. PICK c : c = Checks[Cardinality(DOMAIN run.checks) + 1]
      OBVIOUS
    <2>3. c \in Check
      BY <1>6, <2>1, <2>2, NextCheck DEF RunCheck
    <2>4. PICK checks : checks = [d \in DOMAIN run.checks \cup {c} |-> IF d = c THEN outcome ELSE run.checks[d]]
      OBVIOUS
    <2>5. checks \in Evidence
      BY <2>1, <2>3, <2>4, MoreEvidence
    <2>6. run' = [run EXCEPT !.checks = checks, !.under = @ \cup {facts}]
      BY <1>6, <2>2, <2>4 DEF RunCheck
    <2>7. run' \in Run /\ run'.at = "check"
      BY <1>1, <2>1, <2>5, <2>6 DEF Run
    <2> QED
      BY <1>1, <1>2, <1>6, <2>7 DEF RunCheck
  <1>7. CASE Raise \/ Reobserve
    <2>1. run \in Run
      BY <1>1, <1>7 DEF Raise, Reobserve, At
    <2>2. run' \in Run /\ run'.at = "complete"
      BY <1>7, <2>1 DEF Raise, Reobserve, Run
    <2> QED
      BY <1>1, <1>2, <1>7, <2>2 DEF Raise, Reobserve
  <1>8. CASE CompleteRun
    <2>1. run \in Run
      BY <1>1, <1>8 DEF CompleteRun, At
    <2> QED
      BY <1>1, <1>2, <1>4, <1>8, <2>1 DEF CompleteRun
  <1>9. CASE CrashRun \/ UNCHANGED vars \/ \E new \in Facts : Change(new)
    BY <1>1, <1>2, <1>9 DEF CrashRun, vars, Change
  <1> QED
    BY <1>3, <1>5, <1>6, <1>7, <1>8, <1>9 DEF QNext

\* Every variable keeps its type, and an intent holds no evidence.
THEOREM QTypeCorrect == QSpec => [](QTypeOK /\ RunTyped)
  BY QTypeInit, QTypeStep, PTL DEF QSpec

-----------------------------------------------------------------------------
(* Only the newest run decides.                                            *)

Good(r) == ~Failed(r) /\ Required \subseteq Passed(r)

\* The newest record says how far the newest run that has begun its checks has come,
\* whatever has become of its process.
LogInv ==
    /\ log # <<>> /\ log[Len(log)].phase = "intent" => newest = "running"
    /\ log # <<>> /\ log[Len(log)].phase = "completed" =>
         newest = IF Good(log[Len(log)]) THEN "passed" ELSE "not passed"

\* A log one record longer ends in that record.
LEMMA LastOfLog ==
    ASSUME QTypeOK, NEW phase \in {"intent", "completed"}, run \in Run,
           log' = Append(log, RecordOf(phase))
    PROVE  /\ log' # <<>> /\ log'[Len(log')] = RecordOf(phase)
           /\ Len(log') = Len(log) + 1 /\ Len(log) \in Nat
           /\ \A i \in 1..Len(log) : log'[i] = log[i]
  <1>1. PICK r \in Record : r = RecordOf(phase)
    BY RecordOfType
  <1>2. log \in Seq(Record) /\ log' = Append(log, r)
    BY <1>1 DEF QTypeOK
  <1> QED
    BY <1>1, <1>2, AppendProperties

LEMMA LogInvStep == QTypeOK /\ RunTyped /\ LogInv /\ [QNext]_vars => LogInv'
  <1> SUFFICES ASSUME QTypeOK, RunTyped, LogInv, [QNext]_vars PROVE LogInv'
    OBVIOUS
  <1>1. CASE Intend
    <2>1. run \in Run /\ log' = Append(log, RecordOf("intent")) /\ newest' = "running"
      BY <1>1 DEF Intend, At, RunTyped
    <2>2. log'[Len(log')].phase = "intent"
      BY <2>1, LastOfLog DEF RecordOf
    <2> QED
      BY <2>1, <2>2 DEF LogInv
  <1>2. CASE CompleteRun
    <2>1. run \in Run /\ log' = Append(log, RecordOf("completed"))
      BY <1>2 DEF CompleteRun, At, RunTyped
    <2>2. PICK r : r = RecordOf("completed")
      OBVIOUS
    <2>3. r.phase = "completed" /\ r.checks = run.checks /\ r.interrupted = run.interrupted
      BY <2>2 DEF RecordOf
    <2>4. Good(r) <=> ~Failed(run) /\ Required \subseteq Passed(run)
      BY <2>3 DEF Good, Failed, Passed
    <2>5. newest' = IF Good(r) THEN "passed" ELSE "not passed"
      BY <1>2, <2>4 DEF CompleteRun
    <2>6. log'[Len(log')] = r
      BY <2>1, <2>2, LastOfLog
    <2> QED
      BY <2>3, <2>5, <2>6 DEF LogInv
  <1>3. ASSUME UNCHANGED <<log, newest>> PROVE LogInv'
    BY <1>3 DEF LogInv
  <1>4. CASE ~Intend /\ ~CompleteRun
    BY <1>3, <1>4 DEF QNext, vars, Observe, RunCheck, Raise, Reobserve, CrashRun, Change
  <1> QED
    BY <1>1, <1>2, <1>4

LEMMA LogInvariant == QSpec => [](QTypeOK /\ RunTyped /\ LogInv)
  <1>1. QInit => LogInv
    BY DEF QInit, LogInv
  <1> QED
    BY <1>1, QTypeInit, QTypeStep, LogInvStep, PTL DEF QSpec

\* What is qualified was completed without a failure and passed what is required.
LEMMA QualifiedIsGood ==
    ASSUME QTypeOK, NEW current, Status(current) = "qualified"
    PROVE  /\ log # <<>> /\ Len(log) \in DOMAIN log
           /\ log[Len(log)].phase = "completed" /\ log[Len(log)].identity = current
           /\ Good(log[Len(log)])
  <1>1. log # <<>> /\ Assess(log[Len(log)], current) = "qualified"
    BY DEF Status
  <1>2. Len(log) \in DOMAIN log
    <2>1. log \in Seq(Record)
      BY DEF QTypeOK
    <2>2. Len(log) \in Nat \ {0} /\ DOMAIN log = 1..Len(log)
      BY <1>1, <2>1, EmptySeq, LenProperties
    <2> QED
      BY <2>2
  <1>3. PICK r : r = log[Len(log)]
    OBVIOUS
  <1>4. r.identity = current
    BY <1>1, <1>3 DEF Assess
  <1>5. ~Failed(r)
    BY <1>1, <1>3, <1>4 DEF Assess
  <1>6. Required \subseteq Passed(r) /\ r.phase = "completed"
    BY <1>1, <1>3, <1>4, <1>5 DEF Assess
  <1> QED
    BY <1>1, <1>2, <1>3, <1>4, <1>5, <1>6 DEF Good

\* From the moment a new run has begun its checks, through its crash and its restart,
\* only that run can qualify the model (the intent written first, and latest() by
\* order of arrival).
THEOREM NewestRunIsDecisive == QSpec => []NewestRunDecides
  <1>1. ASSUME QTypeOK, LogInv, NEW current \in Facts, Status(current) = "qualified"
        PROVE newest = "passed"
    BY <1>1, QualifiedIsGood DEF LogInv
  <1>2. QTypeOK /\ LogInv => NewestRunDecides
    BY <1>1 DEF NewestRunDecides
  <1> QED
    BY <1>2, LogInvariant, PTL

-----------------------------------------------------------------------------
(* What admits a model was measured under the facts of now.                *)

\* While the facts are those the run began with, everything was measured under them:
\* this is what the second observation relies on, and it is true only of facts that
\* do not return.  A verdict that is not a failure was measured under its identity.
MeasureInv ==
    /\ run # None =>
         /\ run.at = "intend" => run.under = {}
         /\ run.at = "check" /\ facts = run.identity => run.under \subseteq {run.identity}
         /\ run.at = "complete" /\ ~run.interrupted => run.under \subseteq {run.identity}
    /\ \A i \in DOMAIN log :
         log[i].phase = "completed" /\ ~log[i].interrupted => log[i].under \subseteq {log[i].identity}

LEMMA MeasureInvStep ==
    ASSUME Returning = FALSE, QTypeOK, RunTyped, MeasureInv, [QNext]_vars
    PROVE  MeasureInv'
  <1>2. ASSUME NEW phase \in {"intent", "completed"}, run \in Run,
               log' = Append(log, RecordOf(phase)),
               phase = "completed" /\ ~run.interrupted => run.under \subseteq {run.identity}
        PROVE  \A i \in DOMAIN log' :
                 log'[i].phase = "completed" /\ ~log'[i].interrupted =>
                    log'[i].under \subseteq {log'[i].identity}
    <2>1. PICK r \in Record : r = RecordOf(phase)
      BY <1>2, RecordOfType
    <2>2. r.phase = "completed" /\ ~r.interrupted => r.under \subseteq {r.identity}
      BY <1>2, <2>1 DEF RecordOf
    <2>3. log' = Append(log, r) /\ log \in Seq(Record)
      BY <1>2, <2>1 DEF QTypeOK
    <2>4. /\ DOMAIN log' = 1..Len(log) + 1 /\ DOMAIN log = 1..Len(log)
          /\ Len(log) \in Nat /\ log'[Len(log) + 1] = r
          /\ \A i \in 1..Len(log) : log'[i] = log[i]
      BY <2>3, AppendProperties
    <2> QED
      BY <2>2, <2>4 DEF MeasureInv
  <1>3. ASSUME NEW source \in Source, Observe(source) PROVE MeasureInv'
    BY <1>3 DEF Observe, MeasureInv
  <1>4. CASE Intend
    <2>1. run \in Run /\ run.under = {} /\ run' = [run EXCEPT !.at = "check"]
      BY <1>4 DEF Intend, At, RunTyped, MeasureInv
    <2>2. run'.at = "check" /\ run'.under = {}
      BY <2>1 DEF Run
    <2> QED
      BY <1>2, <1>4, <2>1, <2>2 DEF Intend, MeasureInv
  <1>5. ASSUME NEW outcome \in Outcome, RunCheck(outcome) PROVE MeasureInv'
    <2>1. PICK checks : run' = [run EXCEPT !.checks = checks, !.under = @ \cup {facts}]
      BY <1>5 DEF RunCheck
    <2>2. run \in Run /\ run.at = "check" /\ UNCHANGED <<facts, log>>
      BY <1>5 DEF RunCheck, At, RunTyped
    <2>3. run'.at = "check" /\ run'.under = run.under \cup {facts} /\ run'.identity = run.identity
      BY <2>1, <2>2 DEF Run
    <2>4. facts = run.identity => run.under \subseteq {run.identity}
      BY <1>5, <2>2 DEF MeasureInv, RunCheck, At
    <2> QED
      BY <2>2, <2>3, <2>4 DEF MeasureInv
  <1>6. CASE Raise
    <2>1. run \in Run /\ UNCHANGED <<facts, log>>
      BY <1>6 DEF Raise, At, RunTyped
    <2>2. run'.at = "complete" /\ run'.interrupted = TRUE
      BY <1>6, <2>1 DEF Raise, Run
    <2> QED
      BY <2>1, <2>2 DEF MeasureInv
  <1>7. CASE Reobserve
    <2>1. run \in Run /\ run.at = "check" /\ UNCHANGED <<facts, log>>
      BY <1>7 DEF Reobserve, At, RunTyped
    <2>2. /\ run'.at = "complete" /\ run'.interrupted = (facts # run.identity)
          /\ run'.under = run.under /\ run'.identity = run.identity
      BY <1>7, <2>1 DEF Reobserve, Run
    <2>3. facts = run.identity => run.under \subseteq {run.identity}
      BY <1>7, <2>1 DEF MeasureInv, Reobserve, At
    <2> QED
      BY <2>1, <2>2, <2>3 DEF MeasureInv
  <1>8. CASE CompleteRun
    <2>1. run \in Run /\ run.at = "complete" /\ run' = None
      BY <1>8 DEF CompleteRun, At, RunTyped
    <2>2. ~run.interrupted => run.under \subseteq {run.identity}
      BY <1>8, <2>1 DEF MeasureInv, CompleteRun, At
    <2> QED
      BY <1>2, <1>8, <2>1, <2>2 DEF CompleteRun, MeasureInv
  <1>9. CASE CrashRun
    BY <1>9 DEF CrashRun, MeasureInv
  <1>10. ASSUME NEW new \in Facts, Change(new) PROVE MeasureInv'
    BY <1>10 DEF Change, MeasureInv
  <1>11. CASE UNCHANGED vars
    BY <1>11 DEF vars, MeasureInv
  <1> QED
    BY <1>3, <1>4, <1>5, <1>6, <1>7, <1>8, <1>9, <1>10, <1>11 DEF QNext

\* Where facts that changed during a run do not change back in it, whatever admits a
\* model to a route was measured: every required check, and the tool check for a route
\* with tools, passed while the facts were those of now (the two observations of run,
\* and the comparison in assess).  Where facts may change back, the checks can have
\* met others than those they are credited to (see ChangeFailsRun).
THEOREM AdmissionIsMeasured ==
    ASSUME Returning = FALSE
    PROVE  QSpec => []AdmittedMeansMeasured
  <1>1. QInit => MeasureInv
    BY DEF QInit, MeasureInv
  <1>2. QTypeOK /\ RunTyped /\ MeasureInv /\ [QNext]_vars => MeasureInv'
    BY MeasureInvStep
  <1>3. ASSUME QTypeOK, MeasureInv, NEW toolUse \in BOOLEAN, RequireQualified(facts, toolUse)
        PROVE  /\ log[Len(log)].under \subseteq {facts}
               /\ Required \cup (IF toolUse THEN {ToolCalling} ELSE {}) \subseteq Passed(log[Len(log)])
    <2>1. Status(facts) = "qualified" /\ (toolUse => ToolCalling \in Passed(log[Len(log)]))
      BY <1>3 DEF RequireQualified
    <2>2. /\ Len(log) \in DOMAIN log /\ log[Len(log)].phase = "completed"
          /\ log[Len(log)].identity = facts /\ Good(log[Len(log)])
      BY <1>3, <2>1, QualifiedIsGood
    <2> QED
      BY <1>3, <2>1, <2>2 DEF MeasureInv, Good, Failed
  <1>4. QTypeOK /\ MeasureInv => AdmittedMeansMeasured
    BY <1>3 DEF AdmittedMeansMeasured
  <1> QED
    BY <1>1, <1>2, <1>4, QTypeInit, QTypeStep, PTL DEF QSpec
=============================================================================
