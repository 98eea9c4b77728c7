---------------------------- MODULE StepJournal -----------------------------
(***************************************************************************)
(* The journal of tool steps: table execution_steps and its operations in  *)
(* dante/ledger.py, and dante/tool_broker.py, which runs the handler of a  *)
(* claimed step in a thread of its own and may stop waiting for it.        *)
(*                                                                         *)
(* A step is named by its task and its idempotency key.  What happens in   *)
(* the world is kept in effects, a history the program cannot read: how    *)
(* often the handler's effect took place.  intact says that the receipt,   *)
(* its file and the evidence the row cites still match their digests.      *)
(* The lease that fences these operations is conjoined in DanteWorker;     *)
(* nothing here depends on it, and status belongs to the environment.      *)
(***************************************************************************)
EXTENDS TaskStates, Integers

CONSTANTS
    Key,            \* idempotency keys of a task's steps
    NoCall,         \* a process that is not inside ToolBroker._run
    MaxAttempt      \* bound on execution_steps.attempt

VARIABLES
    step,           \* execution_steps.state, or "none" without a row
    intact,         \* the row's receipt and evidence verify
    attempt,        \* execution_steps.attempt
    effects,        \* history: how often the handler's effect happened
    threads,        \* handler threads that have not had their effect yet
    call            \* call[w]: the claimed step process w is executing

jvars == <<step, intact, attempt, effects, threads, call>>

Thread == [by: Worker, task: Task, key: Key, attempt: 1..MaxAttempt]
Call == [task: Task, key: Key, attempt: 1..MaxAttempt,
         stage: {"claimed", "waiting", "ok", "failed"}]

ASSUME JournalConstants == MaxAttempt \in Nat /\ NoCall \notin Call

-----------------------------------------------------------------------------
JInit ==
    /\ step = [t \in Task |-> [k \in Key |-> "none"]]
    /\ intact = [t \in Task |-> [k \in Key |-> TRUE]]
    /\ attempt = [t \in Task |-> [k \in Key |-> 0]]
    /\ effects = [t \in Task |-> [k \in Key |-> 0]]
    /\ threads = {}
    /\ call = [w \in Worker |-> NoCall]

\* verified_receipt and the evidence check of verified_step_result.
Verified(t, k) == step[t][k] = "succeeded" /\ intact[t][k]

\* The loop of Worker.run_once and AgentHost.resume over every prior step.
AllVerified(t) == \A k \in Key : step[t][k] \in {"none", "intent"} \/ Verified(t, k)

-----------------------------------------------------------------------------
(* The executing process.                                                  *)

\* prepare_step
Prepare(t, k) ==
    /\ Active(t)
    /\ step[t][k] = "none"
    /\ step' = [step EXCEPT ![t][k] = "intent"]
    /\ UNCHANGED <<intact, attempt, effects, threads, call>>

\* Seeded fault: a step that another process started may be started again.
ClaimStepAgain(w, t, k) ==
    /\ call[w] = NoCall
    /\ Active(t)
    /\ step[t][k] \in {"intent", "started"}
    /\ intact[t][k]
    /\ attempt[t][k] < MaxAttempt
    /\ step' = [step EXCEPT ![t][k] = "started"]
    /\ attempt' = [attempt EXCEPT ![t][k] = attempt[t][k] + 1]
    /\ call' = [call EXCEPT ![w] = [task |-> t, key |-> k,
                  attempt |-> attempt[t][k] + 1, stage |-> "claimed"]]
    /\ UNCHANGED <<intact, effects, threads>>

\* claim_step: only an intent may start; a reconciled intent cites evidence.
ClaimStep(w, t, k) ==
    /\ call[w] = NoCall
    /\ Active(t)
    /\ step[t][k] = "intent"
    /\ intact[t][k]
    /\ attempt[t][k] < MaxAttempt
    /\ step' = [step EXCEPT ![t][k] = "started"]
    /\ attempt' = [attempt EXCEPT ![t][k] = attempt[t][k] + 1]
    /\ call' = [call EXCEPT ![w] = [task |-> t, key |-> k,
                  attempt |-> attempt[t][k] + 1, stage |-> "claimed"]]
    /\ UNCHANGED <<intact, effects, threads>>

InStage(w, stages) == call[w] # NoCall /\ call[w].stage \in stages

\* ToolBroker._run starts the handler thread.
Spawn(w) ==
    /\ InStage(w, {"claimed"})
    /\ threads' = threads \cup {[by |-> w, task |-> call[w].task,
                    key |-> call[w].key, attempt |-> call[w].attempt]}
    /\ call' = [call EXCEPT ![w].stage = "waiting"]
    /\ UNCHANGED <<step, intact, attempt, effects>>

\* outcome.get(timeout_s) gave up; the thread stays.
Timeout(w) ==
    /\ InStage(w, {"waiting"})
    /\ call' = [call EXCEPT ![w].stage = "failed"]
    /\ UNCHANGED <<step, intact, attempt, effects, threads>>

\* Seeded fault: the state of the row is not checked before success is recorded.
FinishStepLate(w) ==
    /\ InStage(w, {"ok"})
    /\ LET t == call[w].task
           k == call[w].key
       IN  /\ Active(t)
           /\ step' = [step EXCEPT ![t][k] = "succeeded"]
           /\ intact' = [intact EXCEPT ![t][k] = TRUE]
    /\ call' = [call EXCEPT ![w] = NoCall]
    /\ UNCHANGED <<attempt, effects, threads>>

\* finish_step: only the step that is still started may succeed.
FinishStep(w) ==
    /\ InStage(w, {"ok"})
    /\ LET t == call[w].task
           k == call[w].key
       IN  /\ Active(t)
           /\ step[t][k] = "started"
           /\ step' = [step EXCEPT ![t][k] = "succeeded"]
           /\ intact' = [intact EXCEPT ![t][k] = TRUE]
    /\ call' = [call EXCEPT ![w] = NoCall]
    /\ UNCHANGED <<attempt, effects, threads>>

\* mark_uncertain, after a failed call or a receipt that cannot be made.
MarkUncertain(w) ==
    /\ InStage(w, {"ok", "failed"})
    /\ LET t == call[w].task
           k == call[w].key
       IN  /\ Active(t)
           /\ step' = IF step[t][k] = "started"
                        THEN [step EXCEPT ![t][k] = "uncertain"] ELSE step
    /\ call' = [call EXCEPT ![w] = NoCall]
    /\ UNCHANGED <<intact, attempt, effects, threads>>

\* mark_uncertain by another invocation of the same step, which failed before it
\* could claim it (the except clause of ToolBroker.invoke).
MarkForeign(t, k) ==
    /\ Active(t)
    /\ step[t][k] = "started"
    /\ step' = [step EXCEPT ![t][k] = "uncertain"]
    /\ UNCHANGED <<intact, attempt, effects, threads, call>>

\* finish_step or mark_uncertain was refused: the outcome is not recorded.
Abandon(w) ==
    /\ InStage(w, {"ok", "failed"})
    /\ call' = [call EXCEPT ![w] = NoCall]
    /\ UNCHANGED <<step, intact, attempt, effects, threads>>

-----------------------------------------------------------------------------
(* Handler threads, external.  A thread acts at most once and answers its   *)
(* own call if that still waits.                                           *)

Answer(th, stage) ==
    call' = [w \in Worker |->
        IF /\ w = th.by
           /\ InStage(w, {"waiting"})
           /\ <<call[w].task, call[w].key, call[w].attempt>>
                = <<th.task, th.key, th.attempt>>
        THEN [call[w] EXCEPT !.stage = stage] ELSE call[w]]

\* The effect takes place; the result may still be refused afterwards.
HandlerEffect(th) ==
    /\ effects' = [effects EXCEPT ![th.task][th.key] = @ + 1]
    /\ threads' = threads \ {th}
    /\ \E stage \in {"ok", "failed"} : Answer(th, stage)
    /\ UNCHANGED <<step, intact, attempt>>

\* The handler raises before it had any effect.
HandlerFail(th) ==
    /\ threads' = threads \ {th}
    /\ Answer(th, "failed")
    /\ UNCHANGED <<step, intact, attempt, effects>>

-----------------------------------------------------------------------------
(* Recovery, the reconciling operator and the file system.                 *)

\* Seeded fault: expiry is taken as proof that the step did not run.
ExpireToIntent(rows) ==
    /\ step' = [t \in Task |-> [k \in Key |->
                  IF t \in rows /\ step[t][k] = "started"
                  THEN "intent" ELSE step[t][k]]]
    /\ UNCHANGED <<intact, attempt, effects, threads, call>>

\* recover_expired, for the tasks in rows.
ExpireSteps(rows) ==
    /\ step' = [t \in Task |-> [k \in Key |->
                  IF t \in rows /\ step[t][k] = "started"
                  THEN "uncertain" ELSE step[t][k]]]
    /\ UNCHANGED <<intact, attempt, effects, threads, call>>

\* The prior executor of the step has been stopped.
Quiescent(t, k) ==
    /\ \A th \in threads : <<th.task, th.key>> # <<t, k>>
    /\ \A w \in Worker : call[w] # NoCall => <<call[w].task, call[w].key>> # <<t, k>>

\* reconcile_step.  The operator is trusted: executor_stopped is true and the
\* evidence's outcome (applied or not_applied) is what happened.
Reconcile(t, k) ==
    /\ Active(t)
    /\ \/ step[t][k] \in {"started", "uncertain"}
       \/ step[t][k] = "succeeded" /\ ~intact[t][k]
    /\ Quiescent(t, k)
    /\ step' = [step EXCEPT ![t][k] =
                  IF effects[t][k] > 0 THEN "succeeded" ELSE "intent"]
    /\ intact' = [intact EXCEPT ![t][k] = TRUE]
    /\ UNCHANGED <<attempt, effects, threads, call>>

\* A receipt's file or an evidence artifact is altered, or put back.
Tamper(t, k) ==
    /\ \/ step[t][k] = "succeeded"
       \/ step[t][k] = "intent" /\ attempt[t][k] > 0
    /\ intact' = [intact EXCEPT ![t][k] = ~intact[t][k]]
    /\ UNCHANGED <<step, attempt, effects, threads, call>>

\* Process w dies, and its daemon threads with it.
Kill(w) ==
    /\ threads' = {th \in threads : th.by # w}
    /\ call' = [call EXCEPT ![w] = NoCall]
    /\ UNCHANGED <<step, intact, attempt, effects>>

-----------------------------------------------------------------------------
JNext ==
    \/ \E t \in Task, k \in Key :
        \/ Prepare(t, k)
        \/ \E w \in Worker : ClaimStep(w, t, k)
        \/ MarkForeign(t, k)
        \/ Reconcile(t, k)
        \/ Tamper(t, k)
    \/ \E w \in Worker :
        \/ Spawn(w)
        \/ Timeout(w)
        \/ FinishStep(w)
        \/ MarkUncertain(w)
        \/ Abandon(w)
        \/ Kill(w)
    \/ \E th \in threads : HandlerEffect(th) \/ HandlerFail(th)
    \/ \E rows \in SUBSET Task : ExpireSteps(rows)

\* Nothing is said of status: any other component may move it.
JSpec == JInit /\ [][JNext]_jvars

-----------------------------------------------------------------------------
(* Properties.                                                             *)

\* Every variable keeps its type.
JTypeOK ==
    /\ step \in [Task -> [Key -> {"none", "intent", "started", "succeeded", "uncertain"}]]
    /\ intact \in [Task -> [Key -> BOOLEAN]]
    /\ attempt \in [Task -> [Key -> 0..MaxAttempt]]
    /\ effects \in [Task -> [Key -> Nat]]
    /\ threads \in SUBSET Thread
    /\ call \in [Worker -> Call \cup {NoCall}]

\* Whatever crashes, times out, is taken over or is reconciled, a step's
\* effect happens at most once (claim_step and reconcile_step never allow a
\* second handler while a first one did or still may act).
AtMostOnce == \A t \in Task, k \in Key : effects[t][k] <= 1

\* A step is recorded as succeeded only when its effect did happen, and as
\* open for execution only when it did not.
RecordIsTruthful ==
    \A t \in Task, k \in Key :
        /\ step[t][k] = "succeeded" => effects[t][k] = 1
        /\ step[t][k] \in {"none", "intent"} => effects[t][k] = 0

\* The answer of a handler whose step was meanwhile declared uncertain comes
\* too late: finish_step may not turn uncertain into succeeded, only a
\* reconciliation with no executor left may.
LateAnswerIgnored ==
    [][\A t \in Task, k \in Key :
         step[t][k] = "uncertain" /\ step'[t][k] # "uncertain" => Quiescent(t, k)]_jvars
=============================================================================
