---------------------------- MODULE DanteWorker -----------------------------
(***************************************************************************)
(* dante/worker.py with the part of dante/agent_host.py and                *)
(* dante/tool_broker.py it drives: worker processes that claim a task,     *)
(* execute its plan action by action through the step journal, verify its  *)
(* acceptance and release it, while clients cancel and retry, processes    *)
(* crash and start again, leases run out under a paused worker, handlers   *)
(* outlive their deadline and an operator reconciles what is uncertain.    *)
(*                                                                         *)
(* pc[w] names the next transaction or read of run_once.  A read and the   *)
(* fenced write it decides are one step: while the lease is valid only     *)
(* this worker changes the task row, and without it the write is refused   *)
(* whatever was read.  An operation the lease refuses raises LeaseLost,    *)
(* which is the action Lost.                                               *)
(***************************************************************************)
EXTENDS TaskQueue, StepJournal

CONSTANTS
    ToolOf,         \* ToolOf[k]: the tool action k of the plan names
    MaxFaults       \* bound on crashes, stops, failed heartbeats, retries, deferrals, tampering

VARIABLES
    pc,             \* pc[w]: where worker w is
    index,          \* index[w]: the action run_once is at
    stop,           \* stop[w]: the threading.Event
    beat,           \* beat[w]: the heartbeat thread is running
    cancelled,      \* cancelled[w]: the exception is CancellationRequested
    faults          \* how many bounded events have happened

wvars == <<pc, index, stop, beat, cancelled, faults>>
vars == <<tqvars, jvars, wvars>>

ASSUME PlanAssumption == Key = 0..PlanLength - 1

-----------------------------------------------------------------------------
Init ==
    /\ QInit
    /\ JInit
    /\ pc = [w \in Worker |-> "idle"]
    /\ index = [w \in Worker |-> 0]
    /\ stop = [w \in Worker |-> FALSE]
    /\ beat = [w \in Worker |-> FALSE]
    /\ cancelled = [w \in Worker |-> FALSE]
    /\ faults = 0

At(w, label) == pc[w] = label
Goto(w, label) == pc' = [pc EXCEPT ![w] = label]

\* The task of this run and the action it is at.
T(w) == held[w].task
K(w) == index[w]

Owns(w) == AssertLease(w, T(w))
MayAct(w) == BeforeEffect(w, T(w))

\* The only changes of a step are to its queue or to its journal.
OnlyPc == UNCHANGED <<index, stop, beat, cancelled, faults>>
NoData == UNCHANGED <<tqvars, jvars>>

\* w moves T(w) to a status, if it is not there already.
Move(w, target) ==
    IF status[T(w)] = target
    THEN Owns(w) /\ UNCHANGED tqvars
    ELSE Transition(w, T(w), target)

Fault == faults < MaxFaults /\ faults' = faults + 1

-----------------------------------------------------------------------------
(* Worker.run and the head of run_once.                                    *)

\* Seeded fault: recovery reopens the steps of an expired lease.
PollRestartsSteps(w) ==
    /\ At(w, "idle")
    /\ IF stop[w]
         THEN Goto(w, "off") /\ NoData
         ELSE /\ RecoverExpired
              /\ step' = [t \in Task |-> [k \in Key |->
                           IF Expired(t) /\ step[t][k] = "started" THEN "intent" ELSE step[t][k]]]
              /\ UNCHANGED <<intact, attempt, effects, threads, call>>
              /\ Goto(w, "claim")
    /\ OnlyPc

\* run's loop; run_once begins with recover_expired.
Poll(w) ==
    /\ At(w, "idle")
    /\ IF stop[w]
         THEN Goto(w, "off") /\ NoData
         ELSE /\ RecoverExpired
              /\ ExpireSteps({t \in Task : Expired(t)})
              /\ Goto(w, "claim")
    /\ OnlyPc

Claimable(t) ==
    /\ qstate[t] = "ready" /\ ~cancel[t] /\ wait[t] = 0 /\ defer[t] = 0
    /\ status[t] \notin TERMINAL

ClaimTask(w, t) ==
    /\ At(w, "claim")
    /\ Claim(w, t)
    /\ beat' = [beat EXCEPT ![w] = TRUE]
    /\ Goto(w, "check")
    /\ UNCHANGED <<jvars, index, stop, cancelled, faults>>

NothingDue(w) ==
    /\ At(w, "claim")
    /\ \A t \in Task : Claimable(t) => gen[t] = MaxGen
    /\ Goto(w, "idle")
    /\ NoData
    /\ OnlyPc

\* boundary(lease) before anything else.
Check(w) ==
    /\ At(w, "check")
    /\ Owns(w)
    /\ Goto(w, IF MayAct(w) THEN "begin" ELSE "yield")
    /\ NoData
    /\ OnlyPc

\* CREATED -> PLANNED -> RUNNING
Begin(w) ==
    /\ At(w, "begin")
    /\ \/ status[T(w)] = "created" /\ Move(w, "planned") /\ UNCHANGED pc
       \/ status[T(w)] = "planned" /\ Move(w, "running") /\ UNCHANGED pc
       \/ /\ status[T(w)] \notin {"created", "planned"}
          /\ UNCHANGED tqvars
          /\ Goto(w, "inspect")
    /\ UNCHANGED jvars
    /\ OnlyPc

\* Every prior effect is verified before any new action.
Inspect(w) ==
    /\ At(w, "inspect")
    /\ Goto(w, IF AllVerified(T(w)) THEN "host" ELSE "fail")
    /\ NoData
    /\ OnlyPc

\* host_factory; a host that infers may find every route cooling down
\* (RETRY_LATER, with next_attempt_at recorded) or none left (TERMINAL).  Any
\* other exception or signal it raises blocks the task.
MakeHost(w) ==
    /\ At(w, "host")
    /\ \/ (Goto(w, "resume") \/ Goto(w, "fail")) /\ UNCHANGED <<tqvars, faults>>
       \/ \E delay \in 1..MaxDelay :
            Defer(w, T(w), delay) /\ Goto(w, "later") /\ Fault
       \/ Defer(w, T(w), 0) /\ Goto(w, "terminal") /\ UNCHANGED faults
    /\ UNCHANGED <<jvars, index, stop, beat, cancelled>>

\* Seeded fault: a new owner resumes after the checkpointed action.
ResumeBehind(w) ==
    /\ At(w, "resume")
    /\ IF AllVerified(T(w))
         THEN IF status[T(w)] \in {"waiting_tool", "failed_retryable"}
                THEN Move(w, "running") ELSE UNCHANGED tqvars
         ELSE IF status[T(w)] \in {"running", "waiting_tool", "verifying"}
                THEN Move(w, "failed_retryable") ELSE UNCHANGED tqvars
    /\ index' = [index EXCEPT ![w] = IF next[T(w)] + 1 < PlanLength THEN next[T(w)] + 1 ELSE next[T(w)]]
    /\ Goto(w, "loop")
    /\ UNCHANGED <<jvars, stop, beat, cancelled, faults>>

\* AgentHost.resume, then index = queue.status()['next_action'] without the
\* lease: only an owner advances it, and the boundary follows.
Resume(w) ==
    /\ At(w, "resume")
    /\ IF AllVerified(T(w))
         THEN IF status[T(w)] \in {"waiting_tool", "failed_retryable"}
                THEN Move(w, "running") ELSE UNCHANGED tqvars
         ELSE IF status[T(w)] \in {"running", "waiting_tool", "verifying"}
                THEN Move(w, "failed_retryable") ELSE UNCHANGED tqvars
    /\ index' = [index EXCEPT ![w] = next[T(w)]]
    /\ Goto(w, "loop")
    /\ UNCHANGED <<jvars, stop, beat, cancelled, faults>>

\* The boundary before an action, and the one before completion.  A tool whose
\* version is no longer the plan's is denied before the journal hears of it.
Loop(w) ==
    /\ At(w, "loop")
    /\ Owns(w)
    /\ \/ Goto(w, IF ~MayAct(w) \/ stop[w] THEN "yield"
                  ELSE IF index[w] < PlanLength THEN "exec" ELSE "finishing")
       \/ MayAct(w) /\ ~stop[w] /\ index[w] < PlanLength /\ Goto(w, "fail")
    /\ NoData
    /\ OnlyPc

-----------------------------------------------------------------------------
(* AgentHost.execute_tool_and_checkpoint and ToolBroker.invoke.            *)

\* An earlier failure must first be resumed; then RUNNING -> WAITING_TOOL.
Exec(w) ==
    /\ At(w, "exec")
    /\ \/ /\ status[T(w)] = "failed_retryable" /\ AllVerified(T(w))
          /\ Move(w, "running") /\ UNCHANGED pc
       \/ /\ status[T(w)] = "failed_retryable" /\ ~AllVerified(T(w))
          /\ Goto(w, "toolfail") /\ UNCHANGED tqvars
       \/ Move(w, "waiting_tool") /\ Goto(w, "lookup")
    /\ UNCHANGED jvars
    /\ OnlyPc

\* preflight, lookup_step and authorize; a broker may deny any action.
Lookup(w) ==
    /\ At(w, "lookup")
    /\ \/ Verified(T(w), K(w)) /\ Goto(w, "checkpoint")
       \/ step[T(w)][K(w)] \in {"none", "intent"} /\ Goto(w, "prepare")
       \/ Goto(w, "toolfail")
    /\ NoData
    /\ OnlyPc

\* prepare_step; an existing intent is returned as it is.
PrepareStep(w) ==
    /\ At(w, "prepare")
    /\ MayAct(w)
    /\ \/ Prepare(T(w), K(w))
       \/ step[T(w)][K(w)] # "none" /\ UNCHANGED jvars
    /\ Goto(w, "claimstep")
    /\ UNCHANGED tqvars
    /\ OnlyPc

\* claim_step, or ReconciliationRequired when it may not start.
StartStep(w) ==
    /\ At(w, "claimstep")
    /\ MayAct(w)
    /\ IF step[T(w)][K(w)] = "intent" /\ intact[T(w)][K(w)]
         THEN ClaimStep(w, T(w), K(w)) /\ Goto(w, "spawn")
         ELSE Goto(w, "toolfail") /\ UNCHANGED jvars
    /\ UNCHANGED tqvars
    /\ OnlyPc

\* CancellationRequested, raised by prepare_step or claim_step.
RefuseStep(w) ==
    /\ pc[w] \in {"prepare", "claimstep"}
    /\ Owns(w)
    /\ ~MayAct(w)
    /\ cancelled' = [cancelled EXCEPT ![w] = TRUE]
    /\ Goto(w, "toolfail")
    /\ NoData
    /\ UNCHANGED <<index, stop, beat, faults>>

SpawnHandler(w) ==
    /\ At(w, "spawn")
    /\ Spawn(w)
    /\ Goto(w, "await")
    /\ UNCHANGED tqvars
    /\ OnlyPc

\* outcome.get(timeout)
Await(w) ==
    /\ At(w, "await")
    /\ \/ InStage(w, {"ok"}) /\ Goto(w, "finish") /\ UNCHANGED jvars
       \/ InStage(w, {"failed"}) /\ Goto(w, "mark") /\ UNCHANGED jvars
       \/ Timeout(w) /\ Goto(w, "mark")
    /\ UNCHANGED tqvars
    /\ OnlyPc

\* finish_step, or mark_uncertain when no receipt can be made.
Finish(w) ==
    /\ At(w, "finish")
    /\ Owns(w)
    /\ \/ FinishStep(w) /\ Goto(w, "checkpoint")
       \/ MarkUncertain(w) /\ Goto(w, "toolfail")
    /\ UNCHANGED tqvars
    /\ OnlyPc

Mark(w) ==
    /\ At(w, "mark")
    /\ Owns(w)
    /\ MarkUncertain(w)
    /\ Goto(w, "toolfail")
    /\ UNCHANGED tqvars
    /\ OnlyPc

\* verified_step_result, then checkpoint, then back to RUNNING.
Checkpoint(w) ==
    /\ At(w, "checkpoint")
    /\ \/ Verified(T(w), K(w)) /\ Owns(w) /\ Goto(w, "running")
       \/ ~Verified(T(w), K(w)) /\ Goto(w, "toolfail")
    /\ NoData
    /\ OnlyPc

BackToRunning(w) ==
    /\ At(w, "running")
    /\ Move(w, "running")
    /\ Goto(w, "advance")
    /\ UNCHANGED jvars
    /\ OnlyPc

\* Seeded fault: the checkpoint is written without asserting the lease.
AdvanceUnfenced(w) ==
    /\ At(w, "advance")
    /\ next' = [next EXCEPT ![T(w)] = index[w] + 1]
    /\ UNCHANGED <<status, qstate, owner, gen, lease, wait, defer, cancel, held, wrote>>
    /\ index' = [index EXCEPT ![w] = index[w] + 1]
    /\ Goto(w, "loop")
    /\ UNCHANGED <<jvars, stop, beat, cancelled, faults>>

AdvancePlan(w) ==
    /\ At(w, "advance")
    /\ Advance(w, T(w), index[w])
    /\ index' = [index EXCEPT ![w] = index[w] + 1]
    /\ Goto(w, "loop")
    /\ UNCHANGED <<jvars, stop, beat, cancelled, faults>>

\* Seeded fault: the exception of a failed action is not raised again.
ToolFailSwallows(w) ==
    /\ At(w, "toolfail")
    /\ IF status[T(w)] \in {"running", "waiting_tool"}
         THEN Move(w, "failed_retryable") ELSE UNCHANGED tqvars
    /\ Goto(w, IF cancelled[w] THEN "yield" ELSE "advance")
    /\ UNCHANGED jvars
    /\ OnlyPc

\* The except clause of execute_tool_and_checkpoint.
ToolFail(w) ==
    /\ At(w, "toolfail")
    /\ IF status[T(w)] \in {"running", "waiting_tool"}
         THEN Move(w, "failed_retryable") ELSE UNCHANGED tqvars
    /\ Goto(w, IF cancelled[w] THEN "yield" ELSE "fail")
    /\ UNCHANGED jvars
    /\ OnlyPc

-----------------------------------------------------------------------------
(* AgentHost.complete.                                                     *)

\* Every journaled row verifies and every required tool has a verified step.
AcceptanceComplete(t) ==
    /\ \A k \in Key : step[t][k] = "none" \/ Verified(t, k)
    /\ \A k \in Key : \E j \in Key : ToolOf[j] = ToolOf[k] /\ Verified(t, j)

\* A status from which VERIFYING is not reachable raises InvalidTransition.
BeginVerify(w) ==
    /\ At(w, "finishing")
    /\ Owns(w)
    /\ \/ Move(w, "verifying") /\ Goto(w, "verify")
       \/ /\ status[T(w)] # "verifying"
          /\ "verifying" \notin TRANSITIONS[status[T(w)]]
          /\ UNCHANGED tqvars
          /\ Goto(w, "fail")
    /\ UNCHANGED jvars
    /\ OnlyPc

VerifyAcceptance(w) ==
    /\ At(w, "verify")
    /\ Owns(w)
    /\ Goto(w, IF AcceptanceComplete(T(w)) THEN "commit" ELSE "reject")
    /\ NoData
    /\ OnlyPc

\* transition(COMPLETED) verifies again, in its own transaction.
Commit(w) ==
    /\ At(w, "commit")
    /\ Owns(w)
    /\ \/ MayAct(w) /\ AcceptanceComplete(T(w)) /\ Move(w, "completed") /\ Goto(w, "yield")
       \/ MayAct(w) /\ ~AcceptanceComplete(T(w)) /\ Goto(w, "fail") /\ UNCHANGED tqvars
       \/ ~MayAct(w) /\ Goto(w, "yield") /\ UNCHANGED tqvars
    /\ UNCHANGED jvars
    /\ OnlyPc

Reject(w) ==
    /\ At(w, "reject")
    /\ Move(w, "failed_retryable")
    /\ Goto(w, "block")
    /\ UNCHANGED jvars
    /\ OnlyPc

-----------------------------------------------------------------------------
(* The except clauses of run_once, and its end.                            *)

\* Worker._fail, before release(blocked) or release(blocked, retry_at).
Fail(w) ==
    /\ pc[w] \in {"fail", "later"}
    /\ IF status[T(w)] \in {"running", "waiting_tool", "verifying"}
         THEN Move(w, "failed_retryable") ELSE UNCHANGED tqvars
    /\ Goto(w, IF At(w, "fail") THEN "block" ELSE "postpone")
    /\ UNCHANGED jvars
    /\ OnlyPc

\* A TERMINAL continuity signal.
FailTerminal(w) ==
    /\ At(w, "terminal")
    /\ \/ status[T(w)] = "failed_retryable" /\ Move(w, "running") /\ UNCHANGED pc
       \/ Move(w, "failed_terminal") /\ Goto(w, "yield")
    /\ UNCHANGED jvars
    /\ OnlyPc

ReleaseTask(w) ==
    /\ \/ At(w, "yield") /\ Release(w, T(w), FALSE, NoRetry)
       \/ At(w, "block") /\ Release(w, T(w), TRUE, NoRetry)
       \/ At(w, "postpone") /\ Release(w, T(w), TRUE, defer[T(w)])
    /\ Goto(w, "end")
    /\ UNCHANGED jvars
    /\ OnlyPc

\* The next operation of w is one that asserts the lease.
Fences(w) ==
    \/ pc[w] \in {"check", "loop", "prepare", "claimstep", "finish", "mark", "running",
                  "advance", "finishing", "verify", "commit", "reject",
                  "terminal", "yield", "block", "postpone"}
    \/ At(w, "begin") /\ status[T(w)] \in {"created", "planned"}
    \/ At(w, "resume") /\ status[T(w)] \in {"waiting_tool", "failed_retryable", "running", "verifying"}
    \/ At(w, "exec") /\ ~(status[T(w)] = "failed_retryable" /\ ~AllVerified(T(w)))
    \/ At(w, "checkpoint") /\ Verified(T(w), K(w))
    \/ pc[w] \in {"toolfail", "fail", "later"} /\ status[T(w)] \in {"running", "waiting_tool", "verifying"}

\* LeaseLost: the worker stops, and only the new owner may continue.
Lost(w) ==
    /\ Fences(w)
    /\ ~Owns(w)
    /\ stop' = [stop EXCEPT ![w] = TRUE]
    /\ IF pc[w] \in {"finish", "mark"} THEN Abandon(w) ELSE UNCHANGED jvars
    /\ Goto(w, "end")
    /\ UNCHANGED <<tqvars, index, beat, cancelled, faults>>

\* The finally clause: the heartbeat thread is joined, the lease forgotten.
End(w) ==
    /\ At(w, "end")
    /\ Drop(w)
    /\ beat' = [beat EXCEPT ![w] = FALSE]
    /\ cancelled' = [cancelled EXCEPT ![w] = FALSE]
    /\ index' = [index EXCEPT ![w] = 0]
    /\ Goto(w, "idle")
    /\ UNCHANGED <<jvars, stop, faults>>

\* renew(): a heartbeat the lease refuses sets stop and ends the thread.
Renew(w) ==
    /\ beat[w]
    /\ \/ Heartbeat(w, T(w)) /\ UNCHANGED <<stop, beat>>
       \/ /\ ~Owns(w)
          /\ stop' = [stop EXCEPT ![w] = TRUE]
          /\ beat' = [beat EXCEPT ![w] = FALSE]
          /\ UNCHANGED tqvars
    /\ UNCHANGED <<jvars, pc, index, cancelled, faults>>

\* renew() again: any other exception (a locked database) ends the thread as
\* well, with the lease still owned and nobody left to renew it.
HeartbeatGivesUp(w) ==
    /\ beat[w]
    /\ Owns(w)
    /\ Fault
    /\ stop' = [stop EXCEPT ![w] = TRUE]
    /\ beat' = [beat EXCEPT ![w] = FALSE]
    /\ UNCHANGED <<tqvars, jvars, pc, index, cancelled>>

WorkerNext(w) ==
    \/ Poll(w) \/ (\E t \in Task : ClaimTask(w, t)) \/ NothingDue(w)
    \/ Check(w) \/ Begin(w) \/ Inspect(w) \/ MakeHost(w) \/ Resume(w)
    \/ Loop(w) \/ Exec(w) \/ Lookup(w) \/ PrepareStep(w) \/ StartStep(w)
    \/ RefuseStep(w) \/ SpawnHandler(w) \/ Await(w) \/ Finish(w) \/ Mark(w)
    \/ Checkpoint(w) \/ BackToRunning(w) \/ AdvancePlan(w) \/ ToolFail(w)
    \/ BeginVerify(w) \/ VerifyAcceptance(w) \/ Commit(w) \/ Reject(w)
    \/ Fail(w) \/ FailTerminal(w) \/ ReleaseTask(w) \/ Lost(w) \/ End(w)

-----------------------------------------------------------------------------
(* Everything that happens to the workers.                                 *)

\* A worker process dies wherever it is.
Crash(w) ==
    /\ pc[w] # "off"
    /\ Fault
    /\ IF held[w] = NoLease THEN UNCHANGED tqvars ELSE Drop(w)
    /\ Kill(w)
    /\ Goto(w, "off")
    /\ stop' = [stop EXCEPT ![w] = FALSE]
    /\ beat' = [beat EXCEPT ![w] = FALSE]
    /\ cancelled' = [cancelled EXCEPT ![w] = FALSE]
    /\ index' = [index EXCEPT ![w] = 0]

\* A new Worker; a handler thread that outlived a run() may still be there.
Start(w) ==
    /\ At(w, "off")
    /\ stop' = [stop EXCEPT ![w] = FALSE]
    /\ Goto(w, "idle")
    /\ UNCHANGED <<tqvars, jvars, index, beat, cancelled, faults>>

RequestStop(w) ==
    /\ pc[w] # "off"
    /\ ~stop[w]
    /\ Fault
    /\ stop' = [stop EXCEPT ![w] = TRUE]
    /\ UNCHANGED <<tqvars, jvars, pc, index, beat, cancelled>>

Handler ==
    /\ \E th \in threads : HandlerEffect(th) \/ HandlerFail(th)
    /\ UNCHANGED <<tqvars, wvars>>

Operator(t) ==
    \/ (Submit(t) \/ Cancel(t)) /\ UNCHANGED <<jvars, wvars>>
    \/ Retry(t, 1) /\ Fault /\ UNCHANGED <<jvars, pc, index, stop, beat, cancelled>>
    \/ (\E k \in Key : Reconcile(t, k)) /\ UNCHANGED <<tqvars, wvars>>
    \/ /\ \E k \in Key : Tamper(t, k)
       /\ Fault
       /\ UNCHANGED <<tqvars, pc, index, stop, beat, cancelled>>

Clock == Tick /\ UNCHANGED <<jvars, wvars>>

Next ==
    \/ \E w \in Worker : \/ WorkerNext(w) \/ Renew(w) \/ HeartbeatGivesUp(w)
                        \/ Crash(w) \/ Start(w) \/ RequestStop(w)
    \/ Handler
    \/ \E t \in Task : Operator(t)
    \/ Clock

Spec == Init /\ [][Next]_vars

\* The heartbeat thread wakes up three times per lease: as long as it runs it
\* renews before the lease ends.  The lease of a worker that crashed, or that
\* goes on working after its heartbeat gave up, does end.
Punctual == \A w \in Worker : beat[w] /\ Owns(w) => lease[T(w)] > 1

\* Workers that are not stopped keep going, a worker that ended is started
\* again, and time passes.  No handler, client, operator or heartbeat need ever
\* act.  The subscripts are what these steps cannot leave as it is.
LiveSpec ==
    /\ Init
    /\ [][Next /\ (lease' # lease /\ Clock => Punctual)]_vars
    /\ \A w \in Worker : WF_<<pc[w], status>>(WorkerNext(w) \/ Start(w))
    /\ WF_<<lease, wait, defer>>(Clock /\ Punctual)

-----------------------------------------------------------------------------
(* Properties.                                                             *)

\* The checkpoint never runs ahead of the journal: what advance() skipped for
\* good did happen, so no takeover, retry or restart leaves an action out.
CheckpointBacked ==
    \A t \in Task, k \in Key : k < next[t] => effects[t][k] = 1

\* What a worker process is executing of t.
Executing(t) ==
    {th.key : th \in {th \in threads : th.task = t}}
    \cup {call[w].key : w \in {w \in Worker : InStage(w, {"claimed"}) /\ call[w].task = t}}

\* How far t has come, as its owner sees it.
Fate(t) ==
    CASE status[t] = Missing -> "missing"
      [] status[t] = "completed" -> "completed"
      [] status[t] \in TERMINAL \ {"completed"} -> "ended"
      [] OTHER -> "open"

Life == INSTANCE TaskLife WITH
    done <- effects,
    busy <- [t \in Task |-> Executing(t)],
    fate <- [t \in Task |-> Fate(t)]

\* Whatever crashes, is suspended past its lease, taken over, cancelled, reconciled
\* or tampered with, the owner of a task sees one life of it: its actions in the
\* order of the plan, one at a time and once each, none begun when it is over, and
\* completed only when all of them took effect.
ImplementsTaskLife == Life!LSpec

\* A submitted task never stays in motion for ever: whatever crashes, it ends up
\* finished or parked for an operator (with finitely many faults).
Settles == \A t \in Task : status[t] # Missing ~> qstate[t] \in {"done", "blocked"}

\* An accepted cancellation ends the task: at the worker's next boundary, at its
\* release, or when its lease has run out.
CancelTakesEffect == \A t \in Task : cancel[t] ~> status[t] \in TERMINAL

\* Every step of the workers leaves the queue alone or is a step of it (QSpec, with
\* the disjunct that is true most often in front).
QueueRefined == QInit /\ [][UNCHANGED tqvars \/ QNext]_tqvars

\* Every step of the workers leaves the journal alone or is a step of it (JSpec).
JournalRefined == JInit /\ [][UNCHANGED jvars \/ JNext]_jvars
=============================================================================
