----------------------------- MODULE TaskQueue ------------------------------
(***************************************************************************)
(* dante/task_queue.py: the persistent queue of tasks and the leases that  *)
(* workers hold on them, with the ledger operations every lease fences.    *)
(* Each action is one SQLite transaction (BEGIN IMMEDIATE), so it is       *)
(* atomic; a worker that holds an old Lease object may call any of them at *)
(* any time, and so may a client that cancels or retries.                  *)
(*                                                                         *)
(* Wall-clock time stamps are kept as the time left until they are due:    *)
(* lease[t] = 0 is lease_expires_at <= now (or NULL), wait[t] = 0 is       *)
(* next_attempt_at <= now.  Tick lets one unit of time pass.  Columns that *)
(* no guard reads (attempt, retry_count, heartbeat_at, claimed_at,         *)
(* last_failure) and the event rows are left out.                          *)
(***************************************************************************)
EXTENDS TaskStates, Integers

CONSTANTS
    NoWorker,       \* worker_id NULL
    NoLease,        \* a worker that holds no Lease object
    LeaseTime,      \* Worker.lease_s, in ticks
    MaxDelay,       \* bound on how far in the future next_attempt_at lies
    PlanLength,     \* len(plan.actions)
    MaxGen          \* bound on the generation counter of a row

VARIABLES
    qstate,         \* task_queue.state, or "absent" when the task has no row
    owner,          \* task_queue.worker_id
    gen,            \* task_queue.generation
    lease,          \* time left until task_queue.lease_expires_at
    wait,           \* time left until task_queue.next_attempt_at
    defer,          \* time left until task_continuity.next_attempt_at
    cancel,         \* task_queue.cancel_requested
    next,           \* task_queue.next_action
    held,           \* held[w]: the Lease object worker w acts under
    wrote           \* history: the generation of the last fenced write

qvars == <<qstate, owner, gen, lease, wait, defer, cancel, next, held, wrote>>
tqvars == <<status, qvars>>

QueueAssumption ==
    /\ LeaseTime \in Nat \ {0}
    /\ MaxDelay \in Nat \ {0}
    /\ PlanLength \in Nat \ {0}
    /\ MaxGen \in Nat
    /\ NoWorker \notin Worker
    /\ NoLease \notin [task: Task, gen: Nat]

ASSUME QueueConstants == QueueAssumption

-----------------------------------------------------------------------------
QInit ==
    /\ status = [t \in Task |-> Missing]
    /\ qstate = [t \in Task |-> "absent"]
    /\ owner = [t \in Task |-> NoWorker]
    /\ gen = [t \in Task |-> 0]
    /\ lease = [t \in Task |-> 0]
    /\ wait = [t \in Task |-> 0]
    /\ defer = [t \in Task |-> 0]
    /\ cancel = [t \in Task |-> FALSE]
    /\ next = [t \in Task |-> 0]
    /\ held = [w \in Worker |-> NoLease]
    /\ wrote = [t \in Task |-> 0]

Later(a, b) == IF a > b THEN a ELSE b

Queued(t) == qstate[t] # "absent"
Leased(t) == qstate[t] = "leased"
Expired(t) == Leased(t) /\ lease[t] = 0

\* w's Lease object names the owner and the generation of t's leased row.
Names(w, t) ==
    /\ held[w] # NoLease
    /\ held[w].task = t
    /\ Leased(t)
    /\ owner[t] = w
    /\ gen[t] = held[w].gen

\* assert_lease(task_id): a task without a queue row is not fenced at all.
AssertLease(w, t) == Queued(t) => Names(w, t) /\ lease[t] > 0

\* assert_lease(task_id, before_effect=True)
BeforeEffect(w, t) == AssertLease(w, t) /\ ~cancel[t]

\* The fenced write of w is the latest write under a lease of t.
RecordWrite(w, t) ==
    wrote' = IF Queued(t) THEN [wrote EXCEPT ![t] = held[w].gen] ELSE wrote

-----------------------------------------------------------------------------
(* Clients.                                                                *)

\* TaskQueue.submit: task, acceptance and queue row in one transaction.
Submit(t) ==
    /\ status[t] = Missing
    /\ status' = [status EXCEPT ![t] = "created"]
    /\ qstate' = [qstate EXCEPT ![t] = "ready"]
    /\ UNCHANGED <<owner, gen, lease, wait, defer, cancel, next, held, wrote>>

\* TaskLedger.create_task: a task that is never queued and never fenced.
CreateTask(t) ==
    /\ status[t] = Missing
    /\ status' = [status EXCEPT ![t] = "created"]
    /\ UNCHANGED qvars

\* Seeded fault: a running worker is not asked.
CancelAtOnce(t) ==
    /\ Queued(t)
    /\ status[t] \notin TERMINAL
    /\ cancel' = [cancel EXCEPT ![t] = TRUE]
    /\ status' = [status EXCEPT ![t] = "cancelled"]
    /\ qstate' = [qstate EXCEPT ![t] = "done"]
    /\ lease' = [lease EXCEPT ![t] = 0]
    /\ UNCHANGED <<owner, gen, wait, defer, next, held, wrote>>

\* TaskQueue.cancel; without a live lease the task is cancelled at once.
Cancel(t) ==
    /\ Queued(t)
    /\ status[t] \notin TERMINAL
    /\ cancel' = [cancel EXCEPT ![t] = TRUE]
    /\ IF Leased(t) /\ lease[t] > 0
         THEN UNCHANGED <<status, qstate, lease>>
         ELSE /\ status' = [status EXCEPT ![t] = "cancelled"]
              /\ qstate' = [qstate EXCEPT ![t] = "done"]
              /\ lease' = [lease EXCEPT ![t] = 0]
    /\ UNCHANGED <<owner, gen, wait, defer, next, held, wrote>>

\* TaskQueue.retry(delay_s)
Retry(t, delay) ==
    /\ Queued(t)
    /\ ~cancel[t]
    /\ status[t] \notin TERMINAL
    /\ ~Leased(t)
    /\ qstate' = [qstate EXCEPT ![t] = "ready"]
    /\ wait' = [wait EXCEPT ![t] = delay]
    /\ UNCHANGED <<status, owner, gen, lease, defer, cancel, next, held, wrote>>

-----------------------------------------------------------------------------
(* Workers.                                                                *)

\* Seeded fault: recovery cancels a task that had already ended.
RecoverOverwrites ==
    LET rows == {t \in Task : Expired(t)}
        dropped == {t \in rows : cancel[t]}
    IN  /\ status' = [t \in Task |-> IF t \in dropped THEN "cancelled" ELSE status[t]]
        /\ qstate' = [t \in Task |->
                        IF t \notin rows THEN qstate[t]
                        ELSE IF status'[t] \in TERMINAL THEN "done" ELSE "ready"]
        /\ lease' = [t \in Task |-> IF t \in rows THEN 0 ELSE lease[t]]
        /\ wait' = [t \in Task |-> IF t \in rows THEN Later(wait[t], defer[t])
                                                 ELSE wait[t]]
        /\ UNCHANGED <<owner, gen, defer, cancel, next, held, wrote>>

\* Seeded fault: recovery selects rows by the filter of claim.
RecoverSkipsCancelled ==
    LET rows == {t \in Task : Expired(t) /\ ~cancel[t]}
        dropped == {t \in rows : cancel[t] /\ status[t] \notin TERMINAL}
    IN  /\ status' = [t \in Task |-> IF t \in dropped THEN "cancelled" ELSE status[t]]
        /\ qstate' = [t \in Task |->
                        IF t \notin rows THEN qstate[t]
                        ELSE IF status'[t] \in TERMINAL THEN "done" ELSE "ready"]
        /\ lease' = [t \in Task |-> IF t \in rows THEN 0 ELSE lease[t]]
        /\ wait' = [t \in Task |-> IF t \in rows THEN Later(wait[t], defer[t])
                                                 ELSE wait[t]]
        /\ UNCHANGED <<owner, gen, defer, cancel, next, held, wrote>>

\* TaskQueue.recover_expired: every expired row, in one transaction.
RecoverExpired ==
    LET rows == {t \in Task : Expired(t)}
        dropped == {t \in rows : cancel[t] /\ status[t] \notin TERMINAL}
    IN  /\ status' = [t \in Task |-> IF t \in dropped THEN "cancelled" ELSE status[t]]
        /\ qstate' = [t \in Task |->
                        IF t \notin rows THEN qstate[t]
                        ELSE IF status'[t] \in TERMINAL THEN "done" ELSE "ready"]
        /\ lease' = [t \in Task |-> IF t \in rows THEN 0 ELSE lease[t]]
        /\ wait' = [t \in Task |-> IF t \in rows THEN Later(wait[t], defer[t])
                                                 ELSE wait[t]]
        /\ UNCHANGED <<owner, gen, defer, cancel, next, held, wrote>>

\* TaskQueue.claim; any due row may be the one ORDER BY picks.
Claim(w, t) ==
    /\ held[w] = NoLease
    /\ qstate[t] = "ready"
    /\ ~cancel[t]
    /\ wait[t] = 0
    /\ defer[t] = 0
    /\ status[t] \notin TERMINAL
    /\ gen[t] < MaxGen
    /\ qstate' = [qstate EXCEPT ![t] = "leased"]
    /\ owner' = [owner EXCEPT ![t] = w]
    /\ gen' = [gen EXCEPT ![t] = gen[t] + 1]
    /\ lease' = [lease EXCEPT ![t] = LeaseTime]
    /\ held' = [held EXCEPT ![w] = [task |-> t, gen |-> gen[t] + 1]]
    /\ UNCHANGED <<status, wait, defer, cancel, next, wrote>>

\* Seeded fault: a heartbeat does not mind that the lease ran out.
HeartbeatRevives(w, t) ==
    /\ Queued(t)
    /\ Names(w, t)
    /\ lease' = [lease EXCEPT ![t] = LeaseTime]
    /\ RecordWrite(w, t)
    /\ UNCHANGED <<status, qstate, owner, gen, wait, defer, cancel, next, held>>

\* TaskQueue.heartbeat
Heartbeat(w, t) ==
    /\ Queued(t)
    /\ AssertLease(w, t)
    /\ lease' = [lease EXCEPT ![t] = LeaseTime]
    /\ RecordWrite(w, t)
    /\ UNCHANGED <<status, qstate, owner, gen, wait, defer, cancel, next, held>>

\* TaskQueue.advance(index), called with the index of an executed action.
Advance(w, t, index) ==
    /\ Queued(t)
    /\ AssertLease(w, t)
    /\ next[t] = index
    /\ next' = [next EXCEPT ![t] = index + 1]
    /\ RecordWrite(w, t)
    /\ UNCHANGED <<status, qstate, owner, gen, lease, wait, defer, cancel, held>>

\* retry_at None, against a time that may already be past (0).
NoRetry == -1

\* Seeded fault: a finished task is released like any other.
ReleaseUnfinished(w, t, blocked, retry) ==
    LET dropped == cancel[t] /\ status[t] \notin TERMINAL
        final == dropped
        state == IF final THEN "done"
                 ELSE IF blocked /\ retry = NoRetry THEN "blocked" ELSE "ready"
    IN  /\ Queued(t)
        /\ AssertLease(w, t)
        /\ status' = IF dropped THEN [status EXCEPT ![t] = "cancelled"] ELSE status
        /\ qstate' = [qstate EXCEPT ![t] = state]
        /\ lease' = [lease EXCEPT ![t] = 0]
        /\ wait' = IF retry # NoRetry /\ state = "ready"
                     THEN [wait EXCEPT ![t] = retry] ELSE wait
        /\ RecordWrite(w, t)
        /\ UNCHANGED <<owner, gen, defer, cancel, next, held>>

\* Seeded fault: the cancellation flag is not looked at on release.
ReleaseForgetsCancel(w, t, blocked, retry) ==
    LET dropped == FALSE
        final == dropped \/ status[t] \in TERMINAL
        state == IF final THEN "done"
                 ELSE IF blocked /\ retry = NoRetry THEN "blocked" ELSE "ready"
    IN  /\ Queued(t)
        /\ AssertLease(w, t)
        /\ status' = IF dropped THEN [status EXCEPT ![t] = "cancelled"] ELSE status
        /\ qstate' = [qstate EXCEPT ![t] = state]
        /\ lease' = [lease EXCEPT ![t] = 0]
        /\ wait' = IF retry # NoRetry /\ state = "ready"
                     THEN [wait EXCEPT ![t] = retry] ELSE wait
        /\ RecordWrite(w, t)
        /\ UNCHANGED <<owner, gen, defer, cancel, next, held>>

\* Seeded fault: a blocked task is offered to the workers again.
ReleaseNeverBlocks(w, t, blocked, retry) ==
    LET dropped == cancel[t] /\ status[t] \notin TERMINAL
        final == dropped \/ status[t] \in TERMINAL
        state == IF final THEN "done"
                 ELSE "ready"
    IN  /\ Queued(t)
        /\ AssertLease(w, t)
        /\ status' = IF dropped THEN [status EXCEPT ![t] = "cancelled"] ELSE status
        /\ qstate' = [qstate EXCEPT ![t] = state]
        /\ lease' = [lease EXCEPT ![t] = 0]
        /\ wait' = IF retry # NoRetry /\ state = "ready"
                     THEN [wait EXCEPT ![t] = retry] ELSE wait
        /\ RecordWrite(w, t)
        /\ UNCHANGED <<owner, gen, defer, cancel, next, held>>

\* TaskQueue.release(blocked, retry_at)
Release(w, t, blocked, retry) ==
    LET dropped == cancel[t] /\ status[t] \notin TERMINAL
        final == dropped \/ status[t] \in TERMINAL
        state == IF final THEN "done"
                 ELSE IF blocked /\ retry = NoRetry THEN "blocked" ELSE "ready"
    IN  /\ Queued(t)
        /\ AssertLease(w, t)
        /\ status' = IF dropped THEN [status EXCEPT ![t] = "cancelled"] ELSE status
        /\ qstate' = [qstate EXCEPT ![t] = state]
        /\ lease' = [lease EXCEPT ![t] = 0]
        /\ wait' = IF retry # NoRetry /\ state = "ready"
                     THEN [wait EXCEPT ![t] = retry] ELSE wait
        /\ RecordWrite(w, t)
        /\ UNCHANGED <<owner, gen, defer, cancel, next, held>>

\* Seeded fault: COMPLETED does not look at the cancellation flag.
TransitionIgnoresCancel(w, t, target) ==
    /\ status[t] \in Status
    /\ AssertLease(w, t)
    /\ target \in TRANSITIONS[status[t]]
    /\ status' = [status EXCEPT ![t] = target]
    /\ RecordWrite(w, t)
    /\ UNCHANGED <<qstate, owner, gen, lease, wait, defer, cancel, next, held>>

\* TaskLedger.transition: COMPLETED also refuses a requested cancellation.
\* Whether the acceptance evidence is complete is left open here.
Transition(w, t, target) ==
    /\ status[t] \in Status
    /\ AssertLease(w, t)
    /\ target = "completed" => ~cancel[t]
    /\ target \in TRANSITIONS[status[t]]
    /\ status' = [status EXCEPT ![t] = target]
    /\ RecordWrite(w, t)
    /\ UNCHANGED <<qstate, owner, gen, lease, wait, defer, cancel, next, held>>

\* ContinuityManager._outcome: when the next inference may be attempted.
Defer(w, t, delay) ==
    /\ status[t] \in Status
    /\ AssertLease(w, t)
    /\ defer' = [defer EXCEPT ![t] = delay]
    /\ RecordWrite(w, t)
    /\ UNCHANGED <<status, qstate, owner, gen, lease, wait, cancel, next, held>>

\* Worker.run_once returned, or its process died: the Lease object is gone.
Drop(w) ==
    /\ held[w] # NoLease
    /\ held' = [held EXCEPT ![w] = NoLease]
    /\ UNCHANGED <<status, qstate, owner, gen, lease, wait, defer, cancel, next, wrote>>

-----------------------------------------------------------------------------
\* One unit of wall-clock time.
Tick ==
    LET Down(f) == [t \in Task |-> IF f[t] > 0 THEN f[t] - 1 ELSE 0]
    IN  /\ lease' = Down(lease)
        /\ wait' = Down(wait)
        /\ defer' = Down(defer)
        /\ UNCHANGED <<status, qstate, owner, gen, cancel, next, held, wrote>>

ClientStep(t) ==
    \/ Submit(t)
    \/ CreateTask(t)
    \/ Cancel(t)
    \/ \E delay \in 1..MaxDelay : Retry(t, delay)

WorkerStep(w, t) ==
    \/ Claim(w, t)
    \/ Heartbeat(w, t)
    \/ \E index \in 0..PlanLength - 1 : Advance(w, t, index)
    \/ \E blocked \in BOOLEAN, retry \in NoRetry..MaxDelay : Release(w, t, blocked, retry)
    \/ \E target \in Status : Transition(w, t, target)
    \/ \E delay \in 0..MaxDelay : Defer(w, t, delay)

QNext ==
    \/ \E t \in Task : ClientStep(t)
    \/ RecoverExpired
    \/ \E w \in Worker, t \in Task : WorkerStep(w, t)
    \/ \E w \in Worker : Drop(w)
    \/ Tick

QSpec == QInit /\ [][QNext]_tqvars

-----------------------------------------------------------------------------
(* Properties.                                                             *)

\* Every variable keeps its type.
TypeOK ==
    /\ StatusOK
    /\ qstate \in [Task -> {"absent", "ready", "leased", "blocked", "done"}]
    /\ owner \in [Task -> Worker \cup {NoWorker}]
    /\ gen \in [Task -> 0..MaxGen]
    /\ lease \in [Task -> 0..LeaseTime]
    /\ wait \in [Task -> 0..MaxDelay]
    /\ defer \in [Task -> 0..MaxDelay]
    /\ cancel \in [Task -> BOOLEAN]
    /\ next \in [Task -> 0..PlanLength]
    /\ held \in [Worker -> [task: Task, gen: 1..MaxGen] \cup {NoLease}]
    /\ wrote \in [Task -> 0..MaxGen]

\* The queue row and the task row, written by separate transactions, agree:
\* recover_expired, release, cancel and transition never leave a finished row
\* with a task that could still run, or a waiting row with a finished task.
QueueStatusCoherent ==
    \A t \in Task :
        /\ qstate[t] = "done" => status[t] \in TERMINAL
        /\ qstate[t] \in {"ready", "blocked"} => Active(t)

\* A cancellation that cancel() accepted is never parked: claim() skips a
\* cancelled row, so such a row must be leased (its owner or recovery will
\* see the flag) or done.
CancelNotStranded ==
    \A t \in Task : cancel[t] => qstate[t] \in {"leased", "done"}

\* cancel() while a worker runs, release, expiry and transition race; a task
\* whose cancellation was accepted must never be recorded as completed.
CancelledNeverCompletes == \A t \in Task : ~(cancel[t] /\ status[t] = "completed")

\* Lease objects are fencing tokens: none is newer than its row, the newest is
\* the owner's, and no two workers hold the same one.
TokensFence ==
    \A w \in Worker : held[w] # NoLease =>
        LET t == held[w].task
        IN  /\ held[w].gen <= gen[t]
            /\ held[w].gen = gen[t] => owner[t] = w
            /\ \A v \in Worker \ {w} : held[v] # held[w]

\* w still acts under a Lease object that assert_lease rejects.
Stale(w) == held[w] # NoLease /\ ~AssertLease(w, held[w].task)

\* A Lease object once rejected is rejected for ever: no late heartbeat, no
\* retry and no new claim makes an old owner's writes acceptable again.
StaleForever ==
    [][\A w \in Worker : Stale(w) /\ held'[w] = held[w] => Stale(w)']_tqvars

\* No operation of a client, of recovery or of another worker takes a task out
\* of a terminal status.
TerminalIsFinal ==
    [][\A t \in Task : status[t] \in TERMINAL => status'[t] = status[t]]_tqvars

\* Who holds t, as the abstract specification sees it.
Holder(t) == IF Leased(t) /\ lease[t] > 0 THEN owner[t] ELSE NoWorker

Fenced == INSTANCE FencedLease WITH
    Resource <- Task, Client <- Worker, NoClient <- NoWorker,
    holder <- [t \in Task |-> Holder(t)], epoch <- gen, stamp <- wrote,
    data <- [t \in Task |-> <<status[t], next[t]>>]

\* The queue implements fenced leases: a task's status and next action change
\* under a lease only in its present generation, and otherwise only while
\* nobody holds the task.
ImplementsFencedLease == Fenced!Spec
=============================================================================
