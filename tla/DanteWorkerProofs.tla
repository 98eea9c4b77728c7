------------------------- MODULE DanteWorkerProofs --------------------------
(***************************************************************************)
(* What is proved of the workers for any set of tasks, any number of       *)
(* worker processes and any plan: they use the queue and the journal only  *)
(* through the operations of these modules, so what is proved of the two   *)
(* holds of the whole; the checkpoint never passes an action that did not  *)
(* happen; and the whole implements TaskLife.                              *)
(***************************************************************************)
EXTENDS DanteWorker, LedgerProofs

-----------------------------------------------------------------------------
(* The control of a worker.                                                *)

\* Where a worker holds no Lease object.
Resting == {"idle", "claim", "off"}

\* Inside execute_tool_and_checkpoint and up to advance.
Acting == {"exec", "lookup", "prepare", "claimstep", "spawn", "await", "finish", "mark",
           "checkpoint", "running", "advance"}

\* Inside complete.
Closing == {"finishing", "verify", "commit"}

\* Where run_once goes by the index it read.
Indexed == Acting \cup Closing \cup {"loop"}

\* Everywhere a worker holds a Lease object.
Engaged == Indexed \cup {"check", "begin", "inspect", "host", "resume", "toolfail",
                         "reject", "fail", "later", "terminal", "block", "postpone",
                         "yield", "end"}

WTypeOK ==
    /\ pc \in [Worker -> Resting \cup Engaged]
    /\ index \in [Worker -> 0..PlanLength]
    /\ stop \in [Worker -> BOOLEAN]
    /\ beat \in [Worker -> BOOLEAN]
    /\ cancelled \in [Worker -> BOOLEAN]

\* run_once holds a lease exactly between claim and its end; the index it acts at
\* is one of the plan's, and complete is entered after the last one.
Controlled(w) ==
    /\ held[w] = NoLease <=> pc[w] \in Resting
    /\ beat[w] => held[w] # NoLease
    /\ held[w] # NoLease => Queued(T(w))
    /\ pc[w] \in Acting => index[w] < PlanLength
    /\ pc[w] \in Closing => index[w] = PlanLength

ControlInv == \A w \in Worker : Controlled(w)

\* While the lease is valid, the index run_once read is still the row's.
IndexCurrent ==
    \A w \in Worker : pc[w] \in Indexed /\ Owns(w) => index[w] = next[T(w)]

\* Past verified_step_result the action has happened, lease or no lease.
PassedHappened ==
    \A w \in Worker : pc[w] \in {"running", "advance"} => effects[T(w)][K(w)] = 1

\* No row of the journal lies ahead of the plan's checkpoint.
AheadUntouched == \A t \in Task, k \in Key : k > next[t] => step[t][k] = "none"

PlanInv == CheckpointBacked /\ IndexCurrent /\ PassedHappened /\ AheadUntouched

WInv == WTypeOK /\ ControlInv

FullInv == QInv /\ JTypeOK /\ JInv /\ WInv /\ PlanInv

-----------------------------------------------------------------------------
(* The operations of the queue and of the journal, as the workers use them. *)

\* A worker that holds a Lease object holds one of a task.
LEMMA Engages ==
    ASSUME TypeOK, WInv, NEW w \in Worker, pc[w] \notin Resting
    PROVE  held[w] # NoLease /\ T(w) \in Task /\ Queued(T(w)) /\ index[w] \in 0..PlanLength
  BY DEF TypeOK, WInv, WTypeOK, ControlInv, Controlled, T

\* Move is a transition of the queue or nothing, and touches only the status.
LEMMA MoveStep ==
    ASSUME NEW w \in Worker, T(w) \in Task, NEW target \in Status, Move(w, target)
    PROVE  /\ [QNext]_tqvars
           /\ UNCHANGED <<qstate, owner, gen, lease, wait, defer, cancel, next, held>>
  <1>1. CASE Transition(w, T(w), target)
    BY <1>1 DEF Transition, QNext, WorkerStep
  <1>2. CASE UNCHANGED tqvars
    BY <1>2 DEF tqvars, qvars
  <1> QED
    BY <1>1, <1>2 DEF Move

\* A task's own operation of the queue is a step of the queue.
LEMMA OwnStep ==
    ASSUME NEW w \in Worker, NEW t \in Task, WorkerStep(w, t) PROVE [QNext]_tqvars
  BY DEF QNext

LEMMA WorkerUsesQueue ==
    ASSUME TypeOK, WInv, NEW w \in Worker, WorkerNext(w)
    PROVE  [QNext]_tqvars
  <1> USE DEF Resting, At, Status
  <1>1. CASE Poll(w)
    BY <1>1 DEF Poll, NoData, QNext
  <1>2. ASSUME NEW t \in Task, ClaimTask(w, t) PROVE [QNext]_tqvars
    BY <1>2, OwnStep DEF ClaimTask, WorkerStep
  <1>3. CASE NothingDue(w) \/ Check(w) \/ Inspect(w) \/ Loop(w) \/ Lookup(w) \/ RefuseStep(w)
             \/ Checkpoint(w) \/ VerifyAcceptance(w)
    BY <1>3 DEF NothingDue, Check, Inspect, Loop, Lookup, RefuseStep, Checkpoint,
                VerifyAcceptance, NoData
  <1>4. CASE Begin(w)
    BY <1>4, Engages, MoveStep DEF Begin
  <1>5. CASE MakeHost(w)
    <2>1. T(w) \in Task
      BY <1>5, Engages DEF MakeHost
    <2>2. ASSUME NEW delay \in 0..MaxDelay, Defer(w, T(w), delay) PROVE [QNext]_tqvars
      BY <2>1, <2>2, OwnStep DEF WorkerStep
    <2> QED
      BY <1>5, <2>2, QueueConstants DEF MakeHost, QueueAssumption
  <1>6. CASE Resume(w)
    BY <1>6, Engages, MoveStep DEF Resume
  <1>7. CASE Exec(w)
    BY <1>7, Engages, MoveStep DEF Exec
  <1>8. CASE PrepareStep(w) \/ StartStep(w) \/ SpawnHandler(w) \/ Await(w) \/ Finish(w) \/ Mark(w)
             \/ Lost(w)
    BY <1>8 DEF PrepareStep, StartStep, SpawnHandler, Await, Finish, Mark, Lost
  <1>9. CASE BackToRunning(w)
    BY <1>9, Engages, MoveStep DEF BackToRunning
  <1>10. CASE AdvancePlan(w)
    <2>1. T(w) \in Task /\ index[w] \in 0..PlanLength - 1
      BY <1>10, Engages, QueueConstants
      DEF AdvancePlan, WInv, ControlInv, Controlled, Acting, QueueAssumption
    <2> QED
      BY <1>10, <2>1, OwnStep DEF AdvancePlan, WorkerStep
  <1>11. CASE ToolFail(w)
    BY <1>11, Engages, MoveStep DEF ToolFail
  <1>12. CASE BeginVerify(w)
    BY <1>12, Engages, MoveStep DEF BeginVerify
  <1>13. CASE Commit(w)
    BY <1>13, Engages, MoveStep DEF Commit
  <1>14. CASE Reject(w)
    BY <1>14, Engages, MoveStep DEF Reject
  <1>15. CASE Fail(w)
    BY <1>15, Engages, MoveStep DEF Fail
  <1>16. CASE FailTerminal(w)
    BY <1>16, Engages, MoveStep DEF FailTerminal
  <1>17. CASE ReleaseTask(w)
    <2>1. T(w) \in Task
      BY <1>17, Engages DEF ReleaseTask
    <2>2. NoRetry \in NoRetry..MaxDelay /\ defer[T(w)] \in NoRetry..MaxDelay
      BY <2>1, QueueConstants DEF TypeOK, NoRetry, QueueAssumption
    <2>3. ASSUME NEW blocked \in BOOLEAN, NEW retry \in NoRetry..MaxDelay,
                 Release(w, T(w), blocked, retry)
          PROVE [QNext]_tqvars
      BY <2>1, <2>3, OwnStep DEF WorkerStep
    <2> QED
      BY <1>17, <2>2, <2>3 DEF ReleaseTask
  <1>18. CASE End(w)
    BY <1>18 DEF End, QNext
  <1> QED
    BY <1>1, <1>2, <1>3, <1>4, <1>5, <1>6, <1>7, <1>8, <1>9, <1>10, <1>11, <1>12, <1>13,
       <1>14, <1>15, <1>16, <1>17, <1>18 DEF WorkerNext

LEMMA UsesQueue == TypeOK /\ WInv /\ [Next]_vars => [QNext]_tqvars
  <1> SUFFICES ASSUME TypeOK, WInv, [Next]_vars PROVE [QNext]_tqvars
    OBVIOUS
  <1>1. ASSUME NEW w \in Worker, Renew(w) PROVE [QNext]_tqvars
    <2>1. beat[w] => T(w) \in Task
      BY DEF WInv, ControlInv, Controlled, TypeOK, T
    <2> QED
      BY <1>1, <2>1, OwnStep DEF Renew, WorkerStep
  <1>2. ASSUME NEW w \in Worker, Crash(w) PROVE [QNext]_tqvars
    BY <1>2 DEF Crash, QNext
  <1>3. ASSUME NEW w \in Worker, Start(w) \/ RequestStop(w) \/ HeartbeatGivesUp(w) PROVE [QNext]_tqvars
    BY <1>3 DEF Start, RequestStop, HeartbeatGivesUp
  <1>4. CASE Handler
    BY <1>4 DEF Handler
  <1>5. ASSUME NEW t \in Task, Operator(t) PROVE [QNext]_tqvars
    BY <1>5, QueueConstants DEF Operator, QNext, ClientStep, QueueAssumption
  <1>6. CASE Clock
    BY <1>6 DEF Clock, QNext
  <1>7. CASE UNCHANGED vars
    BY <1>7 DEF vars
  <1> QED
    BY <1>1, <1>2, <1>3, <1>4, <1>5, <1>6, <1>7, WorkerUsesQueue DEF Next

\* An operation on one step, and one of a process, is a step of the journal.
LEMMA RowOperation ==
    ASSUME NEW t \in Task, NEW k \in Key,
           \/ Prepare(t, k) \/ Reconcile(t, k) \/ Tamper(t, k)
           \/ \E w \in Worker : ClaimStep(w, t, k)
    PROVE  JNext
  BY DEF JNext

LEMMA ProcessOperation ==
    ASSUME NEW w \in Worker,
           Spawn(w) \/ Timeout(w) \/ FinishStep(w) \/ MarkUncertain(w) \/ Abandon(w) \/ Kill(w)
    PROVE  JNext
  BY DEF JNext

\* An action run_once works on is one of the plan's keys.
LEMMA ActsOnKey ==
    ASSUME TypeOK, WInv, NEW w \in Worker, pc[w] \in Acting
    PROVE  T(w) \in Task /\ K(w) \in Key
  BY Engages, PlanAssumption, QueueConstants
  DEF Acting, Resting, WInv, ControlInv, Controlled, K, QueueAssumption

LEMMA UsesJournal == TypeOK /\ WInv /\ [Next]_vars => [JNext]_jvars
  <1> SUFFICES ASSUME TypeOK, WInv, [Next]_vars PROVE [JNext]_jvars
    OBVIOUS
  <1>1. ASSUME NEW w \in Worker, WorkerNext(w) PROVE [JNext]_jvars
    <2>1. CASE Poll(w)
      <3>1. {t \in Task : Expired(t)} \in SUBSET Task
        OBVIOUS
      <3> QED
        BY <2>1, <3>1 DEF Poll, NoData, JNext
    <2>2. CASE PrepareStep(w)
      BY <2>2, ActsOnKey, RowOperation DEF PrepareStep, At, Acting
    <2>3. CASE StartStep(w)
      BY <2>3, ActsOnKey, RowOperation DEF StartStep, At, Acting
    <2>4. CASE SpawnHandler(w) \/ Await(w) \/ Finish(w) \/ Mark(w) \/ Lost(w)
      BY <2>4, ProcessOperation DEF SpawnHandler, Await, Finish, Mark, Lost
    <2>5. ASSUME UNCHANGED jvars PROVE [JNext]_jvars
      BY <2>5
    <2> QED
      BY <1>1, <2>1, <2>2, <2>3, <2>4, <2>5
      DEF WorkerNext, ClaimTask, NothingDue, Check, Begin, Inspect, MakeHost, Resume, Loop,
          Exec, Lookup, RefuseStep, Checkpoint, BackToRunning, AdvancePlan, ToolFail,
          BeginVerify, VerifyAcceptance, Commit, Reject, Fail, FailTerminal, ReleaseTask,
          End, NoData
  <1>2. ASSUME NEW w \in Worker, Renew(w) \/ Start(w) \/ RequestStop(w) \/ HeartbeatGivesUp(w) PROVE [JNext]_jvars
    BY <1>2 DEF Renew, Start, RequestStop, HeartbeatGivesUp
  <1>3. ASSUME NEW w \in Worker, Crash(w) PROVE [JNext]_jvars
    BY <1>3, ProcessOperation DEF Crash
  <1>4. CASE Handler
    BY <1>4 DEF Handler, JNext
  <1>5. ASSUME NEW t \in Task, Operator(t) PROVE [JNext]_jvars
    BY <1>5, RowOperation DEF Operator
  <1>6. CASE Clock
    BY <1>6 DEF Clock
  <1>7. CASE UNCHANGED vars
    BY <1>7 DEF vars
  <1> QED
    BY <1>1, <1>2, <1>3, <1>4, <1>5, <1>6, <1>7 DEF Next

-----------------------------------------------------------------------------
(* What a step does to the control of the workers.                         *)

\* Only w moves, along run_once, and keeps its lease and its index.
Walks(w) ==
    /\ UNCHANGED <<held, next, index, beat>>
    /\ stop' \in [Worker -> BOOLEAN] /\ cancelled' \in [Worker -> BOOLEAN]
    /\ pc[w] \in Engaged
    /\ \E to \in Engaged :
        /\ pc' = [pc EXCEPT ![w] = to]
        /\ to \in Indexed => pc[w] \in Indexed
        /\ to \in Acting => pc[w] \in Acting \/ index[w] < PlanLength
        /\ to \in Closing => pc[w] \in Closing \/ index[w] = PlanLength
        /\ to \in {"running", "advance"} => pc[w] = "running" \/ Verified(T(w), K(w))

\* An operation of the queue that is fenced but neither advances nor takes a task.
LEMMA ReleaseFrame ==
    ASSUME NEW w, NEW t, NEW blocked, NEW retry, Release(w, t, blocked, retry)
    PROVE  UNCHANGED <<held, next>>
  BY DEF Release

LEMMA LoopGoes ==
    ASSUME NEW w \in Worker, Loop(w)
    PROVE  \/ Goto(w, "yield")
           \/ index[w] < PlanLength /\ Goto(w, "exec")
           \/ ~(index[w] < PlanLength) /\ Goto(w, "finishing")
           \/ Goto(w, "fail")
  BY DEF Loop

LEMMA WorkerWalks ==
    ASSUME TypeOK, WInv, NEW w \in Worker, WorkerNext(w)
    PROVE  \/ Walks(w) \/ Poll(w) \/ NothingDue(w) \/ (\E t \in Task : ClaimTask(w, t))
           \/ Resume(w) \/ AdvancePlan(w) \/ End(w)
  <1> DEFINE labels == pc \in [Worker -> Resting \cup Engaged]
  <1>0. /\ labels /\ index[w] \in 0..PlanLength
        /\ pc[w] \notin Resting => T(w) \in Task
        /\ stop \in [Worker -> BOOLEAN] /\ cancelled \in [Worker -> BOOLEAN]
    BY Engages DEF WInv, WTypeOK
  <1> USE <1>0, QueueConstants
          DEF At, Goto, OnlyPc, NoData, Resting, Engaged, Indexed, Acting, Closing, Walks,
              Status, QueueAssumption, tqvars, qvars
  <1>1. CASE Check(w)
    <2>1. Goto(w, "begin") \/ Goto(w, "yield")
      BY <1>1 DEF Check
    <2> QED
      BY <1>1, <2>1 DEF Check
  <1>12. CASE Inspect(w)
    <2>1. Goto(w, "host") \/ Goto(w, "fail")
      BY <1>12 DEF Inspect
    <2> QED
      BY <1>12, <2>1 DEF Inspect
  <1>13. CASE Lookup(w)
    BY <1>13 DEF Lookup
  <1>10. CASE Loop(w)
    <2>1. CASE Goto(w, "yield") \/ Goto(w, "fail")
      BY <1>10, <2>1 DEF Loop
    <2>2. CASE index[w] < PlanLength /\ Goto(w, "exec")
      BY <1>10, <2>2 DEF Loop
    <2>3. CASE ~(index[w] < PlanLength) /\ Goto(w, "finishing")
      <3>1. index[w] = PlanLength
        BY <2>3
      <3>2. pc[w] = "loop" /\ pc' = [pc EXCEPT ![w] = "finishing"]
        BY <1>10, <2>3 DEF Loop
      <3>3. UNCHANGED <<held, next, index, beat, stop, cancelled>>
        BY <1>10 DEF Loop
      <3> QED
        BY <3>1, <3>2, <3>3
    <2> HIDE DEF Goto, Walks
    <2> QED
      BY <1>10, <2>1, <2>2, <2>3, LoopGoes
  <1>11. CASE Checkpoint(w)
    BY <1>11 DEF Checkpoint
  <1>14. CASE VerifyAcceptance(w)
    <2>1. Goto(w, "commit") \/ Goto(w, "reject")
      BY <1>14 DEF VerifyAcceptance
    <2> QED
      BY <1>14, <2>1 DEF VerifyAcceptance
  <1>2. CASE PrepareStep(w) \/ StartStep(w) \/ SpawnHandler(w) \/ Await(w) \/ Finish(w) \/ Mark(w)
    BY <1>2 DEF PrepareStep, StartStep, SpawnHandler, Await, Finish, Mark
  <1>3. CASE RefuseStep(w)
    BY <1>3 DEF RefuseStep
  <1>15. CASE Lost(w)
    <2>1. pc[w] \in Engaged
      BY <1>15 DEF Lost, Fences
    <2> QED
      BY <1>15, <2>1 DEF Lost
  <1>4. CASE Begin(w) \/ Exec(w)
    BY <1>4, MoveStep DEF Begin, Exec
  <1>5. CASE MakeHost(w)
    BY <1>5 DEF MakeHost, Defer
  <1>6. CASE BackToRunning(w) \/ ToolFail(w)
    BY <1>6, MoveStep DEF BackToRunning, ToolFail
  <1>7. CASE BeginVerify(w) \/ Commit(w) \/ Reject(w)
    BY <1>7, MoveStep DEF BeginVerify, Commit, Reject
  <1>8. CASE Fail(w) \/ FailTerminal(w)
    BY <1>8, MoveStep DEF Fail, FailTerminal
  <1>9. CASE ReleaseTask(w)
    BY <1>9, ReleaseFrame DEF ReleaseTask
  <1> QED
    BY <1>1, <1>2, <1>3, <1>4, <1>5, <1>6, <1>7, <1>8, <1>9, <1>10, <1>11, <1>12,
       <1>13, <1>14, <1>15 DEF WorkerNext

\* w begins or ends a run_once, or rests: the checkpoints stay.
Turns(w) ==
    /\ next' = next
    /\ \A v \in Worker \ {w} : /\ pc'[v] = pc[v] /\ held'[v] = held[v]
                               /\ index'[v] = index[v] /\ beat'[v] = beat[v]
    /\ pc'[w] \in Resting \cup {"check"}
    /\ held'[w] = NoLease <=> pc'[w] \in Resting
    /\ beat'[w] => held'[w] # NoLease
    /\ held'[w] # NoLease => Queued(T(w))'

\* Nothing moves but, perhaps, a heartbeat thread that ends.
Stands ==
    /\ UNCHANGED <<pc, held, next, index>>
    /\ \A w \in Worker : beat'[w] => beat[w]

LEMMA Kinds ==
    ASSUME TypeOK, WInv, [Next]_vars
    PROVE  /\ WTypeOK'
           /\ \/ \E w \in Worker : Walks(w) \/ Turns(w) \/ Resume(w) \/ AdvancePlan(w)
              \/ Stands
  <1> USE QueueConstants DEF QueueAssumption
  <1>0. WTypeOK
    BY DEF WInv
  <1>1. ASSUME NEW w \in Worker, Walks(w) PROVE WTypeOK'
    BY <1>0, <1>1 DEF Walks, WTypeOK
  <1>2. ASSUME NEW w \in Worker, Poll(w) PROVE WTypeOK' /\ Turns(w)
    BY <1>0, <1>2
    DEF Poll, At, Goto, OnlyPc, NoData, RecoverExpired, tqvars, qvars, WInv, ControlInv, Controlled,
        WTypeOK, Turns, Resting
  <1>3. ASSUME NEW w \in Worker, NothingDue(w) PROVE WTypeOK' /\ Turns(w)
    BY <1>0, <1>3
    DEF NothingDue, At, Goto, OnlyPc, NoData, tqvars, qvars, WInv, ControlInv, Controlled,
        WTypeOK, Turns, Resting
  <1>4. ASSUME NEW w \in Worker, NEW t \in Task, ClaimTask(w, t) PROVE WTypeOK' /\ Turns(w)
    <2>1. /\ next' = next
          /\ held' = [held EXCEPT ![w] = [task |-> t, gen |-> gen[t] + 1]]
          /\ gen[t] + 1 \in Nat
          /\ qstate' = [qstate EXCEPT ![t] = "leased"]
      BY <1>4 DEF ClaimTask, Claim, TypeOK
    <2>2. [task |-> t, gen |-> gen[t] + 1] # NoLease
      BY <2>1
    <2>3. held'[w] # NoLease /\ Queued(T(w))'
      BY <2>1, <2>2 DEF TypeOK, Queued, T
    <2>4. \A v \in Worker \ {w} : held'[v] = held[v]
      BY <2>1 DEF TypeOK
    <2> QED
      BY <1>0, <1>4, <2>1, <2>3, <2>4 DEF ClaimTask, At, Goto, WTypeOK, Turns, Resting, Engaged
  <1>5. ASSUME NEW w \in Worker, Resume(w) PROVE WTypeOK'
    <2>1. next[T(w)] \in 0..PlanLength
      BY <1>5, Engages DEF Resume, At, Resting, TypeOK
    <2> QED
      BY <1>0, <1>5, <2>1 DEF Resume, At, Goto, WTypeOK, Engaged, Indexed
  <1>6. ASSUME NEW w \in Worker, AdvancePlan(w) PROVE WTypeOK'
    <2>1. index[w] + 1 \in 0..PlanLength
      BY <1>6 DEF AdvancePlan, At, WInv, WTypeOK, ControlInv, Controlled, Acting
    <2> QED
      BY <1>0, <1>6, <2>1 DEF AdvancePlan, At, Goto, WTypeOK, Engaged, Indexed
  <1>7. ASSUME NEW w \in Worker, End(w) PROVE WTypeOK' /\ Turns(w)
    BY <1>0, <1>7 DEF End, Drop, At, Goto, TypeOK, WTypeOK, Turns, Resting
  <1>8. ASSUME NEW w \in Worker, Crash(w) PROVE WTypeOK' /\ Turns(w)
    <2>1. /\ next' = next /\ held'[w] = NoLease
          /\ \A v \in Worker \ {w} : held'[v] = held[v]
      BY <1>8 DEF Crash, Drop, TypeOK, tqvars, qvars
    <2> QED
      BY <1>0, <1>8, <2>1 DEF Crash, Goto, WTypeOK, Turns, Resting
  <1>9. ASSUME NEW w \in Worker, Start(w) PROVE WTypeOK' /\ Turns(w)
    BY <1>0, <1>9
    DEF Start, At, Goto, tqvars, qvars, WInv, ControlInv, Controlled, WTypeOK, Turns, Resting
  <1>10. ASSUME NEW w \in Worker, RequestStop(w) \/ HeartbeatGivesUp(w) PROVE WTypeOK' /\ Stands
    BY <1>0, <1>10 DEF RequestStop, HeartbeatGivesUp, tqvars, qvars, WTypeOK, Stands
  <1>11. ASSUME NEW w \in Worker, Renew(w) PROVE WTypeOK' /\ Stands
    BY <1>0, <1>11 DEF Renew, Heartbeat, tqvars, qvars, WTypeOK, Stands
  <1>12. ASSUME Handler PROVE WTypeOK' /\ Stands
    BY <1>0, <1>12 DEF Handler, tqvars, qvars, wvars, WTypeOK, Stands
  <1>13. ASSUME NEW t \in Task, Operator(t) PROVE WTypeOK' /\ Stands
    BY <1>0, <1>13
    DEF Operator, Submit, Cancel, Retry, tqvars, qvars, wvars, WTypeOK, Stands
  <1>14. ASSUME Clock PROVE WTypeOK' /\ Stands
    BY <1>0, <1>14 DEF Clock, Tick, wvars, WTypeOK, Stands
  <1>15. ASSUME UNCHANGED vars PROVE WTypeOK' /\ Stands
    BY <1>0, <1>15 DEF vars, tqvars, qvars, wvars, WTypeOK, Stands
  <1>16. ASSUME NEW w \in Worker, WorkerNext(w)
         PROVE  WTypeOK' /\ (Walks(w) \/ Turns(w) \/ Resume(w) \/ AdvancePlan(w))
    BY <1>1, <1>2, <1>3, <1>4, <1>5, <1>6, <1>7, <1>16, WorkerWalks
  <1> QED
    BY <1>8, <1>9, <1>10, <1>11, <1>12, <1>13, <1>14, <1>15, <1>16 DEF Next

\* No operation deletes a row of the queue.
LEMMA RowsStay ==
    ASSUME TypeOK, [QNext]_tqvars, NEW t \in Task, Queued(t)
    PROVE  Queued(t)'
  BY DEF QNext, ClientStep, WorkerStep, Submit, CreateTask, Cancel, Retry, RecoverExpired,
         Claim, Heartbeat, Advance, Release, Transition, Defer, Drop, Tick, tqvars, qvars,
         TypeOK, Queued

LEMMA ControlStep ==
    ASSUME TypeOK, WInv, [Next]_vars
    PROVE  ControlInv'
  <1>0. [QNext]_tqvars
    BY UsesQueue
  <1>1. ASSUME NEW v \in Worker, held'[v] = held[v], held[v] # NoLease
        PROVE  Queued(T(v))'
    <2>1. PICK t \in Task : t = T(v)
      BY <1>1 DEF TypeOK, T
    <2>2. Queued(t) /\ T(v)' = t
      BY <1>1, <2>1 DEF WInv, ControlInv, Controlled, T
    <2>3. Queued(t)'
      BY <1>0, <2>2, RowsStay
    <2> QED
      BY <2>2, <2>3 DEF Queued
  <1>2. ASSUME NEW v \in Worker, held'[v] = held[v], pc'[v] = pc[v], index'[v] = index[v],
               beat'[v] => beat[v]
        PROVE  Controlled(v)'
    BY <1>1, <1>2 DEF WInv, ControlInv, Controlled
  <1>3. ASSUME NEW w \in Worker, Walks(w) PROVE ControlInv'
    <2>1. \A v \in Worker \ {w} : Controlled(v)'
      BY <1>2, <1>3 DEF Walks, WInv, WTypeOK
    <2>2. Controlled(w)'
      BY <1>1, <1>3
      DEF Walks, WInv, WTypeOK, ControlInv, Controlled, Engaged, Indexed, Acting, Closing, Resting
    <2> QED
      BY <2>1, <2>2 DEF ControlInv
  <1>4. ASSUME NEW w \in Worker, Turns(w) PROVE ControlInv'
    <2>1. \A v \in Worker \ {w} : Controlled(v)'
      BY <1>2, <1>4 DEF Turns
    <2>2. Controlled(w)'
      BY <1>4 DEF Turns, Controlled, Resting, Acting, Closing
    <2> QED
      BY <2>1, <2>2 DEF ControlInv
  <1>5. ASSUME NEW w \in Worker, Resume(w) \/ AdvancePlan(w) PROVE ControlInv'
    <2>1. T(w) \in Task
      BY <1>5, Engages DEF Resume, AdvancePlan, At, Resting
    <2>2. UNCHANGED <<held, beat>>
      BY <1>5, <2>1, MoveStep DEF Resume, AdvancePlan, Advance, tqvars, qvars, Status
    <2>3. \A v \in Worker \ {w} : Controlled(v)'
      BY <1>2, <1>5, <2>2 DEF Resume, AdvancePlan, Goto, WInv, WTypeOK
    <2>4. Controlled(w)'
      BY <1>1, <1>5, <2>2
      DEF Resume, AdvancePlan, Goto, At, WInv, WTypeOK, ControlInv, Controlled, Acting,
          Closing, Resting
    <2> QED
      BY <2>3, <2>4 DEF ControlInv
  <1>6. CASE Stands
    BY <1>2, <1>6 DEF Stands, ControlInv
  <1> QED
    BY <1>3, <1>4, <1>5, <1>6, Kinds

-----------------------------------------------------------------------------
(* The checkpoint and the journal.                                         *)

\* A lease that is valid after a step that leaves the Lease object was valid before.
LEMMA OwnsBefore ==
    ASSUME TypeOK, [QNext]_tqvars, NEW w \in Worker, held[w] # NoLease,
           held'[w] = held[w], Queued(T(w)), Owns(w)'
    PROVE  Owns(w)
  <1>1. PICK r \in Task : r = T(w)
    BY DEF TypeOK, T
  <1>2. Owns(w) <=> ~Rejected(w, r)
    BY <1>1 DEF Owns, Rejected, AssertLease, Names, Queued, Leased, T, TypeOK
  <1>3. Queued(r)' /\ T(w)' = r
    BY <1>1, RowsStay DEF T
  <1>4. ~Rejected(w, r)'
    BY <1>1, <1>3 DEF Owns, Rejected, AssertLease, Names, Queued, Leased, T
  <1>5. CASE UNCHANGED tqvars
    BY <1>2, <1>4, <1>5 DEF Rejected, tqvars, qvars
  <1> QED
    BY <1>2, <1>4, <1>5, RejectedStep

\* No two workers hold a valid lease of one task.
LEMMA OneOwner ==
    ASSUME NEW v \in Worker, NEW w \in Worker, Queued(T(v)), T(v) = T(w), Owns(v), Owns(w)
    PROVE  v = w
  BY DEF Owns, AssertLease, Names

\* An effect is not undone.
LEMMA EffectsStay ==
    ASSUME JTypeOK, JInv, [JNext]_jvars, NEW t \in Task, NEW k \in Key, effects[t][k] = 1
    PROVE  effects'[t][k] = 1
  <1>1. ASSUME NEW th \in threads, HandlerEffect(th) PROVE effects'[t][k] = 1
    <2>1. th.task # t \/ th.key # k
      BY DEF JInv, LiveIsOpen, Running, Open, JTypeOK
    <2>2. th.task \in Task /\ th.key \in Key
      BY DEF JTypeOK, Thread
    <2> QED
      BY <1>1, <2>1, <2>2 DEF HandlerEffect, JTypeOK
  <1> QED
    BY <1>1 DEF JNext, jvars, Prepare, ClaimStep, MarkForeign, Reconcile, Tamper, Spawn,
                Timeout, FinishStep, MarkUncertain, Abandon, Kill, HandlerFail, ExpireSteps

\* Only prepare_step makes a row of the journal.
LEMMA PreparedOnly ==
    ASSUME JTypeOK, TypeOK, WInv, [Next]_vars, NEW t \in Task, NEW k \in Key,
           step[t][k] = "none", step'[t][k] # "none"
    PROVE  \E w \in Worker : PrepareStep(w) /\ T(w) = t /\ K(w) = k
  <1>0. step[t][k] = "none" /\ step'[t][k] # "none"
    OBVIOUS
  <1>1. ASSUME NEW w \in Worker, WorkerNext(w)
        PROVE  PrepareStep(w) /\ T(w) = t /\ K(w) = k
    <2>1. CASE PrepareStep(w)
      <3>1. PICK s \in Task, j \in Key : s = T(w) /\ j = K(w)
        BY <2>1, ActsOnKey DEF PrepareStep, At, Acting
      <3>2. Prepare(s, j)
        BY <1>0, <2>1, <3>1 DEF PrepareStep, jvars
      <3>3. s = t /\ j = k
        BY <1>0, <3>2 DEF Prepare, JTypeOK
      <3> QED
        BY <2>1, <3>1, <3>3
    <2>2. CASE StartStep(w)
      <3>1. PICK s \in Task, j \in Key : s = T(w) /\ j = K(w)
        BY <2>2, ActsOnKey DEF StartStep, At, Acting
      <3>2. ClaimStep(w, s, j)
        BY <1>0, <2>2, <3>1 DEF StartStep, jvars
      <3> QED
        BY <1>0, <3>2 DEF ClaimStep, JTypeOK
    <2>3. ASSUME FinishStep(w) \/ MarkUncertain(w) PROVE FALSE
      <3>1. PICK s \in Task, j \in Key : s = call[w].task /\ j = call[w].key
        BY <2>3 DEF FinishStep, MarkUncertain, InStage, JTypeOK, Call
      <3>2. step[s][j] = "started"
        BY <1>0, <2>3, <3>1 DEF FinishStep, MarkUncertain
      <3>3. \E x : step' = [step EXCEPT ![s][j] = x]
        BY <1>0, <2>3, <3>1 DEF FinishStep, MarkUncertain
      <3> QED
        BY <1>0, <3>2, <3>3 DEF JTypeOK
    <2>4. ASSUME Poll(w) PROVE FALSE
      BY <2>4 DEF Poll, NoData, ExpireSteps, jvars
    <2>5. ASSUME step' = step PROVE FALSE
      BY <2>5
    <2> QED
      BY <1>1, <2>1, <2>2, <2>3, <2>4, <2>5
      DEF WorkerNext, ClaimTask, NothingDue, Check, Begin, Inspect, MakeHost, Resume, Loop,
          Exec, Lookup, RefuseStep, SpawnHandler, Await, Finish, Mark, Checkpoint,
          BackToRunning, AdvancePlan, ToolFail, BeginVerify, VerifyAcceptance, Commit,
          Reject, Fail, FailTerminal, ReleaseTask, Lost, End, NoData, jvars, Spawn, Timeout,
          Abandon
  <1>2. ASSUME NEW s \in Task, Operator(s) PROVE FALSE
    <2>1. ASSUME NEW j \in Key, Reconcile(s, j) PROVE FALSE
      BY <1>0, <2>1 DEF Reconcile, JTypeOK
    <2> QED
      BY <1>0, <1>2, <2>1 DEF Operator, Tamper, jvars
  <1>3. ASSUME step' = step PROVE FALSE
    BY <1>3
  <1> QED
    BY <1>1, <1>2, <1>3
    DEF Next, Renew, HeartbeatGivesUp, Crash, Kill, Start, RequestStop, Handler, HandlerEffect, HandlerFail,
        Clock, vars, jvars

\* Only an owner at the present checkpoint advances it, by one.
LEMMA AdvanceFrame ==
    ASSUME TypeOK, WInv, NEW w \in Worker, AdvancePlan(w)
    PROVE  /\ T(w) \in Task /\ Queued(T(w)) /\ Owns(w) /\ held' = held
           /\ index[w] \in 0..PlanLength - 1 /\ next[T(w)] = index[w]
           /\ pc[w] = "advance" /\ pc' = [pc EXCEPT ![w] = "loop"]
           /\ index' = [index EXCEPT ![w] = index[w] + 1]
           /\ next' = [next EXCEPT ![T(w)] = index[w] + 1]
  <1>1. T(w) \in Task /\ Queued(T(w)) /\ index[w] \in 0..PlanLength /\ index[w] < PlanLength
    BY Engages DEF AdvancePlan, At, Resting, Acting, WInv, ControlInv, Controlled
  <1>2. index[w] \in 0..PlanLength - 1
    BY <1>1, QueueConstants DEF QueueAssumption
  <1> QED
    BY <1>1, <1>2 DEF AdvancePlan, Advance, At, Goto, Owns

LEMMA ResumeFrame ==
    ASSUME TypeOK, WInv, NEW w \in Worker, Resume(w)
    PROVE  /\ UNCHANGED <<held, next>>
           /\ pc' = [pc EXCEPT ![w] = "loop"]
           /\ index' = [index EXCEPT ![w] = next[T(w)]]
  <1>1. T(w) \in Task
    BY Engages DEF Resume, At, Resting
  <1> QED
    BY <1>1, MoveStep DEF Resume, Goto, tqvars, qvars, Status

\* The checkpoint moves only by AdvancePlan.
LEMMA NextFrame ==
    ASSUME TypeOK, WInv, [Next]_vars
    PROVE  next' = next \/ \E w \in Worker : AdvancePlan(w)
  BY Kinds, ResumeFrame DEF Walks, Turns, Stands

LEMMA BackedStep ==
    ASSUME FullInv, [Next]_vars
    PROVE  CheckpointBacked'
  <1> USE DEF FullInv, QInv
  <1>1. [JNext]_jvars
    BY UsesJournal
  <1> SUFFICES ASSUME NEW t \in Task, NEW k \in Key, k < next'[t]
               PROVE  effects'[t][k] = 1
    BY DEF CheckpointBacked
  <1>2. CASE k < next[t]
    BY <1>1, <1>2, EffectsStay DEF PlanInv, CheckpointBacked
  <1>3. CASE ~(k < next[t])
    \* The checkpoint passes k now: k is the action that was just verified.
    <2>1. PICK w \in Worker : AdvancePlan(w)
      BY <1>3, NextFrame
    <2>2. T(w) = t /\ K(w) = k
      <3>1. t = T(w)
        BY <1>3, <2>1, AdvanceFrame DEF TypeOK
      <3>2. /\ next[t] = index[w] /\ index[w] \in Int
            /\ next' = [next EXCEPT ![t] = index[w] + 1]
        BY <2>1, <3>1, AdvanceFrame
      <3>3. k \in Int /\ next'[t] = index[w] + 1
        BY <3>2, PlanAssumption DEF TypeOK
      <3>4. k = index[w]
        BY <1>3, <3>2, <3>3
      <3> QED
        BY <3>1, <3>4 DEF K
    <2>3. effects[t][k] = 1
      BY <2>1, <2>2, AdvanceFrame DEF PlanInv, PassedHappened
    <2> QED
      BY <1>1, <2>3, EffectsStay
  <1> QED
    BY <1>2, <1>3

LEMMA CurrentStep ==
    ASSUME FullInv, [Next]_vars
    PROVE  IndexCurrent'
  <1> USE DEF FullInv, QInv, PlanInv
  <1>1. [QNext]_tqvars
    BY UsesQueue
  <1> SUFFICES ASSUME NEW v \in Worker, pc'[v] \in Indexed, Owns(v)'
               PROVE  (index[v] = next[T(v)])'
    BY DEF IndexCurrent
  <1>2. ASSUME held'[v] = held[v], pc[v] \in Engaged
        PROVE  /\ Owns(v) /\ T(v)' = T(v) /\ T(v) \in Task /\ Queued(T(v))
               /\ pc[v] \in Indexed => index[v] = next[T(v)]
    <2>1. held[v] # NoLease /\ T(v) \in Task /\ Queued(T(v))
      BY <1>2, Engages DEF Engaged, Indexed, Acting, Closing, Resting
    <2>2. Owns(v)
      BY <1>1, <1>2, <2>1, OwnsBefore
    <2> QED
      BY <1>2, <2>1, <2>2 DEF T, IndexCurrent
  <1>3. ASSUME held'[v] = held[v], pc[v] \in Indexed, index'[v] = index[v], next' = next
        PROVE  (index[v] = next[T(v)])'
    BY <1>2, <1>3 DEF Engaged
  <1>4. ASSUME NEW w \in Worker, Walks(w) PROVE (index[v] = next[T(v)])'
    <2>1. pc[v] \in Indexed
      BY <1>4 DEF Walks, WInv, WTypeOK
    <2> QED
      BY <1>3, <1>4, <2>1 DEF Walks
  <1>5. ASSUME NEW w \in Worker, Turns(w) PROVE (index[v] = next[T(v)])'
    <2>1. v # w
      BY <1>5 DEF Turns, Resting, Indexed, Acting, Closing
    <2> QED
      BY <1>3, <1>5, <2>1 DEF Turns
  <1>6. ASSUME NEW w \in Worker, Resume(w) PROVE (index[v] = next[T(v)])'
    <2>1. CASE v = w
      BY <1>6, <2>1, ResumeFrame DEF WInv, WTypeOK, T
    <2>2. CASE v # w
      BY <1>3, <1>6, <2>2, ResumeFrame DEF WInv, WTypeOK
    <2> QED
      BY <2>1, <2>2
  <1>7. ASSUME NEW w \in Worker, AdvancePlan(w) PROVE (index[v] = next[T(v)])'
    <2>1. CASE v = w
      BY <1>7, <2>1, AdvanceFrame DEF WInv, WTypeOK, TypeOK, T
    <2>2. CASE v # w
      \* Another owner's task is another task.
      <3>1. held'[v] = held[v] /\ pc[v] \in Indexed /\ index'[v] = index[v]
        BY <1>7, <2>2, AdvanceFrame DEF WInv, WTypeOK
      <3>2. Owns(v) /\ T(v)' = T(v) /\ T(v) \in Task /\ Queued(T(v)) /\ index[v] = next[T(v)]
        BY <1>2, <3>1 DEF Engaged
      <3>3. T(v) # T(w)
        BY <1>7, <2>2, <3>2, AdvanceFrame, OneOwner
      <3>4. next'[T(v)] = next[T(v)]
        BY <1>7, <3>2, <3>3, AdvanceFrame DEF TypeOK
      <3> QED
        BY <3>1, <3>2, <3>4
    <2> QED
      BY <2>1, <2>2
  <1>8. CASE Stands
    BY <1>3, <1>8 DEF Stands
  <1> QED
    BY <1>4, <1>5, <1>6, <1>7, <1>8, Kinds

LEMMA PassedStep ==
    ASSUME FullInv, [Next]_vars
    PROVE  PassedHappened'
  <1> USE DEF FullInv, QInv, PlanInv
  <1>1. [JNext]_jvars
    BY UsesJournal
  <1> SUFFICES ASSUME NEW v \in Worker, pc'[v] \in {"running", "advance"}
               PROVE  (effects[T(v)][K(v)] = 1)'
    BY DEF PassedHappened
  <1>2. ASSUME NEW t \in Task, NEW k \in Key, effects[t][k] = 1, t = T(v)', k = index'[v]
        PROVE  (effects[T(v)][K(v)] = 1)'
    BY <1>1, <1>2, EffectsStay DEF K
  <1>3. ASSUME pc[v] \in {"running", "advance"}, held'[v] = held[v], index'[v] = index[v]
        PROVE  (effects[T(v)][K(v)] = 1)'
    <2>1. T(v) \in Task /\ K(v) \in Key /\ effects[T(v)][K(v)] = 1
      BY <1>3, ActsOnKey DEF Acting, PassedHappened
    <2> QED
      BY <1>2, <1>3, <2>1 DEF T, K
  <1>4. ASSUME NEW w \in Worker, Walks(w) PROVE (effects[T(v)][K(v)] = 1)'
    <2>1. held'[v] = held[v] /\ index'[v] = index[v]
      BY <1>4 DEF Walks
    <2>2. CASE pc[v] \in {"running", "advance"}
      BY <1>3, <2>1, <2>2
    <2>3. CASE v = w /\ Verified(T(w), K(w)) /\ pc[v] \notin {"running", "advance"}
      <3>1. index[v] < PlanLength /\ pc[v] \in Engaged
        BY <1>4, <2>3 DEF Walks, WInv, WTypeOK, ControlInv, Controlled, Acting
      <3>2. T(v) \in Task /\ K(v) \in Key
        BY <3>1, Engages, PlanAssumption, QueueConstants
        DEF QueueAssumption, Engaged, Indexed, Acting, Closing, Resting, K
      <3>3. effects[T(v)][K(v)] = 1
        BY <2>3, <3>2 DEF Verified, JInv, RecordIsTruthful
      <3> QED
        BY <1>2, <2>1, <3>2, <3>3 DEF T, K
    <2> QED
      BY <1>4, <2>2, <2>3 DEF Walks, WInv, WTypeOK
  <1>5. ASSUME NEW w \in Worker, Turns(w) PROVE (effects[T(v)][K(v)] = 1)'
    <2>1. v # w
      BY <1>5 DEF Turns, Resting
    <2> QED
      BY <1>3, <1>5, <2>1 DEF Turns
  <1>6. ASSUME NEW w \in Worker, Resume(w) \/ AdvancePlan(w)
        PROVE  (effects[T(v)][K(v)] = 1)'
    <2>1. /\ held' = held
          /\ pc' = [pc EXCEPT ![w] = "loop"]
          /\ \E i : index' = [index EXCEPT ![w] = i]
      BY <1>6, AdvanceFrame, ResumeFrame
    <2>2. v # w
      BY <2>1 DEF WInv, WTypeOK
    <2> QED
      BY <1>3, <2>1, <2>2 DEF WInv, WTypeOK
  <1>7. CASE Stands
    BY <1>3, <1>7 DEF Stands
  <1> QED
    BY <1>4, <1>5, <1>6, <1>7, Kinds

LEMMA AheadStep ==
    ASSUME FullInv, [Next]_vars
    PROVE  AheadUntouched'
  <1> USE DEF FullInv, QInv, PlanInv
  <1> SUFFICES ASSUME NEW t \in Task, NEW k \in Key, k > next'[t]
               PROVE  step'[t][k] = "none"
    BY DEF AheadUntouched
  <1>1. k > next[t]
    <2>1. next[t] \in Int /\ k \in Int
      BY PlanAssumption DEF TypeOK
    <2>2. next'[t] = next[t] \/ next'[t] = next[t] + 1
      BY NextFrame, AdvanceFrame DEF TypeOK
    <2> QED
      BY <2>1, <2>2
  <1>2. step[t][k] = "none"
    BY <1>1 DEF AheadUntouched
  <1>3. ASSUME NEW w \in Worker, PrepareStep(w), T(w) = t, K(w) = k PROVE FALSE
    \* prepare_step asserts the lease: the index is still the row's.
    <2>1. Owns(w)
      BY <1>3 DEF PrepareStep, MayAct, BeforeEffect, Owns
    <2>2. k = next[t]
      BY <1>3, <2>1 DEF PrepareStep, At, IndexCurrent, Indexed, Acting, K
    <2>3. k \in Int
      BY PlanAssumption
    <2> QED
      BY <1>1, <2>2, <2>3
  <1> QED
    BY <1>2, <1>3, PreparedOnly

-----------------------------------------------------------------------------
(* The invariant of the composition, and what it gives.                    *)

LEMMA FullInit == Init => FullInv
  <1> SUFFICES ASSUME Init PROVE FullInv
    OBVIOUS
  <1>1. QInv
    BY TypeInit, RowInit DEF Init, QInit, QInv, TokensFence
  <1>2. JTypeOK /\ JInv
    BY JTypeInit, JInvInit DEF Init
  <1>3. WInv
    BY QueueConstants
    DEF Init, QInit, WInv, WTypeOK, ControlInv, Controlled, Resting, Acting, Closing,
        QueueAssumption
  <1>4. PlanInv
    BY PlanAssumption, QueueConstants
    DEF Init, QInit, JInit, PlanInv, CheckpointBacked, IndexCurrent, PassedHappened,
        AheadUntouched, Indexed, Acting, Closing, QueueAssumption
  <1> QED
    BY <1>1, <1>2, <1>3, <1>4 DEF FullInv

LEMMA FullStep == FullInv /\ [Next]_vars => FullInv'
  <1> SUFFICES ASSUME FullInv, [Next]_vars PROVE FullInv'
    OBVIOUS
  <1>1. [QNext]_tqvars /\ [JNext]_jvars
    BY UsesQueue, UsesJournal DEF FullInv, QInv
  <1>2. QInv'
    BY <1>1, TypeStep, RowStep, TokenStep DEF FullInv, QInv
  <1>3. JTypeOK' /\ JInv'
    BY <1>1, JTypeStep, JInvStep DEF FullInv
  <1>4. WInv'
    BY Kinds, ControlStep DEF FullInv, QInv, WInv
  <1>5. PlanInv'
    BY BackedStep, CurrentStep, PassedStep, AheadStep DEF PlanInv
  <1> QED
    BY <1>2, <1>3, <1>4, <1>5 DEF FullInv

\* The inductive invariant holds of the workers in all their runs.
THEOREM FullInvariant == Spec => []FullInv
  BY FullInit, FullStep, PTL DEF Spec

\* run_once and its environment use the queue only through its operations
\* (QueueRefined), so all that is proved of TaskQueue holds of the workers.
THEOREM WorkersUseQueue == Spec => QueueRefined
  <1>1. Init => QInit
    BY DEF Init
  <1>2. FullInv /\ [Next]_vars => [UNCHANGED tqvars \/ QNext]_tqvars
    BY UsesQueue DEF FullInv, QInv
  <1> QED
    BY <1>1, <1>2, FullInvariant, PTL DEF Spec, QueueRefined

\* And the journal (JournalRefined).
THEOREM WorkersUseJournal == Spec => JournalRefined
  <1>1. Init => JInit
    BY DEF Init
  <1>2. FullInv /\ [Next]_vars => [UNCHANGED jvars \/ JNext]_jvars
    BY UsesJournal DEF FullInv, QInv
  <1> QED
    BY <1>1, <1>2, FullInvariant, PTL DEF Spec, JournalRefined

\* What is proved of the queue and of the journal alone therefore holds of the
\* workers with their crashes, paused owners and late handlers: the leases fence
\* (ImplementsFencedLease), a lost lease stays lost, a task ends once, a late answer
\* settles nothing, an effect happens at most once and the journal says so
\* (RecordIsTruthful), and an accepted cancellation is never parked or overruled.
THEOREM WorkersInherit ==
    Spec => /\ ImplementsFencedLease /\ StaleForever /\ TerminalIsFinal /\ LateAnswerIgnored
            /\ []AtMostOnce /\ []RecordIsTruthful
            /\ []CancelNotStranded /\ []CancelledNeverCompletes /\ []QueueStatusCoherent
  <1>1. Init => QInit /\ JInit
    BY DEF Init
  <1>2. FullInv /\ [Next]_vars => [QNext]_tqvars /\ [JNext]_jvars
    BY UsesQueue, UsesJournal DEF FullInv, QInv
  <1>3. Spec => QSpec /\ JSpec
    BY <1>1, <1>2, FullInvariant, PTL DEF Spec, QSpec, JSpec
  <1> QED
    BY <1>3, QueueImplementsLease, StaleTokensStayStale, TerminalStays, LateAnswersIgnored,
       OnceOnly, Truthful, CancellationKept, CancellationHonoured, Coherence, PTL

\* What advance() skipped for good did happen (CheckpointBacked).
THEOREM CheckpointIsBacked == Spec => []CheckpointBacked
  BY FullInvariant, PTL DEF FullInv, PlanInv

-----------------------------------------------------------------------------
(* The workers implement TaskLife.                                         *)

\* A handler of step k of t may still act.
Live(t, k) ==
    \/ \E th \in Thread : Running(th, t, k)
    \/ \E w \in Worker : Starting(w, t, k)

BusyOf == [t \in Task |-> Executing(t)]
FateOf == [t \in Task |-> Fate(t)]

LEMMA ExecutingIsLive ==
    /\ JTypeOK => \A t \in Task : Executing(t) = {k \in Key : Live(t, k)}
    /\ JTypeOK' => \A t \in Task : Executing(t)' = {k \in Key : Live(t, k)'}
  <1>1. ASSUME JTypeOK, NEW t \in Task PROVE Executing(t) = {k \in Key : Live(t, k)}
    <2>1. Executing(t) \subseteq {k \in Key : Live(t, k)}
      BY <1>1 DEF JTypeOK, Executing, Live, Running, Starting, InStage, Thread, Call
    <2>2. {k \in Key : Live(t, k)} \subseteq Executing(t)
      BY <1>1 DEF JTypeOK, Executing, Live, Running, Starting, InStage, Thread, Call
    <2> QED
      BY <2>1, <2>2
  <1>2. ASSUME JTypeOK', NEW t \in Task PROVE Executing(t)' = {k \in Key : Live(t, k)'}
    <2>1. Executing(t)' \subseteq {k \in Key : Live(t, k)'}
      BY <1>2 DEF JTypeOK, Executing, Live, Running, Starting, InStage, Thread, Call
    <2>2. {k \in Key : Live(t, k)'} \subseteq Executing(t)'
      BY <1>2 DEF JTypeOK, Executing, Live, Running, Starting, InStage, Thread, Call
    <2> QED
      BY <2>1, <2>2
  <1> QED
    BY <1>1, <1>2

\* Only the action at the checkpoint is executed, and it has not happened.
LEMMA LiveIsNext ==
    ASSUME FullInv, NEW t \in Task, NEW k \in Key, Live(t, k)
    PROVE  k = next[t] /\ effects[t][k] = 0
  <1>1. Open(t, k)
    BY DEF FullInv, JInv, LiveIsOpen, Live
  <1>2. ~(k < next[t]) /\ ~(k > next[t])
    BY <1>1 DEF Open, FullInv, PlanInv, CheckpointBacked, AheadUntouched
  <1>3. k \in Int /\ next[t] \in Int
    BY PlanAssumption DEF FullInv, QInv, TypeOK
  <1> QED
    BY <1>1, <1>2, <1>3 DEF Open

\* Only Commit completes a task, and only behind the last action.
LEMMA CompletedOnly ==
    ASSUME FullInv, [Next]_vars, NEW t \in Task,
           status'[t] = "completed", status[t] # "completed"
    PROVE  \E w \in Worker : pc[w] = "commit" /\ Owns(w) /\ T(w) = t
  <1> USE DEF FullInv, QInv
  <1>0. /\ status'[t] = "completed" /\ status[t] # "completed"
        /\ status \in [Task -> Status \cup {Missing}]
    BY DEF TypeOK, StatusOK
  <1>1. ASSUME NEW w \in Worker, T(w) \in Task, NEW target \in Status, Move(w, target)
        PROVE  target = "completed" /\ T(w) = t
    <2>1. status' = status \/ status' = [status EXCEPT ![T(w)] = target]
      BY <1>1 DEF Move, Transition, tqvars
    <2> QED
      BY <1>0, <1>1, <2>1
  <1>2. ASSUME NEW w \in Worker, WorkerNext(w)
        PROVE  pc[w] = "commit" /\ Owns(w) /\ T(w) = t
    <2>1. CASE Commit(w)
      <3>1. T(w) \in Task
        BY <2>1, Engages DEF Commit, At, Resting
      <3>2. Move(w, "completed") \/ status' = status
        BY <2>1 DEF Commit, tqvars
      <3> QED
        BY <1>0, <1>1, <2>1, <3>1, <3>2 DEF Commit, At, Status
    <2>2. ASSUME pc[w] \notin Resting, NEW target \in Status, target # "completed",
                 Move(w, target)
          PROVE FALSE
      BY <1>1, <2>2, Engages
    <2>3. ASSUME Begin(w) \/ Resume(w) \/ Exec(w) \/ BackToRunning(w) \/ ToolFail(w) PROVE FALSE
      BY <1>0, <2>2, <2>3
      DEF Begin, Resume, Exec, BackToRunning, ToolFail, At, Resting, Status, tqvars
    <2>4. ASSUME BeginVerify(w) \/ Reject(w) \/ Fail(w) \/ FailTerminal(w) PROVE FALSE
      BY <1>0, <2>2, <2>4
      DEF BeginVerify, Reject, Fail, FailTerminal, At, Resting, Status, tqvars
    <2>5. ASSUME status' = status PROVE FALSE
      BY <1>0, <2>5
    <2>6. ASSUME RecoverExpired PROVE FALSE
      BY <1>0, <2>6 DEF RecoverExpired
    <2>7. ASSUME NEW b, NEW r, Release(w, T(w), b, r) PROVE FALSE
      BY <1>0, <2>7 DEF Release
    <2> QED
      BY <1>2, <2>1, <2>3, <2>4, <2>5, <2>6, <2>7
      DEF WorkerNext, Poll, ClaimTask, Claim, NothingDue, Check, Inspect, MakeHost, Defer,
          Loop, Lookup, PrepareStep, StartStep, RefuseStep, SpawnHandler, Await, Finish, Mark,
          Checkpoint, AdvancePlan, Advance, VerifyAcceptance, ReleaseTask, Lost, End, Drop,
          NoData, tqvars
  <1>3. ASSUME NEW s \in Task, Operator(s) PROVE FALSE
    BY <1>0, <1>3 DEF Operator, Submit, Cancel, Retry, tqvars
  <1>4. ASSUME status' = status PROVE FALSE
    BY <1>0, <1>4
  <1> QED
    BY <1>2, <1>3, <1>4
    DEF Next, Renew, Heartbeat, HeartbeatGivesUp, Crash, Drop, Start, RequestStop, Handler,
        Clock, Tick, vars, tqvars

\* An operation of the journal after which no more steps are live gives some up.
LEMMA ShrinkRefines ==
    ASSUME FullInv, JTypeOK', status' = status, effects' = effects,
           \A t \in Task, k \in Key : Live(t, k)' => Live(t, k)
    PROVE  Life!GiveUp
  <1>1. \A t \in Task : Executing(t) = {k \in Key : Live(t, k)}
    BY ExecutingIsLive DEF FullInv
  <1>2. \A t \in Task : Executing(t)' = {k \in Key : Live(t, k)'}
    BY ExecutingIsLive
  <1>3. ASSUME NEW t \in Task PROVE Executing(t)' = Executing(t) \/ Executing(t)' = {}
    \* At most the action at the checkpoint is live.
    <2>1. \A j, k \in Key : Live(t, j) /\ Live(t, k) => j = k
      BY LiveIsNext
    <2> QED
      BY <1>1, <1>2, <2>1
  <1>4. PICK L : L = {t \in Task : Executing(t)' # Executing(t)}
    OBVIOUS
  <1>5. BusyOf' = [t \in Task |-> IF t \in L THEN {} ELSE BusyOf[t]]
    BY <1>3, <1>4 DEF BusyOf
  <1>6. L \in SUBSET Task
    BY <1>4
  <1>7. FateOf' = FateOf
    BY DEF FateOf, Fate
  <1> QED
    BY <1>5, <1>6, <1>7 DEF Life!GiveUp, BusyOf, FateOf

\* The operations of the journal that start no handler.
LEMMA QuietJournal ==
    ASSUME JTypeOK,
           \/ \E t \in Task, k \in Key : Prepare(t, k) \/ Reconcile(t, k) \/ Tamper(t, k)
           \/ \E w \in Worker : Spawn(w) \/ Timeout(w) \/ FinishStep(w) \/ MarkUncertain(w)
                                \/ Abandon(w) \/ Kill(w)
           \/ \E th \in threads : HandlerFail(th)
           \/ UNCHANGED jvars
    PROVE  effects' = effects /\ \A t \in Task, k \in Key : Live(t, k)' => Live(t, k)
  <1>0. ASSUME threads' \subseteq threads,
               \A w \in Worker, t \in Task, k \in Key : Starting(w, t, k)' => Starting(w, t, k),
               NEW t \in Task, NEW k \in Key, Live(t, k)'
        PROVE  Live(t, k)
    BY <1>0 DEF Live, Running
  <1>1. ASSUME NEW t \in Task, NEW k \in Key, Prepare(t, k) \/ Reconcile(t, k) \/ Tamper(t, k)
        PROVE  effects' = effects /\ \A s \in Task, j \in Key : Live(s, j)' => Live(s, j)
    BY <1>1 DEF Prepare, Reconcile, Tamper, Live, Running, Starting
  <1>2. ASSUME NEW w \in Worker, Spawn(w)
        PROVE  effects' = effects /\ \A s \in Task, j \in Key : Live(s, j)' => Live(s, j)
    <2>1. PICK t \in Task, k \in Key : t = call[w].task /\ k = call[w].key
      BY <1>2 DEF Spawn, InStage, JTypeOK, Call
    <2>2. Starting(w, t, k)
      BY <1>2, <2>1 DEF Spawn, InStage, Starting
    <2>3. \A v \in Worker, s \in Task, j \in Key : Starting(v, s, j)' => Starting(v, s, j)
      BY <1>2 DEF Spawn, InStage, Starting, JTypeOK, Call
    <2>4. PICK new \in Thread : new.task = t /\ new.key = k /\ threads' = threads \cup {new}
      BY <1>2, <2>1 DEF Spawn, InStage, JTypeOK, Call, Thread
    <2>5. \A th \in Thread, s \in Task, j \in Key :
            Running(th, s, j)' => Running(th, s, j) \/ (s = t /\ j = k)
      BY <2>4 DEF Running
    <2> QED
      BY <1>2, <2>2, <2>3, <2>5 DEF Spawn, Live
  <1>3. ASSUME NEW w \in Worker,
               Timeout(w) \/ FinishStep(w) \/ MarkUncertain(w) \/ Abandon(w) \/ Kill(w)
        PROVE  effects' = effects /\ \A s \in Task, j \in Key : Live(s, j)' => Live(s, j)
    <2>1. \A v \in Worker, s \in Task, j \in Key : Starting(v, s, j)' => Starting(v, s, j)
      BY <1>3 DEF Timeout, FinishStep, MarkUncertain, Abandon, Kill, InStage, Starting,
                  JTypeOK, Call
    <2>2. threads' \subseteq threads /\ effects' = effects
      BY <1>3 DEF Timeout, FinishStep, MarkUncertain, Abandon, Kill
    <2> QED
      BY <1>0, <2>1, <2>2
  <1>4. ASSUME NEW th \in threads, HandlerFail(th)
        PROVE  effects' = effects /\ \A s \in Task, j \in Key : Live(s, j)' => Live(s, j)
    <2>1. th \in Thread /\ "failed" \in {"ok", "failed"} /\ Answer(th, "failed")
      BY <1>4 DEF HandlerFail, JTypeOK
    <2>2. \A v \in Worker, s \in Task, j \in Key : Starting(v, s, j)' => Starting(v, s, j)
      BY <2>1, AnswerFrame
    <2> QED
      BY <1>0, <1>4, <2>2 DEF HandlerFail
  <1>5. ASSUME UNCHANGED jvars
        PROVE  effects' = effects /\ \A s \in Task, j \in Key : Live(s, j)' => Live(s, j)
    BY <1>5 DEF jvars, Live, Running, Starting
  <1> QED
    BY <1>1, <1>2, <1>3, <1>4, <1>5

\* claim_step begins the action at the checkpoint, with nothing else under way.
LEMMA ClaimRefines ==
    ASSUME FullInv, JTypeOK', status' = status, NEW w \in Worker, StartStep(w),
           ClaimStep(w, T(w), K(w))
    PROVE  \E t \in Task, k \in Key : Life!Begin(t, k)
  <1> USE DEF FullInv, QInv
  <1>1. PICK t \in Task, k \in Key : t = T(w) /\ k = K(w)
    BY ActsOnKey DEF StartStep, At, Acting
  <1>2. ClaimStep(w, t, k)
    BY <1>1
  <1>3. k = next[t]
    <2>1. Owns(w)
      BY DEF StartStep, MayAct, BeforeEffect, Owns
    <2> QED
      BY <1>1, <2>1 DEF StartStep, At, PlanInv, IndexCurrent, Indexed, Acting, K
  <1>4. Active(t) /\ step[t][k] = "intent" /\ effects' = effects /\ threads' = threads
    BY <1>2 DEF ClaimStep
  <1>5. effects[t][k] = 0
    BY <1>4 DEF JInv, RecordIsTruthful
  <1>6. \A j \in Key : effects[t][j] = IF j < k THEN 1 ELSE 0
    <2> SUFFICES ASSUME NEW j \in Key PROVE effects[t][j] = IF j < k THEN 1 ELSE 0
      OBVIOUS
    <2>1. j \in Int /\ k \in Int
      BY PlanAssumption
    <2>2. CASE j < k
      BY <1>3, <2>2 DEF PlanInv, CheckpointBacked
    <2>3. CASE j = k
      BY <1>5, <2>1, <2>3
    <2>4. CASE j > k
      BY <1>3, <2>1, <2>4 DEF PlanInv, AheadUntouched, JInv, RecordIsTruthful
    <2> QED
      BY <2>1, <2>2, <2>3, <2>4
  <1>7. \A j \in Key : ~Live(t, j)
    <2>1. ~Live(t, k)
      BY <1>4 DEF Live, JInv, LiveIsOpen, Open
    <2> QED
      BY <1>3, <2>1, LiveIsNext
  <1>8. \A v \in Worker, s \in Task, j \in Key :
          Starting(v, s, j)' <=> Starting(v, s, j) \/ (v = w /\ s = t /\ j = k)
    <2>1. call[w] = NoCall /\ attempt[t][k] + 1 \in 1..MaxAttempt
      BY <1>2 DEF ClaimStep, JTypeOK
    <2>2. PICK c \in Call : /\ c.task = t /\ c.key = k /\ c.stage = "claimed"
                           /\ call' = [call EXCEPT ![w] = c]
      BY <1>2, <2>1 DEF ClaimStep, Call
    <2> QED
      BY <2>1, <2>2, JournalConstants DEF Starting, JTypeOK
  <1>9. \A s \in Task, j \in Key : Live(s, j)' <=> Live(s, j) \/ (s = t /\ j = k)
    BY <1>4, <1>8 DEF Live, Running
  <1>10. /\ \A s \in Task : Executing(s) = {j \in Key : Live(s, j)}
         /\ \A s \in Task : Executing(s)' = {j \in Key : Live(s, j)'}
    BY ExecutingIsLive
  <1>11. /\ Executing(t) = {} /\ Executing(t)' = {k}
         /\ \A s \in Task \ {t} : Executing(s)' = Executing(s)
    BY <1>7, <1>9, <1>10
  <1>12. BusyOf[t] = {} /\ BusyOf' = [BusyOf EXCEPT ![t] = {k}]
    BY <1>11 DEF BusyOf
  <1>13. FateOf[t] = "open" /\ FateOf' = FateOf
    BY <1>4 DEF FateOf, Fate, Active, Status, TERMINAL, Missing
  <1>14. Life!Action = Key
    BY PlanAssumption DEF Life!Action
  <1> QED
    BY <1>4, <1>6, <1>12, <1>13, <1>14 DEF Life!Begin, BusyOf, FateOf

\* The effect of a handler is the action that is under way.
LEMMA EffectRefines ==
    ASSUME FullInv, JTypeOK', status' = status, NEW th \in threads, HandlerEffect(th)
    PROVE  \E t \in Task : Life!Act(t)
  <1> USE DEF FullInv
  <1>1. PICK t \in Task, k \in Key : t = th.task /\ k = th.key
    BY DEF JTypeOK, Thread
  <1>2. th \in Thread /\ Running(th, t, k)
    BY <1>1 DEF JTypeOK, Running
  <1>3. Live(t, k) /\ \A j \in Key : Live(t, j) => j = k
    BY <1>2, LiveIsNext DEF Live
  <1>4. effects[t][k] = 0
    BY <1>3, LiveIsNext
  <1>5. effects' = [effects EXCEPT ![t] = [j \in Key |-> IF j = k THEN 1 ELSE @[j]]]
    <2>1. effects'[t][k] = 1 /\ effects' \in [Task -> [Key -> Nat]]
      BY <1>1, <1>4 DEF HandlerEffect, JTypeOK
    <2>2. \A s \in Task, j \in Key : s # t \/ j # k => effects'[s][j] = effects[s][j]
      BY <1>1 DEF HandlerEffect, JTypeOK
    <2> QED
      BY <2>1, <2>2 DEF JTypeOK
  <1>6. threads' = threads \ {th}
    BY DEF HandlerEffect
  <1>7. \A v \in Worker, s \in Task, j \in Key : Starting(v, s, j)' <=> Starting(v, s, j)
    BY DEF HandlerEffect, Answer, InStage, Starting, JTypeOK, Call
  <1>8. \A s \in Task, j \in Key : s # t => (Live(s, j)' <=> Live(s, j))
    BY <1>1, <1>6, <1>7 DEF Live, Running
  <1>9. \A j \in Key : ~Live(t, j)'
    <2>1. \A u \in Thread : Running(u, t, k) => u = th
      BY <1>2 DEF JInv, LiveOnce
    <2>2. \A v \in Worker : ~Starting(v, t, k)
      BY <1>2 DEF JInv, LiveOnce
    <2>3. ~Live(t, k)'
      BY <1>6, <1>7, <2>1, <2>2 DEF Live, Running
    <2>4. \A j \in Key : Live(t, j)' => Live(t, j)
      BY <1>6, <1>7 DEF Live, Running
    <2> QED
      BY <1>3, <2>3, <2>4
  <1>10. /\ \A s \in Task : Executing(s) = {j \in Key : Live(s, j)}
         /\ \A s \in Task : Executing(s)' = {j \in Key : Live(s, j)'}
    BY ExecutingIsLive
  <1>11. /\ Executing(t) = {k} /\ Executing(t)' = {}
         /\ \A s \in Task \ {t} : Executing(s)' = Executing(s)
    BY <1>3, <1>8, <1>9, <1>10
  <1>12. BusyOf[t] = {k} /\ BusyOf' = [BusyOf EXCEPT ![t] = {}]
    BY <1>11 DEF BusyOf
  <1>13. FateOf' = FateOf
    BY DEF FateOf, Fate
  <1>14. Life!Action = Key
    BY PlanAssumption DEF Life!Action
  <1>15. effects' = [effects EXCEPT ![t] =
                       [j \in Life!Action |-> IF j \in BusyOf[t] THEN 1 ELSE @[j]]]
    BY <1>5, <1>12, <1>14
  <1> QED
    BY <1>12, <1>13, <1>15 DEF Life!Act, BusyOf, FateOf

\* What the queue does to the fate of the tasks while the journal stands still.
LEMMA FateRefines ==
    ASSUME FullInv, JTypeOK', [Next]_vars, effects' = effects,
           \A t \in Task, k \in Key : Live(t, k)' <=> Live(t, k)
    PROVE  [Life!LNext]_(Life!lvars)
  <1>10. \A t \in Task, k \in Key : Live(t, k) => effects[t][k] = 0
    BY LiveIsNext
  <1> USE Table DEF FullInv, QInv, TypeOK, StatusOK
  <1>1. [QNext]_tqvars
    BY UsesQueue
  <1>0. /\ \A t \in Task : Executing(t) = {k \in Key : Live(t, k)}
        /\ \A t \in Task : Executing(t)' = {k \in Key : Live(t, k)'}
    BY ExecutingIsLive
  <1>2. BusyOf' = BusyOf
    <2>1. ASSUME NEW t \in Task PROVE Executing(t)' = Executing(t)
      <3>1. {k \in Key : Live(t, k)'} = {k \in Key : Live(t, k)}
        OBVIOUS
      <3> QED
        BY <1>0, <3>1
    <2> QED
      BY <2>1 DEF BusyOf
  <1>3. ASSUME status' = status PROVE UNCHANGED Life!lvars
    BY <1>2, <1>3 DEF Life!lvars, BusyOf, Fate
  <1>4. ASSUME NEW t \in Task, status[t] = Missing, status' = [status EXCEPT ![t] = "created"]
        PROVE  Life!LNext
    <2>1. FateOf[t] = "missing" /\ FateOf' = [FateOf EXCEPT ![t] = "open"]
      BY <1>4 DEF FateOf, Fate, TERMINAL, Missing
    <2> QED
      BY <1>2, <2>1 DEF Life!LNext, Life!Accept, BusyOf, FateOf
  <1>5. ASSUME NEW over \in SUBSET Task,
               \A t \in over : status[t] \in Status \ TERMINAL
                               /\ status'[t] \in TERMINAL \ {"completed"},
               \A t \in Task \ over : Fate(t)' = Fate(t)
        PROVE  Life!LNext
    <2>1. \A t \in over : Fate(t) = "open" /\ Fate(t)' = "ended"
      BY <1>5 DEF Fate, TERMINAL, Missing, Status
    <2>2. over \in SUBSET {t \in Task : FateOf[t] = "open"}
      BY <2>1 DEF FateOf
    <2>3. FateOf' = [t \in Task |-> IF t \in over THEN "ended" ELSE FateOf[t]]
      BY <1>5, <2>1 DEF FateOf
    <2>4. Life!EndSome
      BY <1>2, <2>2, <2>3 DEF Life!EndSome, BusyOf, FateOf
    <2> QED
      BY <2>4 DEF Life!LNext
  <1>6. ASSUME NEW t \in Task, status[t] \in Status \ TERMINAL, NEW s \in Status,
               status' = [status EXCEPT ![t] = s]
        PROVE  [Life!LNext]_(Life!lvars)
    <2>1. CASE s \in Status \ TERMINAL
      <3>1. \A r \in Task : Fate(r)' = Fate(r)
        BY <1>6, <2>1 DEF Fate, TERMINAL, Missing, Status
      <3>2. FateOf' = FateOf
        BY <3>1 DEF FateOf
      <3> QED
        BY <1>2, <3>2 DEF Life!lvars, BusyOf, FateOf
    <2>2. CASE s \in TERMINAL \ {"completed"}
      <3>1. \A r \in Task \ {t} : Fate(r)' = Fate(r)
        BY <1>6 DEF Fate
      <3>2. PICK over \in SUBSET Task : over = {t}
        OBVIOUS
      <3>3. status[t] \in Status \ TERMINAL /\ status'[t] \in TERMINAL \ {"completed"}
        BY <1>6, <2>2
      <3> QED
        BY <1>5, <3>1, <3>2, <3>3
    <2>3. CASE s = "completed"
      <3>1. status'[t] = "completed" /\ status[t] # "completed"
        BY <1>6, <2>3 DEF TERMINAL
      <3>2. PICK w \in Worker : pc[w] = "commit" /\ Owns(w) /\ T(w) = t
        BY <3>1, CompletedOnly
      <3>3. next[t] = PlanLength
        BY <3>2 DEF WInv, ControlInv, Controlled, PlanInv, IndexCurrent, Indexed, Closing
      <3>4. \A k \in Key : effects[t][k] = 1
        <4>1. \A k \in Key : k < PlanLength
          BY PlanAssumption, QueueConstants DEF QueueAssumption
        <4> QED
          BY <3>3, <4>1 DEF PlanInv, CheckpointBacked
      <3>5. BusyOf[t] = {}
        <4>1. \A k \in Key : ~Live(t, k)
          BY <1>10, <3>4
        <4> QED
          BY <1>0, <4>1 DEF BusyOf
      <3>6. FateOf[t] = "open" /\ FateOf' = [FateOf EXCEPT ![t] = "completed"]
        <4>1. Fate(t) = "open"
          BY <1>6 DEF Fate, TERMINAL, Missing, Status
        <4>2. Fate(t)' = "completed" /\ \A r \in Task \ {t} : Fate(r)' = Fate(r)
          BY <1>6, <2>3 DEF Fate, Missing
        <4> QED
          BY <4>1, <4>2 DEF FateOf
      <3>7. Life!Complete(t)
        BY <1>2, <3>4, <3>5, <3>6, PlanAssumption
        DEF Life!Complete, Life!Action, BusyOf, FateOf
      <3> QED
        BY <3>7 DEF Life!LNext
    <2> QED
      BY <2>1, <2>2, <2>3
  <1>7. ASSUME NEW t \in Task, ClientStep(t) PROVE [Life!LNext]_(Life!lvars)
    <2>1. ASSUME Cancel(t) PROVE [Life!LNext]_(Life!lvars)
      <3>1. status[t] \in Status \ TERMINAL
        BY <2>1 DEF Cancel, Queued, RowInv, RowsKnown
      <3>2. status' = status \/ status' = [status EXCEPT ![t] = "cancelled"]
        BY <2>1 DEF Cancel
      <3> QED
        BY <1>3, <1>6, <3>1, <3>2
    <2> QED
      BY <1>3, <1>4, <1>7, <2>1 DEF ClientStep, Submit, CreateTask, Retry
  <1>8. CASE RecoverExpired
    <2>1. PICK over : over = {t \in Task : Expired(t) /\ cancel[t] /\ status[t] \notin TERMINAL}
      OBVIOUS
    <2>2. status' = [t \in Task |-> IF t \in over THEN "cancelled" ELSE status[t]]
      BY <1>8, <2>1 DEF RecoverExpired
    <2>3. \A t \in over : status[t] \in Status \ TERMINAL
      BY <2>1 DEF Expired, Leased, RowInv, RowsKnown
    <2>4. \A t \in Task \ over : Fate(t)' = Fate(t)
      BY <2>2 DEF Fate
    <2>5. over \in SUBSET Task /\ "cancelled" \in TERMINAL \ {"completed"}
      BY <2>1
    <2> QED
      BY <1>5, <2>2, <2>3, <2>4, <2>5
  <1>9. ASSUME NEW w \in Worker, NEW t \in Task, WorkerStep(w, t)
        PROVE  [Life!LNext]_(Life!lvars)
    <2>1. ASSUME NEW blocked \in BOOLEAN, NEW retry \in NoRetry..MaxDelay,
                 Release(w, t, blocked, retry)
          PROVE  [Life!LNext]_(Life!lvars)
      <3>1. \/ status' = status
            \/ status[t] \notin TERMINAL /\ status' = [status EXCEPT ![t] = "cancelled"]
        BY <2>1 DEF Release
      <3>2. status[t] # Missing
        BY <2>1 DEF Release, Queued, RowInv, RowsKnown
      <3> QED
        BY <1>3, <1>6, <3>1, <3>2
    <2>2. ASSUME NEW target \in Status, Transition(w, t, target)
          PROVE  [Life!LNext]_(Life!lvars)
      <3>1. status[t] \in Status \ TERMINAL /\ status' = [status EXCEPT ![t] = target]
        BY <2>2 DEF Transition
      <3> QED
        BY <1>6, <3>1
    <2> QED
      BY <1>3, <1>9, <2>1, <2>2 DEF WorkerStep, Claim, Heartbeat, Advance, Defer
  <1> QED
    BY <1>1, <1>3, <1>7, <1>8, <1>9 DEF QNext, Drop, Tick, tqvars

LEMMA LifeStep == FullInv /\ FullInv' /\ [Next]_vars => [Life!LNext]_(Life!lvars)
  <1> SUFFICES ASSUME FullInv, FullInv', [Next]_vars PROVE [Life!LNext]_(Life!lvars)
    OBVIOUS
  <1>0. JTypeOK /\ JTypeOK'
    BY DEF FullInv
  <1>1. ASSUME Life!GiveUp PROVE [Life!LNext]_(Life!lvars)
    BY <1>1 DEF Life!LNext
  <1>2. ASSUME status' = status,
               \/ \E t \in Task, k \in Key : Prepare(t, k) \/ Reconcile(t, k) \/ Tamper(t, k)
               \/ \E w \in Worker : Spawn(w) \/ Timeout(w) \/ FinishStep(w)
                                    \/ MarkUncertain(w) \/ Abandon(w) \/ Kill(w)
               \/ \E th \in threads : HandlerFail(th)
               \/ UNCHANGED jvars
        PROVE  [Life!LNext]_(Life!lvars)
    BY <1>0, <1>1, <1>2, QuietJournal, ShrinkRefines
  <1>3. ASSUME UNCHANGED jvars PROVE [Life!LNext]_(Life!lvars)
    <2>1. effects' = effects /\ \A t \in Task, k \in Key : Live(t, k)' <=> Live(t, k)
      BY <1>3 DEF jvars, Live, Running, Starting
    <2> QED
      BY <1>0, <2>1, FateRefines
  <1>4. ASSUME NEW w \in Worker, WorkerNext(w) PROVE [Life!LNext]_(Life!lvars)
    <2>1. CASE Poll(w)
      <3>1. UNCHANGED jvars \/ ExpireSteps({t \in Task : Expired(t)})
        BY <2>1 DEF Poll, NoData
      <3>2. effects' = effects /\ \A t \in Task, k \in Key : Live(t, k)' <=> Live(t, k)
        BY <3>1 DEF ExpireSteps, jvars, Live, Running, Starting
      <3> QED
        BY <1>0, <3>2, FateRefines
    <2>2. CASE StartStep(w)
      <3>1. status' = status
        BY <2>2 DEF StartStep, tqvars
      <3>2. ClaimStep(w, T(w), K(w)) \/ UNCHANGED jvars
        BY <2>2 DEF StartStep
      <3>3. ASSUME NEW t \in Task, NEW k \in Key, Life!Begin(t, k) PROVE Life!LNext
        <4>1. Life!Action = Key
          BY PlanAssumption DEF Life!Action
        <4> QED
          BY <3>3, <4>1 DEF Life!LNext
      <3> QED
        BY <1>0, <1>3, <2>2, <3>1, <3>2, <3>3, ClaimRefines
    <2>3. CASE PrepareStep(w)
      <3>1. T(w) \in Task /\ K(w) \in Key
        BY <2>3, ActsOnKey DEF FullInv, QInv, PrepareStep, At, Acting
      <3>2. Prepare(T(w), K(w)) \/ UNCHANGED jvars
        BY <2>3 DEF PrepareStep
      <3>3. status' = status
        BY <2>3 DEF PrepareStep, tqvars
      <3> QED
        BY <1>2, <3>1, <3>2, <3>3
    <2>4. CASE SpawnHandler(w) \/ Await(w) \/ Finish(w) \/ Mark(w) \/ Lost(w)
      <3>1. status' = status
        BY <2>4 DEF SpawnHandler, Await, Finish, Mark, Lost, tqvars
      <3>2. Spawn(w) \/ Timeout(w) \/ FinishStep(w) \/ MarkUncertain(w) \/ Abandon(w)
            \/ UNCHANGED jvars
        BY <2>4 DEF SpawnHandler, Await, Finish, Mark, Lost
      <3> QED
        BY <1>2, <3>1, <3>2
    <2> QED
      BY <1>3, <1>4, <2>1, <2>2, <2>3, <2>4
      DEF WorkerNext, ClaimTask, NothingDue, Check, Begin, Inspect, MakeHost, Resume, Loop,
          Exec, Lookup, RefuseStep, Checkpoint, BackToRunning, AdvancePlan, ToolFail,
          BeginVerify, VerifyAcceptance, Commit, Reject, Fail, FailTerminal, ReleaseTask,
          End, NoData
  <1>5. ASSUME NEW w \in Worker, Crash(w) PROVE [Life!LNext]_(Life!lvars)
    <2>1. status' = status /\ Kill(w)
      BY <1>5 DEF Crash, Drop, tqvars
    <2> QED
      BY <1>2, <2>1
  <1>6. CASE Handler
    <2>1. PICK th \in threads : HandlerEffect(th) \/ HandlerFail(th)
      BY <1>6 DEF Handler
    <2>2. status' = status
      BY <1>6 DEF Handler, tqvars
    <2>3. CASE HandlerFail(th)
      BY <1>2, <2>2, <2>3
    <2>4. CASE HandlerEffect(th)
      <3>1. PICK t \in Task : Life!Act(t)
        BY <1>0, <2>2, <2>4, EffectRefines
      <3> QED
        BY <3>1 DEF Life!LNext
    <2> QED
      BY <2>1, <2>3, <2>4
  <1>7. ASSUME NEW t \in Task, Operator(t) PROVE [Life!LNext]_(Life!lvars)
    <2>1. \/ UNCHANGED jvars
          \/ /\ status' = status
             /\ \E k \in Key : Reconcile(t, k) \/ Tamper(t, k)
      BY <1>7 DEF Operator, tqvars
    <2> QED
      BY <1>2, <1>3, <2>1
  <1> QED
    BY <1>3, <1>4, <1>5, <1>6, <1>7
    DEF Next, Renew, HeartbeatGivesUp, Start, RequestStop, Clock, vars

LEMMA LifeInit == Init => Life!LInit
  <1> SUFFICES ASSUME Init PROVE Life!LInit
    OBVIOUS
  <1>1. \A t \in Task : Executing(t) = {} /\ Fate(t) = "missing"
    BY DEF Init, QInit, JInit, Executing, InStage, Fate, Missing, TERMINAL
  <1> QED
    BY <1>1, PlanAssumption DEF Init, JInit, Life!LInit, Life!Action

\* The workers implement one life of every task (ImplementsTaskLife): actions in the
\* order of the plan, one at a time, once each, and none begun after the end.
THEOREM WorkersImplementLife == Spec => ImplementsTaskLife
  BY LifeInit, LifeStep, FullInvariant, PTL DEF Spec, ImplementsTaskLife, Life!LSpec
=============================================================================
