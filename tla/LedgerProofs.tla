---------------------------- MODULE LedgerProofs ----------------------------
(***************************************************************************)
(* What is proved of the tables of the ledger, whatever the rest of the    *)
(* system does: of TaskQueue for any set of tasks and workers and any      *)
(* bounds, its types, its safety properties and that it implements         *)
(* FencedLease; of StepJournal for any tasks, keys, processes and number   *)
(* of attempts, that an effect happens once and is recorded truthfully.    *)
(***************************************************************************)
EXTENDS TaskQueue, StepJournal, TLAPS

-----------------------------------------------------------------------------
(* The transition table.                                                   *)

\* ledger.TRANSITIONS leads from statuses to statuses, and nowhere from a
\* terminal one; every other status may be cancelled, so _cancel_task, called
\* by release, recover_expired and cancel, never raises and never rolls back.
LEMMA Table ==
    /\ \A s \in Status : TRANSITIONS[s] \subseteq Status
    /\ \A s \in TERMINAL : s \in Status /\ TRANSITIONS[s] = {}
    /\ \A s \in Status \ TERMINAL : "cancelled" \in TRANSITIONS[s]
    /\ "cancelled" \in TERMINAL /\ "completed" \in TERMINAL
    /\ "created" \in Status \ TERMINAL
    /\ Missing \notin Status
  BY DEF Status, TERMINAL, TRANSITIONS, Missing

-----------------------------------------------------------------------------
(* Types.                                                                  *)

LEMMA TypeInit == QInit => TypeOK
  BY QueueConstants DEF QInit, TypeOK, StatusOK, QueueAssumption

LEMMA TypeStep == TypeOK /\ [QNext]_tqvars => TypeOK'
  <1> SUFFICES ASSUME TypeOK, [QNext]_tqvars PROVE TypeOK'
    OBVIOUS
  <1> USE QueueConstants DEF QueueAssumption
  <1>1. ASSUME NEW t \in Task, Submit(t) PROVE TypeOK'
    BY <1>1, Table DEF Submit, TypeOK, StatusOK
  <1>2. ASSUME NEW t \in Task, CreateTask(t) PROVE TypeOK'
    BY <1>2, Table DEF CreateTask, qvars, TypeOK, StatusOK
  <1>3. ASSUME NEW t \in Task, Cancel(t) PROVE TypeOK'
    BY <1>3, Table DEF Cancel, TypeOK, StatusOK
  <1>4. ASSUME NEW t \in Task, NEW delay \in 1..MaxDelay, Retry(t, delay) PROVE TypeOK'
    BY <1>4 DEF Retry, TypeOK, StatusOK
  <1>5. CASE RecoverExpired
    BY <1>5, Table DEF RecoverExpired, Later, TypeOK, StatusOK
  <1>6. ASSUME NEW w \in Worker, NEW t \in Task, Claim(w, t) PROVE TypeOK'
    BY <1>6 DEF Claim, TypeOK, StatusOK
  <1>7. ASSUME NEW w \in Worker, NEW t \in Task, Heartbeat(w, t) PROVE TypeOK'
    BY <1>7 DEF Heartbeat, RecordWrite, AssertLease, Names, Queued, TypeOK, StatusOK
  <1>8. ASSUME NEW w \in Worker, NEW t \in Task, NEW index \in 0..PlanLength - 1,
               Advance(w, t, index)
        PROVE TypeOK'
    BY <1>8 DEF Advance, RecordWrite, AssertLease, Names, Queued, TypeOK, StatusOK
  <1>9. ASSUME NEW w \in Worker, NEW t \in Task, NEW blocked \in BOOLEAN,
               NEW retry \in NoRetry..MaxDelay, Release(w, t, blocked, retry)
        PROVE TypeOK'
    BY <1>9, Table DEF Release, RecordWrite, AssertLease, Names, Queued, NoRetry,
                       TypeOK, StatusOK
  <1>10. ASSUME NEW w \in Worker, NEW t \in Task, NEW target \in Status,
                Transition(w, t, target)
         PROVE TypeOK'
    BY <1>10 DEF Transition, RecordWrite, AssertLease, Names, Queued, TypeOK, StatusOK
  <1>11. ASSUME NEW w \in Worker, NEW t \in Task, NEW delay \in 0..MaxDelay,
                Defer(w, t, delay)
         PROVE TypeOK'
    BY <1>11 DEF Defer, RecordWrite, AssertLease, Names, Queued, TypeOK, StatusOK
  <1>12. ASSUME NEW w \in Worker, Drop(w) PROVE TypeOK'
    BY <1>12 DEF Drop, TypeOK, StatusOK
  <1>13. CASE Tick
    BY <1>13 DEF Tick, TypeOK, StatusOK
  <1>14. CASE UNCHANGED tqvars
    BY <1>14 DEF tqvars, qvars, TypeOK, StatusOK
  <1> QED
    BY <1>1, <1>2, <1>3, <1>4, <1>5, <1>6, <1>7, <1>8, <1>9, <1>10, <1>11, <1>12,
       <1>13, <1>14 DEF QNext, ClientStep, WorkerStep

\* Type correctness of the queue.
THEOREM TypeCorrect == QSpec => []TypeOK
  BY TypeInit, TypeStep, PTL DEF QSpec

-----------------------------------------------------------------------------
(* The safety invariants.  They are inductive together with the fact that  *)
(* a queue row has a task row, which submit writes in one transaction.     *)

RowsKnown == \A t \in Task : status[t] = Missing => qstate[t] = "absent"

\* What relates a queue row to its task row and its cancellation.
RowInv ==
    /\ RowsKnown
    /\ QueueStatusCoherent
    /\ CancelNotStranded
    /\ CancelledNeverCompletes

QInv == TypeOK /\ RowInv /\ TokensFence

LEMMA RowInit == QInit => RowInv
  BY Table DEF QInit, RowInv, RowsKnown, QueueStatusCoherent, CancelNotStranded,
               CancelledNeverCompletes

LEMMA RowStep == TypeOK /\ RowInv /\ [QNext]_tqvars => RowInv'
  <1> SUFFICES ASSUME TypeOK, RowInv, [QNext]_tqvars PROVE RowInv'
    OBVIOUS
  <1> USE Table DEF TypeOK, StatusOK, RowInv, RowsKnown, QueueStatusCoherent,
                    CancelNotStranded, CancelledNeverCompletes, Active
  <1>1. ASSUME NEW t \in Task, Submit(t) PROVE RowInv'
    BY <1>1 DEF Submit
  <1>2. ASSUME NEW t \in Task, CreateTask(t) PROVE RowInv'
    BY <1>2 DEF CreateTask, qvars
  <1>3. ASSUME NEW t \in Task, Cancel(t) PROVE RowInv'
    BY <1>3 DEF Cancel, Queued, Leased
  <1>4. ASSUME NEW t \in Task, NEW delay \in 1..MaxDelay, Retry(t, delay) PROVE RowInv'
    BY <1>4 DEF Retry, Queued
  <1>5. CASE RecoverExpired
    BY <1>5 DEF RecoverExpired, Expired, Leased
  <1>6. ASSUME NEW w \in Worker, NEW t \in Task, Claim(w, t) PROVE RowInv'
    BY <1>6 DEF Claim
  <1>7. ASSUME NEW w \in Worker, NEW t \in Task, Heartbeat(w, t) PROVE RowInv'
    BY <1>7 DEF Heartbeat
  <1>8. ASSUME NEW w \in Worker, NEW t \in Task, NEW index \in 0..PlanLength - 1,
               Advance(w, t, index)
        PROVE RowInv'
    BY <1>8 DEF Advance
  <1>9. ASSUME NEW w \in Worker, NEW t \in Task, NEW blocked \in BOOLEAN,
               NEW retry \in NoRetry..MaxDelay, Release(w, t, blocked, retry)
        PROVE RowInv'
    BY <1>9 DEF Release, Queued
  <1>10. ASSUME NEW w \in Worker, NEW t \in Task, NEW target \in Status,
                Transition(w, t, target)
         PROVE RowInv'
    BY <1>10 DEF Transition, AssertLease, Names, Queued, Leased
  <1>11. ASSUME NEW w \in Worker, NEW t \in Task, NEW delay \in 0..MaxDelay,
                Defer(w, t, delay)
         PROVE RowInv'
    BY <1>11 DEF Defer
  <1>12. ASSUME NEW w \in Worker, Drop(w) PROVE RowInv'
    BY <1>12 DEF Drop
  <1>13. CASE Tick
    BY <1>13 DEF Tick
  <1>14. CASE UNCHANGED tqvars
    BY <1>14 DEF tqvars, qvars
  <1> QED
    BY <1>1, <1>2, <1>3, <1>4, <1>5, <1>6, <1>7, <1>8, <1>9, <1>10, <1>11, <1>12,
       <1>13, <1>14 DEF QNext, ClientStep, WorkerStep

\* Only claim and the end of a run touch what the tokens are compared with.
LEMMA TokenFrame == TokensFence /\ UNCHANGED <<gen, owner, held>> => TokensFence'
  BY DEF TokensFence

LEMMA TokenStep == TypeOK /\ TokensFence /\ [QNext]_tqvars => TokensFence'
  <1> SUFFICES ASSUME TypeOK, TokensFence, [QNext]_tqvars PROVE TokensFence'
    OBVIOUS
  <1>1. ASSUME NEW w \in Worker, NEW t \in Task, Claim(w, t) PROVE TokensFence'
    \* The new generation is larger than that of every Lease object.
    <2>1. \A v \in Worker : held[v] # NoLease /\ held[v].task = t
                              => held[v].gen < gen[t] + 1
      BY DEF TypeOK, TokensFence
    <2> QED
      BY <1>1, <2>1, QueueConstants
      DEF Claim, TypeOK, TokensFence, QueueAssumption
  <1>2. ASSUME NEW w \in Worker, Drop(w) PROVE TokensFence'
    BY <1>2 DEF Drop, TypeOK, TokensFence
  <1>3. ASSUME UNCHANGED <<gen, owner, held>> PROVE TokensFence'
    BY <1>3, TokenFrame
  <1> QED
    BY <1>1, <1>2, <1>3 DEF QNext, ClientStep, WorkerStep, Submit, CreateTask, Cancel,
       Retry, RecoverExpired, Heartbeat, Advance, Release, Transition, Defer, Tick,
       tqvars, qvars

THEOREM QueueInvariant == QSpec => []QInv
  <1>1. QInit => QInv
    BY TypeInit, RowInit DEF QInv, QInit, TokensFence
  <1>2. QInv /\ [QNext]_tqvars => QInv'
    BY TypeStep, RowStep, TokenStep DEF QInv
  <1> QED
    BY <1>1, <1>2, PTL DEF QSpec

\* The row and its task agree (QueueStatusCoherent).
THEOREM Coherence == QSpec => []QueueStatusCoherent
  BY QueueInvariant, PTL DEF QInv, RowInv

\* No accepted cancellation is parked (CancelNotStranded).
THEOREM CancellationKept == QSpec => []CancelNotStranded
  BY QueueInvariant, PTL DEF QInv, RowInv

\* A task whose cancellation was accepted is never completed.
THEOREM CancellationHonoured == QSpec => []CancelledNeverCompletes
  BY QueueInvariant, PTL DEF QInv, RowInv

\* Lease objects are fencing tokens (TokensFence).
THEOREM Fencing == QSpec => []TokensFence
  BY QueueInvariant, PTL DEF QInv

-----------------------------------------------------------------------------
(* What a step may never do.                                               *)

\* assert_lease rejects r's lease as w holds it, in the values of a later state.
Rejected(w, r) ==
    /\ qstate[r] # "absent"
    /\ ~(qstate[r] = "leased" /\ owner[r] = w /\ gen[r] = held[w].gen /\ lease[r] > 0)

LEMMA RejectedStep ==
    ASSUME TypeOK, QNext, NEW w \in Worker, NEW r \in Task,
           held[w] # NoLease, held'[w] = held[w], Rejected(w, r)
    PROVE  Rejected(w, r)'
  <1> USE DEF Rejected
  <1>1. ASSUME NEW t \in Task, ClientStep(t) PROVE Rejected(w, r)'
    BY <1>1 DEF ClientStep, Submit, CreateTask, Cancel, Retry, Queued, Leased, qvars, TypeOK
  <1>2. CASE RecoverExpired
    BY <1>2 DEF RecoverExpired, Expired, Leased, TypeOK
  <1>3. ASSUME NEW v \in Worker, NEW t \in Task, Claim(v, t) PROVE Rejected(w, r)'
    \* w already holds a Lease object, so the claim is another worker's.
    BY <1>3 DEF Claim, TypeOK
  <1>4. ASSUME NEW v \in Worker, NEW t \in Task, Heartbeat(v, t) PROVE Rejected(w, r)'
    \* A heartbeat extends only a lease that has not run out.
    <2>1. lease[t] > 0
      BY <1>4 DEF Heartbeat, AssertLease
    <2> QED
      BY <1>4, <2>1 DEF Heartbeat, TypeOK
  <1>5. ASSUME NEW v \in Worker, NEW t \in Task, NEW blocked \in BOOLEAN,
               NEW retry \in NoRetry..MaxDelay, Release(v, t, blocked, retry)
        PROVE Rejected(w, r)'
    BY <1>5 DEF Release, Queued, TypeOK
  <1>6. CASE Tick
    BY <1>6 DEF Tick, TypeOK
  <1>7. ASSUME UNCHANGED <<qstate, owner, gen, lease>> PROVE Rejected(w, r)'
    BY <1>7
  <1> QED
    BY <1>1, <1>2, <1>3, <1>4, <1>5, <1>6, <1>7
    DEF QNext, WorkerStep, Advance, Transition, Defer, Drop

LEMMA StaleIsRejected ==
    TypeOK => \A w \in Worker :
                Stale(w) <=> held[w] # NoLease /\ Rejected(w, held[w].task)
  BY DEF TypeOK, Stale, Rejected, AssertLease, Names, Queued, Leased

\* A Lease object once rejected is rejected for ever (StaleForever): a
\* heartbeat renews only a live lease, and claim names a new owner.
THEOREM StaleTokensStayStale == QSpec => StaleForever
  <1>1. ASSUME TypeOK, TypeOK', QNext, NEW w \in Worker, Stale(w), held'[w] = held[w]
        PROVE Stale(w)'
    <2>1. held[w] # NoLease /\ held[w].task \in Task /\ Rejected(w, held[w].task)
      BY <1>1, StaleIsRejected DEF TypeOK
    <2>2. PICK r \in Task : r = held[w].task
      BY <2>1
    <2>3. Rejected(w, r)'
      BY <1>1, <2>1, <2>2, RejectedStep
    <2> QED
      BY <1>1, <2>1, <2>2, <2>3 DEF Stale, Rejected, AssertLease, Names, Queued, Leased
  <1>2. TypeOK /\ TypeOK' /\ [QNext]_tqvars
          => [\A w \in Worker : Stale(w) /\ held'[w] = held[w] => Stale(w)']_tqvars
    BY <1>1
  <1> QED
    BY <1>2, TypeCorrect, PTL DEF QSpec, StaleForever

\* A terminal status is final (TerminalIsFinal).
THEOREM TerminalStays == QSpec => TerminalIsFinal
  <1>1. ASSUME TypeOK, QNext, NEW r \in Task, status[r] \in TERMINAL
        PROVE status'[r] = status[r]
    <2> USE <1>1, Table DEF TypeOK, StatusOK
    <2>1. ASSUME NEW t \in Task, ClientStep(t) PROVE status'[r] = status[r]
      BY <2>1 DEF ClientStep, Submit, CreateTask, Cancel, Retry
    <2>2. CASE RecoverExpired
      BY <2>2 DEF RecoverExpired
    <2>3. ASSUME NEW w \in Worker, NEW t \in Task, WorkerStep(w, t)
          PROVE status'[r] = status[r]
      BY <2>3 DEF WorkerStep, Claim, Heartbeat, Advance, Release, Transition, Defer
    <2> QED
      BY <2>1, <2>2, <2>3 DEF QNext, Drop, Tick
  <1>2. TypeOK /\ [QNext]_tqvars
          => [\A t \in Task : status[t] \in TERMINAL => status'[t] = status[t]]_tqvars
    BY <1>1
  <1> QED
    BY <1>2, TypeCorrect, PTL DEF QSpec, TerminalIsFinal

-----------------------------------------------------------------------------
(* TaskQueue implements FencedLease.                                       *)

HolderOf == [t \in Task |-> Holder(t)]
DataOf == [t \in Task |-> <<status[t], next[t]>>]

\* A worker whose lease assert_lease accepts is the holder.
LEMMA AcceptedHolds ==
    ASSUME TypeOK, NEW w \in Worker, NEW t \in Task, Queued(t), AssertLease(w, t)
    PROVE  Holder(t) # NoWorker /\ held[w].gen = gen[t] /\ Leased(t) /\ lease[t] > 0
  BY QueueConstants DEF QueueAssumption, TypeOK, AssertLease, Names, Holder

LEMMA InitRefines == QInit => Fenced!Init
  BY DEF QInit, Fenced!Init, Holder, Leased

\* What is left of an operation that is fenced and keeps the lease.
LEMMA WriteRefines ==
    ASSUME TypeOK, NEW w \in Worker, NEW t \in Task, Queued(t), AssertLease(w, t),
           RecordWrite(w, t), HolderOf' = HolderOf, gen' = gen,
           \A q \in Task \ {t} : DataOf'[q] = DataOf[q]
    PROVE  Fenced!Write(t)
  BY AcceptedHolds DEF Fenced!Write, Fenced!ChangeOnly, RecordWrite, HolderOf, DataOf, TypeOK

LEMMA NextRefines == QInv /\ QNext => [Fenced!Next]_(Fenced!vars)
  <1> SUFFICES ASSUME QInv, QNext PROVE [Fenced!Next]_(Fenced!vars)
    OBVIOUS
  <1> TypeOK
    BY DEF QInv
  <1> USE QueueConstants DEF QueueAssumption
  <1>0. ASSUME NEW t \in Task, Fenced!Write(t) PROVE Fenced!Next
    BY <1>0 DEF Fenced!Next
  <1>1. ASSUME NEW t \in Task, ClientStep(t) PROVE Fenced!Next
    <2>1. HolderOf' = HolderOf
      BY <1>1 DEF ClientStep, Submit, CreateTask, Cancel, Retry, Holder, HolderOf,
                  Leased, Queued, qvars, TypeOK, QInv, RowInv, RowsKnown
    <2>2. \A r \in Task : Holder(r) # NoWorker => DataOf'[r] = DataOf[r]
      BY <1>1 DEF ClientStep, Submit, CreateTask, Cancel, Retry, Holder, DataOf,
                  Leased, Queued, qvars, TypeOK, StatusOK, QInv, RowInv, RowsKnown
    <2>3. UNCHANGED <<gen, wrote>>
      BY <1>1 DEF ClientStep, Submit, CreateTask, Cancel, Retry, qvars
    <2>4. Fenced!Administer
      BY <2>1, <2>2, <2>3 DEF Fenced!Administer, HolderOf, DataOf
    <2> QED
      BY <2>4 DEF Fenced!Next
  <1>2. CASE RecoverExpired
    <2>1. HolderOf' = HolderOf
      BY <1>2 DEF RecoverExpired, Holder, HolderOf, Expired, Leased, TypeOK
    <2>2. \A r \in Task : Holder(r) # NoWorker => DataOf'[r] = DataOf[r]
      BY <1>2 DEF RecoverExpired, Holder, DataOf, Expired, Leased, TypeOK
    <2>3. Fenced!Administer
      BY <1>2, <2>1, <2>2 DEF Fenced!Administer, HolderOf, DataOf, RecoverExpired
    <2> QED
      BY <2>3 DEF Fenced!Next
  <1>3. ASSUME NEW w \in Worker, NEW t \in Task, Claim(w, t) PROVE Fenced!Next
    <2>1. Holder(t) = NoWorker
      BY <1>3 DEF Claim, Holder, Leased
    <2>2. Holder(t)' = w
      BY <1>3 DEF Claim, Holder, Leased, TypeOK
    <2>3. \A q \in Task \ {t} : Holder(q)' = Holder(q)
      BY <1>3 DEF Claim, Holder, Leased, TypeOK
    <2>4. HolderOf' = [HolderOf EXCEPT ![t] = w]
      BY <2>2, <2>3 DEF HolderOf
    <2>5. Fenced!Acquire(w, t)
      BY <1>3, <2>1, <2>4 DEF Fenced!Acquire, Claim, HolderOf
    <2> QED
      BY <2>5 DEF Fenced!Next
  <1>4. ASSUME NEW w \in Worker, NEW t \in Task, Heartbeat(w, t) PROVE Fenced!Next
    <2>1. HolderOf' = HolderOf
      BY <1>4, AcceptedHolds DEF Heartbeat, Holder, HolderOf, Leased, TypeOK
    <2> QED
      BY <1>4, <2>1, WriteRefines, <1>0 DEF Heartbeat, DataOf
  <1>5. ASSUME NEW w \in Worker, NEW t \in Task, NEW index \in 0..PlanLength - 1,
               Advance(w, t, index)
        PROVE Fenced!Next
    <2>1. HolderOf' = HolderOf
      BY <1>5 DEF Advance, Holder, HolderOf, Leased
    <2>2. \A q \in Task \ {t} : DataOf'[q] = DataOf[q]
      BY <1>5 DEF Advance, DataOf, TypeOK
    <2> QED
      BY <1>5, <2>1, <2>2, WriteRefines, <1>0 DEF Advance
  <1>6. ASSUME NEW w \in Worker, NEW t \in Task, NEW blocked \in BOOLEAN,
               NEW retry \in NoRetry..MaxDelay, Release(w, t, blocked, retry)
        PROVE Fenced!Next
    <2>1. Holder(t) # NoWorker /\ held[w].gen = gen[t]
      BY <1>6, AcceptedHolds DEF Release
    <2>2. HolderOf' = [HolderOf EXCEPT ![t] = NoWorker]
      BY <1>6 DEF Release, Holder, HolderOf, Leased, TypeOK
    <2>3. \A q \in Task \ {t} : DataOf'[q] = DataOf[q]
      BY <1>6 DEF Release, DataOf, TypeOK, StatusOK
    <2>4. wrote' = [wrote EXCEPT ![t] = gen[t]] /\ gen' = gen
      BY <1>6, <2>1 DEF Release, RecordWrite
    <2>5. Fenced!WriteAndYield(t)
      BY <2>1, <2>2, <2>3, <2>4 DEF Fenced!WriteAndYield, Fenced!ChangeOnly, HolderOf, DataOf
    <2> QED
      BY <2>5 DEF Fenced!Next
  <1>7. ASSUME NEW w \in Worker, NEW t \in Task, NEW target \in Status,
               Transition(w, t, target)
        PROVE Fenced!Next
    <2>1. HolderOf' = HolderOf /\ gen' = gen
      BY <1>7 DEF Transition, Holder, HolderOf, Leased
    <2>2. \A q \in Task \ {t} : DataOf'[q] = DataOf[q]
      BY <1>7 DEF Transition, DataOf, TypeOK, StatusOK
    <2>3. CASE Queued(t)
      BY <1>7, <2>1, <2>2, <2>3, WriteRefines, <1>0 DEF Transition
    <2>4. CASE ~Queued(t)
      \* A task without a queue row is nobody's: anyone may change its status.
      <3>1. wrote' = wrote /\ Holder(t) = NoWorker
        BY <1>7, <2>4 DEF Transition, RecordWrite, Queued, Holder, Leased
      <3>2. Fenced!Administer
        BY <2>1, <2>2, <3>1 DEF Fenced!Administer, HolderOf, DataOf
      <3> QED
        BY <3>2 DEF Fenced!Next
    <2> QED
      BY <2>3, <2>4
  <1>8. ASSUME NEW w \in Worker, NEW t \in Task, NEW delay \in 0..MaxDelay,
               Defer(w, t, delay)
        PROVE [Fenced!Next]_(Fenced!vars)
    <2>1. HolderOf' = HolderOf /\ gen' = gen /\ DataOf' = DataOf
      BY <1>8 DEF Defer, Holder, HolderOf, Leased, DataOf
    <2>2. CASE Queued(t)
      BY <1>8, <2>1, <2>2, WriteRefines, <1>0 DEF Defer
    <2>3. CASE ~Queued(t)
      BY <1>8, <2>1, <2>3 DEF Defer, RecordWrite, Fenced!vars, HolderOf, DataOf
    <2> QED
      BY <2>2, <2>3
  <1>9. ASSUME NEW w \in Worker, Drop(w) PROVE UNCHANGED Fenced!vars
    BY <1>9 DEF Drop, Fenced!vars, Holder, Leased
  <1>10. CASE Tick
    <2>1. \A r \in Task : Holder(r)' \in {Holder(r), NoWorker}
      BY <1>10 DEF Tick, Holder, Leased, TypeOK
    <2>2. Fenced!Lapse
      BY <1>10, <2>1 DEF Fenced!Lapse, Tick
    <2> QED
      BY <2>2 DEF Fenced!Next
  <1> QED
    BY <1>1, <1>2, <1>3, <1>4, <1>5, <1>6, <1>7, <1>8, <1>9, <1>10
    DEF QNext, WorkerStep

\* The queue implements fenced leases (ImplementsFencedLease): claim acquires,
\* every fenced operation writes in the present epoch, and clients, recovery
\* and time touch only what no live lease protects.
THEOREM QueueImplementsLease == QSpec => ImplementsFencedLease
  <1>1. QInv /\ [QNext]_tqvars => [Fenced!Next]_(Fenced!vars)
    <2>1. UNCHANGED tqvars => UNCHANGED Fenced!vars
      BY DEF tqvars, qvars, Fenced!vars, Holder, Leased
    <2> QED
      BY <2>1, NextRefines
  <1> QED
    BY <1>1, InitRefines, QueueInvariant, PTL DEF QSpec, ImplementsFencedLease, Fenced!Spec

-----------------------------------------------------------------------------
(* Types.                                                                  *)

LEMMA JTypeInit == JInit => JTypeOK
  BY JournalConstants DEF JInit, JTypeOK

LEMMA AnswerType ==
    ASSUME JTypeOK, NEW th, NEW stage \in {"ok", "failed"}, Answer(th, stage)
    PROVE  call' \in [Worker -> Call \cup {NoCall}]
  BY DEF JTypeOK, Answer, InStage, Call

LEMMA JTypeStep == JTypeOK /\ [JNext]_jvars => JTypeOK'
  <1> SUFFICES ASSUME JTypeOK, [JNext]_jvars PROVE JTypeOK'
    OBVIOUS
  <1> USE JournalConstants DEF JTypeOK
  <1>1. ASSUME NEW t \in Task, NEW k \in Key, Prepare(t, k) PROVE JTypeOK'
    BY <1>1 DEF Prepare
  <1>2. ASSUME NEW t \in Task, NEW k \in Key, NEW w \in Worker, ClaimStep(w, t, k)
        PROVE JTypeOK'
    <2>1. attempt[t][k] + 1 \in 1..MaxAttempt
      BY <1>2 DEF ClaimStep
    <2>2. call' \in [Worker -> Call \cup {NoCall}]
      BY <1>2, <2>1 DEF ClaimStep, Call
    <2> QED
      BY <1>2, <2>1, <2>2 DEF ClaimStep
  <1>3. ASSUME NEW t \in Task, NEW k \in Key, Reconcile(t, k) PROVE JTypeOK'
    BY <1>3 DEF Reconcile
  <1>4. ASSUME NEW t \in Task, NEW k \in Key, Tamper(t, k) PROVE JTypeOK'
    BY <1>4 DEF Tamper
  <1>5. ASSUME NEW w \in Worker, Spawn(w) PROVE JTypeOK'
    BY <1>5 DEF Spawn, InStage, Call, Thread
  <1>6. ASSUME NEW w \in Worker, Timeout(w) PROVE JTypeOK'
    BY <1>6 DEF Timeout, InStage, Call
  <1>7. ASSUME NEW w \in Worker, FinishStep(w) PROVE JTypeOK'
    BY <1>7 DEF FinishStep, InStage, Call
  <1>8. ASSUME NEW w \in Worker, MarkUncertain(w) PROVE JTypeOK'
    BY <1>8 DEF MarkUncertain, InStage, Call
  <1>9. ASSUME NEW w \in Worker, Abandon(w) \/ Kill(w) PROVE JTypeOK'
    BY <1>9 DEF Abandon, Kill
  <1>10. ASSUME NEW th \in threads, HandlerEffect(th) PROVE JTypeOK'
    BY <1>10, AnswerType DEF HandlerEffect, Thread
  <1>11. ASSUME NEW th \in threads, HandlerFail(th) PROVE JTypeOK'
    BY <1>11, AnswerType DEF HandlerFail
  <1>12. ASSUME NEW rows \in SUBSET Task, ExpireSteps(rows) PROVE JTypeOK'
    BY <1>12 DEF ExpireSteps
  <1>13. ASSUME NEW t \in Task, NEW k \in Key, MarkForeign(t, k) PROVE JTypeOK'
    BY <1>13 DEF MarkForeign
  <1>14. CASE UNCHANGED jvars
    BY <1>14 DEF jvars
  <1> QED
    BY <1>1, <1>2, <1>3, <1>4, <1>5, <1>6, <1>7, <1>8, <1>9, <1>10, <1>11, <1>12, <1>13,
       <1>14 DEF JNext

\* Type correctness of the journal.
THEOREM JTypeCorrect == JSpec => []JTypeOK
  BY JTypeInit, JTypeStep, PTL DEF JSpec

-----------------------------------------------------------------------------
(* The inductive invariant.  A step is live while a handler for it may     *)
(* still act: its thread has not, or its claimer has yet to start one.     *)

\* w has claimed step k of t and has not yet started the handler.
Starting(w, t, k) ==
    call[w] # NoCall /\ call[w].task = t /\ call[w].key = k /\ call[w].stage = "claimed"

Running(th, t, k) == th \in threads /\ th.task = t /\ th.key = k

\* The effect of a live step has not happened and its row says so.
Open(t, k) == effects[t][k] = 0 /\ step[t][k] \in {"started", "uncertain"}

LiveIsOpen ==
    \A t \in Task, k \in Key :
        /\ \A th \in Thread : Running(th, t, k) => Open(t, k)
        /\ \A w \in Worker : Starting(w, t, k) => Open(t, k)

\* A step is live at most once.
LiveOnce ==
    \A t \in Task, k \in Key :
        /\ \A th, u \in Thread : Running(th, t, k) /\ Running(u, t, k) => th = u
        /\ \A v, w \in Worker : Starting(v, t, k) /\ Starting(w, t, k) => v = w
        /\ \A w \in Worker, th \in Thread : ~(Starting(w, t, k) /\ Running(th, t, k))

\* w was told that its handler succeeded.
Told(w, t, k) ==
    call[w] # NoCall /\ call[w].task = t /\ call[w].key = k /\ call[w].stage = "ok"

\* Only an effect is answered with success.
OkMeansDone ==
    \A w \in Worker, t \in Task, k \in Key : Told(w, t, k) => effects[t][k] = 1

JInv == AtMostOnce /\ RecordIsTruthful /\ LiveIsOpen /\ LiveOnce /\ OkMeansDone

LEMMA JInvInit == JInit => JInv
  BY DEF JInit, JInv, AtMostOnce, RecordIsTruthful, LiveIsOpen, LiveOnce, OkMeansDone,
         Starting, Running, Told

\* An operation that makes nothing live and has no effect preserves JInv when
\* it moves a row only as the journal may: within the open states, before the
\* first claim, or to where the truth is if the step is not live.
MovesRow(t, k) ==
    \/ step'[t][k] = step[t][k]
    \/ step[t][k] \in {"started", "uncertain"} /\ step'[t][k] \in {"started", "uncertain"}
    \/ step[t][k] = "none" /\ step'[t][k] = "intent"
    \/ /\ \A th \in Thread : ~Running(th, t, k)
       /\ \A w \in Worker : ~Starting(w, t, k)
       /\ \/ step'[t][k] = "succeeded" /\ effects[t][k] = 1
          \/ step'[t][k] = "intent" /\ effects[t][k] = 0

LEMMA Frame ==
    ASSUME JTypeOK, JInv, effects' = effects, threads' \subseteq threads,
           \A w \in Worker, t \in Task, k \in Key : Starting(w, t, k)' => Starting(w, t, k),
           \A w \in Worker, t \in Task, k \in Key : Told(w, t, k)' => Told(w, t, k),
           \A t \in Task, k \in Key : MovesRow(t, k)
    PROVE  JInv'
  <1>1. \A th \in Thread, t \in Task, k \in Key : Running(th, t, k)' => Running(th, t, k)
    BY DEF Running
  <1>2. AtMostOnce'
    BY DEF JInv, AtMostOnce
  <1>3. RecordIsTruthful'
    BY DEF JInv, RecordIsTruthful, MovesRow
  <1>4. LiveIsOpen'
    <2> SUFFICES ASSUME NEW t \in Task, NEW k \in Key,
                        \/ \E th \in Thread : Running(th, t, k)'
                        \/ \E w \in Worker : Starting(w, t, k)'
                 PROVE  Open(t, k)'
      BY DEF LiveIsOpen
    <2>1. \/ \E th \in Thread : Running(th, t, k)
          \/ \E w \in Worker : Starting(w, t, k)
      BY <1>1
    <2>2. Open(t, k)
      BY <2>1 DEF JInv, LiveIsOpen
    <2> QED
      BY <2>1, <2>2 DEF Open, MovesRow
  <1>5. LiveOnce'
    BY <1>1 DEF JInv, LiveOnce
  <1>6. OkMeansDone'
    BY DEF JInv, OkMeansDone
  <1> QED
    BY <1>2, <1>3, <1>4, <1>5, <1>6 DEF JInv

\* What the answer of th does to the calls.
LEMMA AnswerFrame ==
    ASSUME JTypeOK, NEW th \in Thread, NEW stage \in {"ok", "failed"}, Answer(th, stage),
           NEW w \in Worker, NEW t \in Task, NEW k \in Key
    PROVE  /\ Starting(w, t, k)' => Starting(w, t, k)
           /\ Told(w, t, k)' => \/ Told(w, t, k)
                                \/ stage = "ok" /\ t = th.task /\ k = th.key
  BY DEF JTypeOK, Answer, InStage, Starting, Told, Call

LEMMA JInvStep == JTypeOK /\ JInv /\ [JNext]_jvars => JInv'
  <1> SUFFICES ASSUME JTypeOK, JInv, [JNext]_jvars PROVE JInv'
    OBVIOUS
  <1>1. ASSUME NEW t \in Task, NEW k \in Key, Prepare(t, k) PROVE JInv'
    <2>1. \A s \in Task, j \in Key : MovesRow(s, j)
      BY <1>1 DEF Prepare, MovesRow, JTypeOK
    <2> QED
      BY <1>1, <2>1, Frame DEF Prepare, Starting, Told
  <1>2. ASSUME NEW t \in Task, NEW k \in Key, NEW w \in Worker, ClaimStep(w, t, k)
        PROVE JInv'
    \* An intent is not live and has had no effect: now w alone may act.
    <2>1. effects[t][k] = 0
      BY <1>2 DEF ClaimStep, JInv, RecordIsTruthful
    <2>2. /\ \A th \in Thread : ~Running(th, t, k)
          /\ \A v \in Worker : ~Starting(v, t, k)
      BY <1>2 DEF ClaimStep, JInv, LiveIsOpen, Open
    <2>3. \A v \in Worker, s \in Task, j \in Key :
            Starting(v, s, j)' => Starting(v, s, j) \/ (v = w /\ s = t /\ j = k)
      BY <1>2 DEF ClaimStep, Starting, JTypeOK
    <2>4. \A v \in Worker, s \in Task, j \in Key : Told(v, s, j)' => Told(v, s, j)
      BY <1>2 DEF ClaimStep, Told, JTypeOK
    <2>5. /\ step'[t][k] = "started"
          /\ \A s \in Task, j \in Key : s # t \/ j # k => step'[s][j] = step[s][j]
      BY <1>2 DEF ClaimStep, JTypeOK
    <2>6. /\ effects' = effects
          /\ \A th \in Thread, s \in Task, j \in Key : Running(th, s, j)' <=> Running(th, s, j)
      BY <1>2 DEF ClaimStep, Running
    <2>7. Open(t, k)' /\ \A s \in Task, j \in Key : Open(s, j) => Open(s, j)'
      BY <2>1, <2>5, <2>6 DEF Open
    <2>8. LiveIsOpen'
      BY <2>3, <2>6, <2>7 DEF JInv, LiveIsOpen
    <2>9. LiveOnce'
      BY <2>2, <2>3, <2>6 DEF JInv, LiveOnce
    <2>10. OkMeansDone'
      BY <2>4, <2>6 DEF JInv, OkMeansDone
    <2>11. AtMostOnce' /\ RecordIsTruthful'
      BY <2>5, <2>6 DEF JInv, AtMostOnce, RecordIsTruthful
    <2> QED
      BY <2>8, <2>9, <2>10, <2>11 DEF JInv
  <1>3. ASSUME NEW t \in Task, NEW k \in Key, Reconcile(t, k) PROVE JInv'
    \* Nothing acts on a quiescent step, so its effect is settled.
    <2>1. /\ \A th \in Thread : ~Running(th, t, k)
          /\ \A v \in Worker : ~Starting(v, t, k)
      BY <1>3 DEF Reconcile, Quiescent, Starting, Running
    <2>2. effects[t][k] = 0 \/ effects[t][k] = 1
      <3>1. effects[t][k] \in Nat /\ effects[t][k] <= 1
        BY DEF JTypeOK, JInv, AtMostOnce
      <3> QED
        BY <3>1
    <2>3. \A s \in Task, j \in Key : MovesRow(s, j)
      BY <1>3, <2>1, <2>2 DEF Reconcile, MovesRow, JTypeOK
    <2> QED
      BY <1>3, <2>3, Frame DEF Reconcile, Starting, Told
  <1>4. ASSUME NEW t \in Task, NEW k \in Key, Tamper(t, k) PROVE JInv'
    <2>1. \A s \in Task, j \in Key : MovesRow(s, j)
      BY <1>4 DEF Tamper, MovesRow
    <2> QED
      BY <1>4, <2>1, Frame DEF Tamper, Starting, Told
  <1>5. ASSUME NEW w \in Worker, Spawn(w) PROVE JInv'
    \* The call stops being live in favour of its thread.
    <2>1. PICK t \in Task, k \in Key : t = call[w].task /\ k = call[w].key
      BY <1>5 DEF Spawn, InStage, JTypeOK, Call
    <2>2. Starting(w, t, k)
      BY <1>5, <2>1 DEF Spawn, InStage, Starting
    <2>3. Open(t, k) /\ \A th \in Thread : ~Running(th, t, k)
      BY <2>2 DEF JInv, LiveIsOpen, LiveOnce
    <2>4. \A v \in Worker, s \in Task, j \in Key :
            Starting(v, s, j)' => Starting(v, s, j) /\ v # w
      BY <1>5 DEF Spawn, InStage, Starting, JTypeOK, Call
    <2>5. \A v \in Worker : ~Starting(v, t, k)'
      BY <2>2, <2>4 DEF JInv, LiveOnce
    <2>6. \A v \in Worker, s \in Task, j \in Key : Told(v, s, j)' => Told(v, s, j)
      BY <1>5 DEF Spawn, InStage, Told, JTypeOK, Call
    <2>7. PICK new \in Thread : new.task = t /\ new.key = k /\ threads' = threads \cup {new}
      BY <1>5, <2>1 DEF Spawn, InStage, JTypeOK, Call, Thread
    <2>8. \A th \in Thread, s \in Task, j \in Key :
            Running(th, s, j)' => Running(th, s, j) \/ (th = new /\ s = t /\ j = k)
      BY <2>7 DEF Running
    <2>9. UNCHANGED <<step, effects>>
      BY <1>5 DEF Spawn
    <2>10. \A s \in Task, j \in Key : Open(s, j)' <=> Open(s, j)
      BY <2>9 DEF Open
    <2>11. LiveIsOpen'
      BY <2>3, <2>4, <2>8, <2>10 DEF JInv, LiveIsOpen
    <2>12. LiveOnce'
      BY <2>3, <2>4, <2>5, <2>8 DEF JInv, LiveOnce
    <2>13. OkMeansDone'
      BY <2>6, <2>9 DEF JInv, OkMeansDone
    <2>14. AtMostOnce' /\ RecordIsTruthful'
      BY <2>9 DEF JInv, AtMostOnce, RecordIsTruthful
    <2> QED
      BY <2>11, <2>12, <2>13, <2>14 DEF JInv
  <1>6. ASSUME NEW w \in Worker, Timeout(w) \/ Abandon(w) \/ Kill(w) PROVE JInv'
    <2>1. /\ \A v \in Worker, s \in Task, j \in Key : Starting(v, s, j)' => Starting(v, s, j)
          /\ \A v \in Worker, s \in Task, j \in Key : Told(v, s, j)' => Told(v, s, j)
      BY <1>6 DEF Timeout, Abandon, Kill, InStage, Starting, Told, JTypeOK, Call
    <2>2. UNCHANGED <<step, effects>> /\ threads' \subseteq threads
      BY <1>6 DEF Timeout, Abandon, Kill
    <2>3. \A s \in Task, j \in Key : MovesRow(s, j)
      BY <2>2 DEF MovesRow
    <2> QED
      BY <2>1, <2>2, <2>3, Frame
  <1>7. ASSUME NEW w \in Worker, FinishStep(w) PROVE JInv'
    <2>1. PICK t \in Task, k \in Key : t = call[w].task /\ k = call[w].key
      BY <1>7 DEF FinishStep, InStage, JTypeOK, Call
    <2>2. effects[t][k] = 1
      BY <1>7, <2>1 DEF FinishStep, InStage, Told, JInv, OkMeansDone
    <2>3. /\ \A th \in Thread : ~Running(th, t, k)
          /\ \A v \in Worker : ~Starting(v, t, k)
      BY <2>2 DEF JInv, LiveIsOpen, Open
    <2>4. \A s \in Task, j \in Key : MovesRow(s, j)
      BY <1>7, <2>1, <2>2, <2>3 DEF FinishStep, MovesRow, JTypeOK
    <2>5. /\ \A v \in Worker, s \in Task, j \in Key : Starting(v, s, j)' => Starting(v, s, j)
          /\ \A v \in Worker, s \in Task, j \in Key : Told(v, s, j)' => Told(v, s, j)
      BY <1>7 DEF FinishStep, Starting, Told, JTypeOK
    <2> QED
      BY <1>7, <2>4, <2>5, Frame DEF FinishStep
  <1>8. ASSUME NEW w \in Worker, MarkUncertain(w) PROVE JInv'
    <2>1. \A s \in Task, j \in Key : MovesRow(s, j)
      BY <1>8 DEF MarkUncertain, MovesRow, InStage, JTypeOK, Call
    <2>2. /\ \A v \in Worker, s \in Task, j \in Key : Starting(v, s, j)' => Starting(v, s, j)
          /\ \A v \in Worker, s \in Task, j \in Key : Told(v, s, j)' => Told(v, s, j)
      BY <1>8 DEF MarkUncertain, Starting, Told, JTypeOK
    <2> QED
      BY <1>8, <2>1, <2>2, Frame DEF MarkUncertain
  <1>9. ASSUME NEW th \in threads, HandlerEffect(th) PROVE JInv'
    <2>1. PICK t \in Task, k \in Key : t = th.task /\ k = th.key
      BY DEF JTypeOK, Thread
    <2>2. th \in Thread /\ Running(th, t, k)
      BY <2>1 DEF JTypeOK, Running
    <2>3. Open(t, k)
      BY <2>2 DEF JInv, LiveIsOpen
    <2>4. /\ effects'[t][k] = 1
          /\ \A s \in Task, j \in Key : s # t \/ j # k => effects'[s][j] = effects[s][j]
      BY <1>9, <2>1, <2>3 DEF HandlerEffect, Open, JTypeOK
    <2>5. threads' = threads \ {th} /\ step' = step
      BY <1>9 DEF HandlerEffect
    <2>6. PICK stage \in {"ok", "failed"} : Answer(th, stage)
      BY <1>9 DEF HandlerEffect
    <2>7. \A v \in Worker, s \in Task, j \in Key : Starting(v, s, j)' => Starting(v, s, j)
      BY <2>2, <2>6, AnswerFrame
    <2>8. \A v \in Worker, s \in Task, j \in Key :
            Told(v, s, j)' => Told(v, s, j) \/ (s = t /\ j = k)
      BY <2>1, <2>2, <2>6, AnswerFrame
    <2>9. \A u \in Thread, s \in Task, j \in Key :
            Running(u, s, j)' => Running(u, s, j) /\ u # th
      BY <2>5 DEF Running
    <2>10. /\ \A u \in Thread : ~Running(u, t, k)'
           /\ \A v \in Worker : ~Starting(v, t, k)'
      BY <2>2, <2>7, <2>9 DEF JInv, LiveOnce
    <2>11. \A s \in Task, j \in Key : s # t \/ j # k => (Open(s, j) => Open(s, j)')
      BY <2>4, <2>5 DEF Open
    <2>12. LiveIsOpen'
      BY <2>7, <2>9, <2>10, <2>11 DEF JInv, LiveIsOpen
    <2>13. LiveOnce'
      BY <2>7, <2>9 DEF JInv, LiveOnce
    <2>14. OkMeansDone'
      BY <2>4, <2>8 DEF JInv, OkMeansDone
    <2>15. AtMostOnce'
      BY <2>4 DEF JInv, AtMostOnce
    <2>16. RecordIsTruthful'
      BY <2>3, <2>4, <2>5 DEF JInv, RecordIsTruthful, Open
    <2> QED
      BY <2>12, <2>13, <2>14, <2>15, <2>16 DEF JInv
  <1>10. ASSUME NEW th \in threads, HandlerFail(th) PROVE JInv'
    <2>1. th \in Thread /\ "failed" \in {"ok", "failed"}
      BY DEF JTypeOK
    <2>2. threads' \subseteq threads /\ UNCHANGED <<step, effects>> /\ Answer(th, "failed")
      BY <1>10 DEF HandlerFail
    <2>3. /\ \A v \in Worker, s \in Task, j \in Key : Starting(v, s, j)' => Starting(v, s, j)
          /\ \A v \in Worker, s \in Task, j \in Key : Told(v, s, j)' => Told(v, s, j)
      BY <2>1, <2>2, AnswerFrame
    <2>4. \A s \in Task, j \in Key : MovesRow(s, j)
      BY <2>2 DEF MovesRow
    <2> QED
      BY <2>2, <2>3, <2>4, Frame
  <1>11. ASSUME NEW rows \in SUBSET Task, ExpireSteps(rows) PROVE JInv'
    <2>1. \A s \in Task, j \in Key : MovesRow(s, j)
      BY <1>11 DEF ExpireSteps, MovesRow
    <2> QED
      BY <1>11, <2>1, Frame DEF ExpireSteps, Starting, Told
  <1>12. ASSUME NEW t \in Task, NEW k \in Key, MarkForeign(t, k) PROVE JInv'
    <2>1. \A s \in Task, j \in Key : MovesRow(s, j)
      BY <1>12 DEF MarkForeign, MovesRow, JTypeOK
    <2> QED
      BY <1>12, <2>1, Frame DEF MarkForeign, Starting, Told
  <1>13. CASE UNCHANGED jvars
    <2>1. \A s \in Task, j \in Key : MovesRow(s, j)
      BY <1>13 DEF jvars, MovesRow
    <2> QED
      BY <1>13, <2>1, Frame DEF jvars, Starting, Told
  <1> QED
    BY <1>1, <1>2, <1>3, <1>4, <1>5, <1>6, <1>7, <1>8, <1>9, <1>10, <1>11, <1>12, <1>13
    DEF JNext

THEOREM JournalInvariant == JSpec => [](JTypeOK /\ JInv)
  BY JTypeInit, JTypeStep, JInvInit, JInvStep, PTL DEF JSpec

\* The effect of a step happens at most once (AtMostOnce).
THEOREM OnceOnly == JSpec => []AtMostOnce
  BY JournalInvariant, PTL DEF JInv

\* The journal says of a step what happened to it (RecordIsTruthful).
THEOREM Truthful == JSpec => []RecordIsTruthful
  BY JournalInvariant, PTL DEF JInv

-----------------------------------------------------------------------------
(* What a step may never do.                                               *)

\* An uncertain step is settled only while nothing executes it
\* (LateAnswerIgnored).
THEOREM LateAnswersIgnored == JSpec => LateAnswerIgnored
  <1>1. ASSUME JTypeOK, JNext, NEW t \in Task, NEW k \in Key,
               step[t][k] = "uncertain", step'[t][k] # "uncertain"
        PROVE  Quiescent(t, k)
    <2>1. ASSUME NEW s \in Task, NEW j \in Key, Reconcile(s, j) PROVE Quiescent(t, k)
      <3>1. s = t /\ j = k
        BY <1>1, <2>1 DEF Reconcile, JTypeOK
      <3> QED
        BY <2>1, <3>1 DEF Reconcile
    <2>2. ASSUME NEW s \in Task, NEW j \in Key, Prepare(s, j) PROVE FALSE
      BY <1>1, <2>2 DEF Prepare, JTypeOK
    <2>3. ASSUME NEW s \in Task, NEW j \in Key, NEW w \in Worker, ClaimStep(w, s, j)
          PROVE FALSE
      BY <1>1, <2>3 DEF ClaimStep, JTypeOK
    <2>4. ASSUME NEW w \in Worker, FinishStep(w) PROVE FALSE
      <3>1. PICK s \in Task, j \in Key : s = call[w].task /\ j = call[w].key
        BY <2>4, <1>1 DEF FinishStep, InStage, JTypeOK, Call
      <3> QED
        BY <1>1, <2>4, <3>1 DEF FinishStep, JTypeOK
    <2>5. ASSUME NEW w \in Worker, MarkUncertain(w) PROVE FALSE
      <3>1. PICK s \in Task, j \in Key : s = call[w].task /\ j = call[w].key
        BY <2>5, <1>1 DEF MarkUncertain, InStage, JTypeOK, Call
      <3> QED
        BY <1>1, <2>5, <3>1 DEF MarkUncertain, JTypeOK
    <2>6. ASSUME NEW rows \in SUBSET Task, ExpireSteps(rows) PROVE FALSE
      BY <1>1, <2>6 DEF ExpireSteps
    <2>7. ASSUME NEW s \in Task, NEW j \in Key, MarkForeign(s, j) PROVE FALSE
      BY <1>1, <2>7 DEF MarkForeign, JTypeOK
    <2>8. ASSUME step' = step PROVE FALSE
      BY <1>1, <2>8
    <2> QED
      BY <1>1, <2>1, <2>2, <2>3, <2>4, <2>5, <2>6, <2>7, <2>8
      DEF JNext, Tamper, Spawn, Timeout, Abandon, Kill, HandlerEffect, HandlerFail
  <1>2. JTypeOK /\ [JNext]_jvars
          => [\A t \in Task, k \in Key :
                step[t][k] = "uncertain" /\ step'[t][k] # "uncertain" => Quiescent(t, k)]_jvars
    BY <1>1
  <1> QED
    BY <1>2, JTypeCorrect, PTL DEF JSpec, LateAnswerIgnored
=============================================================================
