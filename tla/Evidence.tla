------------------------------- MODULE Evidence -------------------------------
(***************************************************************************)
(* What a task is judged by: its acceptance contract, the artifacts in the *)
(* content-addressed store (dante/artifacts.py), the final fields, the     *)
(* attestations of callers, the outcomes of its steps, and the judgement   *)
(* (dante/acceptance.py, TaskLedger._acceptance_result) that              *)
(* AgentHostFoundation.complete makes twice.                               *)
(*                                                                         *)
(* The store is a directory: the ledger's lock does not cover it, several  *)
(* processes publish in it, a publication takes several steps, any process *)
(* may die between two of them, and files may be damaged from outside.     *)
(*                                                                         *)
(* A step of the journal is reduced to what the judgement sees of it; its  *)
(* life is in StepJournal.tla, that of leases in TaskQueue.tla.            *)
(***************************************************************************)
EXTENDS TaskStates, FiniteSets

CONSTANTS
    Content,        \* contents of artifacts; a blob's path is its digest
    Name,           \* the logical names of artifacts
    Field,          \* the names of final fields
    Says,           \* Says[c]: the fields content c, read as JSON, maps to a string
    Texts,          \* Texts[c]: those of them whose string is not blank
    Tool,           \* tools; one step of each is enough here
    Contracts,      \* the AcceptanceContracts that callers bind
    Observations,   \* the ObservedAcceptances that callers attest
    None

VARIABLES
    blob,           \* the file of each content: none, good, or bad
    rows,           \* rows[t]: t's rows of table artifacts
    contract,       \* contract[t]: t's row of task_acceptance
    attested,       \* attested[t]: what callers claimed of t
    final,          \* final[t]: the artifact each final field is read from
    steps,          \* steps[t]: what the journal says of t's steps
    proc,           \* the publication or completion each process is engaged in
    lost            \* history: contents damaged after their digest was verified

evars == <<status, blob, rows, contract, attested, final, steps, proc, lost>>

Artifact == [content: Content, name: Name]
Requirement == [tools: SUBSET Tool, names: SUBSET Name, fields: SUBSET Field]
NothingAsked == [tools |-> {}, names |-> {}, fields |-> {}]
Stage == {"idle", "publish", "check", "register", "judge", "commit", "reject"}
Idle == [at |-> "idle", task |-> None, artifact |-> None]

ASSUME EvidenceConstants ==
    /\ Says \in [Content -> SUBSET Field] /\ Texts \in [Content -> SUBSET Field]
    /\ \A c \in Content : Texts[c] \subseteq Says[c]
    /\ Contracts \subseteq Requirement /\ Observations \subseteq Requirement
    /\ None \notin Task /\ None \notin Artifact

\* A task is created with a contract, or without one, which leaves it the empty one.
EInit ==
    /\ status = [t \in Task |-> "running"]
    /\ blob = [c \in Content |-> "none"]
    /\ rows = [t \in Task |-> {}]
    /\ contract \in [Task -> {[required |-> r, strict |-> TRUE, locked |-> TRUE] : r \in Contracts}
                         \cup {[required |-> NothingAsked, strict |-> FALSE, locked |-> FALSE]}]
    /\ attested = [t \in Task |-> NothingAsked]
    /\ final = [t \in Task |-> [f \in Field |-> None]]
    /\ steps = [t \in Task |-> [u \in Tool |-> [state |-> "none", ref |-> None]]]
    /\ proc = [w \in Worker |-> Idle]
    /\ lost = {}

-----------------------------------------------------------------------------
(* ArtifactStore.create, by process w.                                     *)

At(w, at) == proc[w].at = at
GoTo(w, at) == proc' = [proc EXCEPT ![w].at = at]

Stop(w) == proc' = [proc EXCEPT ![w] = Idle]
SameRecords == UNCHANGED <<status, rows, contract, attested, final, steps>>

\* The content is written to a temporary file, which nobody else sees.
Create(w, t, a) ==
    /\ At(w, "idle") /\ status[t] # Missing
    /\ proc' = [proc EXCEPT ![w] = [at |-> "publish", task |-> t, artifact |-> a]]
    /\ SameRecords /\ UNCHANGED <<blob, lost>>

\* os.link: the blob appears whole, or was there before.
Publish(w) ==
    /\ At(w, "publish")
    /\ blob' = [blob EXCEPT ![proc[w].artifact.content] = IF @ = "none" THEN "good" ELSE @]
    /\ GoTo(w, "check")
    /\ SameRecords /\ UNCHANGED lost

\* Seeded fault: a blob that is there is taken to be the right one.
CheckBlobNot(w) ==
    /\ At(w, "check")
    /\ GoTo(w, "register")
    /\ SameRecords /\ UNCHANGED <<blob, lost>>

\* The digest of whatever is there now.
CheckBlob(w) ==
    /\ At(w, "check")
    /\ IF blob[proc[w].artifact.content] = "good" THEN GoTo(w, "register") ELSE Stop(w)
    /\ SameRecords /\ UNCHANGED <<blob, lost>>

\* Seeded fault: a row is added to a task that is over.
AddArtifactLate(w) ==
    /\ At(w, "register")
    /\ rows' = [rows EXCEPT ![proc[w].task] = @ \cup {proc[w].artifact}]
    /\ Stop(w)
    /\ UNCHANGED <<status, blob, contract, attested, final, steps, lost>>

\* add_artifact, in a transaction of the ledger.
AddArtifact(w) ==
    /\ At(w, "register")
    /\ rows' = IF Active(proc[w].task)
               THEN [rows EXCEPT ![proc[w].task] = @ \cup {proc[w].artifact}] ELSE rows
    /\ Stop(w)
    /\ UNCHANGED <<status, blob, contract, attested, final, steps, lost>>

\* A process dies; what it published stays.
Die(w) ==
    /\ ~At(w, "idle")
    /\ Stop(w)
    /\ SameRecords /\ UNCHANGED <<blob, lost>>

\* A blob is altered or deleted from outside.
Damage(c, new) ==
    /\ blob[c] # new /\ blob[c] # "none"
    /\ blob' = [blob EXCEPT ![c] = new]
    /\ lost' = IF \/ \E t \in Task, n \in Name : [content |-> c, name |-> n] \in rows[t]
                  \/ \E w \in Worker : At(w, "register") /\ proc[w].artifact.content = c
               THEN lost \cup {c} ELSE lost
    /\ SameRecords /\ UNCHANGED proc

-----------------------------------------------------------------------------
(* The other evidence, each in one transaction of the ledger.              *)

\* _checked_artifact.
Intact(t, a) == a \in rows[t] /\ blob[a.content] = "good"

BindAcceptance(t, required) ==
    /\ Active(t)
    /\ contract[t].locked => contract[t].required = required
    /\ contract' = [contract EXCEPT ![t] = [@ EXCEPT !.required = required, !.locked = TRUE]]
    /\ UNCHANGED <<status, blob, rows, attested, final, steps, proc, lost>>

\* What callers attest is kept for tasks without a contract of their own.
RecordObservations(t, observed) ==
    /\ Active(t)
    /\ ~contract[t].strict
    /\ attested' = [attested EXCEPT ![t] = [tools |-> @.tools \cup observed.tools,
                                            names |-> @.names \cup observed.names,
                                            fields |-> @.fields \cup observed.fields]]
    /\ UNCHANGED <<status, blob, rows, contract, final, steps, proc, lost>>

RecordFinalEvidence(t, a) ==
    /\ Active(t)
    /\ Intact(t, a)
    /\ final' = [final EXCEPT ![t] = [f \in Field |-> IF f \in Says[a.content] THEN a ELSE @[f]]]
    /\ UNCHANGED <<status, blob, rows, contract, attested, steps, proc, lost>>

SetStep(t, u, state, ref) ==
    /\ steps' = [steps EXCEPT ![t][u] = [state |-> state, ref |-> ref]]
    /\ UNCHANGED <<status, blob, rows, contract, attested, final, proc, lost>>

\* prepare_step of an operation that has no step yet: from now on the task is judged by
\* its journal, what callers attested before is dropped, and a contract that nobody has
\* bound asks for the tool.
PrepareStep(t, u) ==
    /\ Active(t)
    /\ steps[t][u].state = "none"
    /\ steps' = [steps EXCEPT ![t][u] = [state |-> "intent", ref |-> None]]
    /\ contract' = [contract EXCEPT ![t].strict = TRUE,
                                    ![t].required.tools =
                                        IF contract[t].locked THEN @ ELSE @ \cup {u}]
    /\ attested' = [attested EXCEPT ![t] = NothingAsked]
    /\ UNCHANGED <<status, blob, rows, final, proc, lost>>

\* claim_step.
ClaimStep(t, u) ==
    /\ Active(t)
    /\ steps[t][u].state = "intent"
    /\ steps[t][u].ref # None => Intact(t, steps[t][u].ref)
    /\ SetStep(t, u, "open", steps[t][u].ref)

\* finish_step, with a receipt.  An open step may also be uncertain, and wait.
FinishStep(t, u) ==
    Active(t) /\ steps[t][u].state = "open" /\ SetStep(t, u, "verified", steps[t][u].ref)

\* reconcile_step, with an artifact as evidence that the effect was applied, or not.
ReconcileStep(t, u, a, outcome) ==
    /\ Active(t)
    /\ steps[t][u].state \in {"open", "spoiled"}
    /\ Intact(t, a)
    /\ SetStep(t, u, outcome, a)

\* The file that a receipt names changes, or is put back: verified_receipt.
ReceiptChanges(t, u) ==
    \/ steps[t][u].state = "verified" /\ SetStep(t, u, "spoiled", steps[t][u].ref)
    \/ steps[t][u].state = "spoiled" /\ SetStep(t, u, "verified", steps[t][u].ref)

-----------------------------------------------------------------------------
(* The judgement.                                                          *)

StepProved(t, u) ==
    /\ steps[t][u].state = "verified"
    /\ steps[t][u].ref # None => Intact(t, steps[t][u].ref)

\* The claims that count: none against a contract of the task's own.
Claims(t) == IF contract[t].strict THEN NothingAsked ELSE attested[t]

Tools(t) ==
    {u \in Tool : StepProved(t, u) \/ (u \in Claims(t).tools /\ steps[t][u].state = "none")}

Names(t) == Claims(t).names \cup {a.name : a \in {b \in rows[t] : Intact(t, b)}}

Fields(t) ==
    {f \in Field : IF final[t][f] = None THEN f \in Claims(t).fields
                   ELSE Intact(t, final[t][f]) /\ f \in Texts[final[t][f].content]}

\* _acceptance_result.
AcceptanceComplete(t) ==
    /\ \A u \in Tool : steps[t][u].state # "none" => StepProved(t, u)
    /\ \A a \in rows[t] : Intact(t, a)
    /\ contract[t].required.tools \subseteq Tools(t)
    /\ contract[t].required.names \subseteq Names(t)
    /\ contract[t].required.fields \subseteq Fields(t)

SameEvidence == UNCHANGED <<blob, rows, contract, attested, final, steps, lost>>

\* complete, and the start of verify_acceptance.
BeginComplete(w, t) ==
    /\ At(w, "idle")
    /\ status[t] = "verifying" \/ "verifying" \in TRANSITIONS[status[t]]
    /\ status' = [status EXCEPT ![t] = "verifying"]
    /\ proc' = [proc EXCEPT ![w] = [at |-> "judge", task |-> t, artifact |-> None]]
    /\ SameEvidence

\* verify_persistent_acceptance, and the decision complete takes on its result.
Judge(w) ==
    /\ At(w, "judge")
    /\ IF Active(proc[w].task)
       THEN GoTo(w, IF AcceptanceComplete(proc[w].task) THEN "commit" ELSE "reject")
       ELSE Stop(w)
    /\ UNCHANGED status /\ SameEvidence

\* Seeded fault: the judgement just made is good enough.
CommitJudged(w) ==
    /\ At(w, "commit")
    /\ status' = IF "completed" \in TRANSITIONS[status[proc[w].task]]
                 THEN [status EXCEPT ![proc[w].task] = "completed"] ELSE status
    /\ Stop(w)
    /\ SameEvidence

\* transition(COMPLETED) judges again, in the transaction that writes the status.
Commit(w) ==
    /\ At(w, "commit")
    /\ status' = IF /\ "completed" \in TRANSITIONS[status[proc[w].task]]
                    /\ AcceptanceComplete(proc[w].task)
                 THEN [status EXCEPT ![proc[w].task] = "completed"] ELSE status
    /\ Stop(w)
    /\ SameEvidence

Reject(w) ==
    /\ At(w, "reject")
    /\ status' = IF "failed_retryable" \in TRANSITIONS[status[proc[w].task]]
                 THEN [status EXCEPT ![proc[w].task] = "failed_retryable"] ELSE status
    /\ Stop(w)
    /\ SameEvidence

\* A step that was claimed and is not proved.
Unsettled(t) ==
    \E u \in Tool : steps[t][u].state \notin {"none", "intent"} /\ ~StepProved(t, u)

\* AgentHostFoundation.resume; a step that was never claimed stands in nobody's way.
Resume(t) ==
    /\ \/ /\ Unsettled(t)
          /\ status[t] \in {"running", "waiting_tool", "verifying"}
          /\ status' = [status EXCEPT ![t] = "failed_retryable"]
       \/ /\ ~Unsettled(t)
          /\ status[t] \in {"waiting_tool", "failed_retryable"}
          /\ status' = [status EXCEPT ![t] = "running"]
    /\ SameEvidence /\ UNCHANGED proc

\* execute_tool_and_checkpoint: the status before the call of a tool, after a step of it
\* is proved, after it failed.
ExecuteTool(t) ==
    /\ \/ /\ "waiting_tool" \in TRANSITIONS[status[t]]
          /\ status' = [status EXCEPT ![t] = "waiting_tool"]
       \/ /\ status[t] = "waiting_tool" /\ \E u \in Tool : StepProved(t, u)
          /\ status' = [status EXCEPT ![t] = "running"]
       \/ /\ status[t] \in {"running", "waiting_tool"}
          /\ status' = [status EXCEPT ![t] = "failed_retryable"]
    /\ SameEvidence /\ UNCHANGED proc

\* The task is cancelled.
Cancel(t) ==
    /\ "cancelled" \in TRANSITIONS[status[t]]
    /\ status' = [status EXCEPT ![t] = "cancelled"]
    /\ SameEvidence /\ UNCHANGED proc

-----------------------------------------------------------------------------
Store ==
    \/ \E w \in Worker, t \in Task, a \in Artifact : Create(w, t, a)
    \/ \E w \in Worker : Publish(w) \/ CheckBlob(w) \/ AddArtifact(w) \/ Die(w)
    \/ \E c \in Content, new \in {"none", "bad"} : Damage(c, new)

Records ==
    \E t \in Task :
        \/ \E required \in Contracts : BindAcceptance(t, required)
        \/ \E observed \in Observations : RecordObservations(t, observed)
        \/ \E a \in Artifact : RecordFinalEvidence(t, a)
        \/ \E u \in Tool :
             \/ PrepareStep(t, u) \/ ClaimStep(t, u) \/ FinishStep(t, u) \/ ReceiptChanges(t, u)
             \/ \E a \in Artifact, outcome \in {"verified", "intent"} : ReconcileStep(t, u, a, outcome)

Judgement ==
    \/ \E w \in Worker, t \in Task : BeginComplete(w, t)
    \/ \E w \in Worker : Judge(w) \/ Commit(w) \/ Reject(w)
    \/ \E t \in Task : Resume(t) \/ ExecuteTool(t) \/ Cancel(t)

ENext == Store \/ Records \/ Judgement

ESpec == EInit /\ [][ENext]_evars

-----------------------------------------------------------------------------
(* Properties.                                                             *)

\* Every variable keeps its type.
ETypeOK ==
    /\ StatusOK
    /\ blob \in [Content -> {"none", "good", "bad"}]
    /\ rows \in [Task -> SUBSET Artifact]
    /\ contract \in [Task -> [required: Requirement, strict: BOOLEAN, locked: BOOLEAN]]
    /\ attested \in [Task -> Requirement]
    /\ final \in [Task -> [Field -> Artifact \cup {None}]]
    /\ steps \in [Task -> [Tool -> [state: {"none", "intent", "open", "verified", "spoiled"},
                                    ref: Artifact \cup {None}]]]
    /\ proc \in [Worker -> [at: Stage, task: Task \cup {None}, artifact: Artifact \cup {None}]]
    /\ \A w \in Worker :
         /\ proc[w].artifact # None <=> proc[w].at \in {"publish", "check", "register"}
         /\ proc[w].task # None <=> proc[w].at # "idle"
    /\ lost \subseteq Content

\* Artifacts are immutable: the blob of a row is what was published under its digest,
\* unless it was damaged after that was verified; no crash, race of two publications
\* or earlier damage leaves a row without its content (ArtifactStore.create).
RowsBacked ==
    \A t \in Task : \A a \in rows[t] : blob[a.content] = "good" \/ a.content \in lost

\* A task is completed on evidence that stands at that moment, not when it was judged:
\* every step proved, every artifact intact, and, if the task was given a contract or has
\* any step in the journal, every requirement met by a step or a file rather than by a
\* claim (TaskLedger.transition, prepare_step).
CompletedOnEvidence ==
    [][\A t \in Task : (status[t] # "completed" /\ status'[t] = "completed") =>
         /\ \A u \in Tool : steps[t][u].state \in {"none", "verified"}
         /\ \A a \in rows[t] : blob[a.content] = "good"
         /\ (contract[t].strict \/ \E u \in Tool : steps[t][u].state # "none") =>
              /\ \A u \in contract[t].required.tools : steps[t][u].state = "verified"
              /\ \A n \in contract[t].required.names : \E a \in rows[t] : a.name = n
              /\ \A f \in contract[t].required.fields :
                   \E a \in rows[t] : final[t][f] = a /\ f \in Texts[a.content]]_evars

\* What a task was judged by stays as it was once the task is over, even if a process
\* that was publishing for it, or a caller, comes late (_active_task).
EvidenceCloses ==
    [][\A t \in Task : status[t] \in TERMINAL =>
         /\ rows'[t] = rows[t] /\ contract'[t] = contract[t]
         /\ attested'[t] = attested[t] /\ final'[t] = final[t]]_evars
=============================================================================
