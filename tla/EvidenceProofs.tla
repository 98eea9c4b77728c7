---------------------------- MODULE EvidenceProofs ----------------------------
(***************************************************************************)
(* What is proved of Evidence for any tasks, processes, contents, names,   *)
(* fields, tools and contracts: its types, that artifacts keep their       *)
(* content, that the evidence of a finished task is closed, and that a     *)
(* task is completed on evidence that stands.                              *)
(***************************************************************************)
EXTENDS Evidence, TLAPS

-----------------------------------------------------------------------------
(* Types.                                                                  *)

\* The transition table: ledger.TRANSITIONS leads from statuses to statuses, and
\* nowhere from a terminal one or from a row that is not there.
LEMMA Table ==
    /\ \A s \in Status : TRANSITIONS[s] \subseteq Status
    /\ \A s \in TERMINAL : s \in Status /\ TRANSITIONS[s] = {}
    /\ {"running", "waiting_tool", "verifying", "completed", "failed_retryable",
        "cancelled"} \subseteq Status
    /\ "running" \notin TERMINAL /\ "verifying" \notin TERMINAL
    /\ "failed_retryable" \notin TERMINAL
    /\ Missing \notin Status
  BY DEF Status, TERMINAL, TRANSITIONS, Missing

LEMMA ETypeInit == EInit => ETypeOK
  <1> SUFFICES ASSUME EInit PROVE ETypeOK
    OBVIOUS
  <1>1. contract \in [Task -> [required: Requirement, strict: BOOLEAN, locked: BOOLEAN]]
    <2> DEFINE OfContract == {[required |-> r, strict |-> TRUE, locked |-> TRUE] : r \in Contracts}
               NoContract == [required |-> NothingAsked, strict |-> FALSE, locked |-> FALSE]
               Row == [required: Requirement, strict: BOOLEAN, locked: BOOLEAN]
    <2>1. \A r \in Contracts : [required |-> r, strict |-> TRUE, locked |-> TRUE] \in Row
      BY EvidenceConstants
    <2>2. NoContract \in Row
      BY DEF NothingAsked, Requirement
    <2>3. contract \in [Task -> OfContract \cup {NoContract}]
      BY DEF EInit
    <2> HIDE DEF OfContract, NoContract, Row
    <2>4. contract \in [Task -> Row]
      BY <2>1, <2>2, <2>3 DEF OfContract
    <2> QED
      BY <2>4 DEF Row
  <1>2. StatusOK
    BY Table DEF EInit, StatusOK
  <1>3. NothingAsked \in Requirement
    BY DEF NothingAsked, Requirement
  <1> QED
    BY <1>1, <1>2, <1>3 DEF EInit, ETypeOK, Idle, Stage

LEMMA SetStepType ==
    ASSUME ETypeOK, NEW t \in Task, NEW u \in Tool,
           NEW state \in {"none", "intent", "open", "verified", "spoiled"},
           NEW ref \in Artifact \cup {None}, SetStep(t, u, state, ref)
    PROVE  ETypeOK'
  BY DEF SetStep, ETypeOK, StatusOK

\* What a process is at and what it holds go together.
LEMMA ProcType ==
    ASSUME ETypeOK, NEW w \in Worker,
           \/ Stop(w)
           \/ \E t \in Task, a \in Artifact :
                proc' = [proc EXCEPT ![w] = [at |-> "publish", task |-> t, artifact |-> a]]
           \/ \E t \in Task :
                proc' = [proc EXCEPT ![w] = [at |-> "judge", task |-> t, artifact |-> None]]
           \/ proc[w].at \in {"publish", "check"} /\ \E at \in {"check", "register"} : GoTo(w, at)
           \/ At(w, "judge") /\ \E at \in {"commit", "reject"} : GoTo(w, at)
    PROVE  /\ proc' \in [Worker -> [at: Stage, task: Task \cup {None},
                                    artifact: Artifact \cup {None}]]
           /\ \A v \in Worker :
                /\ proc'[v].artifact # None <=> proc'[v].at \in {"publish", "check", "register"}
                /\ proc'[v].task # None <=> proc'[v].at # "idle"
  <1> DEFINE Record == [at: Stage, task: Task \cup {None}, artifact: Artifact \cup {None}]
             Fits(r) == /\ r.artifact # None <=> r.at \in {"publish", "check", "register"}
                        /\ r.task # None <=> r.at # "idle"
  <1>1. proc \in [Worker -> Record] /\ \A v \in Worker : Fits(proc[v])
    BY DEF ETypeOK
  <1>2. \E r \in Record : Fits(r) /\ proc' = [proc EXCEPT ![w] = r]
    <2>1. CASE Stop(w)
      <3>1. Idle \in Record /\ Fits(Idle)
        BY DEF Idle, Stage
      <3> QED
        BY <2>1, <3>1 DEF Stop
    <2>2. ASSUME NEW t \in Task, NEW a \in Artifact,
                 proc' = [proc EXCEPT ![w] = [at |-> "publish", task |-> t, artifact |-> a]]
          PROVE  \E r \in Record : Fits(r) /\ proc' = [proc EXCEPT ![w] = r]
      <3>1. [at |-> "publish", task |-> t, artifact |-> a] \in Record
        BY DEF Stage
      <3>2. Fits([at |-> "publish", task |-> t, artifact |-> a])
        BY EvidenceConstants
      <3> QED
        BY <2>2, <3>1, <3>2
    <2>3. ASSUME NEW t \in Task,
                 proc' = [proc EXCEPT ![w] = [at |-> "judge", task |-> t, artifact |-> None]]
          PROVE  \E r \in Record : Fits(r) /\ proc' = [proc EXCEPT ![w] = r]
      <3>1. [at |-> "judge", task |-> t, artifact |-> None] \in Record
        BY DEF Stage
      <3>2. Fits([at |-> "judge", task |-> t, artifact |-> None])
        BY EvidenceConstants
      <3> QED
        BY <2>3, <3>1, <3>2
    <2>4. ASSUME proc[w].at \in {"publish", "check"}, NEW at \in {"check", "register"},
                 GoTo(w, at)
          PROVE  \E r \in Record : Fits(r) /\ proc' = [proc EXCEPT ![w] = r]
      <3> DEFINE r == [proc[w] EXCEPT !.at = at]
      <3>1. r \in Record /\ Fits(r)
        BY <1>1, <2>4 DEF Stage
      <3>2. proc' = [proc EXCEPT ![w] = r]
        BY <2>4 DEF GoTo
      <3> QED
        BY <3>1, <3>2
    <2>5. ASSUME At(w, "judge"), NEW at \in {"commit", "reject"}, GoTo(w, at)
          PROVE  \E r \in Record : Fits(r) /\ proc' = [proc EXCEPT ![w] = r]
      <3> DEFINE r == [proc[w] EXCEPT !.at = at]
      <3>1. r \in Record /\ Fits(r)
        BY <1>1, <2>5 DEF Stage, At
      <3>2. proc' = [proc EXCEPT ![w] = r]
        BY <2>5 DEF GoTo
      <3> QED
        BY <3>1, <3>2
    <2> QED
      BY <2>1, <2>2, <2>3, <2>4, <2>5
  <1>3. proc' \in [Worker -> Record] /\ \A v \in Worker : Fits(proc'[v])
    <2> HIDE DEF Record, Fits
    <2> QED
      BY <1>1, <1>2
  <1> QED
    BY <1>3

\* What w holds when it is at work.
LEMMA Working ==
    ASSUME ETypeOK, NEW w \in Worker
    PROVE  /\ proc[w].at # "idle" => proc[w].task \in Task
           /\ proc[w].at \in {"publish", "check", "register"} =>
                /\ proc[w].artifact \in Artifact
                /\ proc[w].artifact.content \in Content
  <1>1. proc[w] \in [at: Stage, task: Task \cup {None}, artifact: Artifact \cup {None}]
    BY DEF ETypeOK
  <1>2. proc[w].at # "idle" => proc[w].task \in Task
    BY <1>1 DEF ETypeOK
  <1>3. proc[w].at \in {"publish", "check", "register"} => proc[w].artifact \in Artifact
    BY <1>1 DEF ETypeOK
  <1> QED
    BY <1>2, <1>3 DEF Artifact

LEMMA StoreType == ASSUME ETypeOK, Store PROVE ETypeOK'
  <1>1. ASSUME NEW w \in Worker, NEW t \in Task, NEW a \in Artifact, Create(w, t, a)
        PROVE ETypeOK'
    BY <1>1, ProcType DEF Create, SameRecords, ETypeOK, StatusOK
  <1>2. ASSUME NEW w \in Worker, Publish(w) PROVE ETypeOK'
    BY <1>2, ProcType DEF Publish, At, SameRecords, ETypeOK, StatusOK
  <1>3. ASSUME NEW w \in Worker, CheckBlob(w) PROVE ETypeOK'
    BY <1>3, ProcType DEF CheckBlob, At, SameRecords, ETypeOK, StatusOK
  <1>4. ASSUME NEW w \in Worker, AddArtifact(w) PROVE ETypeOK'
    <2>1. proc[w].task \in Task /\ proc[w].artifact \in Artifact
      BY <1>4, Working DEF AddArtifact, At
    <2>2. rows' \in [Task -> SUBSET Artifact]
      BY <1>4, <2>1 DEF AddArtifact, ETypeOK
    <2> QED
      BY <1>4, <2>2, ProcType DEF AddArtifact, ETypeOK, StatusOK
  <1>5. ASSUME NEW w \in Worker, Die(w) PROVE ETypeOK'
    BY <1>5, ProcType DEF Die, SameRecords, ETypeOK, StatusOK
  <1>6. ASSUME NEW c \in Content, NEW new \in {"none", "bad"}, Damage(c, new) PROVE ETypeOK'
    BY <1>6 DEF Damage, SameRecords, ETypeOK, StatusOK
  <1> QED
    BY <1>1, <1>2, <1>3, <1>4, <1>5, <1>6 DEF Store

\* prepare_step leaves a contract that is strict, and those of other tasks alone.
LEMMA PrepareBinds ==
    ASSUME ETypeOK, NEW t \in Task, NEW u \in Tool, PrepareStep(t, u)
    PROVE  /\ contract' \in [Task -> [required: Requirement, strict: BOOLEAN, locked: BOOLEAN]]
           /\ contract'[t].strict
           /\ \A s \in Task : s # t => contract'[s] = contract[s]
  <1> DEFINE Row == [required: Requirement, strict: BOOLEAN, locked: BOOLEAN]
  <1>1. PICK row \in Row : row = contract[t]
    BY DEF ETypeOK
  <1>2. PICK tools \in SUBSET Tool :
          tools = IF row.locked THEN row.required.tools ELSE row.required.tools \cup {u}
    BY DEF Requirement
  <1>3. PICK new : new = [row EXCEPT !.strict = TRUE, !.required.tools = tools]
    OBVIOUS
  <1>4. new \in Row /\ new.strict
    BY <1>3 DEF Requirement
  <1>5. contract' = [contract EXCEPT ![t] = new]
    BY <1>1, <1>2, <1>3 DEF PrepareStep, ETypeOK
  <1> QED
    BY <1>4, <1>5 DEF ETypeOK

LEMMA RecordsType == ASSUME ETypeOK, Records PROVE ETypeOK'
  <1>1. PICK t \in Task :
        \/ \E required \in Contracts : BindAcceptance(t, required)
        \/ \E observed \in Observations : RecordObservations(t, observed)
        \/ \E a \in Artifact : RecordFinalEvidence(t, a)
        \/ \E u \in Tool :
             \/ PrepareStep(t, u) \/ ClaimStep(t, u) \/ FinishStep(t, u) \/ ReceiptChanges(t, u)
             \/ \E a \in Artifact, outcome \in {"verified", "intent"} : ReconcileStep(t, u, a, outcome)
    BY DEF Records
  <1>2. ASSUME NEW required \in Contracts, BindAcceptance(t, required) PROVE ETypeOK'
    <2>1. contract' \in [Task -> [required: Requirement, strict: BOOLEAN, locked: BOOLEAN]]
      <3> DEFINE row == [contract[t] EXCEPT !.required = required, !.locked = TRUE]
      <3>1. row \in [required: Requirement, strict: BOOLEAN, locked: BOOLEAN]
        <4>1. contract[t] \in [required: Requirement, strict: BOOLEAN, locked: BOOLEAN]
          BY DEF ETypeOK
        <4> QED
          BY <4>1, EvidenceConstants
      <3>2. contract' = [contract EXCEPT ![t] = row]
        BY <1>2 DEF BindAcceptance, ETypeOK
      <3> QED
        BY <3>1, <3>2 DEF ETypeOK
    <2> QED
      BY <1>2, <2>1 DEF BindAcceptance, ETypeOK, StatusOK
  <1>3. ASSUME NEW observed \in Observations, RecordObservations(t, observed) PROVE ETypeOK'
    <2>1. observed \in Requirement
      BY EvidenceConstants
    <2>2. [tools |-> attested[t].tools \cup observed.tools,
           names |-> attested[t].names \cup observed.names,
           fields |-> attested[t].fields \cup observed.fields] \in Requirement
      BY <2>1 DEF ETypeOK, Requirement
    <2>3. attested' \in [Task -> Requirement]
      BY <1>3, <2>2 DEF RecordObservations, ETypeOK
    <2> QED
      BY <1>3, <2>3 DEF RecordObservations, ETypeOK, StatusOK
  <1>4. ASSUME NEW a \in Artifact, RecordFinalEvidence(t, a) PROVE ETypeOK'
    <2>1. [f \in Field |-> IF f \in Says[a.content] THEN a ELSE final[t][f]]
            \in [Field -> Artifact \cup {None}]
      BY DEF ETypeOK
    <2>2. final' \in [Task -> [Field -> Artifact \cup {None}]]
      BY <1>4, <2>1 DEF RecordFinalEvidence, ETypeOK
    <2> QED
      BY <1>4, <2>2 DEF RecordFinalEvidence, ETypeOK, StatusOK
  <1>5. ASSUME NEW u \in Tool, ClaimStep(t, u) \/ FinishStep(t, u) \/ ReceiptChanges(t, u)
        PROVE ETypeOK'
    <2>1. steps[t][u].ref \in Artifact \cup {None}
      BY DEF ETypeOK
    <2> QED
      BY <1>5, <2>1, SetStepType DEF ClaimStep, FinishStep, ReceiptChanges
  <1>6. ASSUME NEW u \in Tool, NEW a \in Artifact, NEW outcome \in {"verified", "intent"},
               ReconcileStep(t, u, a, outcome)
        PROVE ETypeOK'
    BY <1>6, SetStepType DEF ReconcileStep
  <1>7. ASSUME NEW u \in Tool, PrepareStep(t, u) PROVE ETypeOK'
    <2>1. steps' \in [Task -> [Tool -> [state: {"none", "intent", "open", "verified", "spoiled"},
                                        ref: Artifact \cup {None}]]]
      BY <1>7 DEF PrepareStep, ETypeOK
    <2>2. contract' \in [Task -> [required: Requirement, strict: BOOLEAN, locked: BOOLEAN]]
      BY <1>7, PrepareBinds
    <2>3. attested' \in [Task -> Requirement]
      <3>1. NothingAsked \in Requirement
        BY DEF NothingAsked, Requirement
      <3> QED
        BY <1>7, <3>1 DEF PrepareStep, ETypeOK
    <2> QED
      BY <1>7, <2>1, <2>2, <2>3 DEF PrepareStep, ETypeOK, StatusOK
  <1> QED
    BY <1>1, <1>2, <1>3, <1>4, <1>5, <1>6, <1>7

LEMMA JudgementType == ASSUME ETypeOK, Judgement PROVE ETypeOK'
  <1>1. ASSUME NEW w \in Worker, NEW t \in Task, BeginComplete(w, t) PROVE ETypeOK'
    <2>1. StatusOK'
      BY <1>1, Table DEF BeginComplete, ETypeOK, StatusOK
    <2> QED
      BY <1>1, <2>1, ProcType DEF BeginComplete, SameEvidence, ETypeOK
  <1>2. ASSUME NEW w \in Worker, Judge(w) PROVE ETypeOK'
    BY <1>2, ProcType DEF Judge, SameEvidence, ETypeOK, StatusOK
  <1>3. ASSUME NEW w \in Worker, Commit(w) PROVE ETypeOK'
    <2>1. StatusOK'
      BY <1>3, Table DEF Commit, ETypeOK, StatusOK
    <2> QED
      BY <1>3, <2>1, ProcType DEF Commit, SameEvidence, ETypeOK
  <1>4. ASSUME NEW w \in Worker, Reject(w) PROVE ETypeOK'
    <2>1. StatusOK'
      BY <1>4, Table DEF Reject, ETypeOK, StatusOK
    <2> QED
      BY <1>4, <2>1, ProcType DEF Reject, SameEvidence, ETypeOK
  <1>5. ASSUME NEW t \in Task, Resume(t) PROVE ETypeOK'
    <2>1. StatusOK'
      BY <1>5, Table DEF Resume, ETypeOK, StatusOK
    <2> QED
      BY <1>5, <2>1 DEF Resume, SameEvidence, ETypeOK
  <1>6. ASSUME NEW t \in Task, Cancel(t) PROVE ETypeOK'
    <2>1. StatusOK'
      BY <1>6, Table DEF Cancel, ETypeOK, StatusOK
    <2> QED
      BY <1>6, <2>1 DEF Cancel, SameEvidence, ETypeOK
  <1>7. ASSUME NEW t \in Task, ExecuteTool(t) PROVE ETypeOK'
    <2>1. StatusOK'
      <3>1. PICK new \in Status : status' = [status EXCEPT ![t] = new]
        BY <1>7, Table DEF ExecuteTool
      <3> QED
        BY <3>1 DEF ETypeOK, StatusOK
    <2> QED
      BY <1>7, <2>1 DEF ExecuteTool, SameEvidence, ETypeOK
  <1> QED
    BY <1>1, <1>2, <1>3, <1>4, <1>5, <1>6, <1>7 DEF Judgement

LEMMA ETypeStep == ETypeOK /\ [ENext]_evars => ETypeOK'
  <1>1. ASSUME ETypeOK, UNCHANGED evars PROVE ETypeOK'
    BY <1>1 DEF evars, ETypeOK, StatusOK
  <1> QED
    BY <1>1, StoreType, RecordsType, JudgementType DEF ENext

\* Every variable keeps its type (ETypeOK).
THEOREM ETypeCorrect == ESpec => []ETypeOK
  BY ETypeInit, ETypeStep, PTL DEF ESpec
-----------------------------------------------------------------------------
(* The store.  RowsBacked is not inductive: AddArtifact writes a row for   *)
(* what CheckBlob saw some steps ago, so what is checked and not yet       *)
(* registered has to be backed too.                                        *)

Kept(c) == blob[c] = "good" \/ c \in lost

Backing ==
    /\ \A t \in Task : \A a \in rows[t] : Kept(a.content)
    /\ \A w \in Worker : At(w, "register") => Kept(proc[w].artifact.content)

\* The operations on records write neither the store, nor rows, nor a status.
LEMMA RecordsKeep == ASSUME Records PROVE UNCHANGED <<status, blob, rows, proc, lost>>
  <1> DEFINE Same == UNCHANGED <<status, blob, rows, proc, lost>>
  <1> PICK t \in Task :
        \/ \E required \in Contracts : BindAcceptance(t, required)
        \/ \E observed \in Observations : RecordObservations(t, observed)
        \/ \E a \in Artifact : RecordFinalEvidence(t, a)
        \/ \E u \in Tool :
             \/ PrepareStep(t, u) \/ ClaimStep(t, u) \/ FinishStep(t, u) \/ ReceiptChanges(t, u)
             \/ \E a \in Artifact, outcome \in {"verified", "intent"} : ReconcileStep(t, u, a, outcome)
    BY DEF Records
  <1>1. ASSUME NEW required \in Contracts, BindAcceptance(t, required) PROVE Same
    BY <1>1 DEF BindAcceptance
  <1>2. ASSUME NEW observed \in Observations, RecordObservations(t, observed) PROVE Same
    BY <1>2 DEF RecordObservations
  <1>3. ASSUME NEW a \in Artifact, RecordFinalEvidence(t, a) PROVE Same
    BY <1>3 DEF RecordFinalEvidence
  <1>4. ASSUME NEW u \in Tool, PrepareStep(t, u) PROVE Same
    BY <1>4 DEF PrepareStep
  <1>5. ASSUME NEW u \in Tool, ClaimStep(t, u) \/ FinishStep(t, u) \/ ReceiptChanges(t, u)
        PROVE  Same
    BY <1>5 DEF ClaimStep, FinishStep, ReceiptChanges, SetStep
  <1>6. ASSUME NEW u \in Tool, NEW a \in Artifact, NEW outcome \in {"verified", "intent"},
               ReconcileStep(t, u, a, outcome)
        PROVE  Same
    BY <1>6 DEF ReconcileStep, SetStep
  <1> QED
    BY <1>1, <1>2, <1>3, <1>4, <1>5, <1>6

\* The judgement writes neither the store nor rows.
LEMMA JudgementKeeps == ASSUME Judgement PROVE UNCHANGED <<blob, rows, lost>>
  <1>1. ASSUME NEW w \in Worker, NEW t \in Task, BeginComplete(w, t)
        PROVE  UNCHANGED <<blob, rows, lost>>
    BY <1>1 DEF BeginComplete, SameEvidence
  <1>2. ASSUME NEW w \in Worker, Judge(w) \/ Commit(w) \/ Reject(w)
        PROVE  UNCHANGED <<blob, rows, lost>>
    BY <1>2 DEF Judge, Commit, Reject, SameEvidence
  <1>3. ASSUME NEW t \in Task, Resume(t) \/ ExecuteTool(t) \/ Cancel(t)
        PROVE  UNCHANGED <<blob, rows, lost>>
    BY <1>3 DEF Resume, ExecuteTool, Cancel, SameEvidence
  <1> QED
    BY <1>1, <1>2, <1>3 DEF Judgement

\* No step loses a content that was kept, unless it is damaged while nothing relies on it.
LEMMA KeptStays ==
    ASSUME ETypeOK, ENext, NEW c \in Content, Kept(c),
           \/ \E t \in Task, n \in Name : [content |-> c, name |-> n] \in rows[t]
           \/ \E w \in Worker : At(w, "register") /\ proc[w].artifact.content = c
    PROVE  Kept(c)'
  <1>1. ASSUME NEW w \in Worker, Publish(w) PROVE Kept(c)'
    BY <1>1 DEF Publish, SameRecords, ETypeOK, Kept
  <1>2. ASSUME NEW d \in Content, NEW new \in {"none", "bad"}, Damage(d, new) PROVE Kept(c)'
    BY <1>2 DEF Damage, ETypeOK, Kept
  <1>3. ASSUME UNCHANGED <<blob, lost>> PROVE Kept(c)'
    BY <1>3 DEF Kept
  <1>4. CASE Store
    BY <1>1, <1>2, <1>3, <1>4
    DEF Store, Create, CheckBlob, AddArtifact, Die, SameRecords
  <1>5. CASE Records
    BY <1>3, <1>5, RecordsKeep
  <1>6. CASE Judgement
    BY <1>3, <1>6, JudgementKeeps
  <1> QED
    BY <1>4, <1>5, <1>6 DEF ENext

\* A row appears only in AddArtifact, for what its process had checked.
LEMMA RowsComeFrom ==
    ASSUME ETypeOK, ENext, NEW t \in Task, NEW a \in rows'[t]
    PROVE  \/ a \in rows[t]
           \/ \E w \in Worker : At(w, "register") /\ proc[w].artifact = a
  <1>1. ASSUME NEW w \in Worker, AddArtifact(w)
        PROVE  \/ a \in rows[t]
               \/ At(w, "register") /\ proc[w].artifact = a
    BY <1>1 DEF AddArtifact, ETypeOK
  <1>2. CASE Store
    <2>1. CASE \E w \in Worker : AddArtifact(w)
      BY <1>1, <2>1
    <2>2. CASE rows' = rows
      BY <2>2
    <2>3. (\E w \in Worker : AddArtifact(w)) \/ rows' = rows
      BY <1>2 DEF Store, Create, Publish, CheckBlob, Die, Damage, SameRecords
    <2> QED
      BY <2>1, <2>2, <2>3
  <1>3. CASE Records
    BY <1>3, RecordsKeep
  <1>4. CASE Judgement
    BY <1>4, JudgementKeeps
  <1> QED
    BY <1>2, <1>3, <1>4 DEF ENext

\* A process is about to register only what CheckBlob has found good, or what it was
\* about to register before.
LEMMA RegistersChecked ==
    ASSUME ETypeOK, ENext, NEW w \in Worker, At(w, "register")'
    PROVE  \/ At(w, "register") /\ proc'[w].artifact = proc[w].artifact
           \/ UNCHANGED <<blob, lost>> /\ blob[proc'[w].artifact.content] = "good"
  <1>1. ASSUME NEW v \in Worker, CheckBlob(v)
        PROVE  \/ At(w, "register") /\ proc'[w].artifact = proc[w].artifact
               \/ UNCHANGED <<blob, lost>> /\ blob[proc'[w].artifact.content] = "good"
    BY <1>1 DEF CheckBlob, GoTo, Stop, Idle, At, ETypeOK
  <1>2. ASSUME NEW v \in Worker, Stop(v)
        PROVE  At(w, "register") /\ proc'[w].artifact = proc[w].artifact
    BY <1>2 DEF Stop, Idle, At, ETypeOK
  <1>3. ASSUME NEW v \in Worker, NEW at \in {"check", "commit", "reject"}, GoTo(v, at)
        PROVE  At(w, "register") /\ proc'[w].artifact = proc[w].artifact
    BY <1>3 DEF GoTo, At, ETypeOK
  <1>4. ASSUME NEW v \in Worker, NEW t \in Task, NEW a \in Artifact \cup {None},
               NEW at \in {"publish", "judge"},
               proc' = [proc EXCEPT ![v] = [at |-> at, task |-> t, artifact |-> a]]
        PROVE  At(w, "register") /\ proc'[w].artifact = proc[w].artifact
    BY <1>4 DEF At, ETypeOK
  <1>5. ASSUME proc' = proc PROVE At(w, "register") /\ proc'[w].artifact = proc[w].artifact
    BY <1>5 DEF At
  <1>6. CASE Store
    BY <1>1, <1>2, <1>3, <1>4, <1>5, <1>6
    DEF Store, Create, Publish, AddArtifact, Die, Damage
  <1>7. CASE Records
    BY <1>5, <1>7, RecordsKeep
  <1>8. CASE Judgement
    BY <1>2, <1>3, <1>4, <1>5, <1>8
    DEF Judgement, BeginComplete, Judge, Commit, Reject, Resume, ExecuteTool, Cancel
  <1> QED
    BY <1>6, <1>7, <1>8 DEF ENext

LEMMA BackingStep == ETypeOK /\ Backing /\ [ENext]_evars => Backing'
  <1>1. ASSUME Backing, UNCHANGED evars PROVE Backing'
    BY <1>1 DEF evars, Backing, Kept, At
  <1>2. ASSUME ETypeOK, Backing, ENext PROVE Backing'
    <2>1. ETypeOK'
      BY <1>2, ETypeStep
    <2>2. ASSUME NEW t \in Task, NEW a \in rows'[t] PROVE Kept(a.content)'
      <3>1. a \in Artifact
        BY <2>1 DEF ETypeOK
      <3>2. a.content \in Content /\ a.name \in Name
            /\ a = [content |-> a.content, name |-> a.name]
        BY <3>1 DEF Artifact
      <3>3. \/ a \in rows[t]
            \/ \E w \in Worker : At(w, "register") /\ proc[w].artifact = a
        BY <1>2, RowsComeFrom
      <3>4. Kept(a.content)
        BY <1>2, <3>3 DEF Backing
      <3>5. \/ \E s \in Task, n \in Name : [content |-> a.content, name |-> n] \in rows[s]
            \/ \E w \in Worker : At(w, "register") /\ proc[w].artifact.content = a.content
        BY <3>2, <3>3
      <3> QED
        BY <1>2, <3>2, <3>4, <3>5, KeptStays
    <2>3. ASSUME NEW w \in Worker, At(w, "register")'
          PROVE  Kept(proc[w].artifact.content)'
      <3>1. CASE At(w, "register") /\ proc'[w].artifact = proc[w].artifact
        <4>1. PICK c \in Content : c = proc[w].artifact.content
          BY <1>2, <3>1, Working DEF At
        <4>2. Kept(c)
          BY <1>2, <3>1, <4>1 DEF Backing
        <4>3. Kept(c)'
          BY <1>2, <3>1, <4>1, <4>2, KeptStays
        <4> QED
          BY <3>1, <4>1, <4>3 DEF Kept
      <3>2. CASE UNCHANGED <<blob, lost>> /\ blob[proc'[w].artifact.content] = "good"
        BY <3>2 DEF Kept
      <3> QED
        BY <1>2, <2>3, <3>1, <3>2, RegistersChecked
    <2> QED
      BY <2>2, <2>3 DEF Backing
  <1> QED
    BY <1>1, <1>2

\* An artifact that has a row has its content, unless that was damaged after it was
\* verified (RowsBacked).
THEOREM RowsStayBacked == ESpec => []RowsBacked
  <1>1. EInit => Backing
    BY DEF EInit, Backing, At, Idle
  <1>2. Backing => RowsBacked
    BY DEF Backing, RowsBacked, Kept
  <1> QED
    BY <1>1, <1>2, BackingStep, ETypeInit, ETypeStep, PTL DEF ESpec
-----------------------------------------------------------------------------
(* The judgement.                                                          *)

\* A task that is over keeps the evidence it was judged by (EvidenceCloses).
THEOREM EvidenceIsClosed == ESpec => EvidenceCloses
  <1> DEFINE Closed ==
        \A t \in Task : status[t] \in TERMINAL =>
          /\ rows'[t] = rows[t] /\ contract'[t] = contract[t]
          /\ attested'[t] = attested[t] /\ final'[t] = final[t]
  <1>1. ETypeOK /\ [ENext]_evars => [Closed]_evars
    <2> SUFFICES ASSUME ETypeOK, ENext PROVE Closed
      OBVIOUS
    <2>1. ASSUME UNCHANGED <<rows, contract, attested, final>> PROVE Closed
      BY <2>1
    <2>2. ASSUME NEW w \in Worker, AddArtifact(w) PROVE Closed
      BY <2>2, Working DEF AddArtifact, Active, ETypeOK
    <2>3. ASSUME NEW t \in Task, NEW required \in Contracts, BindAcceptance(t, required)
          PROVE Closed
      BY <2>3 DEF BindAcceptance, Active, ETypeOK
    <2>4. ASSUME NEW t \in Task, NEW observed \in Observations, RecordObservations(t, observed)
          PROVE Closed
      BY <2>4 DEF RecordObservations, Active, ETypeOK
    <2>5. ASSUME NEW t \in Task, NEW a \in Artifact, RecordFinalEvidence(t, a) PROVE Closed
      BY <2>5 DEF RecordFinalEvidence, Active, ETypeOK
    <2>9. ASSUME NEW t \in Task, NEW u \in Tool, PrepareStep(t, u) PROVE Closed
      <3>1. \A s \in Task : s # t => contract'[s] = contract[s]
        BY <2>9, PrepareBinds
      <3>2. \A s \in Task : s # t => attested'[s] = attested[s]
        BY <2>9 DEF PrepareStep, ETypeOK
      <3> QED
        BY <2>9, <3>1, <3>2 DEF PrepareStep, Active
    <2>6. CASE Store
      BY <2>1, <2>2, <2>6 DEF Store, Create, Publish, CheckBlob, Die, Damage, SameRecords
    <2>7. CASE Records
      BY <2>1, <2>3, <2>4, <2>5, <2>7, <2>9
      DEF Records, ClaimStep, FinishStep, ReceiptChanges, ReconcileStep, SetStep
    <2>8. CASE Judgement
      BY <2>1, <2>8
      DEF Judgement, BeginComplete, Judge, Commit, Reject, Resume, ExecuteTool, Cancel, SameEvidence
    <2> QED
      BY <2>6, <2>7, <2>8 DEF ENext
  <1> HIDE DEF Closed
  <1>2. ESpec => [][Closed]_evars
    BY <1>1, ETypeCorrect, PTL DEF ESpec
  <1> QED
    BY <1>2 DEF Closed, EvidenceCloses

\* A task with a step in the journal is judged without the claims of callers.
JournalIsStrict ==
    \A t \in Task : (\E u \in Tool : steps[t][u].state # "none") => contract[t].strict

LEMMA JournalIsStrictStep == ETypeOK /\ JournalIsStrict /\ [ENext]_evars => JournalIsStrict'
  <1> SUFFICES ASSUME ETypeOK, JournalIsStrict, [ENext]_evars,
                      NEW t \in Task, NEW u \in Tool, steps'[t][u].state # "none"
               PROVE  contract'[t].strict
    BY DEF JournalIsStrict
  <1>1. ASSUME steps[t][u].state # "none", contract' = contract PROVE contract'[t].strict
    BY <1>1 DEF JournalIsStrict
  <1>2. ASSUME NEW s \in Task, NEW required \in Contracts, BindAcceptance(s, required)
        PROVE  contract'[t].strict
    <2>1. steps[t][u].state # "none"
      BY <1>2 DEF BindAcceptance
    <2>2. contract[t].strict /\ contract[s] \in [required: Requirement, strict: BOOLEAN, locked: BOOLEAN]
      BY <2>1 DEF JournalIsStrict, ETypeOK
    <2>3. contract'[t].strict = contract[t].strict
      BY <1>2, <2>2 DEF BindAcceptance, ETypeOK
    <2> QED
      BY <2>2, <2>3
  <1>3. ASSUME NEW s \in Task, NEW v \in Tool, PrepareStep(s, v) PROVE contract'[t].strict
    <2>1. CASE s = t
      BY <1>3, <2>1, PrepareBinds
    <2>2. CASE s # t
      <3>1. contract'[t] = contract[t]
        BY <1>3, <2>2, PrepareBinds
      <3>2. steps[t][u].state # "none"
        BY <1>3, <2>2 DEF PrepareStep, ETypeOK
      <3> QED
        BY <3>1, <3>2 DEF JournalIsStrict
    <2> QED
      BY <2>1, <2>2
  \* The other steps write no contract, and no step of the journal that was not there.
  <1>4. ASSUME NEW s \in Task, NEW v \in Tool, NEW state, NEW ref,
               SetStep(s, v, state, ref), steps[s][v].state # "none"
        PROVE  contract'[t].strict
    <2>1. steps[t][u].state # "none"
      BY <1>4 DEF SetStep, ETypeOK
    <2> QED
      BY <1>1, <1>4, <2>1 DEF SetStep
  <1>5. ASSUME UNCHANGED <<steps, contract>> PROVE contract'[t].strict
    BY <1>1, <1>5
  <1>6. CASE Store
    BY <1>5, <1>6
    DEF Store, Create, Publish, CheckBlob, AddArtifact, Die, Damage, SameRecords
  <1>7. CASE Records
    BY <1>2, <1>3, <1>4, <1>5, <1>7
    DEF Records, RecordObservations, RecordFinalEvidence, ClaimStep, FinishStep,
        ReceiptChanges, ReconcileStep
  <1>8. CASE Judgement
    BY <1>5, <1>8
    DEF Judgement, BeginComplete, Judge, Commit, Reject, Resume, ExecuteTool, Cancel, SameEvidence
  <1>9. CASE UNCHANGED evars
    BY <1>5, <1>9 DEF evars
  <1> QED
    BY <1>6, <1>7, <1>8, <1>9 DEF ENext

\* What the judgement says of a task, in terms of its records and of the files.
LEMMA CompleteMeans ==
    ASSUME ETypeOK, JournalIsStrict, NEW t \in Task, AcceptanceComplete(t)
    PROVE  /\ \A u \in Tool : steps[t][u].state \in {"none", "verified"}
           /\ \A a \in rows[t] : blob[a.content] = "good"
           /\ (contract[t].strict \/ \E u \in Tool : steps[t][u].state # "none") =>
                /\ \A u \in contract[t].required.tools : steps[t][u].state = "verified"
                /\ \A n \in contract[t].required.names : \E a \in rows[t] : a.name = n
                /\ \A f \in contract[t].required.fields :
                     \E a \in rows[t] : final[t][f] = a /\ f \in Texts[a.content]
  <1>1. \A u \in Tool : steps[t][u].state \in {"none", "verified"}
    BY DEF AcceptanceComplete, StepProved
  <1>2. \A a \in rows[t] : blob[a.content] = "good"
    BY DEF AcceptanceComplete, Intact
  <1>3. ASSUME contract[t].strict
        PROVE  /\ \A u \in contract[t].required.tools : steps[t][u].state = "verified"
               /\ \A n \in contract[t].required.names : \E a \in rows[t] : a.name = n
               /\ \A f \in contract[t].required.fields :
                    \E a \in rows[t] : final[t][f] = a /\ f \in Texts[a.content]
    <2>1. Claims(t).tools = {} /\ Claims(t).names = {} /\ Claims(t).fields = {}
      BY <1>3 DEF Claims, NothingAsked
    <2>2. \A u \in contract[t].required.tools : steps[t][u].state = "verified"
      BY <2>1 DEF AcceptanceComplete, Tools, StepProved
    <2>3. \A n \in contract[t].required.names : \E a \in rows[t] : a.name = n
      BY <2>1 DEF AcceptanceComplete, Names, Intact
    <2>4. \A f \in contract[t].required.fields :
            \E a \in rows[t] : final[t][f] = a /\ f \in Texts[a.content]
      BY <2>1 DEF AcceptanceComplete, Fields, Intact
    <2> QED
      BY <2>2, <2>3, <2>4
  <1> QED
    BY <1>1, <1>2, <1>3 DEF JournalIsStrict

\* A task is completed on evidence that stands when its status is written
\* (CompletedOnEvidence).
THEOREM CompletionIsProved == ESpec => CompletedOnEvidence
  <1> DEFINE Stands(t) ==
        /\ \A u \in Tool : steps[t][u].state \in {"none", "verified"}
        /\ \A a \in rows[t] : blob[a.content] = "good"
        /\ (contract[t].strict \/ \E u \in Tool : steps[t][u].state # "none") =>
             /\ \A u \in contract[t].required.tools : steps[t][u].state = "verified"
             /\ \A n \in contract[t].required.names : \E a \in rows[t] : a.name = n
             /\ \A f \in contract[t].required.fields :
                  \E a \in rows[t] : final[t][f] = a /\ f \in Texts[a.content]
      Proved ==
        \A t \in Task : (status[t] # "completed" /\ status'[t] = "completed") => Stands(t)
  <1>1. ETypeOK /\ JournalIsStrict /\ [ENext]_evars => [Proved]_evars
    <2> SUFFICES ASSUME ETypeOK, JournalIsStrict, ENext, NEW t \in Task,
                        status[t] # "completed", status'[t] = "completed"
                 PROVE  AcceptanceComplete(t)
      BY CompleteMeans
    <2>1. ASSUME NEW w \in Worker, Commit(w) PROVE AcceptanceComplete(t)
      BY <2>1 DEF Commit, ETypeOK, StatusOK
    <2>2. ASSUME NEW w \in Worker, NEW s \in Task, BeginComplete(w, s) PROVE FALSE
      BY <2>2 DEF BeginComplete, ETypeOK, StatusOK
    <2>3. ASSUME NEW w \in Worker, Reject(w) PROVE FALSE
      BY <2>3 DEF Reject, ETypeOK, StatusOK
    <2>4. ASSUME NEW s \in Task, Resume(s) \/ ExecuteTool(s) \/ Cancel(s) PROVE FALSE
      BY <2>4, Table DEF Resume, ExecuteTool, Cancel, ETypeOK, StatusOK
    <2>5. CASE UNCHANGED status
      BY <2>5
    <2>6. CASE Store
      BY <2>5, <2>6
      DEF Store, Create, Publish, CheckBlob, AddArtifact, Die, Damage, SameRecords
    <2>7. CASE Records
      BY <2>5, <2>7, RecordsKeep
    <2>8. CASE Judgement
      BY <2>1, <2>2, <2>3, <2>4, <2>5, <2>8 DEF Judgement, Judge
    <2> QED
      BY <2>6, <2>7, <2>8 DEF ENext
  <1> HIDE DEF Proved
  <1>2. EInit => JournalIsStrict
    BY DEF EInit, JournalIsStrict
  <1>3. ESpec => [][Proved]_evars
    BY <1>1, <1>2, JournalIsStrictStep, ETypeInit, ETypeStep, PTL DEF ESpec
  <1> QED
    BY <1>3 DEF Proved, CompletedOnEvidence
=============================================================================
