------------------------- MODULE ToolApprovalProofs -------------------------
(***************************************************************************)
(* What is proved of ToolApproval for any processes, keys, operations,     *)
(* plans, approvals and number of attempts: its types, that admission is a *)
(* user of the step journal, and that no start goes unpaid.                *)
(***************************************************************************)
EXTENDS ToolApproval, LedgerProofs, FiniteSetTheorems

-----------------------------------------------------------------------------
(* Admission refines the journal.                                          *)

LEMMA InvocationStep ==
    ASSUME NEW w \in Worker, inv[w] \in Invocation
    PROVE  /\ PrepareRow(w) => [JNext]_jvars
           /\ ClaimRow(w) => JNext
           /\ Fault(w) => [JNext]_jvars
           /\ Die(w) => JNext
  BY DEF PrepareRow, ClaimRow, Fault, Die, JNext, Invocation

\* What is proved of the journal holds of every invocation
\* (AdmissionRefinesJournal).
LEMMA AStepRefines == ATypeOK /\ [ANext]_vars => [JNext]_jvars
  <1> SUFFICES ASSUME ATypeOK, [ANext]_vars PROVE [JNext]_jvars
    OBVIOUS
  <1>1. ASSUME NEW w \in Worker, PrepareRow(w) \/ ClaimRow(w) \/ Fault(w)
        PROVE [JNext]_jvars
    <2>1. inv[w] \in Invocation
      BY <1>1 DEF ATypeOK, PrepareRow, ClaimRow, Fault, At
    <2> QED
      BY <1>1, <2>1, InvocationStep
  <1>2. ASSUME NEW w \in Worker, Die(w) PROVE [JNext]_jvars
    BY <1>2 DEF Die, JNext
  <1>3. CASE JournalStep
    BY <1>3 DEF JournalStep, JNext
  <1>4. CASE UNCHANGED jvars
    BY <1>4
  <1> QED
    BY <1>1, <1>2, <1>3, <1>4
    DEF ANext, Request, Decide, Lookup, Authorize, Refused, End, vars

-----------------------------------------------------------------------------
(* Types.                                                                  *)

LEMMA ATypeInit == AInit => ATypeOK
  BY ApprovalConstants DEF AInit, ATypeOK

LEMMA ATypeStep == ATypeOK /\ [ANext]_vars => ATypeOK'
  <1> SUFFICES ASSUME ATypeOK, [ANext]_vars PROVE ATypeOK'
    OBVIOUS
  <1> USE ApprovalConstants DEF ATypeOK
  <1>1. ASSUME NEW a \in Approval, NEW hash \in ActionHash, Request(a, hash) PROVE ATypeOK'
    BY <1>1 DEF Request
  <1>2. ASSUME NEW a \in Approval, NEW verdict \in {"approved", "rejected"},
               Decide(a, verdict)
        PROVE ATypeOK'
    BY <1>2 DEF Decide
  <1>3. ASSUME NEW w \in Worker, NEW t \in Task, NEW k \in Key, NEW plan \in Plan,
               NEW a \in Approval, Lookup(w, t, k, plan, a)
        PROVE ATypeOK'
    BY <1>3 DEF Lookup, Invocation
  <1>4. ASSUME NEW w \in Worker, Authorize(w) PROVE ATypeOK'
    <2>1. inv[w] \in Invocation
      BY <1>4 DEF Authorize, At
    <2>2. inv' \in [Worker -> Invocation \cup {NoInvocation}]
      BY <1>4, <2>1 DEF Authorize, GoTo, Return, Invocation
    <2>3. grant' \in [Approval -> {"none", "pending", "approved", "rejected", "executed"}]
          /\ \A a \in Approval : grant'[a] = "none" <=> grant[a] = "none"
      BY <1>4, <2>1 DEF Authorize, Authorizes, Invocation
    <2> QED
      BY <1>4, <2>2, <2>3 DEF Authorize
  <1>5. ASSUME NEW w \in Worker, PrepareRow(w) PROVE ATypeOK'
    <2>1. inv[w] \in Invocation
      BY <1>5 DEF PrepareRow, At
    <2> QED
      BY <1>5, <2>1 DEF PrepareRow, GoTo, Invocation
  <1>6. ASSUME NEW w \in Worker, ClaimRow(w) \/ Refused(w) \/ Fault(w) \/ Die(w)
        PROVE ATypeOK'
    BY <1>6 DEF ClaimRow, Refused, Fault, Die, Return
  <1>7. CASE UNCHANGED avars
    BY <1>7 DEF avars
  <1> QED
    BY <1>1, <1>2, <1>3, <1>4, <1>5, <1>6, <1>7 DEF ANext, JournalStep, End, vars

\* Type correctness of approvals and invocations.
THEOREM ATypeCorrect == ASpec => []ATypeOK
  BY ATypeInit, ATypeStep, PTL DEF ASpec

THEOREM AdmissionUsesJournal == ASpec => AdmissionRefinesJournal
  <1>1. AInit => JInit
    BY DEF AInit
  <1> QED
    BY <1>1, ATypeCorrect, AStepRefines, PTL DEF ASpec, JSpec, AdmissionRefinesJournal

-----------------------------------------------------------------------------
(* Every start is paid.  The inductive invariant also counts the           *)
(* invocations that have used up their approval and have not started yet.  *)

HoldsGrant(w, t, o) ==
    /\ inv[w] # NoInvocation
    /\ inv[w].at \in {"prepare", "claim"}
    /\ inv[w].task = t
    /\ OpOf[inv[w].key] = o

Holding(t, o) == {w \in Worker : HoldsGrant(w, t, o)}

PaidAhead ==
    \A t \in Task, o \in Guarded :
        Cardinality(Starts(t, o)) + Cardinality(Holding(t, o)) <= Cardinality(Spent(t, o))

\* The possible starts are finitely many.
LEMMA FiniteAttempts == IsFiniteSet(Key \X (1..MaxAttempt))
  <1>1. 1 \in Int /\ MaxAttempt \in Int
    BY JournalConstants
  <1>2. IsFiniteSet(1..MaxAttempt)
    BY <1>1, FS_Interval
  <1>3. IsFiniteSet(Key)
    BY ApprovalConstants
  <1> QED
    BY <1>2, <1>3, FS_Product

\* Adding one element adds at most one to the cardinality.
LEMMA AtMostOneMore ==
    ASSUME NEW S, NEW x, IsFiniteSet(S), NEW T \in SUBSET (S \cup {x})
    PROVE  IsFiniteSet(T) /\ Cardinality(T) <= Cardinality(S) + 1
  <1>1. IsFiniteSet(S \cup {x})
    BY FS_AddElement
  <1>2. Cardinality(S \cup {x}) = IF x \in S THEN Cardinality(S) ELSE Cardinality(S) + 1
    BY FS_AddElement
  <1>3. IsFiniteSet(T) /\ Cardinality(T) <= Cardinality(S \cup {x})
    BY <1>1, FS_Subset
  <1>4. Cardinality(S) \in Nat /\ Cardinality(T) \in Nat
    BY <1>3, FS_CardinalityType
  <1> QED
    BY <1>2, <1>3, <1>4

LEMMA Finite ==
    \A t \in Task, o \in Op :
        /\ IsFiniteSet(Starts(t, o)) /\ Cardinality(Starts(t, o)) \in Nat
        /\ IsFiniteSet(Holding(t, o)) /\ Cardinality(Holding(t, o)) \in Nat
        /\ IsFiniteSet(Spent(t, o)) /\ Cardinality(Spent(t, o)) \in Nat
  <1> TAKE t \in Task, o \in Op
  <1>2. IsFiniteSet(Starts(t, o))
    BY FiniteAttempts, FS_Subset DEF Starts
  <1>3. IsFiniteSet(Holding(t, o))
    BY FS_Subset, ApprovalConstants DEF Holding
  <1>4. IsFiniteSet(Spent(t, o))
    BY FS_Subset, ApprovalConstants DEF Spent
  <1> QED
    BY <1>2, <1>3, <1>4, FS_CardinalityType

\* The same sets a step later.
LEMMA FiniteNext ==
    ASSUME JTypeOK', NEW t \in Task, NEW o \in Op
    PROVE  /\ IsFiniteSet(Starts(t, o)') /\ Cardinality(Starts(t, o)') \in Nat
           /\ IsFiniteSet(Holding(t, o)') /\ Cardinality(Holding(t, o)') \in Nat
           /\ IsFiniteSet(Spent(t, o)') /\ Cardinality(Spent(t, o)') \in Nat
  <1>2. IsFiniteSet(Starts(t, o)')
    BY FiniteAttempts, FS_Subset DEF Starts
  <1>3. IsFiniteSet(Holding(t, o)')
    BY FS_Subset, ApprovalConstants DEF Holding
  <1>4. IsFiniteSet(Spent(t, o)')
    BY FS_Subset, ApprovalConstants DEF Spent
  <1> QED
    BY <1>2, <1>3, <1>4, FS_CardinalityType

\* A step that starts nothing, uses up nothing and admits nobody.
LEMMA PaidFrame ==
    ASSUME JTypeOK', PaidAhead, attempt' = attempt,
           \A w \in Worker, t \in Task, o \in Op : HoldsGrant(w, t, o)' => HoldsGrant(w, t, o),
           \A t \in Task, o \in Op : Spent(t, o) \subseteq Spent(t, o)'
    PROVE  PaidAhead'
  <1> SUFFICES ASSUME NEW t \in Task, NEW o \in Guarded
               PROVE  Cardinality(Starts(t, o)') + Cardinality(Holding(t, o)')
                        <= Cardinality(Spent(t, o)')
    BY DEF PaidAhead
  <1>0. o \in Op
    BY ApprovalConstants
  <1>1. Starts(t, o)' = Starts(t, o)
    BY DEF Starts
  <1>2. Cardinality(Holding(t, o)') <= Cardinality(Holding(t, o))
    <2>1. Holding(t, o)' \subseteq Holding(t, o)
      BY <1>0 DEF Holding
    <2> QED
      BY <1>0, <2>1, Finite, FS_Subset
  <1>3. Cardinality(Spent(t, o)) <= Cardinality(Spent(t, o)')
    BY <1>0, FiniteNext, FS_Subset
  <1>4. Cardinality(Starts(t, o)) + Cardinality(Holding(t, o)) <= Cardinality(Spent(t, o))
    BY DEF PaidAhead
  <1> QED
    BY <1>0, <1>1, <1>2, <1>3, <1>4, Finite, FiniteNext

LEMMA PaidInit == AInit => PaidAhead
  <1> SUFFICES ASSUME AInit, NEW t \in Task, NEW o \in Guarded
               PROVE  Cardinality(Starts(t, o)) + Cardinality(Holding(t, o))
                        <= Cardinality(Spent(t, o))
    BY DEF PaidAhead
  <1>1. Starts(t, o) = {}
    BY DEF AInit, JInit, Starts
  <1>2. Holding(t, o) = {}
    BY DEF AInit, Holding, HoldsGrant
  <1>3. o \in Op
    BY ApprovalConstants
  <1> QED
    BY <1>1, <1>2, <1>3, FS_EmptySet, Finite

LEMMA PaidStep == JTypeOK /\ JTypeOK' /\ ATypeOK /\ PaidAhead /\ [ANext]_vars => PaidAhead'
  <1> SUFFICES ASSUME JTypeOK, JTypeOK', ATypeOK, PaidAhead, [ANext]_vars PROVE PaidAhead'
    OBVIOUS
  <1>1. ASSUME NEW a \in Approval, NEW hash \in ActionHash, Request(a, hash) PROVE PaidAhead'
    BY <1>1, PaidFrame DEF Request, jvars, HoldsGrant, Spent, ATypeOK
  <1>2. ASSUME NEW a \in Approval, NEW verdict \in {"approved", "rejected"},
               Decide(a, verdict)
        PROVE PaidAhead'
    BY <1>2, PaidFrame DEF Decide, jvars, HoldsGrant, Spent, ATypeOK
  <1>3. ASSUME NEW w \in Worker, NEW t \in Task, NEW k \in Key, NEW plan \in Plan,
               NEW a \in Approval, Lookup(w, t, k, plan, a)
        PROVE PaidAhead'
    BY <1>3, PaidFrame DEF Lookup, jvars, HoldsGrant, Spent, ATypeOK
  <1>4. ASSUME NEW w \in Worker, Authorize(w) PROVE PaidAhead'
    <2> DEFINE u == inv[w].task
               a == inv[w].approval
               p == OpOf[inv[w].key]
    <2>1. inv[w] \in Invocation /\ u \in Task /\ a \in Approval /\ p \in Op
      BY <1>4, ApprovalConstants DEF Authorize, At, ATypeOK, Invocation
    <2>2. attempt' = attempt
      BY <1>4 DEF Authorize, jvars
    <2>3. \A v \in Worker \ {w}, t \in Task, o \in Op : HoldsGrant(v, t, o)' => HoldsGrant(v, t, o)
      BY <1>4 DEF Authorize, GoTo, Return, HoldsGrant, ATypeOK
    <2>4. CASE p \in Guarded /\ Authorizes(a, HashOf(w))
      \* One more approval of the operation is used, and w alone may start it.
      <3>1. /\ grant' = [grant EXCEPT ![a] = "executed"] /\ bound' = bound
            /\ grant[a] = "approved" /\ bound[a].task = u /\ bound[a].op = p
        BY <1>4, <2>4 DEF Authorize, Authorizes, HashOf
      <3>2. \A t \in Task, o \in Op : HoldsGrant(w, t, o)' => t = u /\ o = p
        BY <1>4, <2>1, <2>4 DEF Authorize, GoTo, HoldsGrant, ATypeOK, Invocation
      <3> SUFFICES ASSUME NEW t \in Task, NEW o \in Guarded
                   PROVE  Cardinality(Starts(t, o)') + Cardinality(Holding(t, o)')
                            <= Cardinality(Spent(t, o)')
        BY DEF PaidAhead
      <3>3. o \in Op
        BY ApprovalConstants
      <3>4. Starts(t, o)' = Starts(t, o)
        BY <2>2 DEF Starts
      <3>5. Cardinality(Starts(t, o)) + Cardinality(Holding(t, o)) <= Cardinality(Spent(t, o))
        BY DEF PaidAhead
      <3>6. CASE t = u /\ o = p
        <4>1. Spent(t, o)' = Spent(t, o) \cup {a} /\ a \notin Spent(t, o)
          BY <2>1, <3>1, <3>6 DEF Spent, ATypeOK
        <4>2. Cardinality(Spent(t, o)') = Cardinality(Spent(t, o)) + 1
          BY <3>3, <4>1, Finite, FS_AddElement
        <4>3. Holding(t, o)' \subseteq Holding(t, o) \cup {w}
          BY <2>3, <3>3 DEF Holding
        <4>4. Cardinality(Holding(t, o)') <= Cardinality(Holding(t, o)) + 1
          BY <3>3, <4>3, Finite, AtMostOneMore
        <4> QED
          BY <3>3, <3>4, <3>5, <4>2, <4>4, Finite, FiniteNext
      <3>7. CASE ~(t = u /\ o = p)
        <4>1. Spent(t, o)' = Spent(t, o)
          BY <2>1, <3>1, <3>7 DEF Spent, ATypeOK
        <4>2. Holding(t, o)' \subseteq Holding(t, o)
          BY <2>3, <3>2, <3>3, <3>7 DEF Holding
        <4>3. Cardinality(Holding(t, o)') <= Cardinality(Holding(t, o))
          BY <3>3, <4>2, Finite, FS_Subset
        <4> QED
          BY <3>3, <3>4, <3>5, <4>1, <4>3, Finite, FiniteNext
      <3> QED
        BY <3>6, <3>7
    <2>5. CASE p \in Guarded /\ ~Authorizes(a, HashOf(w))
      BY <1>4, <2>2, <2>3, <2>5, PaidFrame DEF Authorize, Return, HoldsGrant, Spent, ATypeOK
    <2>6. CASE p \notin Guarded
      \* An operation that needs no approval holds none of a guarded one.
      <3>1. grant' = grant /\ bound' = bound
        BY <1>4, <2>6 DEF Authorize
      <3>2. \A t \in Task, o \in Guarded : Holding(t, o)' \subseteq Holding(t, o)
        BY <1>4, <2>1, <2>3, <2>6, ApprovalConstants
        DEF Authorize, GoTo, Holding, HoldsGrant, ATypeOK, Invocation
      <3> SUFFICES ASSUME NEW t \in Task, NEW o \in Guarded
                   PROVE  Cardinality(Starts(t, o)') + Cardinality(Holding(t, o)')
                            <= Cardinality(Spent(t, o)')
        BY DEF PaidAhead
      <3>3. o \in Op
        BY ApprovalConstants
      <3>4. Starts(t, o)' = Starts(t, o) /\ Spent(t, o)' = Spent(t, o)
        BY <2>2, <3>1 DEF Starts, Spent
      <3>5. Cardinality(Starts(t, o)) + Cardinality(Holding(t, o)) <= Cardinality(Spent(t, o))
        BY DEF PaidAhead
      <3>6. Cardinality(Holding(t, o)') <= Cardinality(Holding(t, o))
        BY <3>2, <3>3, Finite, FS_Subset
      <3> QED
        BY <3>3, <3>4, <3>5, <3>6, Finite, FiniteNext
    <2> QED
      BY <2>4, <2>5, <2>6
  <1>5. ASSUME NEW w \in Worker, PrepareRow(w) PROVE PaidAhead'
    BY <1>5, PaidFrame DEF PrepareRow, Prepare, jvars, At, GoTo, HoldsGrant, Spent,
                           ATypeOK, Invocation
  <1>6. ASSUME NEW w \in Worker, ClaimRow(w) PROVE PaidAhead'
    \* The start takes the place of the invocation that held its approval.
    <2> DEFINE u == inv[w].task
               k == inv[w].key
               p == OpOf[k]
               n == attempt[u][k] + 1
    <2>1. inv[w] \in Invocation /\ u \in Task /\ k \in Key /\ p \in Op
      BY <1>6, ApprovalConstants DEF ClaimRow, At, ATypeOK, Invocation
    <2>2. /\ attempt' = [attempt EXCEPT ![u][k] = n]
          /\ inv' = [inv EXCEPT ![w] = NoInvocation]
          /\ grant' = grant /\ bound' = bound
          /\ HoldsGrant(w, u, p)
      BY <1>6 DEF ClaimRow, ClaimStep, Return, At, HoldsGrant
    <2>3. n \in 1..MaxAttempt
      BY <1>6, <2>1, JournalConstants DEF ClaimRow, ClaimStep, JTypeOK
    <2> SUFFICES ASSUME NEW t \in Task, NEW o \in Guarded
                 PROVE  Cardinality(Starts(t, o)') + Cardinality(Holding(t, o)')
                          <= Cardinality(Spent(t, o)')
      BY DEF PaidAhead
    <2>4. o \in Op
      BY ApprovalConstants
    <2>5. Spent(t, o)' = Spent(t, o)
      BY <2>2 DEF Spent
    <2>6. Cardinality(Starts(t, o)) + Cardinality(Holding(t, o)) <= Cardinality(Spent(t, o))
      BY DEF PaidAhead
    <2>7. \A v \in Worker : HoldsGrant(v, t, o)' <=> (HoldsGrant(v, t, o) /\ v # w)
      BY <2>2 DEF HoldsGrant, ATypeOK
    <2>8. Holding(t, o)' = Holding(t, o) \ {w}
      BY <2>7 DEF Holding
    <2>9. CASE t = u /\ o = p
      <3>1. w \in Holding(t, o)
        BY <2>2, <2>9 DEF Holding
      <3>2. Cardinality(Holding(t, o)') = Cardinality(Holding(t, o)) - 1
        BY <2>4, <2>8, <3>1, Finite, FS_RemoveElement
      <3>3. \A s \in Key \X (1..MaxAttempt) :
              s[2] <= attempt'[t][s[1]] => s[2] <= attempt[t][s[1]] \/ s = <<k, n>>
        <4> TAKE s \in Key \X (1..MaxAttempt)
        <4>1. s = <<s[1], s[2]>> /\ s[1] \in Key /\ s[2] \in Nat
          OBVIOUS
        <4>2. attempt'[t][s[1]] = IF s[1] = k THEN n ELSE attempt[t][s[1]]
          BY <2>1, <2>2, <2>9, <4>1 DEF JTypeOK
        <4>3. attempt[u][k] \in Nat
          BY <2>1 DEF JTypeOK
        <4> QED
          BY <2>9, <4>1, <4>2, <4>3
      <3>4. Starts(t, o)' \subseteq Starts(t, o) \cup {<<k, n>>}
        BY <3>3 DEF Starts
      <3>5. Cardinality(Starts(t, o)') <= Cardinality(Starts(t, o)) + 1
        BY <2>4, <3>4, Finite, AtMostOneMore
      <3> QED
        BY <2>4, <2>5, <2>6, <3>2, <3>5, Finite, FiniteNext
    <2>10. CASE ~(t = u /\ o = p)
      <3>1. \A j \in Key : OpOf[j] = o => attempt'[t][j] = attempt[t][j]
        BY <2>1, <2>2, <2>10 DEF JTypeOK
      <3>2. Starts(t, o)' = Starts(t, o)
        BY <3>1 DEF Starts
      <3>3. Cardinality(Holding(t, o)') <= Cardinality(Holding(t, o))
        BY <2>4, <2>8, Finite, FS_Subset
      <3> QED
        BY <2>4, <2>5, <2>6, <3>2, <3>3, Finite, FiniteNext
    <2> QED
      BY <2>9, <2>10
  <1>7. ASSUME NEW w \in Worker, Refused(w) \/ Fault(w) \/ Die(w) PROVE PaidAhead'
    <2>1. attempt' = attempt /\ grant' = grant /\ bound' = bound
      BY <1>7 DEF Refused, Fault, Die, MarkForeign, Kill, jvars
    <2>2. inv' = [inv EXCEPT ![w] = NoInvocation]
      BY <1>7 DEF Refused, Fault, Die, Return
    <2> QED
      BY <2>1, <2>2, PaidFrame DEF HoldsGrant, Spent, ATypeOK
  <1>8. ASSUME attempt' = attempt, UNCHANGED avars PROVE PaidAhead'
    BY <1>8, PaidFrame DEF avars, HoldsGrant, Spent
  <1>9. CASE JournalStep
    BY <1>8, <1>9 DEF JournalStep, Spawn, Timeout, FinishStep, MarkUncertain, Abandon,
                      HandlerEffect, HandlerFail, Reconcile, Tamper
  <1> QED
    BY <1>1, <1>2, <1>3, <1>4, <1>5, <1>6, <1>7, <1>8, <1>9
    DEF ANext, End, vars, jvars

\* No guarded handler is started without an approval of its own
\* (EveryStartPaid).
THEOREM NoUnpaidStart == ASpec => []EveryStartPaid
  <1>1. JTypeOK /\ ATypeOK /\ PaidAhead /\ [ANext]_vars => JTypeOK' /\ ATypeOK' /\ PaidAhead'
    BY AStepRefines, JTypeStep, ATypeStep, PaidStep
  <1>2. AInit => JTypeOK /\ ATypeOK /\ PaidAhead
    BY JTypeInit, ATypeInit, PaidInit DEF AInit
  <1>3. PaidAhead => EveryStartPaid
    <2> SUFFICES ASSUME PaidAhead, NEW t \in Task, NEW o \in Guarded
                 PROVE  Cardinality(Starts(t, o)) <= Cardinality(Spent(t, o))
      BY DEF EveryStartPaid
    <2>1. Cardinality(Starts(t, o)) + Cardinality(Holding(t, o)) <= Cardinality(Spent(t, o))
      BY DEF PaidAhead
    <2> QED
      BY <2>1, Finite, ApprovalConstants
  <1> QED
    BY <1>1, <1>2, <1>3, PTL DEF ASpec
-----------------------------------------------------------------------------
\* The first decision on an approval stands: given, it is only ever used up; rejected or
\* used, it stays so; and it keeps what it is bound to (DecisionStands, decide).
THEOREM DecisionsAreFinal == ASpec => DecisionStands
  <1> DEFINE Stands ==
        \A a \in Approval :
            /\ grant[a] = "approved" => grant'[a] \in {"approved", "executed"}
            /\ grant[a] \in {"rejected", "executed"} => grant'[a] = grant[a]
            /\ grant'[a] = "executed" => grant[a] \in {"approved", "executed"}
            /\ grant[a] # "none" => bound'[a] = bound[a]
  <1>1. ATypeOK /\ [ANext]_vars => [Stands]_vars
    <2> SUFFICES ASSUME ATypeOK, ANext PROVE Stands
      OBVIOUS
    <2>1. ASSUME grant' = grant, bound' = bound PROVE Stands
      BY <2>1
    <2>2. ASSUME NEW a \in Approval, NEW hash \in ActionHash, Request(a, hash) PROVE Stands
      BY <2>2 DEF Request, ATypeOK
    <2>3. ASSUME NEW a \in Approval, NEW verdict \in {"approved", "rejected"},
                 Decide(a, verdict)
          PROVE Stands
      BY <2>3 DEF Decide, ATypeOK
    <2>4. ASSUME NEW w \in Worker, Authorize(w) PROVE Stands
      BY <2>4 DEF Authorize, Authorizes, ATypeOK
    <2> QED
      BY <2>1, <2>2, <2>3, <2>4
      DEF ANext, Lookup, PrepareRow, ClaimRow, Refused, Fault, Die, JournalStep, End, avars
  <1> HIDE DEF Stands
  <1>2. ASpec => [][Stands]_vars
    BY <1>1, ATypeCorrect, PTL DEF ASpec
  <1> QED
    BY <1>2 DEF Stands, DecisionStands
=============================================================================
