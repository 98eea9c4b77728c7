---------------------------- MODULE ToolApproval ----------------------------
(***************************************************************************)
(* dante/approvals.py and the admission part of ToolBroker.invoke in       *)
(* dante/tool_broker.py: an operation whose manifest says approval_policy  *)
(* 'always' runs only under an approval of exactly that action.            *)
(*                                                                         *)
(* An approval is bound to the digest of the task, the operation (manifest *)
(* and arguments) and the caller's plan; a journal row is found by its     *)
(* idempotency key, so several rows may stand for one operation.  An       *)
(* invocation reads the journal, consumes the approval, prepares the row   *)
(* and claims it in four transactions; other invocations, deciders and     *)
(* crashes come between any two.                                           *)
(***************************************************************************)
EXTENDS StepJournal, FiniteSets

CONSTANTS
    Op,             \* operations: a tool, its version and its arguments
    OpOf,           \* OpOf[k]: the operation every row with key k stands for
    Guarded,        \* operations with approval_policy 'always'
    Plan,           \* values of plan_hash
    Approval,       \* approval identifiers
    NoAction,       \* an approval that has not been requested
    NoInvocation    \* a process that is not inside ToolBroker.invoke

VARIABLES
    grant,          \* approvals.payload.status, or "none" without a row
    bound,          \* approvals.payload.target: the action approved
    inv             \* inv[w]: the invocation w has not yet claimed a row for

avars == <<grant, bound, inv>>
vars == <<status, jvars, avars>>

\* ToolBroker.action_hash
ActionHash == [task: Task, op: Op, plan: Plan]

Invocation == [task: Task, key: Key, plan: Plan, approval: Approval,
               at: {"authorize", "prepare", "claim"}]

ASSUME ApprovalConstants ==
    /\ OpOf \in [Key -> Op]
    /\ Guarded \subseteq Op
    /\ IsFiniteSet(Key) /\ IsFiniteSet(Approval) /\ IsFiniteSet(Worker)
    /\ NoInvocation \notin Invocation
    /\ NoAction \notin ActionHash

AInit ==
    /\ JInit
    /\ status = [t \in Task |-> "waiting_tool"]
    /\ grant = [a \in Approval |-> "none"]
    /\ bound = [a \in Approval |-> NoAction]
    /\ inv = [w \in Worker |-> NoInvocation]

-----------------------------------------------------------------------------
(* ApprovalManager.                                                        *)

\* request and request_tool; the identifier is new.
Request(a, hash) ==
    /\ grant[a] = "none"
    /\ grant' = [grant EXCEPT ![a] = "pending"]
    /\ bound' = [bound EXCEPT ![a] = hash]
    /\ UNCHANGED <<status, jvars, inv>>

\* Seeded fault: the token of a decided approval is still good.
DecideTwice(a, verdict) ==
    /\ grant[a] # "none"
    /\ grant' = [grant EXCEPT ![a] = verdict]
    /\ UNCHANGED <<status, jvars, bound, inv>>

\* decide, with the token and the plan hash of the request.
Decide(a, verdict) ==
    /\ grant[a] = "pending"
    /\ grant' = [grant EXCEPT ![a] = verdict]
    /\ UNCHANGED <<status, jvars, bound, inv>>

\* consume_action accepts the approval for this action.
Authorizes(a, hash) == grant[a] = "approved" /\ bound[a] = hash

-----------------------------------------------------------------------------
(* ToolBroker.invoke.                                                      *)

At(w, stage) == inv[w] # NoInvocation /\ inv[w].at = stage

Return(w) == inv' = [inv EXCEPT ![w] = NoInvocation]
GoTo(w, stage) == inv' = [inv EXCEPT ![w].at = stage]

\* preflight and lookup_step; a row past its intent is answered from the
\* journal and changes nothing.
Lookup(w, t, k, plan, a) ==
    /\ inv[w] = NoInvocation
    /\ call[w] = NoCall
    /\ status[t] # Missing
    /\ step[t][k] \in {"none", "intent"}
    /\ inv' = [inv EXCEPT ![w] = [task |-> t, key |-> k, plan |-> plan,
                                  approval |-> a, at |-> "authorize"]]
    /\ UNCHANGED <<status, jvars, grant, bound>>

\* The action inv[w] asks for.
HashOf(w) == [task |-> inv[w].task, op |-> OpOf[inv[w].key], plan |-> inv[w].plan]

\* Seeded fault: the approval is checked but not used up.
AuthorizeKeeps(w) ==
    /\ At(w, "authorize")
    /\ \/ /\ OpOf[inv[w].key] \notin Guarded
          /\ GoTo(w, "prepare")
          /\ UNCHANGED grant
       \/ /\ OpOf[inv[w].key] \in Guarded
          /\ Authorizes(inv[w].approval, HashOf(w))
          /\ GoTo(w, "prepare")
          /\ UNCHANGED grant
       \/ /\ OpOf[inv[w].key] \in Guarded
          /\ ~Authorizes(inv[w].approval, HashOf(w))
          /\ Return(w)
          /\ UNCHANGED grant
    /\ UNCHANGED <<status, jvars, bound>>

\* authorize: consume_action reads and uses up the approval in one transaction.
Authorize(w) ==
    /\ At(w, "authorize")
    /\ \/ /\ OpOf[inv[w].key] \notin Guarded
          /\ GoTo(w, "prepare")
          /\ UNCHANGED grant
       \/ /\ OpOf[inv[w].key] \in Guarded
          /\ Authorizes(inv[w].approval, HashOf(w))
          /\ grant' = [grant EXCEPT ![inv[w].approval] = "executed"]
          /\ GoTo(w, "prepare")
       \/ /\ OpOf[inv[w].key] \in Guarded
          /\ ~Authorizes(inv[w].approval, HashOf(w))
          /\ Return(w)
          /\ UNCHANGED grant
    /\ UNCHANGED <<status, jvars, bound>>

\* prepare_step: a new row, or the one that is there, whatever its state.
PrepareRow(w) ==
    /\ At(w, "prepare")
    /\ LET t == inv[w].task
           k == inv[w].key
       IN  /\ Active(t)
           /\ \/ Prepare(t, k)
              \/ step[t][k] # "none" /\ UNCHANGED jvars
    /\ GoTo(w, "claim")
    /\ UNCHANGED <<status, grant, bound>>

\* claim_step; from here the journal follows the call.
ClaimRow(w) ==
    /\ At(w, "claim")
    /\ ClaimStep(w, inv[w].task, inv[w].key)
    /\ Return(w)
    /\ UNCHANGED <<status, grant, bound>>

\* The task ended, or another invocation claimed the row, or the evidence of a
\* reconciled row is gone: the approval stays used.
Refused(w) ==
    /\ \/ At(w, "prepare") /\ ~Active(inv[w].task)
       \/ /\ At(w, "claim")
          /\ \/ ~Active(inv[w].task)
             \/ step[inv[w].task][inv[w].key] # "intent"
             \/ ~intact[inv[w].task][inv[w].key]
    /\ Return(w)
    /\ UNCHANGED <<status, jvars, grant, bound>>

\* Seeded fault: mark_uncertain does not ask whether the row is started.
FaultOverwrites(w) ==
    /\ inv[w] # NoInvocation
    /\ step' = [step EXCEPT ![inv[w].task][inv[w].key] = "uncertain"]
    /\ Return(w)
    /\ UNCHANGED <<status, intact, attempt, effects, call, threads, grant, bound>>

\* Any other exception (a busy or full database): mark_uncertain is called on a
\* row this invocation has seen, even if another one has started it meanwhile.
Fault(w) ==
    /\ inv[w] # NoInvocation
    /\ \/ MarkForeign(inv[w].task, inv[w].key)
       \/ UNCHANGED jvars
    /\ Return(w)
    /\ UNCHANGED <<status, grant, bound>>

\* The process dies inside invoke or inside the handler.
Die(w) ==
    /\ Kill(w)
    /\ Return(w)
    /\ UNCHANGED <<status, grant, bound>>

\* The rest of the journal's life.
JournalStep ==
    /\ \/ \E w \in Worker :
            Spawn(w) \/ Timeout(w) \/ FinishStep(w) \/ MarkUncertain(w) \/ Abandon(w)
       \/ \E th \in threads : HandlerEffect(th) \/ HandlerFail(th)
       \/ \E t \in Task, k \in Key : Reconcile(t, k) \/ Tamper(t, k)
    /\ UNCHANGED <<status, avars>>

\* The task is ended by some other component.
End(t) ==
    /\ Active(t)
    /\ status' = [status EXCEPT ![t] = "cancelled"]
    /\ UNCHANGED <<jvars, avars>>

ANext ==
    \/ \E a \in Approval :
        \/ \E hash \in ActionHash : Request(a, hash)
        \/ \E verdict \in {"approved", "rejected"} : Decide(a, verdict)
    \/ \E w \in Worker :
        \/ \E t \in Task, k \in Key, plan \in Plan, a \in Approval : Lookup(w, t, k, plan, a)
        \/ Authorize(w)
        \/ PrepareRow(w)
        \/ ClaimRow(w)
        \/ Refused(w)
        \/ Fault(w)
        \/ Die(w)
    \/ JournalStep
    \/ \E t \in Task : End(t)

ASpec == AInit /\ [][ANext]_vars

-----------------------------------------------------------------------------
(* Properties.                                                             *)

\* Every variable keeps its type.
ATypeOK ==
    /\ grant \in [Approval -> {"none", "pending", "approved", "rejected", "executed"}]
    /\ bound \in [Approval -> ActionHash \cup {NoAction}]
    /\ \A a \in Approval : bound[a] = NoAction <=> grant[a] = "none"
    /\ inv \in [Worker -> Invocation \cup {NoInvocation}]

\* The starts of operation o in task t, over all keys and all retries.
Starts(t, o) == {s \in Key \X (1..MaxAttempt) : OpOf[s[1]] = o /\ s[2] <= attempt[t][s[1]]}

\* The approvals of o in t that are used up.
Spent(t, o) ==
    {a \in Approval : /\ grant[a] = "executed"
                      /\ bound[a].task = t
                      /\ bound[a].op = o}

\* A guarded handler is never started without an approval of its own: however
\* invocations race, crash and are retried after reconciliation, under however
\* many idempotency keys, there is a used approval of exactly that task and
\* operation for every start (authorize before claim_step, consume_action).
EveryStartPaid ==
    \A t \in Task, o \in Guarded : Cardinality(Starts(t, o)) <= Cardinality(Spent(t, o))

\* When two people decide on the same request, the first decision stands: an approval
\* that was given is only ever used up, one that was rejected or used stays so, none is
\* used without having been given, and none changes what it is bound to (the consumed
\* flag of decide, consume_action).
DecisionStands ==
    [][\A a \in Approval :
         /\ grant[a] = "approved" => grant'[a] \in {"approved", "executed"}
         /\ grant[a] \in {"rejected", "executed"} => grant'[a] = grant[a]
         /\ grant'[a] = "executed" => grant[a] \in {"approved", "executed"}
         /\ grant[a] # "none" => bound'[a] = bound[a]]_vars

\* Admission takes only steps the journal allows, so what is proved of
\* StepJournal holds of every invocation.
AdmissionRefinesJournal == JSpec
=============================================================================
