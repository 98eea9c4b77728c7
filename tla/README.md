# Formal verification of Dante

TLA+ models of `dante/`, the TLC configurations that check them, and TLAPS proofs.
The models are translated from the source; `PROJECT.json` maps each definition to the
lines it stands for, lists the runs, the seeded faults each property is known to
catch, the hazards of the code, and the theorems.

Check a module: `tlc -workers 2 -config MCTaskQueue.cfg MCTaskQueue`.
Check the proofs: `tlapm LedgerProofs.tla`, and so for every `*Proofs.tla`.

## 1. The system

Dante runs tasks on one machine. A task has a plan of tool actions; worker processes
take tasks from a SQLite queue, execute the actions through a tool broker that keeps a
journal of what it started, ask models for inference through a router, and finish a
task when the evidence it left satisfies its acceptance contract. All processes share
one SQLite file. Every ledger and queue operation is one `BEGIN IMMEDIATE`
transaction, so operations are atomic and interleave freely; what spans several
transactions, a file, a thread or a call is where things can go wrong.

| Component | State | Operations | Talks to | What is hard | What makes it correct |
|---|---|---|---|---|---|
| Ledger: task status (`ledger.py`) | `tasks.status` | `create_task`, `transition` | everyone | five kinds of writers of one status | terminal statuses are final; only table transitions |
| Queue (`task_queue.py`) | `task_queue`, the `Lease` object of each worker | `submit`, `claim`, `heartbeat`, `advance`, `release`, `cancel`, `retry`, `recover_expired`, `boundary`, `assert_lease` | ledger (same transaction) | suspended owners, expiry against heartbeat, cancellation against everything | a lease fences; a cancellation is never lost; row and status agree |
| Step journal (`ledger.py`, `recovery.py`) | `execution_steps`, receipts | `prepare_step`, `claim_step`, `finish_step`, `mark_uncertain`, `reconcile_step`, `verified_step_result` | broker, queue recovery | handler threads outlive their timeout and their process | at most one effect per step; no false record |
| Tool broker, approvals (`tool_broker.py`, `approvals.py`) | `approvals` | `invoke`, `authorize`, `request`, `decide`, `consume_action` | journal | several transactions between check and start | each guarded start uses up one approval |
| Worker, host (`worker.py`, `agent_host.py`) | a program counter, the stop event, the heartbeat thread | `run_once`, `execute_tool_and_checkpoint`, `resume`, `complete` | queue, journal | crash between any two steps; pause past the lease | what is completed was done, once, in order; tasks settle |
| Continuity (`continuity.py`) | `backend_observations`, `task_continuity` | `infer`, `observe`, `_reserve`, `_outcome` | router, gateway, queue | calls of minutes; several owners; a clock | bounded attempts, respected delays, mute stale owners |
| Privacy, registry, router, gateway (`privacy.py`, `registry.py`, `routing.py`, `inference.py`) | the registry; a request in progress | `classify`, `register`, `promote`, `require_automatic`, `decide`, `continuity_candidates`, `infer` | qualification gate, adapters | a decision is old when it is used | private stays local; nothing paid; fit local models only |
| Artifacts, acceptance (`artifacts.py`, `acceptance.py`) | blobs, rows, contracts, attestations | `create`, `add_artifact`, `bind_acceptance`, `record_observations`, `record_final_evidence`, `complete` | journal, ledger | a directory no lock covers; two judgements | rows have their content; completed on evidence that stands |
| Qualification (`qualification.py`) | an append-only log, one run | `run`, `append`, `latest`, `assess`, `require_qualified` | probes, registry gate | crash in a run; facts that change | only the newest run qualifies, for facts it measured |
| Node identity (`node_bootstrap.py`) | one file | `persistent_node_id`, `inspect_node`, `bootstrap_node` | profiles in the ledger | racing first starts, no lock on the directory | one identity |
| Migrations (`ledger.py`, `migrations.py`) | the schema | `_initialize`, `migrate` | every process that starts | racing or dying start-ups; base tables are committed one by one | the version tells the truth about the tables |
| Workspace tool (`ai_cloud_workspace.py`) | files, temporary files, an audit log | `write_text_file`, `save_*`, `download_*`, `ensure_workspace`, `file_exists` | broker, receipts | calls in threads that outlive their timeout; test, then replace | whole files; replies and receipts that hold |
| Adapters (`local_runtime.py`, `inference.py`) | none | `complete` and its errors | continuity | which reply is which error, with which delay | the delay asked for is the delay respected |
| Probes, contracts, CLI, configuration, telemetry, evals | - | - | - | parsing and formatting | - |

The hazards that follow from this are listed, at their lines and with the properties
that cover them, under `hazards` in `PROJECT.json`.

## 2. The modules

```
TaskStates            statuses, TRANSITIONS, TERMINAL
  |-- TaskQueue ------- refines --> FencedLease
  |-- StepJournal
  |     `-- ToolApproval (extends; refines StepJournal)
  |-- Evidence
DanteWorker = TaskQueue + StepJournal + workers, crashes, clock (refines both,
                                                        and TaskLife)
ProviderErrors <-- Continuity        Qualification     Routing
Preflight <-- Workspace              NodeStartup -- refines --> WriteOnce
                    `---- MCNode ----'
```

**TaskStates** holds what the others share: the statuses and the transition table of
`ledger.py:17`.

**TaskQueue** models `task_queue.py`. A row is spread over functions of the task
(`qstate`, `owner`, `gen`, `lease`, `wait`, `cancel`, `next`); `held[w]` is the `Lease`
object a worker acts under, fresh or stale. Each operation is one action, the parts
that write two tables included (`release` and `recover_expired` carry out the
cancellation they find). Time stamps are kept as the ticks left until they are due.
Columns no guard reads (`attempt`, `retry_count`, `heartbeat_at`, ...) are left out,
and of the `ORDER BY` of `claim` only that it takes some runnable row.

**FencedLease** is the abstract promise: one holder, every grant a new epoch, data
written under the epoch of the present holder, and otherwise only while nobody holds.
`TaskQueue` implements it with holder = the owner of a live leased row, epoch =
`generation`, data = status and next action.

**StepJournal** models the `execution_steps` operations and the handler threads
started by `tool_broker.py:172`. `effects` is a history the program cannot read: how
often a handler really acted. Steps of a task in any status the environment chooses,
and without any lease, so that what it shows does not rest on the queue.
Reconciliation is by an operator who tells the truth and who waits until no executor
is left, as the code requires of its caller; this is an assumption.

**ToolApproval** extends the journal with `ToolBroker.invoke` from the lookup to the
start: `Lookup`, `Authorize` (with `consume_action`), `PrepareRow`, `ClaimRow`,
`Refused`, `Fault`, and `request`/`decide` of approvals, by several invocations at
once. An approval is bound to an action hash, taken as injective. The token check is
left out of it: whoever decides knows the token, once. `DecisionStands` speaks of each
step of each approval: one that was given can only be used up, one that was rejected or
used stays so, none is used without having been given.

**DanteWorker** composes queue and journal: `pc[w]` names the next transaction of
`run_once`, of `execute_tool_and_checkpoint` or of `complete`; `Renew` is the heartbeat
thread, which ends when its lease is refused, and `HeartbeatGivesUp` is the same thread
ended by any other exception, while its worker still owns the task; `Lost` is `LeaseLost`,
`Fail`, `FailTerminal` and `ReleaseTask` are the except clauses. A host that cannot be made
(`MakeHost`) and a tool whose version is not the plan's (`Loop`) end in `Fail` as well.
`Crash`, `RequestStop`, a heartbeat that gives up, deferral by a host, tampered receipts
and operator retries share the bound `MaxFaults`. A read and the fenced write it decides are one
step: under a valid lease only its owner writes the row, and without one the write is
refused whatever was read. `QueueRefined` and `JournalRefined` say that the composition
only takes steps of the two components.

**TaskLife** is what all of that promises the owner of a task, without worker, lease or
journal: actions begin one at a time and in order while the task is open, take effect
at most once, all of them before completion, and the task ends once. The composition
implements it with *done* = the effects of each action, *busy* = the actions somebody may
still carry out, *fate* = whether the task is missing, open, completed or over. Two things
that are easily taken for granted are not in it, because the code does not give
them: an action begun before a cancellation may take effect after it, and one whose
process died is begun again only when an operator has reconciled it.

**Continuity** models the loop of `ContinuityManager.infer` stage by stage (`look`,
`reserve`, `route`, `call`, `blame` or `credit`, `observe`, `outcome`), each stage a
transaction, between which leases may be lost, tasks cancelled and processes die.
Windows, cooldowns and deferrals are countdowns; the lease appears as its holder only.
`retry_at` is treated as the delay it amounts to. While a cooldown is set, the code
looks at nothing but the cooldown, so one failure state stands for all. A failing call
is any reply `ProviderErrors` admits; a call that raises what is no `InferenceError`
(`Raise`) leaves `infer` with its attempt counted and nothing else written.

**ProviderErrors** follows a reply of a provider through the adapter (status code, how the
body arrives and what it says, delay headers) to the typed error and through `classify`
to the verdict the loop acts on, together with the delay the error carries. Some delays are
lost in the code, and in the model: a local adapter reads the body before it looks at
the status, so a refusal whose body is too big, stalls, breaks off or cannot be decoded
has neither status nor `Retry-After` any more (`LocalError`, `HeadersSeen`), and
`reset_at_seconds` reads a reset given in seconds as a time long past (`ResetAt`). A body that
cannot be decoded, or breaks off within an error of LiteLLM, is not even an
`InferenceError` (`untyped`). `Asked` is what a provider asks for in a refusal that arrives
whole and in the form the code reads; `PoliteCall` compares what the next call respects
with that, so an adapter that drops a header breaks it.

**Qualification** models one scope (node, runtime, backend, model): `facts` are what a
probe would observe now, `Observe`, `Intend`, `RunCheck`, `Reobserve`, `CompleteRun` the
runner, `Status` and `RequireQualified` the gate. One run at a time, as
`docs/node-qualification.md:88` asks. Payload digests are taken as matching.

**Routing** models one call of `AgentHostFoundation.infer`: `Ask` classifies, `Decide`
or `Select` routes, `Skip`/`Admit`/`Send`/`Unavailable`/`Exhaust` are the gateway's
loop over the candidates. Between any two of them a model may be registered again,
promoted, or lose its file or its qualification (within `src/` no thread does so during
a call; the registry is an ordinary object that its owner may use so). Left out:
`allowed_backends`, context capacity, the two legacy mode names; the health of backends
and the attempt budget are in Continuity.

**Evidence** models what a task is judged by. `Create`/`Publish`/`CheckBlob`/
`AddArtifact` are the stages of `ArtifactStore.create` (temporary file, `os.link`,
verification of an existing blob) and `add_artifact`; `Damage` and `Die` may strike in
between. `PrepareStep` does to the contract what `prepare_step` does when the
operation is new: it makes the judgement strict, adds the tool to a contract that nobody has
bound, and drops what callers have attested. `Resume` skips a step that was never claimed.
`BeginComplete`, `Judge`, `Commit` and `Reject` are `complete`, which verifies
once for its answer and once more in the transaction that writes the status. A step of
the journal is reduced to what the judgement sees of it; started and uncertain are one
state, `open`.

**NodeStartup** is the start of a process of the node, from `TaskLedger._initialize` to the
recorded machine. `Open` commits the base tables one at a time, as `executescript` does;
`Locked` is the statement before them, `PRAGMA journal_mode=WAL`, which on a new database
may be refused at once when another start is at it; `Begin`/`Upgrade`/`Commit` are the
single transaction of `migrate`, whose draft is lost with its process;
`LookForId`/`WriteTemp`/`Link`/`Unlink`/`ReadId` are `persistent_node_id`; `Inspect` records
the machine. Any step may be the last one (`Exit`) or raise (`Raise`, with the finally
clause). `SInit` is no database, or one left by a program of any age, a newer one included.

**WriteOnce** is the promise of `persistent_node_id`: a register that is written once,
whose value is what everyone is told, and whose creation is told at most once.
`NodeStartup` implements it with chosen = the identity file, creators = the
processes whose local `created` is true, told = what was returned.

**Preflight** is the decision of `ToolBroker.preflight` on a call of a workspace
method, as operators: policy, arguments, scope and path. It reads nothing that changes,
so it has no state. `Started` is the set of methods and roots that some manifest and some
arguments get past it, with the permissions of that manifest.

**Workspace** models calls of the tools of `ai_cloud_workspace.py`, each in a thread of its
own: `Enter` through preflight if the broker starts the call (all its writing tools, and
`file_exists`) and without it otherwise; `Probe` of `ensure_workspace`, `MakeDirectory` of
`create_directory`; `Check` whether the file is there, `Fill` the temporary file in two
parts, `Publish` by `os.replace`, `Clean`, `Audit`, and for `download_image` `Judge` and
`Report`. `Certify` is the receipt of `recovery.py`, made by a broker that still waits; when
its process halts, nobody makes it. Any write, any removal and any line of the audit log
may fail, and any process may halt. A call remembers who had published the file when it
began (`found`) and which calls for that file were over then (`past`); with these `Others`
says which calls may take its content away: those that overlapped it, and later ones that
may overwrite. Earlier calls, and later ones that may not overwrite, are not excused.

`MC*.tla` give the constants that a configuration cannot (functions, records,
symmetry). In every module a definition named `Seeded fault` is a plausible mistake in
the definition after it; no specification uses it, and putting it in the place of that
definition must break the property named under `mutants`.

## 3. The runs

| Run | Question | Distinct states |
|---|---|---|
| `queue` | Does the lease fence, and is a cancellation ever lost, when two workers with fresh and stale `Lease` objects, clients and recovery call everything in every order? Does the queue implement `FencedLease`? | 11 129 |
| `worker` | Two workers, a plan of two actions, one fault and pauses past the lease anywhere: is the life of a task implemented (in order, once, all of it before completion)? Are all steps steps of the queue and the journal? | 722 872 |
| `worker_live` | With restarted workers and two faults, a heartbeat that gives up while its lease is live among them, does every task settle and every cancellation take effect? | 480 070 |
| `approval` | Does every start of a guarded handler use up an approval of its own, with racing, crashing and retried invocations under two keys? Does the first decision stand? | 883 658 |
| `continuity` | Do budget, fencing and delay survive every reply of a provider, crashes, takeovers, windows and outside reports? | 615 076 |
| `continuity_live` | Does `infer` end however backends answer, where a budget of attempts fits into a window? | 235 464 |
| `continuity_slow` | The same where an attempt lasts as long as the window. Violated: finding 1. | |
| `qualification` | Does only the newest run qualify, and only for facts measured? | 423 178 |
| `qualification_return` | Does a change of facts during a run always fail it, as the documentation says? Violated: finding 2. | |
| `routing` | Privacy, cost, fitness and policy at every call, with models changed between decision and call, by rules and under four policies. | 1 823 904 |
| `node` | Is the schema whole and the identity one, however starts race and die? Can what a tool has answered, published and had certified be relied on, and does what the broker starts keep to its workspace and its permission? | 1 577 707 |
| `evidence` | Do rows keep their content, does evidence close with the task, and is a task completed only on evidence that stands, while `prepare_step` changes what it is judged by? | 1 588 392 |

The journal has no run of its own: `worker` and `approval` check that they take only steps
of it (`JournalRefined`, `AdmissionRefinesJournal`), and its invariants, which are proved
for all constants, are checked there with everything around them moving.

Type invariants are not among the properties of the runs: they are proved, all of them
(section 5). What the runs show of safety on small instances is proved as well; liveness
is theirs alone.

### Bounds, and why they are enough

* Two workers: fencing is about an old owner and a new one; a third could only repeat
  the part of either. One task, except where tasks share something: in
  Continuity they share the observations of backends. Two tasks there do not fit into a
  run of some minutes; the theorem `CallsArePolite` is for any set of tasks, and says
  what the second one may do (section 5). `recover_expired` over several rows is covered
  by the proof, which is for any set of tasks too.
* `MaxGen` 3 (queue): an owner, a second one, and the first one again. In `worker`, two
  leases; in `worker_live` three, which two faults cannot exceed, so that the bound
  never stops a task (`Settles` would fail).
* `MaxAttempt` 2: a first attempt and one after a reconciliation that found nothing.
* `PlanLength` 2 in `worker`: order and skipping need two actions. They name one tool,
  so that the acceptance by tool never tells them apart. One action for liveness.
* `LeaseTime` 2 in `queue` and `worker_live` lets heartbeats matter; 1 in `worker`,
  where expiry may come at any tick.
* Continuity: ticks up to 3; a retry delay longer than the backoff, and, in the live
  runs, two backends so that routes alternate; failures saturate where the backoff does.
* Qualification: a required check and the optional one, three intents or two whole runs.
* Routing: three models on both sides of the boundary; each may be registered in a way
  the router accepts and one it must refuse. `AllowInternalCloud` FALSE, the default and
  the stricter case.
* Evidence: two contents, one name, one field, one tool; a full contract and a lesser
  one, so that rebinding differs.

* `node`: two processes and three identities, so that a loser, and one that tries again,
  never lack a fresh one; two tasks, one old and one new; all schema versions. Two calls,
  two files, one inside and one beside the scope of a narrower tool; a content that is an
  image and one that is not. Starts and calls share neither a variable nor a file, so
  `MCNode` lets only one of the two move in a behaviour: no property of the one can
  depend on where the other is, and the product of both would show nothing more.

Deadlock is checked in every run.

### Fairness

`worker_live` (`LiveSpec`): a worker that is not crashed keeps going (`WF` of its
steps), a worker that ended is started again (the service manager; nothing in `src/`
does it, so it is an assumption), and time passes. While the heartbeat thread of a live
worker runs, its lease does not end: the thread of `worker.py:44` wakes up every third of
a lease (`Punctual`). That the thread runs is not assumed: it may give up on an exception
in the middle of an action, and from then on the lease of a worker that is alive and goes
on does end, is recovered and claimed by another. Renewals themselves need no fairness.
Handlers, clients and operators need never act: a handler that hangs is what the
timeout is for. Crashes, stops, heartbeats that give up, retries and deferrals are bounded
by `MaxFaults`, for with infinitely many of them nothing settles.

`continuity_live` and `continuity_slow` (`FairSpec`): a process inside `infer` goes on,
every call is answered or times out within `CallTime` (adapters pass a timeout to their
HTTP client), and time passes. `Punctual` makes only calls take time, the case most
favourable to the code.

## 4. Findings

1. `README.md:33` promises bounded retry. `_reserve` opens a new window, with a new
   budget, whenever `window_s` has passed, and the loop of `infer` has no other counter.
   Where one attempt lasts as long as the window (both are 60 s by default, and the
   LiteLLM adapter waits 180 s), `max_route_attempts` is never reached: while cooldowns
   end before the next backend times out, `infer` goes from backend to backend for ever
   and the task is never deferred (`continuity_slow`). `continuity_live` shows that it
   returns when a budget of attempts fits into one window.
2. `docs/node-qualification.md:75` says a run fails if the identity changed during
   execution. The runner compares the identity before the first check with the one
   after the last: an identity that changes for some checks and is restored leaves the
   run unfailed, and its checks count (`qualification_return`). The run `qualification`,
   in which facts do not return within a run, shows that nothing else is missing.

## 5. What is proved

Every invariant and every action property that a run checks, and every refinement, is a
theorem, for every set of tasks, workers, keys, operations, models and approvals and
every value of the bounds. Assumed are only the named `ASSUME`s of the constants
(`QueueConstants`, `JournalConstants`, `PlanAssumption`, `ApprovalConstants`,
`EvidenceConstants`, `StartupConstants`, `DirectoryTree`, `WorkspaceConstants`,
`ContinuityConstants`, `RoutingConstants`, `QualificationConstants`): that numbers are
numbers, sets to be counted or searched are finite, and values that stand for
nothing are none of the others. One theorem has a hypothesis of its own, and says why:
`AdmissionIsMeasured`. Every inductive invariant was checked by TLC
on the instance of its run before it was proved.

**LedgerProofs, the queue.** `TypeCorrect`; `Coherence` (row and status agree), `CancellationKept`
(a cancelled row is leased or done), `CancellationHonoured` (never completed), `Fencing`,
`StaleTokensStayStale`, `TerminalStays`, `QueueImplementsLease`. The invariants are
inductive together, as `QInv`, with the type and the fact that rows and tasks exist
together: that a cancelled task cannot be completed rests on the row being leased, which
rests on coherence. Lemma `Table` shows that every status that is not terminal may be
cancelled, so `_cancel_task` never raises in the middle of a recovery. Fencing rests on
generations only growing and on a claim being the only way to own one. The refinement
maps each action to an acquisition, a write, a write that yields, a lapse or an act of
administration of `FencedLease`.

**LedgerProofs, the journal.** `OnceOnly`, `Truthful`, `LateAnswersIgnored`, `JTypeCorrect`. At
most one effect is not inductive: `JInv` adds that a step has at most one executor, a
thread or a call, that an executor that may still act means a step that is started or
uncertain with no effect so far, and that a step open for execution has neither executor
nor effect. The status of tasks is left free: the theorems hold whatever else moves it.

**ToolApprovalProofs.** `ATypeCorrect`; `AdmissionUsesJournal` (so the theorems on the
journal hold of every invocation); `NoUnpaidStart`; `DecisionsAreFinal`. That starts do
not outnumber approvals is a statement on cardinalities; `PaidAhead` strengthens it: the
starts and the invocations that have been authorized but have not claimed their step yet,
counted together, do not outnumber the approvals used up for that task and operation. So
`consume_action` pays for an invocation before it starts, and a crash in between loses an
approval but never a payment. (The module extends the whole of LedgerProofs and uses what is
proved of the journal.)

**EvidenceProofs.** `ETypeCorrect`, `RowsStayBacked`, `EvidenceIsClosed`,
`CompletionIsProved`. That rows have their content is not inductive, because
`AddArtifact` writes a row for what `CheckBlob` saw some steps ago: `Backing` adds that
what a process is about to register is good, or was damaged since. The argument is in
three lemmas: a content something relies on is never lost unseen, a row comes only from
such a process, and a process comes there only from a check. That a task is completed on
evidence that stands is decided in one transaction, because `transition` judges again;
lemma `CompleteMeans` says what its judgement amounts to. That claims do not count for a task
with any step in the journal needs `JournalIsStrict`, the mark that `prepare_step` leaves in
the contract with the first step and nothing takes away.

**NodeProofs, the start-up.** `STypeCorrect`; `SchemaStaysWhole`, `RefusalsAreRight`;
`MachinesAreOwned`; `StartupImplementsRegister`. That the schema is whole is not
inductive: `SchemaInv` adds that at most one process is in a migration, that its draft
is a whole schema of its version which contains the tables committed so far, and that
while base tables are missing nobody is past `Open`; so the version decides which tables
are there, and `Upgrade` never meets a table it is about to create. `IdentityInv` adds
that a process that writes or links has generated an identity, that whoever believes it
has created the identity did so, and that what was answered is what the file says. The
refinement maps `Link` to the choice of a value, or to a stutter for who comes late,
`ReadId` to telling it, and `Raise` and `Exit` to forgetting.

**NodeProofs, the workspace.** `FTypeCorrect`; `StaysConfined`, `FilesAreWhole`, `RepliesAreTrue`,
`ReceiptsStand`, `NamesAreKept`, for any tree of directories and any number of calls. The
types alone are not inductive, for what `Publish` puts in a file has a type only if
the temporary file is complete by then (`Filled`). Lemma `Effects` says that each step of a
call leaves the files alone, publishes, or removes; `Alone` is about a call by itself,
`Shared` about several in one file. What is published was written by a call that has
done so and is past it (`Published`), so a call that may not overwrite cannot replace what it
has found (`FoundGone`), and whoever takes a file away from a call is one of its
`Others` for ever (`Replied`, `Certified`). A later call that may not overwrite is the
delicate case: it may publish where the file was missing, and remove what it has saved.
`Met` says that if such a call began after one that still answers for its content (`Holds`),
it has found that content there, so it saves nothing and has nothing to remove.
`StaysConfined` rests on preflight alone (`StartedConfined`): scope below the task's workspace,
handler's root equal to the scope, path below it, permissions of the manifest equal to those
of the handler; `Placed` carries that through the call.

**DanteWorkerProofs.** `WorkersUseQueue` and `WorkersUseJournal`: each step of a worker, its
heartbeat, its crash and its handlers is a step of the queue alone or none, and of the
journal alone or none, so that `WorkersInherit` has the fencing, the finality of the end,
the single effect and the truth of the journal for the whole without a second proof. That
rests on `ControlInv`, which ties a worker's program counter to the `Lease` object it
holds. `CheckpointIsBacked` is not inductive: `PlanInv` adds that a worker whose lease is
valid acts at the row's index (`IndexCurrent`), that past the check of the journal the action
has happened, whoever holds the lease by then (`PassedHappened`), and that no row of the
journal lies ahead of the checkpoint (`AheadUntouched`). From these, `WorkersImplementLife`
maps every step to one of `TaskLife` or a stutter: the start of a handler to `Begin`,
its effect to `Act`, the loss of an executor to `GiveUp`, a commit to `Complete`, a
recovery under a cancellation to `EndSome`. That an action begins after all before it and
before all behind it is `CheckpointBacked` on the one side and `AheadUntouched` on the other;
that a task completes only when all have happened is `CheckpointBacked` at the
index `PlanLength`, which is still the row's because the commit is made under the lease.

**RoutingProofs.** `RTypeCorrect`, `PrivacyIsKept`, `PolicyIsKept`, `NothingIsPaid`,
`LocalIsApproved`. The properties speak of the moment of the call; `RInv` carries what they
need from the decision to it: what was selected passed the privacy gate and the policy
(`Decided`), and what was admitted is on the same side of the boundary, free, and if local
approved and cleared (`Admitted`), although the registry may change in between. It is
the reference taken at admission that counts, not the registry's. The routers
choose the least of a set of ranks; that a finite set of numbers has a least element
(`FiniteMinimal`) is obtained from the well-foundedness of the subset ordering, as the
induction theorems cannot be used. `ClassificationKeeps`: a request is never
classified as less sensitive than its task or the marks of its contents say.

**QualificationProofs.** `QTypeCorrect`; `NewestRunIsDecisive`, by `LogInv`: the last record
says how far the newest run has come, whatever became of its process. So an intent
without a verdict, all that a crash leaves, qualifies nobody. `AdmissionIsMeasured`, by
`MeasureInv`: while the facts are those a run began with, all its checks were made
under them, and so was every record without an interruption. Its hypothesis
`Returning = FALSE` is the one under which the second observation of the runner means
anything; without it the claim of the documentation is violated (finding 2).

**ContinuityProofs.** `CTypeCorrect`; `StaleRunsAreMute`; `BudgetIsKept`; `CallsArePolite`.
The types are not inductive without what a run carries from stage to stage (`Sound`): a model
once it has looked, and at `blame` and `observe` a delay no shorter than the one it
was asked for. The bound on attempts is not inductive either: `BudgetInv` splits the
attempts remembered into those of the window that runs now, which `attempts` counts, and
at most `MaxAttempts` older ones, which are forgotten by the time this window ends; so
when a new window opens no more than `MaxAttempts` are left, and those are then the
older. `PoliteInv` says that a backend with a delay outstanding is recorded as cooling down
for at least as long, and that no run which holds its task is committed to such a backend
(`Committed`: from its look at the observations to what it writes of the call). It holds for any
set of tasks, although they share the observations, because the promise is no wider
than the code: a delay counts once it is recorded, and not if the owner of another task
is committed to that backend at that moment (`Promised`). That owner may send its request
within the delay and write an observation without it, since `infer` does not look again
and `INSERT OR REPLACE` keeps the last one (`continuity.py:75`, among the hazards).

Only model-checked: `Settles`, `CancelTakesEffect` and `InferReturns`, for liveness under
fairness is out of the prover's reach.

## 6. What is not modelled

* Machine and runtime probes, CLI, configuration, telemetry, evals and the end-to-end
  script: parsing and input/output without state of their own.
* Of the adapters, the building of requests and the parsing of contents. A reset that is a
  point in time is taken as the delay it amounts to.
* Delays that the code loses are modelled and not promised (section 2, ProviderErrors).
* Of the gateway, `allowed_backends` and context capacity; `continuation_ids`, a check of
  one sequence.
* Of the workspace tool, the tools that only read (of `file_exists`, which gets a receipt,
  only that) and the forms of names, URLs and contents; of preflight, the inside of a schema
  and handlers that are not workspace methods.
* Of the schema, columns and indexes; `node-inspect`, which records a machine under an
  identity given on the command line.
* Digests are injective and payload digests match; wording, messages, events and
  columns no guard reads are left out.
* Concurrent qualification runs of one scope, which the documentation forbids.

## 7. Plan

Done: TaskStates, FencedLease, TaskQueue, StepJournal, DanteWorker, TaskLife,
ToolApproval, Continuity, ProviderErrors, Qualification, Routing, Evidence, WriteOnce,
NodeStartup, Preflight, Workspace, and the proofs of section 5. In this order, because the
rest relies on leases and on the journal.

Next, to model: *Conversation*, `InferenceRequest.continuation_ids` as a function on
bounded sequences against a reference definition; concurrent qualification runs.

Next, to prove: that Continuity's `holder` is the lease of the queue it abstracts (a
refinement), and that what Qualification admits is what Routing's `gate` stands for.
