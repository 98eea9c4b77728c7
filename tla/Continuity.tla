------------------------------ MODULE Continuity ------------------------------
(***************************************************************************)
(* dante/continuity.py: ContinuityManager.infer, the loop that picks a     *)
(* backend for a task, calls it, and records what happened, run by workers *)
(* that share the tables backend_observations and task_continuity.         *)
(*                                                                         *)
(* A point in time is kept as the ticks left until it, so that Tick is the *)
(* only clock.  One pass of the loop is many transactions: the label `at'  *)
(* of a run names the next one.  The lease of dante/task_queue.py appears  *)
(* as its holder only.                                                     *)
(***************************************************************************)
EXTENDS ProviderErrors, Sequences, FiniteSets

CONSTANTS
    Task, Worker, Backend,
    Routes,         \* continuity_candidates: the eligible models, best first
    ProviderOf,     \* ProviderOf[m]: the backend that serves model m
    Base,           \* ContinuityPolicy.base_backoff_s
    MaxBackoff,     \* ContinuityPolicy.max_backoff_s
    Saturated,      \* failures beyond this number no longer lengthen the backoff
    TTL,            \* ContinuityPolicy.observation_ttl_s
    Window,         \* ContinuityPolicy.window_s
    MaxAttempts,    \* ContinuityPolicy.max_route_attempts
    CallTime,       \* the longest an adapter takes to answer or time out
    Punctual,       \* TRUE: only calls take time, and heartbeats are on time
    None

VARIABLES
    holder,         \* the worker whose lease on the task is live, or None
    cancel,         \* task_queue.cancel_requested
    obs,            \* backend_observations
    window,         \* task_continuity.window_start + window_s, None without a row
    attempts,       \* task_continuity.attempts
    defer,          \* task_continuity.next_attempt_at
    ended,          \* the task has failed terminally
    run,            \* run[w]: the infer call that w is in, or None
    tries,          \* history: the attempts of the last Window since a success
    announced       \* history: the delay a backend asked for that all must respect

shared == <<obs, window, attempts, defer>>
vars == <<holder, cancel, shared, ended, run, tries, announced>>

Model == {Routes[i] : i \in DOMAIN Routes}
Longest == CHOOSE n \in RetryAfter \cup {MaxBackoff, Window, Base} :
             \A d \in RetryAfter \cup {MaxBackoff, Window, Base} : d <= n
Ticks == 0..Longest

Smaller(a, b) == IF a <= b THEN a ELSE b

Observation ==
    [state: {"available", "degraded", "unavailable", "unknown"},
     cooldown: Ticks \cup {None}, failures: 0..Saturated, fresh: 0..TTL + 1]

NoModel == None
Start(t) == [task |-> t, at |-> "look", excluded |-> {}, model |-> NoModel,
             verdict |-> None, time |-> 0, until |-> 0, asked |-> 0]

ASSUME ContinuityConstants ==
    /\ {Base, MaxBackoff, Window, MaxAttempts, CallTime, TTL} \subseteq Nat \ {0}
    /\ MaxBackoff >= Base
    /\ Saturated \in Nat /\ Base * 2^Saturated >= MaxBackoff
    /\ RetryAfter \subseteq Nat /\ IsFiniteSet(RetryAfter)
    /\ Routes \in Seq(Model) /\ ProviderOf \in [Model -> Backend]
    /\ Punctual \in BOOLEAN
    /\ None \notin Int /\ None \notin Worker

CInit ==
    /\ holder = [t \in Task |-> None]
    /\ cancel = [t \in Task |-> FALSE]
    /\ obs \in [Backend -> {None, [state |-> "available", cooldown |-> None,
                                   failures |-> 0, fresh |-> TTL + 1]}]
    /\ window = [t \in Task |-> None]
    /\ attempts = [t \in Task |-> 0]
    /\ defer = [t \in Task |-> None]
    /\ ended = [t \in Task |-> FALSE]
    /\ run = [w \in Worker |-> None]
    /\ tries = [t \in Task |-> <<>>]
    /\ announced = [b \in Backend |-> 0]

-----------------------------------------------------------------------------
(* Leases, cancellation and the worker around infer.                       *)

At(w, stage) == run[w] # None /\ run[w].at = stage
TaskOf(w) == run[w].task
WorksOn(w, t) == run[w] # None /\ TaskOf(w) = t
Owns(w) == holder[TaskOf(w)] = w
MayCall(w) == Owns(w) /\ ~cancel[TaskOf(w)]
GoTo(w, stage) == run' = [run EXCEPT ![w].at = stage]

\* TaskQueue.claim, and the host calling infer.
Claim(w, t) ==
    /\ run[w] = None
    /\ holder[t] = None /\ ~cancel[t] /\ ~ended[t]
    /\ defer[t] \in {None, 0}
    /\ holder' = [holder EXCEPT ![t] = w]
    /\ run' = [run EXCEPT ![w] = Start(t)]
    /\ UNCHANGED <<cancel, shared, ended, tries, announced>>

\* The host calls infer once more.
Again(w) ==
    /\ At(w, "done") /\ run[w].verdict = "continue_now"
    /\ Owns(w)
    /\ run' = [run EXCEPT ![w] = Start(TaskOf(w))]
    /\ UNCHANGED <<holder, cancel, shared, ended, tries, announced>>

\* The worker acts on the outcome and releases the task.
Release(w) ==
    /\ At(w, "done")
    /\ IF Owns(w)
       THEN /\ holder' = [holder EXCEPT ![TaskOf(w)] = None]
            /\ ended' = [ended EXCEPT ![TaskOf(w)] = run[w].verdict = "terminal"]
       ELSE UNCHANGED <<holder, ended>>
    /\ run' = [run EXCEPT ![w] = None]
    /\ UNCHANGED <<cancel, shared, tries, announced>>

RequestCancel(t) ==
    /\ ~cancel[t]
    /\ cancel' = [cancel EXCEPT ![t] = TRUE]
    /\ UNCHANGED <<holder, shared, ended, run, tries, announced>>

\* A lease runs out; a live worker's does only if its heartbeats are late.
Expire(t) ==
    /\ holder[t] # None
    /\ Punctual => ~WorksOn(holder[t], t)
    /\ holder' = [holder EXCEPT ![t] = None]
    /\ UNCHANGED <<cancel, shared, ended, run, tries, announced>>

Crash(w) ==
    /\ run[w] # None
    /\ run' = [run EXCEPT ![w] = None]
    /\ UNCHANGED <<holder, cancel, shared, ended, tries, announced>>

-----------------------------------------------------------------------------
(* Choosing a route.                                                       *)

Seen(b) == obs[b] # None /\ obs[b].state # "unknown"
CoolingDown(b) == Seen(b) /\ obs[b].cooldown # None /\ obs[b].cooldown > 0
UsableBackend(b) ==
    /\ Seen(b)
    /\ \/ obs[b].cooldown = 0
       \/ /\ obs[b].cooldown = None
          /\ obs[b].state \in {"available", "degraded"}
          /\ obs[b].fresh > 0

Tryable(w) == {i \in DOMAIN Routes : Routes[i] \notin run[w].excluded}
Usable(w) == {i \in Tryable(w) : UsableBackend(ProviderOf[Routes[i]])}

\* retry_dates: what each route that is not excluded waits for.
RetryDates(w) ==
    {IF CoolingDown(ProviderOf[Routes[i]]) THEN obs[ProviderOf[Routes[i]]].cooldown ELSE Base
        : i \in Tryable(w)}

LeastOf(S) == CHOOSE n \in S : \A m \in S : n <= m

\* One pass over the candidates, and the event that lists them.
Look(w) ==
    /\ At(w, "look") /\ Owns(w)
    /\ \/ /\ Usable(w) # {}
          /\ run' = [run EXCEPT ![w].at = "reserve",
                                ![w].model = Routes[LeastOf(Usable(w))]]
       \/ /\ Usable(w) = {} /\ Tryable(w) # {}
          /\ run' = [run EXCEPT ![w].at = "outcome", ![w].verdict = "retry_later",
                                ![w].time = Larger(Base, LeastOf(RetryDates(w)))]
       \/ /\ Tryable(w) = {}
          /\ run' = [run EXCEPT ![w].at = "outcome", ![w].verdict = "terminal"]
    /\ UNCHANGED <<holder, cancel, shared, ended, tries, announced>>

\* Seeded fault: an attempt within a window is not counted.
ReserveUncounted(w) ==
    /\ At(w, "reserve") /\ MayCall(w)
    /\ GoTo(w, "route")
    /\ window' = [window EXCEPT ![TaskOf(w)] = IF @ \in {None, 0} THEN Window ELSE @]
    /\ attempts' = [attempts EXCEPT ![TaskOf(w)] = 1]
    /\ UNCHANGED <<holder, cancel, obs, defer, ended, tries, announced>>

\* _reserve
Reserve(w) ==
    /\ At(w, "reserve") /\ MayCall(w)
    /\ LET t == TaskOf(w) IN
       \/ /\ window[t] \in {None, 0}
          /\ window' = [window EXCEPT ![t] = Window]
          /\ attempts' = [attempts EXCEPT ![t] = 1]
          /\ GoTo(w, "route")
          /\ tries' = [tries EXCEPT ![t] = Append(@, Window)]
       \/ /\ window[t] \notin {None, 0} /\ attempts[t] < MaxAttempts
          /\ attempts' = [attempts EXCEPT ![t] = @ + 1]
          /\ UNCHANGED window
          /\ GoTo(w, "route")
          /\ tries' = [tries EXCEPT ![t] = Append(@, Window)]
       \/ /\ window[t] \notin {None, 0} /\ attempts[t] >= MaxAttempts
          /\ run' = [run EXCEPT ![w].at = "outcome", ![w].verdict = "retry_later",
                                ![w].time = window[t]]
          /\ UNCHANGED <<window, attempts, tries>>
    /\ UNCHANGED <<holder, cancel, obs, defer, ended, announced>>

\* The selected event and set_route; the request is sent.
Route(w) ==
    /\ At(w, "route") /\ MayCall(w)
    /\ run' = [run EXCEPT ![w].at = "call", ![w].time = 0]
    /\ UNCHANGED <<holder, cancel, shared, ended, tries, announced>>

-----------------------------------------------------------------------------
(* The answer.                                                             *)

BackendOf(w) == ProviderOf[run[w].model]

Succeed(w) ==
    /\ At(w, "call")
    /\ GoTo(w, "credit")
    /\ UNCHANGED <<holder, cancel, shared, ended, tries, announced>>

\* The error of an adapter, classified: a delay counts from when it is recorded, a
\* reset time (until) runs from the reply; which adapter serves a backend is
\* configuration, so it may be the error of any.
Failure(w, failure) ==
    /\ At(w, "call")
    /\ run' = [run EXCEPT ![w].at = "blame", ![w].verdict = failure.verdict,
                          ![w].time = failure.told, ![w].until = failure.until,
                          ![w].asked = failure.asked]
    /\ UNCHANGED <<holder, cancel, shared, ended, tries, announced>>

\* An exception infer does not catch: the worker is left to block the task.
Raise(w) ==
    /\ At(w, "call") /\ MayRaise
    /\ run' = [run EXCEPT ![w] = [Start(TaskOf(w)) EXCEPT !.at = "done",
                                                         !.verdict = "raised"]]
    /\ UNCHANGED <<holder, cancel, shared, ended, tries, announced>>

Backoff(b) ==
    Smaller(MaxBackoff, Base * 2^(IF obs[b] = None THEN 0 ELSE obs[b].failures))

\* The failure event; the failures are read in a transaction of their own.
Blame(w) ==
    /\ At(w, "blame") /\ Owns(w)
    /\ \/ /\ run[w].verdict = "retry"
          /\ run' = [run EXCEPT ![w].at = "observe",
                                ![w].time = Larger(Larger(Backoff(BackendOf(w)), @),
                                                   run[w].until),
                                ![w].until = 0]
       \/ /\ run[w].verdict = "route"
          /\ run' = [run EXCEPT ![w] = [Start(TaskOf(w)) EXCEPT !.excluded =
                                           run[w].excluded \cup {run[w].model}]]
       \/ /\ run[w].verdict = "request"
          /\ run' = [run EXCEPT ![w].at = "outcome", ![w].verdict = "terminal"]
    /\ UNCHANGED <<holder, cancel, shared, ended, tries, announced>>

FailuresAfter(b, state) ==
    IF state = "available" THEN 0
    ELSE Smaller(Saturated, (IF obs[b] = None THEN 0 ELSE obs[b].failures) + 1)

\* The row observe writes: the whole row, whatever was there.
Written(b, state, cooldown) ==
    [obs EXCEPT ![b] = [state |-> state, cooldown |-> cooldown,
                        failures |-> FailuresAfter(b, state), fresh |-> TTL + 1]]

\* A run that has looked and has not yet recorded what came of its choice.
Committed == {"reserve", "route", "call", "blame", "observe", "credit"}

\* What the observation of w promises of b: nothing if another task's owner is
\* committed to b, who may call it all the same, and write an observation of its own.
Promised(w, b) ==
    IF \E v \in Worker \ {w} :
          run[v] # None /\ run[v].at \in Committed /\ Owns(v) /\ BackendOf(v) = b
    THEN announced[b]
    ELSE Larger(announced[b], run[w].asked)

\* Seeded fault: observe is called without its task, so the lease is not asked.
ObserveUnfenced(w) ==
    /\ At(w, "observe")
    /\ obs' = Written(BackendOf(w), "unavailable", run[w].time)
    /\ run' = [run EXCEPT ![w] = [Start(TaskOf(w)) EXCEPT !.excluded = run[w].excluded]]
    /\ announced' = [announced EXCEPT ![BackendOf(w)] = Promised(w, BackendOf(w))]
    /\ UNCHANGED <<holder, cancel, window, attempts, defer, ended, tries>>

\* observe after a failure.  Which failure state is written does not matter
\* while a cooldown is set.
Observe(w) ==
    /\ At(w, "observe") /\ Owns(w)
    /\ obs' = Written(BackendOf(w), "unavailable", run[w].time)
    /\ run' = [run EXCEPT ![w] = [Start(TaskOf(w)) EXCEPT !.excluded = run[w].excluded]]
    /\ announced' = [announced EXCEPT ![BackendOf(w)] = Promised(w, BackendOf(w))]
    /\ UNCHANGED <<holder, cancel, window, attempts, defer, ended, tries>>

\* observe after a success: no cooldown is left.
Credit(w) ==
    /\ At(w, "credit") /\ Owns(w)
    /\ obs' = Written(BackendOf(w), "available", None)
    /\ run' = [run EXCEPT ![w].at = "outcome", ![w].verdict = "continue_now"]
    /\ UNCHANGED <<holder, cancel, window, attempts, defer, ended, tries, announced>>

\* Seeded fault: every outcome gives the task a fresh budget.
OutcomeRefills(w) ==
    /\ At(w, "outcome") /\ Owns(w)
    /\ LET t == TaskOf(w) IN
       /\ defer' = [defer EXCEPT ![t] =
                      IF run[w].verdict = "retry_later" THEN run[w].time ELSE None]
       /\ window' = [window EXCEPT ![t] = Window]
       /\ attempts' = [attempts EXCEPT ![t] = 0]
       /\ tries' = [tries EXCEPT ![t] = IF run[w].verdict = "continue_now" THEN <<>> ELSE @]
    /\ run' = [run EXCEPT ![w] = [Start(TaskOf(w)) EXCEPT !.at = "done",
                                                         !.verdict = run[w].verdict]]
    /\ UNCHANGED <<holder, cancel, obs, ended, announced>>

\* _outcome
Outcome(w) ==
    /\ At(w, "outcome") /\ Owns(w)
    /\ LET t == TaskOf(w) IN
       /\ defer' = [defer EXCEPT ![t] =
                      IF run[w].verdict = "retry_later" THEN run[w].time ELSE None]
       /\ IF run[w].verdict = "continue_now"
          THEN /\ window' = [window EXCEPT ![t] = Window]
               /\ attempts' = [attempts EXCEPT ![t] = 0]
               /\ tries' = [tries EXCEPT ![t] = <<>>]
          ELSE /\ window' = [window EXCEPT ![t] = IF @ = None THEN Window ELSE @]
               /\ UNCHANGED <<attempts, tries>>
    /\ run' = [run EXCEPT ![w] = [Start(TaskOf(w)) EXCEPT !.at = "done",
                                                         !.verdict = run[w].verdict]]
    /\ UNCHANGED <<holder, cancel, obs, ended, announced>>

\* LeaseLost or CancelRequested.
Stop(w) ==
    /\ run[w] # None
    /\ \/ run[w].at \in {"look", "blame", "observe", "credit", "outcome"} /\ ~Owns(w)
       \/ run[w].at \in {"reserve", "route"} /\ ~MayCall(w)
    /\ run' = [run EXCEPT ![w] = None]
    /\ UNCHANGED <<holder, cancel, shared, ended, tries, announced>>

\* observe as a trusted health input: no task, no lease.
Health(b, state) ==
    /\ obs' = Written(b, state, None)
    /\ announced' = [announced EXCEPT ![b] = 0]
    /\ UNCHANGED <<holder, cancel, window, attempts, defer, ended, run, tries>>

-----------------------------------------------------------------------------
Less(n) == IF n = None \/ n = 0 THEN n ELSE n - 1

\* The attempts one tick later; the oldest come first, and leave at their last tick.
Aged(s) ==
    LET gone == Cardinality({i \in DOMAIN s : s[i] = 1})
    IN  [i \in 1..(Len(s) - gone) |-> s[i + gone] - 1]

\* Time passes; a call does not outlast its timeout.
Tick ==
    /\ \A w \in Worker : At(w, "call") => run[w].time < CallTime
    /\ Punctual => \A w \in Worker : run[w] = None \/ At(w, "call")
    /\ obs' = [b \in Backend |->
                 IF obs[b] = None THEN None
                 ELSE [obs[b] EXCEPT !.cooldown = Less(@), !.fresh = Less(@)]]
    /\ window' = [t \in Task |-> Less(window[t])]
    /\ defer' = [t \in Task |-> Less(defer[t])]
    /\ run' = [w \in Worker |->
                 IF run[w] = None THEN None
                 ELSE [run[w] EXCEPT !.time =
                         IF run[w].at = "call" THEN @ + 1
                         ELSE IF run[w].at \in {"observe", "outcome"} THEN Less(@) ELSE @,
                       !.until = Less(@), !.asked = Less(@)]]
    /\ tries' = [t \in Task |-> Aged(tries[t])]
    /\ announced' = [b \in Backend |-> Less(announced[b])]
    /\ UNCHANGED <<holder, cancel, attempts, ended>>

Step(w) ==
    \/ Again(w) \/ Release(w) \/ Stop(w)
    \/ Look(w) \/ Reserve(w) \/ Route(w)
    \/ Blame(w) \/ Observe(w) \/ Credit(w) \/ Outcome(w)

Answer(w) == Succeed(w) \/ Raise(w) \/ \E failure \in Failures : Failure(w, failure)

WorkNext ==
    \/ \E w \in Worker :
        \/ Step(w) \/ Answer(w) \/ Crash(w)
        \/ \E t \in Task : Claim(w, t)
    \/ \E t \in Task : RequestCancel(t) \/ Expire(t)
    \/ Tick

HealthNext ==
    \E b \in Backend, state \in {"available", "degraded", "unavailable", "unknown"} :
        Health(b, state)

CNext == WorkNext \/ HealthNext

CSpec == CInit /\ [][CNext]_vars

\* Backends are judged by the answers to calls alone.
WorkSpec == CInit /\ [][WorkNext]_vars

\* A process that is inside infer goes on, every call is answered within its
\* timeout, and a crashed worker's lease runs out.
FairSpec ==
    /\ WorkSpec
    /\ \A w \in Worker : WF_vars(Step(w))
    /\ \A w \in Worker : WF_vars(Answer(w))
    /\ WF_vars(Tick)

-----------------------------------------------------------------------------
(* Properties.                                                             *)

Run == [task : Task,
        at : {"look", "reserve", "route", "call", "blame", "observe", "credit",
              "outcome", "done"},
        excluded : SUBSET Model,
        model : Model \cup {NoModel},
        verdict : {"retry", "route", "request", "continue_now", "retry_later",
                   "terminal", "raised", None},
        time : Ticks \cup 0..CallTime,
        until : Ticks,
        asked : Ticks]

\* Every variable keeps its type.
CTypeOK ==
    /\ holder \in [Task -> Worker \cup {None}]
    /\ cancel \in [Task -> BOOLEAN] /\ ended \in [Task -> BOOLEAN]
    /\ obs \in [Backend -> Observation \cup {None}]
    /\ window \in [Task -> 0..Window \cup {None}]
    /\ attempts \in [Task -> 0..MaxAttempts]
    /\ defer \in [Task -> Ticks \cup {None}]
    /\ run \in [Worker -> Run \cup {None}]
    /\ announced \in [Backend -> Ticks]

\* However often workers crash, lose their lease and are replaced, and however
\* outcomes and windows alternate, a task that has had no success since makes no
\* more than two windows' worth of attempts in any span as long as one window
\* (_reserve counts in task_continuity, not in the process).
BudgetKept == \A t \in Task : Len(tries[t]) <= 2 * MaxAttempts

\* A run that has lost its lease changes nothing any more that another worker can
\* see, whatever its provider answers and however late (assert_lease inside each
\* transaction of continuity.py).
StaleIsMute ==
    [][\A w \in Worker :
         (run[w] # None /\ ~Owns(w) /\ run'[w] # run[w]) =>
            \/ UNCHANGED <<shared, ended, holder>>
            \/ Tick]_vars

\* Once a delay that a backend asked for is recorded, and no owner of another task had
\* chosen that backend before, no request is sent to it by any worker for any task until
\* the delay is over or its health is reported anew from outside: adapters, classify,
\* observe and the pass over the candidates keep it together, over crashes and takeovers.
PoliteCall ==
    [][\A w \in Worker :
         (run[w] # None /\ run'[w] # None /\ run[w].at = "route" /\ run'[w].at = "call") =>
            announced[BackendOf(w)] = 0]_vars

\* An infer call ends: with an answer, a deferral or a refusal.
InferReturns ==
    \A w \in Worker : run[w] # None ~> (run[w] = None \/ run[w].at = "done")
=============================================================================
