------------------------------- MODULE TaskLife --------------------------------
(***************************************************************************)
(* What the program promises the owner of a task, whatever the workers,    *)
(* leases and journals behind it do: the actions of the plan are executed  *)
(* one at a time, in order, each at most once; the task is completed only  *)
(* when all of them were; and it ends once.  An action is started only     *)
(* while the task is open; one that was started by then may still take     *)
(* effect after the task was cancelled or has failed.                      *)
(***************************************************************************)
EXTENDS Integers

CONSTANTS Task, PlanLength

VARIABLES
    done,           \* done[t]: the actions of t that took effect, with how often
    busy,           \* busy[t]: the actions of t being executed
    fate            \* fate[t]: missing, open, completed or ended

lvars == <<done, busy, fate>>

Action == 0..PlanLength - 1

LInit ==
    /\ done = [t \in Task |-> [k \in Action |-> 0]]
    /\ busy = [t \in Task |-> {}]
    /\ fate = [t \in Task |-> "missing"]

Accept(t) ==
    /\ fate[t] = "missing"
    /\ fate' = [fate EXCEPT ![t] = "open"]
    /\ UNCHANGED <<done, busy>>

Begin(t, k) ==
    /\ fate[t] = "open" /\ busy[t] = {}
    /\ \A j \in Action : done[t][j] = IF j < k THEN 1 ELSE 0
    /\ busy' = [busy EXCEPT ![t] = {k}]
    /\ UNCHANGED <<done, fate>>

Act(t) ==
    /\ busy[t] # {}
    /\ done' = [done EXCEPT ![t] = [k \in Action |-> IF k \in busy[t] THEN 1 ELSE @[k]]]
    /\ busy' = [busy EXCEPT ![t] = {}]
    /\ UNCHANGED fate

\* The action fails, or its process dies; a process that dies takes the actions of
\* several tasks with it.
GiveUp ==
    /\ \E lost \in SUBSET Task : busy' = [t \in Task |-> IF t \in lost THEN {} ELSE busy[t]]
    /\ UNCHANGED <<done, fate>>

Complete(t) ==
    /\ fate[t] = "open" /\ busy[t] = {}
    /\ \A k \in Action : done[t][k] = 1
    /\ fate' = [fate EXCEPT ![t] = "completed"]
    /\ UNCHANGED <<done, busy>>

\* Recovery ends every task whose lease ran out under a cancellation.
EndSome ==
    /\ \E over \in SUBSET {t \in Task : fate[t] = "open"} :
         fate' = [t \in Task |-> IF t \in over THEN "ended" ELSE fate[t]]
    /\ UNCHANGED <<done, busy>>

LNext ==
    \/ \E t \in Task :
        Accept(t) \/ (\E k \in Action : Begin(t, k)) \/ Act(t) \/ Complete(t)
    \/ GiveUp \/ EndSome

LSpec == LInit /\ [][LNext]_lvars
=============================================================================
