---------------------------- MODULE FencedLease -----------------------------
(***************************************************************************)
(* What the leases of dante/task_queue.py promise, with no queue, clock or *)
(* task state: a resource has at most one holder, every grant opens a new  *)
(* epoch, a resource is written under the epoch of its present holder, and *)
(* anybody else writes it only while nobody holds it.                      *)
(***************************************************************************)
EXTENDS Naturals

CONSTANTS
    Resource,       \* what is leased
    Client,         \* who may hold a lease
    NoClient        \* nobody

VARIABLES
    holder,         \* holder[r]: the client with the live lease of r
    epoch,          \* epoch[r]: how many leases of r have been granted
    stamp,          \* stamp[r]: the epoch of the last write under a lease
    data            \* data[r]: the protected value

vars == <<holder, epoch, stamp, data>>

Init ==
    /\ holder = [r \in Resource |-> NoClient]
    /\ epoch = [r \in Resource |-> 0]
    /\ stamp = [r \in Resource |-> 0]
    /\ DOMAIN data = Resource

\* Only the value of r may change.
ChangeOnly(r) == \A q \in Resource \ {r} : data'[q] = data[q]

Acquire(c, r) ==
    /\ holder[r] = NoClient
    /\ holder' = [holder EXCEPT ![r] = c]
    /\ epoch' = [epoch EXCEPT ![r] = epoch[r] + 1]
    /\ UNCHANGED <<stamp, data>>

Write(r) ==
    /\ holder[r] # NoClient
    /\ stamp' = [stamp EXCEPT ![r] = epoch[r]]
    /\ ChangeOnly(r)
    /\ UNCHANGED <<holder, epoch>>

\* The holder's last write also gives the lease back.
WriteAndYield(r) ==
    /\ holder[r] # NoClient
    /\ holder' = [holder EXCEPT ![r] = NoClient]
    /\ stamp' = [stamp EXCEPT ![r] = epoch[r]]
    /\ ChangeOnly(r)
    /\ UNCHANGED epoch

\* Leases run out.
Lapse ==
    /\ \A r \in Resource : holder'[r] \in {holder[r], NoClient}
    /\ DOMAIN holder' = Resource
    /\ UNCHANGED <<epoch, stamp, data>>

\* Clients and recovery change what nobody holds.
Administer ==
    /\ \A r \in Resource : holder[r] # NoClient => data'[r] = data[r]
    /\ UNCHANGED <<holder, epoch, stamp>>

Next ==
    \/ \E r \in Resource, c \in Client : Acquire(c, r)
    \/ \E r \in Resource : Write(r) \/ WriteAndYield(r)
    \/ Lapse
    \/ Administer

Spec == Init /\ [][Next]_vars
=============================================================================
