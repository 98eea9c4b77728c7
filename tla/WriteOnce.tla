------------------------------- MODULE WriteOnce -------------------------------
(***************************************************************************)
(* What persistent_node_id (dante/node_bootstrap.py) promises the          *)
(* processes of a node, whatever files it uses: one value is chosen, once  *)
(* and for good, everyone who asks is told that value, and at most one of  *)
(* them is told that it has created it.                                    *)
(***************************************************************************)
CONSTANTS Proc, Value, None

VARIABLES
    chosen,         \* the identity of the node, or None
    creators,       \* the processes that have chosen it and were not told yet
    told            \* told[p]: what p was told, or None

wovars == <<chosen, creators, told>>

WOInit ==
    /\ chosen \in Value \cup {None}
    /\ creators = {}
    /\ told = [p \in Proc |-> None]

Choose(p, v) ==
    /\ chosen = None
    /\ chosen' = v
    /\ creators' = {p}
    /\ UNCHANGED told

Tell(p) ==
    /\ chosen \in Value
    /\ told' = [told EXCEPT ![p] = [id |-> chosen, created |-> p \in creators]]
    /\ creators' = creators \ {p}
    /\ UNCHANGED chosen

\* p fails, ends or dies; it may ask again.
Forget(p) ==
    /\ told' = [told EXCEPT ![p] = None]
    /\ creators' = creators \ {p}
    /\ UNCHANGED chosen

WONext == \E p \in Proc : (\E v \in Value : Choose(p, v)) \/ Tell(p) \/ Forget(p)

WOSpec == WOInit /\ [][WONext]_wovars
=============================================================================
