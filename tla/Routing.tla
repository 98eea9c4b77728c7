-------------------------------- MODULE Routing --------------------------------
(***************************************************************************)
(* One call of AgentHostFoundation.infer: the privacy gate, the choice of  *)
(* a route (RuleBasedRouter.decide, or continuity_candidates when a        *)
(* ContinuityManager is configured), and the InferenceGateway, which takes *)
(* the candidates of the decision one by one.                              *)
(*                                                                         *)
(* A decision is old by the time it is used: the ledger stores it first,   *)
(* and a call may last minutes.  Meanwhile a model may be registered again *)
(* or promoted, its file may change, and the gate that stands for          *)
(* dante/qualification.py may change its mind.                             *)
(*                                                                         *)
(* Left to Continuity.tla: cooldowns and the budget of attempts, of which  *)
(* only the choice remains here (which backends are usable, when to defer).*)
(* Left out: allowed_backends, the context capacity, and the older names   *)
(* LOCAL_FIRST and CLOUD_FIRST_WITH_LOCAL_FALLBACK of two of the modes.    *)
(***************************************************************************)
EXTENDS Integers, Sequences, FiniteSets, FiniteSetsExt

CONSTANTS
    Model,              \* model ids, numbered in the order of (logical_alias, model_id)
    Refs,               \* the ModelRefs that may be registered
    Modes,              \* "rules", or the ExecutionPolicy of the ContinuityManager
    Contents,           \* the marks contents may bear, subsets of {"secret", "confidential"}
    AllowInternalCloud, \* PrivacyGate.allow_internal_cloud
    None

VARIABLES
    registry,           \* ModelRegistry._models
    intact,             \* the models whose file has the digest of their metadata
    gate,               \* what the qualification gate lets each model do
    req                 \* the call in progress, or None

vars == <<registry, intact, gate, req>>

Class == <<"public", "internal", "confidential", "secret">>
Classes == {Class[i] : i \in DOMAIN Class}
Ladder == <<"candidate", "imported", "verified", "evaluated", "approved", "production">>
Stage == {Ladder[i] : i \in DOMAIN Ladder} \cup {"tested", "retired"}
Usable == {"approved", "production"}
Verdict == {"none", "plain", "tools"}

\* A ModelRef.  "meta" says which parts of local_metadata are in order: the identity
\* and its source, the evaluations, and the rest of what qualifies a local model.
\* "served": the gateway has an adapter for its provider, of automatic cost zero.
Ref ==
    [id: Model, local: BOOLEAN, cost: {"zero", "paid", "local_compute", "cost_unverified"},
     verified: BOOLEAN, stage: Stage, available: BOOLEAN, privacy: SUBSET Classes,
     tools: BOOLEAN, meta: SUBSET {"identity", "evals", "qualified"}, served: BOOLEAN]

ASSUME RoutingConstants ==
    /\ Model \subseteq Int /\ IsFiniteSet(Model)
    /\ Refs \subseteq Ref
    /\ Modes \subseteq {"rules", "LOCAL_ONLY", "LOCAL_PREFERRED", "CLOUD_PREFERRED", "CLOUD_ONLY"}
    /\ Contents \subseteq SUBSET {"secret", "confidential"}
    /\ AllowInternalCloud \in BOOLEAN
    /\ None \notin Ref

RInit ==
    /\ registry \in {r \in [Model -> Refs] : \A m \in Model : r[m].id = m}
    /\ intact = Model
    /\ gate \in [Model -> Verdict]
    /\ req = None

-----------------------------------------------------------------------------
(* PrivacyGate.classify.                                                   *)

Rank(c) == CHOOSE i \in DOMAIN Class : Class[i] = c

Detected(declared, marks) ==
    IF "secret" \in marks THEN "secret"
    ELSE IF "confidential" \in marks THEN "confidential" ELSE declared

\* Seeded fault: what is detected replaces what was declared.
DetectedOnly(declared, marks) == Detected(declared, marks)

Classification(declared, marks) ==
    LET detected == Detected(declared, marks)
    IN  IF Rank(detected) > Rank(declared) THEN detected ELSE declared

ModelAllowed(class) == class # "secret"

CloudAllowed(class) ==
    \/ class = "public"
    \/ class = "internal" /\ AllowInternalCloud

-----------------------------------------------------------------------------
(* ModelRegistry.                                                          *)

\* The source of a model is described and its file, if any, has the digest noted.
VerifyIdentity(ref) == "identity" \in ref.meta /\ ref.id \in intact

\* The part of require_automatic that the ModelRef alone decides.
Declared(ref, tools) ==
    /\ ref.meta = {"identity", "evals", "qualified"}
    /\ ref.stage \in Usable
    /\ ref.available
    /\ tools => ref.tools

Cleared(id, tools) == gate[id] = "tools" \/ (gate[id] = "plain" /\ ~tools)

RequireAutomatic(ref, tools) ==
    ref.local => /\ Declared(ref, tools)
                 /\ Cleared(ref.id, tools)
                 /\ VerifyIdentity(ref)

\* A model is registered again under its id.
Register(ref) ==
    /\ registry[ref.id] # ref
    /\ registry' = [registry EXCEPT ![ref.id] = ref]
    /\ UNCHANGED <<intact, gate, req>>

\* A local model goes up one step of the ladder.
Promote(m, i) ==
    LET target == Ladder[i + 1]
        candidate == [registry[m] EXCEPT !.stage = target]
    IN  /\ registry[m].local /\ registry[m].stage = Ladder[i]
        /\ target \in {"verified", "evaluated"} \cup Usable => VerifyIdentity(candidate)
        /\ target \in {"evaluated"} \cup Usable => "evals" \in candidate.meta
        /\ target \in Usable => RequireAutomatic(candidate, FALSE)
        /\ registry' = [registry EXCEPT ![m] = candidate]
        /\ UNCHANGED <<intact, gate, req>>

\* The file of a model changes, or is put back.
ChangeFile(m) ==
    /\ registry[m].local
    /\ intact' = IF m \in intact THEN intact \ {m} ELSE intact \cup {m}
    /\ UNCHANGED <<registry, gate, req>>

\* The qualification of a model changes (see Qualification.tla).
ChangeVerdict(m, verdict) ==
    /\ registry[m].local /\ gate[m] # verdict
    /\ gate' = [gate EXCEPT ![m] = verdict]
    /\ UNCHANGED <<registry, intact, req>>

-----------------------------------------------------------------------------
(* The host: infer classifies the request and asks for a route.            *)

ClassOf(r) == Classification(r.declared, r.marks)
At(stage) == req # None /\ req.at = stage
Ruled == req.mode = "rules"

Ask(declared, marks, mode, tools) ==
    /\ req = None
    /\ req' = [declared |-> declared, marks |-> marks, mode |-> mode, tools |-> tools,
               at |-> "route", excluded |-> {}, todo |-> {}, selected |-> None,
               model |-> None, cleared |-> FALSE]
    /\ UNCHANGED <<registry, intact, gate>>

PrivacyAdmits(ref, class) ==
    /\ ModelAllowed(class)
    /\ class \in ref.privacy
    /\ ref.local \/ CloudAllowed(class)

CostsNothing(ref) == ref.cost = "zero" \/ (ref.cost = "local_compute" /\ ref.local)

\* The models RuleBasedRouter.decide may choose from.
Eligible ==
    {m \in Model : LET ref == registry[m] IN
        /\ ref.available /\ ref.stage \in Usable
        /\ CostsNothing(ref)
        /\ req.tools => ref.tools
        /\ PrivacyAdmits(ref, ClassOf(req))
        /\ RequireAutomatic(ref, req.tools)}

ModeAdmits(ref) ==
    /\ req.mode = "LOCAL_ONLY" => ref.local
    /\ req.mode = "CLOUD_ONLY" => ~ref.local

\* The models continuity_candidates lets through, whatever their health.
StaticallyEligible ==
    {m \in Model : LET ref == registry[m] IN
        /\ PrivacyAdmits(ref, ClassOf(req))
        /\ ModeAdmits(ref)
        /\ ref.cost \in {"zero", "local_compute"}
        /\ ~ref.local => ref.cost = "zero" /\ ref.verified
        /\ ref.stage \in Usable
        /\ req.tools => ref.tools
        /\ RequireAutomatic([ref EXCEPT !.available = TRUE], req.tools)}

\* The order both sort by: one side of the boundary first, then the id.
Before(m, n, cloudFirst) ==
    LET Side(k) == registry[k].local = cloudFirst
    IN  IF Side(m) = Side(n) THEN m <= n ELSE Side(n)

First(S, cloudFirst) == CHOOSE m \in S : \A n \in S : Before(m, n, cloudFirst)

\* RuleBasedRouter.decide, and set_route.
Decide ==
    /\ At("route") /\ Ruled
    /\ Eligible # {}
    /\ LET selected == First(Eligible, FALSE)
       IN  req' = [req EXCEPT
                     !.at = "call",
                     !.selected = registry[selected],
                     !.todo = {m \in Eligible : registry[m].local = registry[selected].local}]
    /\ UNCHANGED <<registry, intact, gate>>

\* RouteDenied; or, with a ContinuityManager, RETRY_LATER and TERMINAL outcomes.
Deny ==
    /\ At("route")
    /\ Ruled => Eligible = {}
    /\ req' = None
    /\ UNCHANGED <<registry, intact, gate>>

\* ContinuityManager.infer selects one of the models that are healthy now.
Select(healthy) ==
    LET usable == {m \in healthy \cap StaticallyEligible : registry[m].available /\ registry[m].served}
                    \ req.excluded
    IN  /\ At("route") /\ ~Ruled
        /\ usable # {}
        /\ LET selected == First(usable, req.mode = "CLOUD_PREFERRED")
           IN  req' = [req EXCEPT !.at = "call", !.selected = registry[selected], !.todo = {selected}]
        /\ UNCHANGED <<registry, intact, gate>>

-----------------------------------------------------------------------------
(* InferenceGateway.infer and the adapter.                                 *)

\* The request as the end of a gateway call leaves it: over for the rules, and to be
\* routed anew, without the models in "excluded", by a ContinuityManager.
Over(excluded) ==
    IF Ruled THEN None
    ELSE [req EXCEPT !.at = "route", !.todo = {}, !.selected = None, !.model = None,
                     !.cleared = FALSE, !.excluded = @ \cup excluded]

Candidate == Min(req.todo)

\* Seeded fault: the gateway trusts the candidates to be on one side of the boundary.
SkippedAcross(ref) == ~CostsNothing(ref) \/ ~ref.served

\* Seeded fault: the cost was settled when the route was decided.
SkippedUncosted(ref) == ref.local # req.selected.local \/ ~ref.served

Skipped(ref) ==
    \/ ref.local # req.selected.local
    \/ ~CostsNothing(ref)
    \/ ~ref.served

\* The candidate does not qualify for this call any more: the next one.
Skip ==
    /\ At("call") /\ req.todo # {}
    /\ Skipped(registry[Candidate])
    /\ req' = [req EXCEPT !.todo = @ \ {Candidate}]
    /\ UNCHANGED <<registry, intact, gate>>

\* Seeded fault: a model that was qualified when the route was decided is called.
AdmitDecided ==
    /\ At("call") /\ req.todo # {}
    /\ ~Skipped(registry[Candidate])
    /\ req' = [req EXCEPT !.at = "admitted", !.todo = @ \ {Candidate}, !.model = registry[Candidate],
                          !.cleared = Cleared(Candidate, req.tools)]
    /\ UNCHANGED <<registry, intact, gate>>

\* require_automatic, again; QualificationDenied ends the call.
Admit ==
    /\ At("call") /\ req.todo # {}
    /\ ~Skipped(registry[Candidate])
    /\ req' = IF RequireAutomatic(registry[Candidate], req.tools)
              THEN [req EXCEPT !.at = "admitted", !.todo = @ \ {Candidate}, !.model = registry[Candidate],
                               !.cleared = Cleared(Candidate, req.tools)]
              ELSE Over({req.selected.id})
    /\ UNCHANGED <<registry, intact, gate>>

\* The adapter looks at the file of a local model once more and sends the messages.
Send ==
    /\ At("admitted")
    /\ req' = IF req.model.local => Declared(req.model, req.tools) /\ VerifyIdentity(req.model)
              THEN [req EXCEPT !.at = "sent"]
              ELSE Over({req.selected.id})
    /\ UNCHANGED <<registry, intact, gate>>

\* The backend answers; the caller has its response.
Respond ==
    /\ At("sent")
    /\ req' = None
    /\ UNCHANGED <<registry, intact, gate>>

\* AdapterUnavailable, before or after the messages went out: the next candidate.
Unavailable ==
    /\ At("admitted") \/ At("sent")
    /\ req' = [req EXCEPT !.at = "call", !.model = None, !.cleared = FALSE]
    /\ UNCHANGED <<registry, intact, gate>>

\* Another error: the call is over.  A ContinuityManager excludes the model from the
\* request (context, policy, configuration) or not (an invalid response).
Fail(exclude) ==
    /\ At("admitted") \/ At("sent")
    /\ req' = Over(IF exclude THEN {req.selected.id} ELSE {})
    /\ UNCHANGED <<registry, intact, gate>>

\* The backend rejects the request itself: a ContinuityManager stops, too.
Terminate ==
    /\ At("admitted") \/ At("sent")
    /\ ~Ruled
    /\ req' = None
    /\ UNCHANGED <<registry, intact, gate>>

\* No candidate is left: the last error is raised, or PolicyDenied if none was called.
Exhaust(exclude) ==
    /\ At("call") /\ req.todo = {}
    /\ req' = Over(IF exclude THEN {req.selected.id} ELSE {})
    /\ UNCHANGED <<registry, intact, gate>>

-----------------------------------------------------------------------------
World ==
    \/ \E ref \in Refs : Register(ref)
    \/ \E m \in Model, i \in 1..(Len(Ladder) - 1) : Promote(m, i)
    \/ \E m \in Model : ChangeFile(m)
    \/ \E m \in Model, verdict \in Verdict : ChangeVerdict(m, verdict)

RNext ==
    \/ World
    \/ \E declared \in Classes, marks \in Contents, mode \in Modes, tools \in BOOLEAN :
           Ask(declared, marks, mode, tools)
    \/ Decide
    \/ Deny
    \/ \E healthy \in SUBSET Model : Select(healthy)
    \/ Skip
    \/ Admit
    \/ Send
    \/ Respond
    \/ Unavailable
    \/ \E exclude \in BOOLEAN : Fail(exclude) \/ Exhaust(exclude)
    \/ Terminate

RSpec == RInit /\ [][RNext]_vars

-----------------------------------------------------------------------------
(* Properties.                                                             *)

\* Every variable keeps its type; a decided request has a model to call.
RTypeOK ==
    /\ registry \in [Model -> Ref] /\ \A m \in Model : registry[m].id = m
    /\ intact \subseteq Model
    /\ gate \in [Model -> Verdict]
    /\ req # None =>
         /\ req \in [declared: Classes, marks: Contents, mode: Modes, tools: BOOLEAN,
                     at: {"route", "call", "admitted", "sent"}, excluded: SUBSET Model,
                     todo: SUBSET Model, selected: Ref \cup {None},
                     model: Ref \cup {None}, cleared: BOOLEAN]
         /\ req.selected = None <=> req.at = "route"
         /\ req.model # None <=> req.at \in {"admitted", "sent"}

Sent == At("sent")

\* A secret reaches no model, and what the gate keeps from the cloud reaches local
\* models only, whoever marked it, the task or its content, and whatever is
\* registered between the decision and the call (classify, the two routers, and
\* the boundary the gateway does not cross).
PrivacyKept ==
    Sent =>
      /\ req.declared # "secret" /\ "secret" \notin req.marks
      /\ \/ req.declared = "confidential" \/ "confidential" \in req.marks
         \/ req.declared = "internal" /\ ~AllowInternalCloud
         => req.model.local

\* The policy of the user is kept over the whole request, with its fallbacks:
\* LOCAL_ONLY stays local and CLOUD_ONLY never runs a local model.
PolicyKept ==
    Sent => /\ req.mode = "LOCAL_ONLY" => req.model.local
            /\ req.mode = "CLOUD_ONLY" => ~req.model.local

\* No call is paid, even of a model whose price changed after the route was decided
\* (the second look at cost_class in InferenceGateway.infer).
NothingPaid == Sent => CostsNothing(req.model)

\* A local model that is called was approved and cleared by the qualification gate,
\* for tools if the request has tools, when the gateway called it, not only when the
\* route was decided (require_automatic in InferenceGateway.infer).
LocalIsFit ==
    (Sent /\ req.model.local) => Declared(req.model, req.tools) /\ req.cleared
=============================================================================
