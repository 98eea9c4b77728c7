---------------------------- MODULE RoutingProofs -----------------------------
(***************************************************************************)
(* What is proved of Routing for any models, registrations, policies and   *)
(* contents: the types, and that no call crosses the boundaries of         *)
(* privacy, cost, qualification and policy, however the registry, the      *)
(* files and the gate move between the decision and the call.              *)
(***************************************************************************)
EXTENDS Routing, FiniteSetTheorems, WellFoundedInduction, TLAPS

-----------------------------------------------------------------------------
(* What the operators choose.                                              *)

\* A finite set has a minimal element in any strict order R.
LEMMA FiniteMinimal ==
    ASSUME NEW S, IsFiniteSet(S), S # {}, NEW R,
           \A x \in S : <<x, x>> \notin R,
           \A x, y, z \in S : <<x, y>> \in R /\ <<y, z>> \in R => <<x, z>> \in R
    PROVE  \E x \in S : \A y \in S : <<y, x>> \notin R
  <1>1. PICK Below \in [S -> SUBSET S] : \A x \in S : Below[x] = {y \in S : <<y, x>> \in R}
    <2> DEFINE F == [x \in S |-> {y \in S : <<y, x>> \in R}]
    <2>1. F \in [S -> SUBSET S] /\ \A x \in S : F[x] = {y \in S : <<y, x>> \in R}
      OBVIOUS
    <2> QED
      BY <2>1
  <1>2. PICK Belows : Belows = {Below[x] : x \in S}
    OBVIOUS
  <1>3. Belows \subseteq FiniteSubsetsOf(S) /\ Belows # {}
    <2>1. ASSUME NEW x \in S PROVE Below[x] \in FiniteSubsetsOf(S)
      BY <1>1, FS_Subset DEF FiniteSubsetsOf
    <2> QED
      BY <1>2, <2>1
  <1>4. PICK low \in Belows : \A T \in Belows : <<T, low>> \notin StrictSubsetOrdering(S)
    BY <1>3, FS_StrictSubsetOrderingWellFounded, WFMin
  <1>5. PICK x \in S : low = Below[x]
    BY <1>2
  <1>6. ASSUME NEW y \in S, <<y, x>> \in R PROVE FALSE
    <2>1. Below[y] \subseteq Below[x] /\ Below[y] # Below[x]
      <3>1. ASSUME NEW z \in Below[y] PROVE z \in Below[x]
        <4>1. z \in S /\ <<z, y>> \in R
          BY <1>1
        <4>2. <<z, x>> \in R
          BY <1>6, <4>1
        <4> QED
          BY <1>1, <4>1, <4>2
      <3>2. y \in Below[x] /\ y \notin Below[y]
        BY <1>1, <1>6
      <3> QED
        BY <3>1, <3>2
    <2>2. Below[y] \in Belows /\ Below[y] \in SUBSET S /\ low \in SUBSET S
      BY <1>1, <1>2, <1>5
    <2>3. <<Below[y], low>> \in StrictSubsetOrdering(S)
      BY <1>5, <2>1, <2>2 DEF StrictSubsetOrdering
    <2> QED
      BY <1>4, <2>2, <2>3
  <1> QED
    BY <1>6

\* First is a member of the set it looks through: the order is total on models.
LEMMA FirstIsOneOf ==
    ASSUME NEW S \in SUBSET Model, S # {}, NEW cloudFirst \in BOOLEAN
    PROVE  First(S, cloudFirst) \in S
  <1> DEFINE Side(k) == registry[k].local = cloudFirst
  <1>1. PICK side \in [S -> BOOLEAN] : \A m \in S : side[m] <=> Side(m)
    <2> DEFINE F == [m \in S |-> Side(m)]
    <2>1. F \in [S -> BOOLEAN] /\ \A m \in S : F[m] <=> Side(m)
      OBVIOUS
    <2> QED
      BY <2>1
  <1>2. \A m, n \in S : Before(m, n, cloudFirst) <=> IF side[m] = side[n] THEN m <= n ELSE side[n]
    BY <1>1, Zenon DEF Before
  <1>3. S \subseteq Int /\ IsFiniteSet(S)
    BY RoutingConstants, FS_Subset
  <1>4. PICK R : R = {p \in S \X S : IF side[p[1]] = side[p[2]] THEN p[1] < p[2] ELSE side[p[2]]}
    OBVIOUS
  <1>5. \A m, n \in S : <<m, n>> \in R <=> IF side[m] = side[n] THEN m < n ELSE side[n]
    BY <1>4
  <1>6. \A x \in S : <<x, x>> \notin R
    BY <1>3, <1>5
  <1>7. \A x, y, z \in S : <<x, y>> \in R /\ <<y, z>> \in R => <<x, z>> \in R
    BY <1>1, <1>3, <1>5
  <1>8. PICK x \in S : \A y \in S : <<y, x>> \notin R
    BY <1>3, <1>6, <1>7, FiniteMinimal
  <1>9. \A y \in S : IF side[x] = side[y] THEN x <= y ELSE side[y]
    <2> SUFFICES ASSUME NEW y \in S PROVE IF side[x] = side[y] THEN x <= y ELSE side[y]
      OBVIOUS
    <2>1. x \in Int /\ y \in Int
      BY <1>3
    <2>2. ~ IF side[y] = side[x] THEN y < x ELSE side[x]
      BY <1>5, <1>8
    <2>3. side[x] \in BOOLEAN /\ side[y] \in BOOLEAN
      BY <1>1
    <2> QED
      BY <2>1, <2>2, <2>3
  <1>10. \A y \in S : Before(x, y, cloudFirst)
    BY <1>2, <1>9
  <1> QED
    BY <1>10 DEF First

\* Min of models is one of them.
LEMMA MinIsOneOf ==
    ASSUME NEW S \in SUBSET Model, S # {}
    PROVE  Min(S) \in S
  <1>1. S \subseteq Int /\ IsFiniteSet(S)
    BY RoutingConstants, FS_Subset
  <1>2. PICK R : R = {p \in S \X S : p[1] < p[2]}
    OBVIOUS
  <1>3. \A m, n \in S : <<m, n>> \in R <=> m < n
    BY <1>2
  <1>4. PICK x \in S : \A y \in S : <<y, x>> \notin R
    <2>1. \A y \in S : <<y, y>> \notin R
      BY <1>1, <1>3
    <2>2. \A y, z, v \in S : <<y, z>> \in R /\ <<z, v>> \in R => <<y, v>> \in R
      BY <1>1, <1>3
    <2> QED
      BY <1>1, <2>1, <2>2, FiniteMinimal
  <1>5. ASSUME NEW y \in S PROVE x <= y
    <2>1. x \in Int /\ y \in Int
      BY <1>1
    <2>2. ~(y < x)
      BY <1>3, <1>4
    <2> QED
      BY <2>1, <2>2
  <1> QED
    BY <1>5 DEF Min

\* The classes are in the order of their ranks.
LEMMA Ranks ==
    /\ Rank("public") = 1 /\ Rank("internal") = 2
    /\ Rank("confidential") = 3 /\ Rank("secret") = 4
    /\ Classes = {"public", "internal", "confidential", "secret"}
  <1>1. /\ DOMAIN Class = 1..4
        /\ Class[1] = "public" /\ Class[2] = "internal"
        /\ Class[3] = "confidential" /\ Class[4] = "secret"
    BY DEF Class
  <1>2. \A i \in 1..4 : i = 1 \/ i = 2 \/ i = 3 \/ i = 4
    OBVIOUS
  <1> QED
    BY <1>1, <1>2 DEF Rank, Classes

\* Classification never declares a request less sensitive than the task or the marks
\* of its contents say: what it lets out, both let out.
LEMMA ClassificationKeeps ==
    ASSUME NEW declared \in Classes, NEW marks \in SUBSET {"secret", "confidential"}
    PROVE  LET class == Classification(declared, marks)
           IN  /\ class \in Classes
               /\ ModelAllowed(class) => declared # "secret" /\ "secret" \notin marks
               /\ CloudAllowed(class) =>
                    /\ declared = "public" \/ (declared = "internal" /\ AllowInternalCloud)
                    /\ marks = {}
  <1> DEFINE detected == Detected(declared, marks)
             class == Classification(declared, marks)
  <1>1. \/ "secret" \in marks /\ detected = "secret"
        \/ "secret" \notin marks /\ "confidential" \in marks /\ detected = "confidential"
        \/ marks = {} /\ detected = declared
    BY DEF Detected
  <1>2. /\ declared \in {"public", "internal", "confidential", "secret"}
        /\ detected \in {"public", "internal", "confidential", "secret"}
    BY <1>1, Ranks
  <1>3. class = IF Rank(detected) > Rank(declared) THEN detected ELSE declared
    BY DEF Classification
  <1> HIDE DEF detected, class
  <1>4. class \in Classes
    BY <1>2, <1>3, Ranks
  <1>5. ModelAllowed(class) => declared # "secret" /\ "secret" \notin marks
    BY <1>1, <1>2, <1>3, Ranks DEF ModelAllowed
  <1>6. ASSUME CloudAllowed(class)
        PROVE /\ declared = "public" \/ (declared = "internal" /\ AllowInternalCloud)
              /\ marks = {}
    BY <1>1, <1>2, <1>3, <1>6, Ranks DEF CloudAllowed
  <1> QED
    BY <1>4, <1>5, <1>6 DEF class

-----------------------------------------------------------------------------
(* The inductive invariant.                                                *)

Request ==
    [declared: Classes, marks: Contents, mode: Modes, tools: BOOLEAN,
     at: {"route", "call", "admitted", "sent"}, excluded: SUBSET Model,
     todo: SUBSET Model, selected: Ref \cup {None}, model: Ref \cup {None}, cleared: BOOLEAN]

\* What is selected satisfies the privacy gate and the policy, and stays selected: the
\* classification of a request and its mode never change.
Decided(r) ==
    /\ ModelAllowed(ClassOf(r))
    /\ r.selected.local \/ CloudAllowed(ClassOf(r))
    /\ r.mode = "LOCAL_ONLY" => r.selected.local
    /\ r.mode = "CLOUD_ONLY" => ~r.selected.local

\* What is admitted is on the side of the selected model, is free, and if it is local
\* was approved and cleared.
Admitted(r) ==
    /\ r.model.local = r.selected.local
    /\ CostsNothing(r.model)
    /\ r.model.local => Declared(r.model, r.tools) /\ r.cleared

\* A request that may be in progress.
Fitting(r) ==
    /\ r \in Request
    /\ r.selected = None <=> r.at = "route"
    /\ r.model # None <=> r.at \in {"admitted", "sent"}
    /\ r.at # "route" => Decided(r)
    /\ r.at \in {"admitted", "sent"} => Admitted(r)

WorldOK ==
    /\ registry \in [Model -> Ref]
    /\ \A m \in Model : registry[m].id = m
    /\ intact \subseteq Model
    /\ gate \in [Model -> Verdict]

RInv == WorldOK /\ (req # None => Fitting(req))

\* The marks of contents are the two the gate looks for.
LEMMA MarksOfContents ==
    ASSUME NEW r \in Request
    PROVE  r.declared \in Classes /\ r.marks \in SUBSET {"secret", "confidential"}
  BY RoutingConstants DEF Request

\* The fields of what may be registered.
LEMMA RefFields ==
    ASSUME NEW ref \in Ref
    PROVE  /\ ref.id \in Model /\ ref.local \in BOOLEAN /\ ref.stage \in Stage
           /\ ref # None
  BY RoutingConstants DEF Ref

LEMMA InitRInv == RInit => RInv
  <1> SUFFICES ASSUME RInit PROVE RInv
    OBVIOUS
  <1>1. registry \in [Model -> Refs] /\ \A m \in Model : registry[m].id = m
    BY DEF RInit
  <1>2. registry \in [Model -> Ref]
    BY <1>1, RoutingConstants
  <1> QED
    BY <1>1, <1>2 DEF RInit, RInv, WorldOK

\* A step of the world leaves the request alone.
LEMMA WorldRInv == RInv /\ World => RInv'
  <1> SUFFICES ASSUME RInv, World PROVE RInv'
    OBVIOUS
  <1> USE DEF WorldOK
  <1>1. WorldOK /\ (req # None => Fitting(req))
    BY DEF RInv
  <1>2. req' = req
    BY DEF World, Register, Promote, ChangeFile, ChangeVerdict
  <1>3. WorldOK'
    <2>1. ASSUME NEW ref \in Refs, Register(ref) PROVE WorldOK'
      <3>1. ref \in Ref
        BY RoutingConstants
      <3>2. ref.id \in Model
        BY <3>1, RefFields
      <3> QED
        BY <1>1, <2>1, <3>1, <3>2 DEF Register
    <2>2. ASSUME NEW m \in Model, NEW i \in 1..(Len(Ladder) - 1), Promote(m, i) PROVE WorldOK'
      <3>1. Len(Ladder) = 6 /\ DOMAIN Ladder = 1..6
        BY DEF Ladder
      <3>2. Ladder[i + 1] \in Stage
        BY <3>1 DEF Stage
      <3>3. [registry[m] EXCEPT !.stage = Ladder[i + 1]] \in Ref
        BY <1>1, <3>2 DEF Ref
      <3>4. [registry[m] EXCEPT !.stage = Ladder[i + 1]].id = m
        BY <1>1 DEF Ref
      <3>5. registry' = [registry EXCEPT ![m] = [registry[m] EXCEPT !.stage = Ladder[i + 1]]]
        BY <2>2 DEF Promote
      <3> QED
        BY <1>1, <2>2, <3>3, <3>4, <3>5 DEF Promote
    <2>3. ASSUME NEW m \in Model, ChangeFile(m) PROVE WorldOK'
      BY <1>1, <2>3 DEF ChangeFile
    <2>4. ASSUME NEW m \in Model, NEW verdict \in Verdict, ChangeVerdict(m, verdict) PROVE WorldOK'
      BY <1>1, <2>4 DEF ChangeVerdict
    <2> QED
      BY <2>1, <2>2, <2>3, <2>4 DEF World
  <1> QED
    BY <1>1, <1>2, <1>3 DEF RInv

\* A step of the request that leaves the world alone, and the request fit.
LEMMA RequestRInv ==
    ASSUME RInv, UNCHANGED <<registry, intact, gate>>, req' # None => Fitting(req)'
    PROVE  RInv'
  BY DEF RInv, WorldOK

\* A new request is fit, and so is one that is to be routed anew.
LEMMA AskRInv ==
    ASSUME RInv, NEW declared \in Classes, NEW marks \in Contents, NEW mode \in Modes,
           NEW tools \in BOOLEAN, Ask(declared, marks, mode, tools)
    PROVE  RInv'
  <1>1. PICK r : r = [declared |-> declared, marks |-> marks, mode |-> mode, tools |-> tools,
                      at |-> "route", excluded |-> {}, todo |-> {}, selected |-> None,
                      model |-> None, cleared |-> FALSE]
    OBVIOUS
  <1>2. r \in Request
    BY <1>1 DEF Request
  <1>3. Fitting(r)
    BY <1>1, <1>2 DEF Fitting
  <1>4. req' = r
    BY <1>1 DEF Ask
  <1> QED
    BY <1>3, <1>4, RequestRInv DEF Ask

\* The end of a gateway call leaves no request, or one that is to be routed anew.
LEMMA OverIsFit ==
    ASSUME NEW r \in Request, NEW excluded \in SUBSET Model
    PROVE  Fitting([r EXCEPT !.at = "route", !.todo = {}, !.selected = None, !.model = None,
                             !.cleared = FALSE, !.excluded = @ \cup excluded])
  <1>1. PICK q : q = [r EXCEPT !.at = "route", !.todo = {}, !.selected = None, !.model = None,
                               !.cleared = FALSE, !.excluded = @ \cup excluded]
    OBVIOUS
  <1>2. r.excluded \cup excluded \in SUBSET Model
    BY DEF Request
  <1>3. q \in Request
    BY <1>1, <1>2 DEF Request
  <1>4. q.at = "route" /\ q.selected = None /\ q.model = None
    BY <1>1 DEF Request
  <1> QED
    BY <1>1, <1>3, <1>4 DEF Fitting

\* A request that has just been decided.
LEMMA DecidedIsFit ==
    ASSUME NEW r \in Request, Fitting(r), r.at = "route",
           NEW selected \in Ref, NEW todo \in SUBSET Model,
           ModelAllowed(ClassOf(r)), selected.local \/ CloudAllowed(ClassOf(r)),
           r.mode = "LOCAL_ONLY" => selected.local,
           r.mode = "CLOUD_ONLY" => ~selected.local
    PROVE  Fitting([r EXCEPT !.at = "call", !.selected = selected, !.todo = todo])
  <1>1. PICK q : q = [r EXCEPT !.at = "call", !.selected = selected, !.todo = todo]
    OBVIOUS
  <1>2. q \in Request
    BY <1>1 DEF Request
  <1>3. /\ q.at = "call" /\ q.selected = selected /\ q.model = r.model /\ q.mode = r.mode
        /\ q.declared = r.declared /\ q.marks = r.marks
    BY <1>1 DEF Request
  <1>4. ClassOf(q) = ClassOf(r)
    BY <1>3 DEF ClassOf
  <1>5. selected # None /\ r.model = None
    BY RefFields DEF Fitting
  <1>6. Decided(q)
    BY <1>3, <1>4 DEF Decided
  <1> QED
    BY <1>1, <1>2, <1>3, <1>5, <1>6 DEF Fitting

\* What the router decides, the privacy gate admits.
LEMMA DecideRInv == RInv /\ Decide => RInv'
  <1> SUFFICES ASSUME RInv, Decide PROVE RInv'
    OBVIOUS
  <1>1. /\ req # None /\ req.at = "route" /\ req.mode = "rules" /\ Eligible # {}
        /\ UNCHANGED <<registry, intact, gate>>
    BY DEF Decide, At, Ruled
  <1>2. req \in Request /\ Fitting(req)
    BY <1>1 DEF RInv, Fitting
  <1>3. Eligible \in SUBSET Model
    BY DEF Eligible
  <1>4. PICK selected : selected = First(Eligible, FALSE)
    OBVIOUS
  <1>5. selected \in Eligible
    BY <1>1, <1>3, <1>4, FirstIsOneOf
  <1>6. PICK ref \in Ref : ref = registry[selected]
    BY <1>3, <1>5 DEF RInv, WorldOK
  <1>7. ModelAllowed(ClassOf(req)) /\ (ref.local \/ CloudAllowed(ClassOf(req)))
    BY <1>5, <1>6 DEF Eligible, PrivacyAdmits
  <1>8. PICK todo \in SUBSET Model : todo = {m \in Eligible : registry[m].local = ref.local}
    BY <1>3
  <1>9. req' = [req EXCEPT !.at = "call", !.selected = ref, !.todo = todo]
    BY <1>4, <1>6, <1>8 DEF Decide
  <1>10. Fitting([req EXCEPT !.at = "call", !.selected = ref, !.todo = todo])
    BY <1>1, <1>2, <1>7, DecidedIsFit
  <1>11. PICK q : q = [req EXCEPT !.at = "call", !.selected = ref, !.todo = todo]
    OBVIOUS
  <1> QED
    BY <1>1, <1>9, <1>10, <1>11, RequestRInv

\* What a ContinuityManager selects, the privacy gate and the policy admit.
LEMMA SelectRInv ==
    ASSUME RInv, NEW healthy \in SUBSET Model, Select(healthy)
    PROVE  RInv'
  <1>1. req # None /\ req.at = "route" /\ UNCHANGED <<registry, intact, gate>>
    BY DEF Select, At
  <1>2. req \in Request /\ Fitting(req)
    BY <1>1 DEF RInv, Fitting
  <1>3. PICK usable \in SUBSET Model :
          usable = {m \in healthy \cap StaticallyEligible : registry[m].available /\ registry[m].served}
                       \ req.excluded
    BY DEF StaticallyEligible
  <1>4. PICK cloudFirst \in BOOLEAN : cloudFirst = (req.mode = "CLOUD_PREFERRED")
    OBVIOUS
  <1>5. PICK selected : selected = First(usable, cloudFirst)
    OBVIOUS
  <1>6. usable # {} /\ req' = [req EXCEPT !.at = "call", !.selected = registry[selected],
                                          !.todo = {selected}]
    BY <1>3, <1>4, <1>5 DEF Select
  <1>7. selected \in usable
    BY <1>5, <1>6, FirstIsOneOf
  <1>8. selected \in Model /\ selected \in StaticallyEligible
    BY <1>3, <1>7
  <1>9. PICK ref \in Ref : ref = registry[selected]
    BY <1>8 DEF RInv, WorldOK
  <1>10. PrivacyAdmits(ref, ClassOf(req)) /\ ModeAdmits(ref)
    BY <1>8, <1>9 DEF StaticallyEligible
  <1>11. /\ ModelAllowed(ClassOf(req)) /\ (ref.local \/ CloudAllowed(ClassOf(req)))
         /\ req.mode = "LOCAL_ONLY" => ref.local
         /\ req.mode = "CLOUD_ONLY" => ~ref.local
    BY <1>10 DEF PrivacyAdmits, ModeAdmits
  <1>12. PICK todo \in SUBSET Model : todo = {selected}
    BY <1>8
  <1>13. Fitting([req EXCEPT !.at = "call", !.selected = ref, !.todo = todo])
    BY <1>1, <1>2, <1>11, DecidedIsFit
  <1>14. PICK q : q = [req EXCEPT !.at = "call", !.selected = ref, !.todo = todo]
    OBVIOUS
  <1> QED
    BY <1>1, <1>6, <1>9, <1>12, <1>13, <1>14, RequestRInv

\* The end of a gateway call, whatever ends it.
LEMMA OverRInv ==
    ASSUME RInv, req # None, UNCHANGED <<registry, intact, gate>>,
           NEW excluded \in SUBSET Model, req' = Over(excluded)
    PROVE  RInv'
  <1>1. req \in Request
    BY DEF RInv, Fitting
  <1>2. PICK q : q = [req EXCEPT !.at = "route", !.todo = {}, !.selected = None, !.model = None,
                                 !.cleared = FALSE, !.excluded = @ \cup excluded]
    OBVIOUS
  <1>3. Fitting(q)
    BY <1>1, <1>2, OverIsFit
  <1>4. req' = None \/ req' = q
    BY <1>2 DEF Over
  <1> QED
    BY <1>3, <1>4, RequestRInv

\* The id of what is selected may be excluded.
LEMMA SelectedId ==
    ASSUME RInv, req # None, req.at # "route"
    PROVE  /\ req \in Request /\ Fitting(req) /\ req.selected \in Ref
           /\ {req.selected.id} \in SUBSET Model
  <1>1. req \in Request /\ Fitting(req) /\ req.selected # None
    BY DEF RInv, Fitting
  <1>2. req.selected \in Ref
    BY <1>1 DEF Request
  <1> QED
    BY <1>1, <1>2, RefFields

\* The next candidate: what was decided stays.
LEMMA SkipRInv == RInv /\ Skip => RInv'
  <1> SUFFICES ASSUME RInv, Skip PROVE RInv'
    OBVIOUS
  <1>1. req # None /\ req.at = "call" /\ UNCHANGED <<registry, intact, gate>>
    BY DEF Skip, At
  <1>2. req \in Request /\ Fitting(req)
    BY <1>1, SelectedId
  <1>3. PICK todo \in SUBSET Model : todo = req.todo \ {Candidate}
    BY <1>2 DEF Request
  <1>4. PICK q : q = [req EXCEPT !.todo = todo]
    OBVIOUS
  <1>5. /\ q \in Request /\ q.at = "call" /\ q.selected = req.selected /\ q.model = req.model
        /\ q.mode = req.mode /\ ClassOf(q) = ClassOf(req)
    BY <1>1, <1>2, <1>4 DEF Request, ClassOf
  <1>6. Fitting(q)
    BY <1>1, <1>2, <1>5 DEF Fitting, Decided
  <1>7. req' = q
    BY <1>3, <1>4 DEF Skip
  <1> QED
    BY <1>1, <1>6, <1>7, RequestRInv

\* The candidate that is admitted was looked at again: its side, its cost and, if it
\* is local, its approval.
LEMMA AdmitRInv == RInv /\ Admit => RInv'
  <1> SUFFICES ASSUME RInv, Admit PROVE RInv'
    OBVIOUS
  <1>1. /\ req # None /\ req.at = "call" /\ req.todo # {}
        /\ UNCHANGED <<registry, intact, gate>>
    BY DEF Admit, At
  <1>2. req \in Request /\ Fitting(req) /\ req.selected \in Ref
    BY <1>1, SelectedId
  <1>3. PICK candidate \in Model : candidate = Candidate
    BY <1>1, <1>2, MinIsOneOf DEF Candidate, Request
  <1>4. PICK ref \in Ref : ref = registry[candidate] /\ ref.id = candidate
    BY <1>3 DEF RInv, WorldOK
  <1>5. ref.local = req.selected.local /\ CostsNothing(ref)
    BY <1>3, <1>4 DEF Admit, Skipped
  <1>6. CASE RequireAutomatic(ref, req.tools)
    <2>1. PICK todo \in SUBSET Model : todo = req.todo \ {candidate}
      BY <1>2 DEF Request
    <2>2. PICK cleared \in BOOLEAN : cleared = Cleared(candidate, req.tools)
      BY DEF Cleared
    <2>3. PICK q : q = [req EXCEPT !.at = "admitted", !.todo = todo, !.model = ref,
                                   !.cleared = cleared]
      OBVIOUS
    <2>4. /\ q \in Request /\ q.at = "admitted" /\ q.selected = req.selected /\ q.model = ref
          /\ q.mode = req.mode /\ q.tools = req.tools /\ q.cleared = cleared
          /\ ClassOf(q) = ClassOf(req)
      BY <1>2, <2>3 DEF Request, ClassOf
    <2>5. Admitted(q)
      BY <1>4, <1>5, <1>6, <2>2, <2>4 DEF Admitted, RequireAutomatic
    <2>6. Decided(q)
      BY <1>1, <1>2, <2>4 DEF Fitting, Decided
    <2>7. q.model # None /\ q.selected # None
      BY <1>2, <2>4, RefFields
    <2>8. Fitting(q)
      BY <2>4, <2>5, <2>6, <2>7 DEF Fitting
    <2>9. req' = q
      BY <1>3, <1>4, <1>6, <2>1, <2>2, <2>3 DEF Admit
    <2> QED
      BY <1>1, <2>8, <2>9, RequestRInv
  <1>7. CASE ~RequireAutomatic(ref, req.tools)
    <2>1. req' = Over({req.selected.id})
      BY <1>3, <1>4, <1>7 DEF Admit
    <2> QED
      BY <1>1, <2>1, SelectedId, OverRInv
  <1> QED
    BY <1>6, <1>7

\* The adapter sends what was admitted, or ends the call.
LEMMA SendRInv == RInv /\ Send => RInv'
  <1> SUFFICES ASSUME RInv, Send PROVE RInv'
    OBVIOUS
  <1>1. req # None /\ req.at = "admitted" /\ UNCHANGED <<registry, intact, gate>>
    BY DEF Send, At
  <1>2. req \in Request /\ Fitting(req)
    BY <1>1, SelectedId
  <1>3. req' = [req EXCEPT !.at = "sent"] \/ req' = Over({req.selected.id})
    BY DEF Send
  <1>4. PICK q : q = [req EXCEPT !.at = "sent"]
    OBVIOUS
  <1>5. /\ q \in Request /\ q.at = "sent" /\ q.selected = req.selected /\ q.model = req.model
        /\ q.mode = req.mode /\ q.tools = req.tools /\ q.cleared = req.cleared
        /\ ClassOf(q) = ClassOf(req)
    BY <1>2, <1>4 DEF Request, ClassOf
  <1>6. Fitting(q)
    BY <1>1, <1>2, <1>5 DEF Fitting, Decided, Admitted
  <1> QED
    BY <1>1, <1>3, <1>4, <1>6, SelectedId, OverRInv, RequestRInv

\* After AdapterUnavailable the next candidate answers to the same decision.
LEMMA UnavailableRInv == RInv /\ Unavailable => RInv'
  <1> SUFFICES ASSUME RInv, Unavailable PROVE RInv'
    OBVIOUS
  <1>1. /\ req # None /\ req.at \in {"admitted", "sent"} /\ UNCHANGED <<registry, intact, gate>>
        /\ req' = [req EXCEPT !.at = "call", !.model = None, !.cleared = FALSE]
    BY DEF Unavailable, At
  <1>2. req \in Request /\ Fitting(req) /\ req.selected # None
    BY <1>1, SelectedId, RefFields
  <1>3. PICK q : q = [req EXCEPT !.at = "call", !.model = None, !.cleared = FALSE]
    OBVIOUS
  <1>4. /\ q \in Request /\ q.at = "call" /\ q.selected = req.selected /\ q.model = None
        /\ q.mode = req.mode /\ ClassOf(q) = ClassOf(req)
    BY <1>2, <1>3 DEF Request, ClassOf
  <1>5. Fitting(q)
    BY <1>1, <1>2, <1>4 DEF Fitting, Decided
  <1> QED
    BY <1>1, <1>3, <1>5, RequestRInv

\* The ways in which a call ends: with no request, or with Over.
LEMMA EndRInv ==
    ASSUME RInv, Deny \/ Respond \/ Terminate \/ \E exclude \in BOOLEAN : Fail(exclude) \/ Exhaust(exclude)
    PROVE  RInv'
  <1>1. CASE Deny \/ Respond \/ Terminate
    BY <1>1, RequestRInv DEF Deny, Respond, Terminate
  <1>2. ASSUME NEW exclude \in BOOLEAN, Fail(exclude) \/ Exhaust(exclude) PROVE RInv'
    <2>1. req # None /\ req.at # "route" /\ UNCHANGED <<registry, intact, gate>>
      BY <1>2 DEF Fail, Exhaust, At
    <2>2. PICK excluded \in SUBSET Model : excluded = IF exclude THEN {req.selected.id} ELSE {}
      BY <2>1, SelectedId
    <2>3. req' = Over(excluded)
      BY <1>2, <2>2 DEF Fail, Exhaust
    <2> QED
      BY <2>1, <2>3, OverRInv
  <1> QED
    BY <1>1, <1>2

LEMMA NextRInv == RInv /\ [RNext]_vars => RInv'
  <1> SUFFICES ASSUME RInv, [RNext]_vars PROVE RInv'
    OBVIOUS
  <1>1. CASE World
    BY <1>1, WorldRInv
  <1>2. ASSUME NEW declared \in Classes, NEW marks \in Contents, NEW mode \in Modes,
               NEW tools \in BOOLEAN, Ask(declared, marks, mode, tools)
        PROVE RInv'
    BY <1>2, AskRInv
  <1>3. CASE Decide
    BY <1>3, DecideRInv
  <1>4. ASSUME NEW healthy \in SUBSET Model, Select(healthy) PROVE RInv'
    BY <1>4, SelectRInv
  <1>5. CASE Skip
    BY <1>5, SkipRInv
  <1>6. CASE Admit
    BY <1>6, AdmitRInv
  <1>7. CASE Send
    BY <1>7, SendRInv
  <1>8. CASE Unavailable
    BY <1>8, UnavailableRInv
  <1>9. CASE Deny \/ Respond \/ Terminate \/ \E exclude \in BOOLEAN : Fail(exclude) \/ Exhaust(exclude)
    BY <1>9, EndRInv
  <1>10. CASE UNCHANGED vars
    BY <1>10, RequestRInv DEF vars, RInv
  <1> QED
    BY <1>1, <1>2, <1>3, <1>4, <1>5, <1>6, <1>7, <1>8, <1>9, <1>10 DEF RNext

\* RInv holds in every reachable state.
LEMMA RoutingInvariant == RSpec => []RInv
  BY InitRInv, NextRInv, PTL DEF RSpec

-----------------------------------------------------------------------------
(* What the runs check, for any models, registrations, policies, contents. *)

\* Every variable keeps its type; a decided request has a model to call.
THEOREM RTypeCorrect == RSpec => []RTypeOK
  <1>1. RInv => RTypeOK
    BY DEF RInv, WorldOK, Fitting, Request, RTypeOK
  <1> QED
    BY <1>1, RoutingInvariant, PTL

\* What is sent, RInv says of it.
LEMMA WhatIsSent ==
    ASSUME RInv, Sent
    PROVE  /\ req \in Request /\ Decided(req) /\ Admitted(req)
           /\ req.model.local = req.selected.local
  <1>1. req # None /\ req.at = "sent"
    BY DEF Sent, At
  <1> QED
    BY <1>1 DEF RInv, Fitting, Admitted

\* A secret reaches no model, and what the gate keeps from the cloud reaches local
\* models only, whatever is registered between the decision and the call (classify,
\* the two routers, and the boundary the gateway does not cross).
THEOREM PrivacyIsKept == RSpec => []PrivacyKept
  <1>1. ASSUME RInv, Sent
        PROVE /\ req.declared # "secret" /\ "secret" \notin req.marks
              /\ \/ req.declared = "confidential" \/ "confidential" \in req.marks
                 \/ req.declared = "internal" /\ ~AllowInternalCloud
                 => req.model.local
    <2>1. /\ req \in Request /\ ModelAllowed(ClassOf(req))
          /\ req.model.local \/ CloudAllowed(ClassOf(req))
      BY <1>1, WhatIsSent DEF Decided
    <2>2. req.declared \in Classes /\ req.marks \in SUBSET {"secret", "confidential"}
      BY <2>1, MarksOfContents
    <2>3. /\ ModelAllowed(ClassOf(req)) => req.declared # "secret" /\ "secret" \notin req.marks
          /\ CloudAllowed(ClassOf(req)) =>
               /\ req.declared = "public" \/ (req.declared = "internal" /\ AllowInternalCloud)
               /\ req.marks = {}
      BY <2>2, ClassificationKeeps DEF ClassOf
    <2> QED
      BY <2>1, <2>3
  <1>2. RInv => PrivacyKept
    BY <1>1 DEF PrivacyKept
  <1> QED
    BY <1>2, RoutingInvariant, PTL

\* LOCAL_ONLY stays local and CLOUD_ONLY never runs a local model, fallbacks included.
THEOREM PolicyIsKept == RSpec => []PolicyKept
  <1>1. RInv => PolicyKept
    BY WhatIsSent DEF PolicyKept, Decided
  <1> QED
    BY <1>1, RoutingInvariant, PTL

\* No call is paid, even of a model whose price changed after the route was decided
\* (the second look at cost_class in InferenceGateway.infer).
THEOREM NothingIsPaid == RSpec => []NothingPaid
  <1>1. RInv => NothingPaid
    BY WhatIsSent DEF NothingPaid, Admitted
  <1> QED
    BY <1>1, RoutingInvariant, PTL

\* A local model that is called was approved and cleared when the gateway called it
\* (require_automatic in InferenceGateway.infer).
THEOREM LocalIsApproved == RSpec => []LocalIsFit
  <1>1. RInv => LocalIsFit
    BY WhatIsSent DEF LocalIsFit, Admitted
  <1> QED
    BY <1>1, RoutingInvariant, PTL
=============================================================================
