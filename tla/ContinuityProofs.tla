--------------------------- MODULE ContinuityProofs ---------------------------
(***************************************************************************)
(* What is proved of Continuity for any workers, tasks, routes and times:  *)
(* the types, that a run without its lease is mute, that the budget of     *)
(* attempts is kept, and, of one task, that no delay is disregarded.       *)
(***************************************************************************)
EXTENDS Continuity, FiniteSetTheorems, SequenceTheorems, TLAPS

-----------------------------------------------------------------------------
(* Choosing a least or a greatest number.                                  *)

\* Of finitely many numbers one is the least and one the greatest.
LEMMA Extremes ==
    ASSUME NEW S, S \subseteq Int, IsFiniteSet(S), S # {}
    PROVE  /\ \E n \in S : \A m \in S : n <= m
           /\ \E n \in S : \A m \in S : m <= n
  <1>1. ASSUME NEW f \in [S -> SUBSET S]
        PROVE  \E n \in S : \A m \in S : ~(f[m] \subseteq f[n] /\ f[m] # f[n])
    <2>1. PICK T : T = {f[n] : n \in S}
      OBVIOUS
    <2>2. ASSUME NEW n \in S PROVE f[n] \in FiniteSubsetsOf(S)
      BY FS_Subset DEF FiniteSubsetsOf
    <2>3. T \subseteq FiniteSubsetsOf(S) /\ T # {}
      BY <2>1, <2>2
    <2>4. PICK low \in T : \A U \in T : <<U, low>> \notin StrictSubsetOrdering(S)
      BY <2>3, FS_StrictSubsetOrderingWellFounded, WFMin
    <2>5. PICK n \in S : low = f[n]
      BY <2>1
    <2>6. ASSUME NEW m \in S PROVE ~(f[m] \subseteq f[n] /\ f[m] # f[n])
      <3>1. f[m] \in T /\ f[m] \in SUBSET S /\ f[n] \in SUBSET S
        BY <2>1
      <3>2. <<f[m], f[n]>> \notin StrictSubsetOrdering(S)
        BY <2>4, <2>5, <3>1
      <3> QED
        BY <3>1, <3>2 DEF StrictSubsetOrdering
    <2> QED
      BY <2>6
  <1>2. \E n \in S : \A m \in S : n <= m
    <2>1. PICK f \in [S -> SUBSET S] : \A n \in S : f[n] = {k \in S : k < n}
      <3>1. [n \in S |-> {k \in S : k < n}] \in [S -> SUBSET S]
        OBVIOUS
      <3> QED
        BY <3>1
    <2>2. PICK n \in S : \A m \in S : ~(f[m] \subseteq f[n] /\ f[m] # f[n])
      BY <1>1
    <2>3. ASSUME NEW m \in S, m < n PROVE FALSE
      <3>1. m \in Int /\ n \in Int /\ m \in f[n] /\ m \notin f[m]
        BY <2>1, <2>3
      <3>2. ASSUME NEW k \in f[m] PROVE k \in f[n]
        <4>1. k \in S /\ k \in Int /\ k < m
          BY <2>1
        <4> QED
          BY <2>1, <2>3, <3>1, <4>1
      <3> QED
        BY <2>2, <3>1, <3>2
    <2>4. ASSUME NEW m \in S PROVE n <= m
      <3>1. m \in Int /\ n \in Int
        OBVIOUS
      <3> QED
        BY <2>3, <3>1
    <2> QED
      BY <2>4
  <1>3. \E n \in S : \A m \in S : m <= n
    <2>1. PICK f \in [S -> SUBSET S] : \A n \in S : f[n] = {k \in S : n < k}
      <3>1. [n \in S |-> {k \in S : n < k}] \in [S -> SUBSET S]
        OBVIOUS
      <3> QED
        BY <3>1
    <2>2. PICK n \in S : \A m \in S : ~(f[m] \subseteq f[n] /\ f[m] # f[n])
      BY <1>1
    <2>3. ASSUME NEW m \in S, n < m PROVE FALSE
      <3>1. m \in Int /\ n \in Int /\ m \in f[n] /\ m \notin f[m]
        BY <2>1, <2>3
      <3>2. ASSUME NEW k \in f[m] PROVE k \in f[n]
        <4>1. k \in S /\ k \in Int /\ m < k
          BY <2>1
        <4> QED
          BY <2>1, <2>3, <3>1, <4>1
      <3> QED
        BY <2>2, <3>1, <3>2
    <2>4. ASSUME NEW m \in S PROVE m <= n
      <3>1. m \in Int /\ n \in Int
        OBVIOUS
      <3> QED
        BY <2>3, <3>1
    <2> QED
      BY <2>4
  <1> QED
    BY <1>2, <1>3

\* LeastOf is one of the numbers it looks through.
LEMMA LeastIsOneOf ==
    ASSUME NEW S, S \subseteq Int, IsFiniteSet(S), S # {}
    PROVE  LeastOf(S) \in S
  BY Extremes DEF LeastOf

\* Every delay the system knows is a number of ticks.
LEMMA DelaysAreTicks ==
    /\ Longest \in Nat
    /\ RetryAfter \subseteq Ticks /\ 0..MaxBackoff \subseteq Ticks
    /\ 0..Window \subseteq Ticks /\ Base \in Ticks /\ 0 \in Ticks
    /\ Ticks \subseteq Nat
  <1> DEFINE S == RetryAfter \cup {MaxBackoff, Window, Base}
  <1>1. Longest = CHOOSE n \in S : \A m \in S : m <= n
    BY DEF Longest
  <1>2. S \subseteq Nat /\ S # {}
    BY ContinuityConstants
  <1>3. IsFiniteSet(S)
    <2>1. IsFiniteSet({MaxBackoff, Window, Base})
      <3>1. IsFiniteSet({MaxBackoff})
        BY FS_Singleton
      <3>2. IsFiniteSet({MaxBackoff} \cup {Window})
        BY <3>1, FS_AddElement
      <3>3. IsFiniteSet(({MaxBackoff} \cup {Window}) \cup {Base})
        BY <3>2, FS_AddElement
      <3>4. {MaxBackoff, Window, Base} = ({MaxBackoff} \cup {Window}) \cup {Base}
        OBVIOUS
      <3> QED
        BY <3>3, <3>4
    <2> QED
      BY <2>1, ContinuityConstants, FS_Union
  <1>4. MaxBackoff \in S /\ Window \in S /\ Base \in S /\ RetryAfter \subseteq S
    OBVIOUS
  <1> HIDE DEF S
  <1>5. \E n \in S : \A m \in S : m <= n
    <2>1. S \subseteq Int
      BY <1>2
    <2> QED
      BY <1>2, <1>3, <2>1, Extremes
  <1>6. Longest \in S /\ \A m \in S : m <= Longest
    BY <1>1, <1>5, Zenon
  <1>7. Longest \in Nat /\ MaxBackoff \in Nat /\ Window \in Nat /\ Base \in Nat
    BY <1>2, <1>6, ContinuityConstants
  <1>8. MaxBackoff <= Longest /\ Window <= Longest /\ Base <= Longest
    BY <1>6, <1>4
  <1>9. \A d \in RetryAfter : d \in Nat /\ d <= Longest
    BY <1>2, <1>6, <1>4
  <1> QED
    BY <1>7, <1>8, <1>9 DEF Ticks

\* A tick less, of a time that is left.
LEMMA LessIsLess ==
    /\ Less(None) = None /\ Less(0) = 0
    /\ \A n \in Nat : n # 0 => Less(n) = n - 1
    /\ \A n \in Ticks : Less(n) \in Ticks
    /\ \A n \in Nat : Less(n) \in Nat /\ Less(n) <= n
    /\ \A m, n \in Nat : m <= n => Less(m) <= Less(n)
    /\ \A l \in Nat : \A n \in 0..l \cup {None} : Less(n) \in 0..l \cup {None}
  <1>1. None \notin Nat /\ Less(None) = None /\ Less(0) = 0
    BY ContinuityConstants DEF Less
  <1>2. \A n \in Nat : n # 0 => Less(n) = n - 1
    BY <1>1 DEF Less
  <1> QED
    BY <1>1, <1>2, DelaysAreTicks DEF Ticks

\* What failures there are: the provider asks for no longer a delay than its error
\* carries, as a delay or as a point in time.
LEMMA FailuresCarry ==
    ASSUME NEW f \in Failures
    PROVE  /\ f.verdict \in {"retry", "route", "request"}
           /\ f.told \in Ticks /\ f.until \in Ticks /\ f.asked \in Ticks
           /\ f.asked <= f.told \/ f.asked <= f.until
  <1>1. PICK a \in Adapters, r \in Reply :
          f = [verdict |-> Verdict(Error(a, r)), told |-> Carried(a, r).after,
               until |-> Carried(a, r).until, asked |-> Asked(a, r)]
    <2> DEFINE Of(a, r) ==
          [verdict |-> Verdict(Error(a, r)), told |-> Carried(a, r).after,
           until |-> Carried(a, r).until, asked |-> Asked(a, r)]
    <2>1. PICK a \in Adapters :
            f \in {Of(a, r) : r \in {r \in Reply : Error(a, r) \notin {"none", "untyped"}}}
      BY Zenon DEF Failures
    <2>2. PICK r \in {r \in Reply : Error(a, r) \notin {"none", "untyped"}} : f = Of(a, r)
      BY <2>1, Zenon
    <2> QED
      BY <2>2
  <1>2. r.after \in Ticks /\ r.reset \in Ticks /\ 0 \in Ticks /\ \A n \in Ticks : n \in Nat
    <2>1. r.after \in RetryAfter /\ r.reset \in RetryAfter
      BY DEF Reply
    <2> QED
      BY <2>1, DelaysAreTicks
  <1>3. Verdict(Error(a, r)) \in {"retry", "route", "request"}
    BY DEF Verdict
  <1>4. Carried(a, r).after \in Ticks /\ Carried(a, r).until \in Ticks
    BY <1>2 DEF Carried, ResetAt
  <1>5. Asked(a, r) \in Ticks
    BY <1>2 DEF Asked, Larger
  <1>6. ASSUME r.code > 200, r.body = "whole", Verdict(Error(a, r)) = "retry"
        PROVE  Asked(a, r) <= Carried(a, r).after \/ Asked(a, r) <= Carried(a, r).until
    <2>1. r.code \in {302, 400, 401, 404, 408, 413, 429, 500}
      <3>1. r.code \in {TimedOut, Lost, 200, 302, 400, 401, 404, 408, 413, 429, 500}
        BY DEF Reply
      <3> QED
        BY <1>6, <3>1 DEF TimedOut, Lost
    <2>2. HeadersSeen(a, r)
      BY <1>6 DEF HeadersSeen
    <2>3. Error(a, r) \in {CloudHttpError(r), LocalHttpError(r)}
      <3>1. Error(a, r) \in {CloudError(r), LocalError(r, OllamaSays(r.says)),
                             LocalError(r, LlamaCppSays(r.says))}
        BY DEF Error, Adapters
      <3>2. CloudError(r) = CloudHttpError(r)
        BY <2>1 DEF CloudError, TimedOut, Lost
      <3>3. \A said : LocalError(r, said) = LocalHttpError(r)
        BY <1>6, <2>1 DEF LocalError, TimedOut, Lost
      <3> QED
        BY <3>1, <3>2, <3>3
    <2>4. CASE r.code \in {408, 500}
      <3>1. Carried(a, r).after = r.after
        BY <2>2, <2>4 DEF Carried
      <3>2. Asked(a, r) = r.after
        BY <1>6, <2>4 DEF Asked
      <3> QED
        BY <1>2, <3>1, <3>2
    <2>5. CASE r.code = 429
      <3>1. Carried(a, r).after = r.after
        BY <2>2, <2>5 DEF Carried
      <3>2. CASE a = "litellm" /\ r.unit = "time"
        <4>1. Carried(a, r).until = r.reset
          BY <2>2, <2>5, <3>2 DEF Carried, ResetAt
        <4>2. Asked(a, r) = Larger(r.after, r.reset)
          BY <1>6, <2>5, <3>2 DEF Asked
        <4> QED
          BY <1>2, <3>1, <4>1, <4>2 DEF Larger
      <3>3. CASE ~(a = "litellm" /\ r.unit = "time")
        <4>1. Asked(a, r) = r.after
          BY <1>6, <3>3 DEF Asked
        <4> QED
          BY <1>2, <3>1, <4>1
      <3> QED
        BY <3>2, <3>3
    <2>6. CASE r.code = 404
      <3>1. a # "litellm"
        <4>1. SUFFICES ASSUME a = "litellm" PROVE FALSE
          OBVIOUS
        <4>2. Error(a, r) = CloudError(r)
          BY <4>1 DEF Error
        <4>3. CloudError(r) = CloudHttpError(r)
          BY <2>6 DEF CloudError, TimedOut, Lost
        <4>4. CloudHttpError(r) = "InvalidRequest"
          BY <2>6 DEF CloudHttpError
        <4> QED
          BY <1>6, <4>2, <4>3, <4>4 DEF Verdict
      <3>2. Carried(a, r).after = r.after
        BY <2>2, <2>6, <3>1 DEF Carried
      <3>3. Asked(a, r) = r.after
        BY <1>6, <2>6 DEF Asked
      <3> QED
        BY <1>2, <3>2, <3>3
    <2>7. CASE r.code \in {302, 400, 401, 413}
      <3>1. CloudHttpError(r) \in {"PolicyDenied", "ContextExceeded", "InvalidRequest"}
        BY <1>6, <2>7 DEF CloudHttpError
      <3>2. LocalHttpError(r) \in {"PolicyDenied", "ContextExceeded", "InvalidRequest"}
        BY <2>7 DEF LocalHttpError
      <3> QED
        BY <1>6, <2>3, <3>1, <3>2 DEF Verdict
    <2> QED
      BY <2>1, <2>4, <2>5, <2>6, <2>7
  <1>7. ASSUME ~(r.code > 200 /\ r.body = "whole" /\ Verdict(Error(a, r)) = "retry")
        PROVE  Asked(a, r) <= Carried(a, r).after
    <2>1. Asked(a, r) = 0
      BY <1>7 DEF Asked
    <2> QED
      BY <1>2, <1>4, <2>1
  <1>8. Asked(a, r) <= Carried(a, r).after \/ Asked(a, r) <= Carried(a, r).until
    BY <1>6, <1>7
  <1> QED
    BY <1>1, <1>3, <1>4, <1>5, <1>8

-----------------------------------------------------------------------------
(* Types, and what a run holds at each of its labels.                      *)

\* A run that has chosen a model has one; a delay that will be recorded is a number of
\* ticks, and it or the time of the reset is no shorter than what the provider has asked for.
Sound(r) ==
    /\ r \in Run
    /\ r.at \in {"reserve", "route", "call", "blame", "observe", "credit"} => r.model \in Model
    /\ r.at \in {"blame", "observe"} => r.time \in Ticks
    /\ r.at = "blame" => r.asked <= r.time \/ r.asked <= r.until
    /\ r.at = "observe" => r.asked <= r.time
    /\ r.at = "outcome" /\ r.verdict = "retry_later" => r.time \in Ticks

RunsOK ==
    /\ run \in [Worker -> Run \cup {None}]
    /\ \A w \in Worker : run[w] # None => Sound(run[w])

SharedOK ==
    /\ holder \in [Task -> Worker \cup {None}]
    /\ cancel \in [Task -> BOOLEAN] /\ ended \in [Task -> BOOLEAN]
    /\ obs \in [Backend -> Observation \cup {None}]
    /\ window \in [Task -> 0..Window \cup {None}]
    /\ attempts \in [Task -> 0..MaxAttempts]
    /\ defer \in [Task -> Ticks \cup {None}]
    /\ announced \in [Backend -> Ticks]

LEMMA TypeParts == SharedOK /\ RunsOK => CTypeOK
  BY DEF SharedOK, RunsOK, CTypeOK

Stages == {"look", "reserve", "route", "call", "blame", "observe", "credit", "outcome", "done"}

\* A run at work is sound, and its fields are of their types.
LEMMA RunAt ==
    ASSUME RunsOK, NEW w \in Worker, run[w] # None
    PROVE  /\ run[w] \in Run /\ Sound(run[w])
           /\ TaskOf(w) \in Task /\ run[w].task = TaskOf(w)
           /\ run[w].time \in Nat /\ run[w].asked \in Ticks /\ run[w].until \in Ticks
           /\ run[w].at \in Stages
  <1>1. run[w] \in Run /\ Sound(run[w])
    BY DEF RunsOK, Sound
  <1>2. run[w].time \in Ticks \cup 0..CallTime /\ run[w].asked \in Ticks /\ run[w].until \in Ticks
    BY <1>1 DEF Run
  <1>3. \A n \in 0..CallTime : n \in Nat
    BY ContinuityConstants
  <1>4. run[w].time \in Nat /\ run[w].asked \in Ticks /\ run[w].until \in Ticks
    BY <1>2, <1>3, DelaysAreTicks
  <1>5. run[w].task \in Task /\ run[w].at \in Stages
    BY <1>1 DEF Run, Stages
  <1> QED
    BY <1>1, <1>4, <1>5 DEF TaskOf

\* The runs after a step of one worker.
LEMMA RunsAfter ==
    ASSUME RunsOK, NEW w \in Worker, NEW q, q = None \/ Sound(q),
           run' = [run EXCEPT ![w] = q]
    PROVE  RunsOK'
  <1>1. q \in Run \cup {None}
    BY DEF Sound
  <1>2. run' \in [Worker -> Run \cup {None}]
    BY <1>1 DEF RunsOK
  <1>3. ASSUME NEW v \in Worker, run'[v] # None PROVE Sound(run'[v])
    BY <1>3 DEF RunsOK
  <1> QED
    BY <1>2, <1>3 DEF RunsOK

\* A run as Start leaves it, wherever it goes from there.
LEMMA StartIsSound ==
    ASSUME NEW t \in Task, NEW excluded \in SUBSET Model
    PROVE  /\ Sound(Start(t))
           /\ Sound([Start(t) EXCEPT !.excluded = excluded])
           /\ Start(t).task = t /\ Start(t).at = "look" /\ Start(t).asked = 0
           /\ [Start(t) EXCEPT !.excluded = excluded].task = t
           /\ [Start(t) EXCEPT !.excluded = excluded].at = "look"
  <1>1. Start(t) \in Run
    <2>1. 0 \in Ticks
      BY DelaysAreTicks
    <2> QED
      BY <2>1 DEF Start, Run
  <1>2. [Start(t) EXCEPT !.excluded = excluded] \in Run
    BY <1>1 DEF Run
  <1> QED
    BY <1>1, <1>2 DEF Start, Sound

\* A run that has come to its end.
LEMMA DoneIsSound ==
    ASSUME NEW t \in Task,
           NEW verdict \in {"raised"} \cup {r.verdict : r \in Run}
    PROVE  Sound([Start(t) EXCEPT !.at = "done", !.verdict = verdict])
  <1>1. PICK q : q = [Start(t) EXCEPT !.at = "done", !.verdict = verdict]
    OBVIOUS
  <1>2. Start(t) \in Run
    BY StartIsSound DEF Sound
  <1>3. q \in Run /\ q.at = "done"
    BY <1>1, <1>2 DEF Run
  <1> QED
    BY <1>1, <1>3 DEF Sound

\* A run that only moves, to a label where no delay counts.
LEMMA MoveIsSound ==
    ASSUME NEW r \in Run, r.model \in Model, NEW at \in {"route", "credit"}
    PROVE  Sound([r EXCEPT !.at = at])
  <1>1. PICK q : q = [r EXCEPT !.at = at]
    OBVIOUS
  <1>2. q \in Run /\ q.at = at /\ q.model = r.model
    BY <1>1 DEF Run
  <1> QED
    BY <1>1, <1>2 DEF Sound

LEMMA CallIsSound ==
    ASSUME NEW r \in Run, r.model \in Model
    PROVE  Sound([r EXCEPT !.at = "call", !.time = 0])
  <1>1. PICK q : q = [r EXCEPT !.at = "call", !.time = 0]
    OBVIOUS
  <1>2. q \in Run /\ q.at = "call" /\ q.model = r.model
    BY <1>1, DelaysAreTicks DEF Run
  <1> QED
    BY <1>1, <1>2 DEF Sound

\* A run with an outcome, with or without a delay.
LEMMA OutcomeIsSound ==
    ASSUME NEW r \in Run, NEW time \in Ticks, NEW verdict \in {"terminal", "continue_now"}
    PROVE  /\ Sound([r EXCEPT !.at = "outcome", !.verdict = "retry_later", !.time = time])
           /\ Sound([r EXCEPT !.at = "outcome", !.verdict = verdict])
  <1>1. PICK q : q = [r EXCEPT !.at = "outcome", !.verdict = "retry_later", !.time = time]
    OBVIOUS
  <1>2. q \in Run /\ q.at = "outcome" /\ q.time = time
    BY <1>1 DEF Run
  <1>3. PICK p : p = [r EXCEPT !.at = "outcome", !.verdict = verdict]
    OBVIOUS
  <1>4. p \in Run /\ p.at = "outcome" /\ p.verdict # "retry_later"
    BY <1>3 DEF Run
  <1>5. Sound(q) /\ Sound(p)
    BY <1>2, <1>4 DEF Sound
  <1> QED
    BY <1>1, <1>3, <1>5

-----------------------------------------------------------------------------
(* What the steps compute.                                                 *)

\* The row observe writes is an observation.
LEMMA WrittenType ==
    ASSUME obs \in [Backend -> Observation \cup {None}], NEW b \in Backend,
           NEW state \in {"available", "degraded", "unavailable", "unknown"},
           NEW cooldown \in Ticks \cup {None}
    PROVE  Written(b, state, cooldown) \in [Backend -> Observation \cup {None}]
  <1>1. Saturated \in Nat /\ TTL \in Nat /\ TTL + 1 \in 0..TTL + 1
    BY ContinuityConstants
  <1>2. PICK failures \in Nat : failures = (IF obs[b] = None THEN 0 ELSE obs[b].failures)
    BY <1>1 DEF Observation
  <1>3. PICK after \in 0..Saturated : after = FailuresAfter(b, state)
    BY <1>1, <1>2 DEF FailuresAfter, Smaller
  <1>4. [state |-> state, cooldown |-> cooldown, failures |-> after, fresh |-> TTL + 1] \in Observation
    BY <1>1 DEF Observation
  <1> QED
    BY <1>3, <1>4 DEF Written

\* The routes are finitely many, and what may be tried are some of them.
LEMMA RoutesOf ==
    ASSUME NEW w
    PROVE  /\ Tryable(w) \subseteq DOMAIN Routes /\ Usable(w) \subseteq Tryable(w)
           /\ DOMAIN Routes \subseteq Int /\ IsFiniteSet(DOMAIN Routes)
           /\ \A i \in DOMAIN Routes : Routes[i] \in Model
  <1>1. DOMAIN Routes = 1..Len(Routes) /\ Len(Routes) \in Nat
    BY ContinuityConstants
  <1>2. DOMAIN Routes \subseteq Int /\ IsFiniteSet(DOMAIN Routes)
    BY <1>1, FS_Interval
  <1> QED
    BY <1>2 DEF Tryable, Usable, Model

\* The route that is chosen is usable.
LEMMA UsableRoute ==
    ASSUME NEW w, Usable(w) # {}
    PROVE  /\ LeastOf(Usable(w)) \in Usable(w)
           /\ Routes[LeastOf(Usable(w))] \in Model
  <1>1. PICK S : S = Usable(w)
    OBVIOUS
  <1>2. S \subseteq DOMAIN Routes
    BY <1>1, RoutesOf
  <1>3. S \subseteq Int /\ IsFiniteSet(S) /\ S # {}
    BY <1>1, <1>2, RoutesOf, FS_Subset
  <1>4. LeastOf(S) \in S
    BY <1>3, LeastIsOneOf
  <1> QED
    BY <1>1, <1>2, <1>4, RoutesOf

\* What a task that finds no usable route waits for is a number of ticks.
LEMMA DatesAreTicks ==
    ASSUME SharedOK, NEW w, Tryable(w) # {}
    PROVE  LeastOf(RetryDates(w)) \in Ticks
  <1>1. PICK T : T = Tryable(w)
    OBVIOUS
  <1>2. PICK f : f = [i \in T |-> IF CoolingDown(ProviderOf[Routes[i]])
                                  THEN obs[ProviderOf[Routes[i]]].cooldown ELSE Base]
    OBVIOUS
  <1>3. RetryDates(w) = {f[i] : i \in T}
    BY <1>1, <1>2, Zenon DEF RetryDates
  <1>4. ASSUME NEW i \in T PROVE f[i] \in Ticks
    <2>1. PICK b \in Backend : b = ProviderOf[Routes[i]]
      BY <1>1, RoutesOf, ContinuityConstants
    <2>2. f[i] = IF CoolingDown(b) THEN obs[b].cooldown ELSE Base
      BY <1>2, <2>1
    <2>3. CASE CoolingDown(b)
      <3>1. obs[b] # None /\ obs[b].cooldown # None
        BY <2>3 DEF CoolingDown, Seen
      <3>2. obs[b].cooldown \in Ticks
        BY <3>1 DEF SharedOK, Observation
      <3> QED
        BY <2>2, <2>3, <3>2
    <2> QED
      BY <2>2, <2>3, DelaysAreTicks
  <1>5. PICK D : D = {f[i] : i \in T}
    OBVIOUS
  <1>6. IsFiniteSet(D)
    <2>1. IsFiniteSet(T)
      BY <1>1, RoutesOf, FS_Subset
    <2>2. DOMAIN f = T
      BY <1>2
    <2>3. f \in [T -> D]
      BY <1>2, <1>5
    <2>4. f \in Surjection(T, D)
      BY <1>5, <2>3 DEF Surjection
    <2> QED
      BY <2>1, <2>4, FS_Surjection
  <1>7. D \subseteq Ticks /\ D \subseteq Int /\ D # {}
    <2>1. D \subseteq Ticks
      BY <1>4, <1>5
    <2>2. D # {}
      BY <1>1, <1>5
    <2> QED
      BY <2>1, <2>2, DelaysAreTicks
  <1>8. LeastOf(D) \in D
    BY <1>6, <1>7, LeastIsOneOf
  <1> QED
    BY <1>3, <1>5, <1>7, <1>8

\* The window and the attempts after a reservation.
LEMMA ReserveCounts ==
    ASSUME SharedOK, RunsOK, NEW w \in Worker, Reserve(w)
    PROVE  /\ window' \in [Task -> 0..Window \cup {None}]
           /\ attempts' \in [Task -> 0..MaxAttempts]
  <1>1. PICK t \in Task : t = TaskOf(w)
    BY RunAt DEF Reserve, At
  <1>2. MaxAttempts \in Nat /\ 1 \in 0..MaxAttempts /\ Window \in 0..Window
    BY ContinuityConstants
  <1>3. attempts[t] \in 0..MaxAttempts
    BY DEF SharedOK
  <1>4. CASE window' = [window EXCEPT ![t] = Window] /\ attempts' = [attempts EXCEPT ![t] = 1]
    BY <1>2, <1>4 DEF SharedOK
  <1>5. CASE attempts[t] < MaxAttempts /\ UNCHANGED window /\ attempts' = [attempts EXCEPT ![t] = @ + 1]
    <2>1. PICK n \in 0..MaxAttempts : n = attempts[t] + 1
      BY <1>2, <1>3, <1>5
    <2> QED
      BY <1>5, <2>1 DEF SharedOK
  <1>6. CASE UNCHANGED <<window, attempts>>
    BY <1>6 DEF SharedOK
  <1> QED
    BY <1>1, <1>4, <1>5, <1>6 DEF Reserve

-----------------------------------------------------------------------------
(* The steps of a worker.                                                  *)

\* Claim and Again: an infer call begins.
LEMMA BeginTypes ==
    ASSUME SharedOK, RunsOK, NEW w \in Worker, NEW t \in Task, Claim(w, t) \/ Again(w)
    PROVE  SharedOK' /\ RunsOK'
  <1>1. CASE Claim(w, t)
    <2>1. PICK q : q = Start(t)
      OBVIOUS
    <2>2. RunsOK'
      BY <1>1, <2>1, RunsAfter, StartIsSound DEF Claim
    <2> QED
      BY <1>1, <2>2 DEF Claim, SharedOK, shared
  <1>2. CASE Again(w)
    <2>1. TaskOf(w) \in Task
      BY <1>2, RunAt DEF Again, At
    <2>2. PICK q : q = Start(TaskOf(w))
      OBVIOUS
    <2>3. RunsOK'
      BY <1>2, <2>1, <2>2, RunsAfter, StartIsSound DEF Again
    <2> QED
      BY <1>2, <2>3 DEF Again, SharedOK, shared
  <1> QED
    BY <1>1, <1>2

\* Release, Crash and Stop: the run is over.
LEMMA EndTypes ==
    ASSUME SharedOK, RunsOK, NEW w \in Worker, Release(w) \/ Crash(w) \/ Stop(w)
    PROVE  SharedOK' /\ RunsOK'
  <1>1. run[w] # None /\ run' = [run EXCEPT ![w] = None] /\ UNCHANGED <<cancel, shared, announced>>
    BY DEF Release, Crash, Stop, At
  <1>2. RunsOK'
    <2>1. PICK q : q = None
      OBVIOUS
    <2> QED
      BY <1>1, <2>1, RunsAfter
  <1>3. /\ holder' \in [Task -> Worker \cup {None}] /\ ended' \in [Task -> BOOLEAN]
    <2>1. CASE UNCHANGED <<holder, ended>>
      BY <2>1 DEF SharedOK
    <2>2. CASE Release(w) /\ Owns(w)
      <3>1. PICK over \in BOOLEAN : over = (run[w].verdict = "terminal")
        OBVIOUS
      <3>2. /\ holder' = [holder EXCEPT ![TaskOf(w)] = None]
            /\ ended' = [ended EXCEPT ![TaskOf(w)] = over]
        BY <2>2, <3>1 DEF Release
      <3> QED
        BY <3>1, <3>2 DEF SharedOK
    <2> QED
      BY <2>1, <2>2 DEF Release, Crash, Stop
  <1> QED
    BY <1>1, <1>2, <1>3 DEF SharedOK, shared

\* RequestCancel, Expire and Health move no run.
LEMMA OutsideTypes ==
    ASSUME SharedOK, RunsOK,
           \/ \E t \in Task : RequestCancel(t) \/ Expire(t)
           \/ \E b \in Backend, state \in {"available", "degraded", "unavailable", "unknown"} :
                  Health(b, state)
    PROVE  SharedOK' /\ RunsOK'
  <1>1. run' = run
    BY DEF RequestCancel, Expire, Health
  <1>2. RunsOK'
    BY <1>1 DEF RunsOK
  <1>3. ASSUME NEW t \in Task, RequestCancel(t) \/ Expire(t) PROVE SharedOK'
    BY <1>3 DEF RequestCancel, Expire, SharedOK, shared
  <1>4. ASSUME NEW b \in Backend, NEW state \in {"available", "degraded", "unavailable", "unknown"},
               Health(b, state)
        PROVE SharedOK'
    <2>1. obs' \in [Backend -> Observation \cup {None}]
      BY <1>4, WrittenType DEF Health, SharedOK
    <2>2. announced' \in [Backend -> Ticks]
      BY <1>4, DelaysAreTicks DEF Health, SharedOK
    <2> QED
      BY <1>4, <2>1, <2>2 DEF Health, SharedOK
  <1> QED
    BY <1>2, <1>3, <1>4

\* Look: what is usable is a route, and what is waited for is a number of ticks.
LEMMA LookTypes ==
    ASSUME SharedOK, RunsOK, NEW w \in Worker, Look(w)
    PROVE  SharedOK' /\ RunsOK'
  <1>1. run[w] # None /\ UNCHANGED <<holder, cancel, shared, ended, announced>>
    BY DEF Look, At
  <1>2. PICK r \in Run : r = run[w]
    BY <1>1, RunAt
  <1>3. CASE Usable(w) # {} /\ run' = [run EXCEPT ![w].at = "reserve",
                                                  ![w].model = Routes[LeastOf(Usable(w))]]
    <2>1. PICK model \in Model : model = Routes[LeastOf(Usable(w))]
      BY <1>3, UsableRoute
    <2>2. PICK q : q = [r EXCEPT !.at = "reserve", !.model = model]
      OBVIOUS
    <2>3. q \in Run /\ q.at = "reserve" /\ q.model = model
      BY <2>2 DEF Run
    <2>4. Sound(q)
      BY <2>3 DEF Sound
    <2>5. run' = [run EXCEPT ![w] = q]
      BY <1>2, <1>3, <2>1, <2>2
    <2> QED
      BY <1>1, <2>4, <2>5, RunsAfter DEF SharedOK, shared
  <1>4. CASE /\ Usable(w) = {} /\ Tryable(w) # {}
             /\ run' = [run EXCEPT ![w].at = "outcome", ![w].verdict = "retry_later",
                                   ![w].time = Larger(Base, LeastOf(RetryDates(w)))]
    <2>1. PICK time \in Ticks : time = Larger(Base, LeastOf(RetryDates(w)))
      <3>1. LeastOf(RetryDates(w)) \in Ticks
        BY <1>1, <1>4, DatesAreTicks
      <3> QED
        BY <3>1, DelaysAreTicks DEF Larger
    <2>2. PICK q : q = [r EXCEPT !.at = "outcome", !.verdict = "retry_later", !.time = time]
      OBVIOUS
    <2>3. Sound(q)
      BY <2>2, OutcomeIsSound
    <2>4. run' = [run EXCEPT ![w] = q]
      BY <1>2, <1>4, <2>1, <2>2
    <2> QED
      BY <1>1, <2>3, <2>4, RunsAfter DEF SharedOK, shared
  <1>5. CASE run' = [run EXCEPT ![w].at = "outcome", ![w].verdict = "terminal"]
    <2>1. PICK q : q = [r EXCEPT !.at = "outcome", !.verdict = "terminal"]
      OBVIOUS
    <2>2. Sound(q)
      BY <2>1, OutcomeIsSound, DelaysAreTicks
    <2>3. run' = [run EXCEPT ![w] = q]
      BY <1>2, <1>5, <2>1
    <2> QED
      BY <1>1, <2>2, <2>3, RunsAfter DEF SharedOK, shared
  <1> QED
    BY <1>3, <1>4, <1>5 DEF Look

\* Reserve: the attempts are counted up to the limit.
LEMMA ReserveTypes ==
    ASSUME SharedOK, RunsOK, NEW w \in Worker, Reserve(w)
    PROVE  SharedOK' /\ RunsOK'
  <1>1. /\ run[w] # None /\ run[w].at = "reserve"
        /\ UNCHANGED <<holder, cancel, obs, defer, ended, announced>>
    BY DEF Reserve, At
  <1>2. PICK r \in Run : r = run[w] /\ r.model \in Model
    BY <1>1, RunAt DEF Sound
  <1>3. PICK t \in Task : t = TaskOf(w)
    BY <1>1, RunAt
  <1>4. CASE run' = [run EXCEPT ![w].at = "route"]
    <2>1. PICK q : q = [r EXCEPT !.at = "route"]
      OBVIOUS
    <2>2. RunsOK'
      <3>1. run' = [run EXCEPT ![w] = q]
        BY <1>2, <1>4, <2>1
      <3> QED
        BY <1>2, <2>1, <3>1, MoveIsSound, RunsAfter
    <2> QED
      BY <1>1, <2>2, ReserveCounts DEF SharedOK
  <1>5. CASE /\ window[t] \notin {None, 0}
             /\ run' = [run EXCEPT ![w].at = "outcome", ![w].verdict = "retry_later",
                                   ![w].time = window[t]]
    <2>1. PICK time \in Ticks : time = window[t]
      BY <1>5, DelaysAreTicks DEF SharedOK
    <2>2. PICK q : q = [r EXCEPT !.at = "outcome", !.verdict = "retry_later", !.time = time]
      OBVIOUS
    <2>3. RunsOK'
      <3>1. run' = [run EXCEPT ![w] = q]
        BY <1>2, <1>5, <2>1, <2>2
      <3> QED
        BY <2>2, <3>1, OutcomeIsSound, RunsAfter
    <2> QED
      BY <1>1, <2>3, ReserveCounts DEF SharedOK
  <1> QED
    BY <1>3, <1>4, <1>5 DEF Reserve, GoTo

\* Route, Succeed and Failure: the request goes out and is answered.
LEMMA CallTypes ==
    ASSUME SharedOK, RunsOK, NEW w \in Worker, Route(w) \/ Answer(w)
    PROVE  SharedOK' /\ RunsOK'
  <1>1. /\ run[w] # None /\ run[w].at \in {"route", "call"}
        /\ UNCHANGED <<holder, cancel, shared, ended, announced>>
    BY DEF Route, Answer, Succeed, Failure, Raise, At
  <1>2. PICK r \in Run : r = run[w] /\ r.model \in Model /\ TaskOf(w) \in Task
    BY <1>1, RunAt DEF Sound
  <1>3. SharedOK'
    BY <1>1 DEF SharedOK, shared
  <1>4. CASE Route(w)
    <2>1. PICK q : q = [r EXCEPT !.at = "call", !.time = 0]
      OBVIOUS
    <2>2. run' = [run EXCEPT ![w] = q]
      BY <1>2, <1>4, <2>1 DEF Route
    <2> QED
      BY <1>2, <1>3, <2>1, <2>2, CallIsSound, RunsAfter
  <1>5. CASE Succeed(w)
    <2>1. PICK q : q = [r EXCEPT !.at = "credit"]
      OBVIOUS
    <2>2. run' = [run EXCEPT ![w] = q]
      BY <1>2, <1>5, <2>1 DEF Succeed, GoTo
    <2> QED
      BY <1>2, <1>3, <2>1, <2>2, MoveIsSound, RunsAfter
  <1>6. ASSUME NEW f \in Failures, Failure(w, f) PROVE RunsOK'
    <2>1. /\ f.verdict \in {"retry", "route", "request"}
          /\ f.told \in Ticks /\ f.until \in Ticks /\ f.asked \in Ticks
          /\ f.asked <= f.told \/ f.asked <= f.until
      BY FailuresCarry
    <2>2. PICK verdict \in {"retry", "route", "request"}, told \in Ticks, until \in Ticks,
               asked \in Ticks :
            /\ verdict = f.verdict /\ told = f.told /\ until = f.until /\ asked = f.asked
            /\ asked <= told \/ asked <= until
      BY <2>1
    <2>3. PICK q : q = [r EXCEPT !.at = "blame", !.verdict = verdict, !.time = told,
                                 !.until = until, !.asked = asked]
      OBVIOUS
    <2>4. q \in Run /\ q.at = "blame" /\ q.model = r.model /\ q.time = told /\ q.until = until
          /\ q.asked = asked
      BY <2>3 DEF Run
    <2>5. Sound(q)
      BY <1>2, <2>2, <2>4 DEF Sound
    <2>6. run' = [run EXCEPT ![w] = q]
      BY <1>2, <1>6, <2>2, <2>3 DEF Failure
    <2> QED
      BY <2>5, <2>6, RunsAfter
  <1>7. CASE Raise(w)
    <2>1. PICK q : q = [Start(TaskOf(w)) EXCEPT !.at = "done", !.verdict = "raised"]
      OBVIOUS
    <2>2. run' = [run EXCEPT ![w] = q]
      BY <1>7, <2>1 DEF Raise
    <2> QED
      BY <1>2, <1>3, <2>1, <2>2, DoneIsSound, RunsAfter
  <1> QED
    BY <1>3, <1>4, <1>5, <1>6, <1>7 DEF Answer

\* The delay of a failure: no shorter than what its error carries.
LEMMA BackoffIsLonger ==
    ASSUME SharedOK, NEW b \in Backend, NEW told \in Ticks, NEW until \in Ticks
    PROVE  /\ Larger(Larger(Backoff(b), told), until) \in Ticks
           /\ told <= Larger(Larger(Backoff(b), told), until)
           /\ until <= Larger(Larger(Backoff(b), told), until)
  <1>1. PICK failures \in Nat : failures = (IF obs[b] = None THEN 0 ELSE obs[b].failures)
    <2>1. Saturated \in Nat
      BY ContinuityConstants
    <2> QED
      BY <2>1 DEF SharedOK, Observation
  <1>2. PICK power \in Int : power = 2 ^ failures
    OBVIOUS
  <1>3. Base \in Nat /\ MaxBackoff \in Nat
    BY ContinuityConstants
  <1>4. PICK product \in Int : product = Base * power
    BY <1>3
  <1>5. Backoff(b) = Smaller(MaxBackoff, product)
    BY <1>1, <1>2, <1>4 DEF Backoff
  <1>6. PICK backoff \in Int : backoff = Backoff(b) /\ backoff <= MaxBackoff
    BY <1>3, <1>5 DEF Smaller
  <1>7. told \in Nat /\ (backoff \in Nat => backoff \in 0..MaxBackoff)
    BY <1>3, <1>6, DelaysAreTicks
  <1>8. PICK longer \in Nat : longer = Larger(backoff, told) /\ longer \in Ticks /\ told <= longer
    BY <1>6, <1>7, DelaysAreTicks DEF Larger
  <1>9. until \in Nat
    BY DelaysAreTicks
  <1>10. /\ Larger(longer, until) \in Ticks
         /\ told <= Larger(longer, until) /\ until <= Larger(longer, until)
    BY <1>7, <1>8, <1>9 DEF Larger
  <1> QED
    BY <1>6, <1>8, <1>10

\* The backend of a run that has chosen its model.
LEMMA BackendIs ==
    ASSUME RunsOK, NEW w \in Worker, run[w] # None,
           run[w].at \in {"reserve", "route", "call", "blame", "observe", "credit"}
    PROVE  BackendOf(w) \in Backend
  <1>1. run[w].model \in Model
    BY RunAt DEF Sound
  <1> QED
    BY <1>1, ContinuityConstants DEF BackendOf

\* Blame: the delay is set, the model excluded, or the request given up.
LEMMA BlameTypes ==
    ASSUME SharedOK, RunsOK, NEW w \in Worker, Blame(w)
    PROVE  SharedOK' /\ RunsOK'
  <1>1. /\ run[w] # None /\ run[w].at = "blame"
        /\ UNCHANGED <<holder, cancel, shared, ended, announced>>
    BY DEF Blame, At
  <1>2. PICK r \in Run : /\ r = run[w] /\ r.model \in Model /\ r.time \in Ticks
                          /\ (r.asked <= r.time \/ r.asked <= r.until)
                          /\ r.asked \in Ticks /\ r.until \in Ticks
    BY <1>1, RunAt DEF Sound
  <1>3. SharedOK'
    BY <1>1 DEF SharedOK, shared
  <1>4. CASE run' = [run EXCEPT ![w].at = "observe",
                                ![w].time = Larger(Larger(Backoff(BackendOf(w)), @), run[w].until),
                                ![w].until = 0]
    <2>1. PICK time \in Ticks : /\ time = Larger(Larger(Backoff(BackendOf(w)), r.time), r.until)
                                /\ r.time <= time /\ r.until <= time
      BY <1>1, <1>2, BackendIs, BackoffIsLonger
    <2>2. PICK q : q = [r EXCEPT !.at = "observe", !.time = time, !.until = 0]
      OBVIOUS
    <2>3. q \in Run /\ q.at = "observe" /\ q.model = r.model /\ q.time = time /\ q.asked = r.asked
      BY <2>2, DelaysAreTicks DEF Run
    <2>4. r.asked <= time
      <3>1. r.asked \in Nat /\ r.time \in Nat /\ r.until \in Nat /\ time \in Nat
        BY <1>2, DelaysAreTicks
      <3> QED
        BY <1>2, <2>1, <3>1
    <2>5. Sound(q)
      BY <1>2, <2>3, <2>4 DEF Sound
    <2>6. run' = [run EXCEPT ![w] = q]
      BY <1>2, <1>4, <2>1, <2>2
    <2> QED
      BY <1>3, <2>5, <2>6, RunsAfter
  <1>5. CASE run' = [run EXCEPT ![w] = [Start(TaskOf(w)) EXCEPT !.excluded =
                                          run[w].excluded \cup {run[w].model}]]
    <2>1. PICK excluded \in SUBSET Model : excluded = run[w].excluded \cup {run[w].model}
      BY <1>2 DEF Run
    <2>2. PICK q : q = [Start(TaskOf(w)) EXCEPT !.excluded = excluded]
      OBVIOUS
    <2>3. Sound(q)
      BY <1>1, <2>2, RunAt, StartIsSound
    <2>4. run' = [run EXCEPT ![w] = q]
      BY <1>5, <2>1, <2>2
    <2> QED
      BY <1>3, <2>3, <2>4, RunsAfter
  <1>6. CASE run' = [run EXCEPT ![w].at = "outcome", ![w].verdict = "terminal"]
    <2>1. PICK q : q = [r EXCEPT !.at = "outcome", !.verdict = "terminal"]
      OBVIOUS
    <2>2. Sound(q)
      BY <1>2, <2>1, OutcomeIsSound
    <2>3. run' = [run EXCEPT ![w] = q]
      BY <1>2, <1>6, <2>1
    <2> QED
      BY <1>3, <2>2, <2>3, RunsAfter
  <1> QED
    BY <1>4, <1>5, <1>6 DEF Blame

\* Observe and Credit: the observation is written.
LEMMA ObserveTypes ==
    ASSUME SharedOK, RunsOK, NEW w \in Worker, Observe(w) \/ Credit(w)
    PROVE  SharedOK' /\ RunsOK'
  <1>1. /\ run[w] # None /\ run[w].at \in {"observe", "credit"}
        /\ UNCHANGED <<holder, cancel, window, attempts, defer, ended>>
    BY DEF Observe, Credit, At
  <1>2. PICK r \in Run : r = run[w] /\ Sound(r) /\ r.asked \in Ticks
    BY <1>1, RunAt
  <1>3. PICK b \in Backend : b = BackendOf(w)
    BY <1>1, BackendIs
  <1>4. CASE Observe(w)
    <2>1. r.time \in Ticks
      BY <1>2, <1>4 DEF Observe, At, Sound
    <2>2. obs' \in [Backend -> Observation \cup {None}]
      BY <1>2, <1>3, <1>4, <2>1, WrittenType DEF Observe, SharedOK
    <2>3. announced' \in [Backend -> Ticks]
      <3>1. PICK delay \in Ticks : delay = Promised(w, b)
        BY <1>2, <1>3 DEF SharedOK, Larger, Promised
      <3>2. announced' = [announced EXCEPT ![b] = delay]
        BY <1>2, <1>3, <1>4, <3>1 DEF Observe
      <3> QED
        BY <3>2 DEF SharedOK
    <2>4. PICK excluded \in SUBSET Model : excluded = run[w].excluded
      BY <1>2 DEF Run
    <2>5. PICK q : q = [Start(TaskOf(w)) EXCEPT !.excluded = excluded]
      OBVIOUS
    <2>6. Sound(q)
      BY <1>1, <2>5, RunAt, StartIsSound
    <2>7. run' = [run EXCEPT ![w] = q]
      BY <1>4, <2>4, <2>5 DEF Observe
    <2>8. RunsOK'
      BY <2>6, <2>7, RunsAfter
    <2> QED
      BY <1>1, <2>2, <2>3, <2>8 DEF SharedOK
  <1>5. CASE Credit(w)
    <2>1. obs' \in [Backend -> Observation \cup {None}]
      BY <1>3, <1>5, WrittenType DEF Credit, SharedOK
    <2>2. PICK q : q = [r EXCEPT !.at = "outcome", !.verdict = "continue_now"]
      OBVIOUS
    <2>3. Sound(q)
      BY <2>2, DelaysAreTicks, OutcomeIsSound
    <2>4. run' = [run EXCEPT ![w] = q]
      BY <1>2, <1>5, <2>2 DEF Credit
    <2>5. RunsOK'
      BY <2>3, <2>4, RunsAfter
    <2>6. announced' = announced
      BY <1>5 DEF Credit
    <2> QED
      BY <1>1, <2>1, <2>5, <2>6 DEF SharedOK
  <1> QED
    BY <1>4, <1>5

\* Outcome: the deferral and the budget of the task.
LEMMA OutcomeTypes ==
    ASSUME SharedOK, RunsOK, NEW w \in Worker, Outcome(w)
    PROVE  SharedOK' /\ RunsOK'
  <1>1. /\ run[w] # None /\ run[w].at = "outcome"
        /\ UNCHANGED <<holder, cancel, obs, ended, announced>>
    BY DEF Outcome, At
  <1>2. PICK r \in Run : r = run[w] /\ Sound(r)
    BY <1>1, RunAt
  <1>3. PICK t \in Task : t = TaskOf(w)
    BY <1>1, RunAt
  <1>4. defer' \in [Task -> Ticks \cup {None}]
    <2>1. PICK until \in Ticks \cup {None} :
            until = IF r.verdict = "retry_later" THEN r.time ELSE None
      BY <1>1, <1>2 DEF Sound
    <2>2. defer' = [defer EXCEPT ![t] = until]
      BY <1>2, <1>3, <2>1 DEF Outcome
    <2> QED
      BY <2>2 DEF SharedOK
  <1>5. window' \in [Task -> 0..Window \cup {None}] /\ attempts' \in [Task -> 0..MaxAttempts]
    <2>1. Window \in 0..Window /\ 0 \in 0..MaxAttempts
      BY ContinuityConstants
    <2>2. CASE window' = [window EXCEPT ![t] = Window] /\ attempts' = [attempts EXCEPT ![t] = 0]
      BY <2>1, <2>2 DEF SharedOK
    <2>3. CASE window' = [window EXCEPT ![t] = IF @ = None THEN Window ELSE @] /\ UNCHANGED attempts
      <3>1. PICK v \in 0..Window \cup {None} : v = IF window[t] = None THEN Window ELSE window[t]
        BY <2>1 DEF SharedOK
      <3>2. window' = [window EXCEPT ![t] = v]
        BY <2>3, <3>1
      <3> QED
        BY <2>3, <3>2 DEF SharedOK
    <2> QED
      BY <1>3, <2>2, <2>3 DEF Outcome
  <1>6. RunsOK'
    <2>1. PICK q : q = [Start(t) EXCEPT !.at = "done", !.verdict = r.verdict]
      OBVIOUS
    <2>2. run' = [run EXCEPT ![w] = q]
      BY <1>2, <1>3, <2>1 DEF Outcome
    <2> QED
      BY <2>1, <2>2, DoneIsSound, RunsAfter
  <1> QED
    BY <1>1, <1>4, <1>5, <1>6 DEF SharedOK

\* A tick leaves a run where it is, and shortens its delays together.
LEMMA AgedRun ==
    ASSUME NEW r \in Run, Sound(r), NEW time, NEW until, NEW asked,
           r.at = "call" => r.time < CallTime,
           time = IF r.at = "call" THEN r.time + 1
                  ELSE IF r.at \in {"observe", "outcome"} THEN Less(r.time) ELSE r.time,
           until = Less(r.until), asked = Less(r.asked)
    PROVE  Sound([r EXCEPT !.time = time, !.until = until, !.asked = asked])
  <1>1. PICK q : q = [r EXCEPT !.time = time, !.until = until, !.asked = asked]
    OBVIOUS
  <1>2. CallTime \in Nat /\ \A n \in 0..CallTime : n \in Nat
    BY ContinuityConstants
  <1>3. r.time \in Ticks \cup 0..CallTime /\ r.asked \in Ticks /\ r.until \in Ticks
    BY DelaysAreTicks DEF Run
  <1>4. r.time \in Nat /\ r.asked \in Nat /\ r.until \in Nat
    BY <1>2, <1>3, DelaysAreTicks
  <1>5. asked \in Ticks /\ asked <= r.asked /\ asked \in Nat
    <2>1. Less(r.asked) \in Ticks /\ Less(r.asked) <= r.asked /\ Less(r.asked) \in Nat
      BY <1>3, <1>4, LessIsLess
    <2> QED
      BY <2>1
  <1>6. Less(r.time) \in Ticks \cup 0..CallTime /\ (r.time \in Ticks => Less(r.time) \in Ticks)
    <2>1. CASE r.time \in Ticks
      BY <2>1, LessIsLess
    <2>2. CASE r.time \in 0..CallTime
      <3>1. Less(r.time) \in Nat /\ Less(r.time) <= r.time
        BY <1>4, LessIsLess
      <3>2. Less(r.time) \in 0..CallTime
        BY <1>2, <2>2, <3>1
      <3>3. r.time \in Ticks => Less(r.time) \in Ticks
        BY LessIsLess
      <3> QED
        BY <3>2, <3>3
    <2> QED
      BY <1>3, <2>1, <2>2
  <1>7. time \in Ticks \cup 0..CallTime
    BY <1>2, <1>3, <1>4, <1>6
  <1>12. until \in Ticks
    BY <1>3, LessIsLess
  <1>8. q \in Run /\ q.at = r.at /\ q.model = r.model /\ q.verdict = r.verdict
        /\ q.time = time /\ q.until = until /\ q.asked = asked
    BY <1>1, <1>5, <1>7, <1>12 DEF Run
  <1>9. ASSUME r.at = "blame" PROVE time \in Ticks /\ (asked <= time \/ asked <= until)
    <2>1. time = r.time /\ time \in Ticks
      BY <1>9 DEF Sound
    <2>2. CASE r.asked <= r.time
      BY <1>4, <1>5, <2>1, <2>2
    <2>3. CASE r.asked <= r.until
      BY <1>4, <2>1, <2>3, LessIsLess
    <2> QED
      BY <1>9, <2>2, <2>3, <2>1 DEF Sound
  <1>10. ASSUME r.at = "observe" PROVE time \in Ticks /\ asked <= time
    BY <1>4, <1>6, <1>10, LessIsLess DEF Sound
  <1>11. ASSUME r.at = "outcome", r.verdict = "retry_later" PROVE time \in Ticks
    BY <1>6, <1>11 DEF Sound
  <1> QED
    BY <1>1, <1>8, <1>9, <1>10, <1>11 DEF Sound

\* Tick: what is left of every time is less, and stays of its type.
LEMMA TickTypes ==
    ASSUME SharedOK, RunsOK, Tick
    PROVE  SharedOK' /\ RunsOK'
  <1>1. UNCHANGED <<holder, cancel, attempts, ended>>
    BY DEF Tick
  <1>2. obs' \in [Backend -> Observation \cup {None}]
    <2>1. ASSUME NEW b \in Backend, obs[b] # None
          PROVE  [obs[b] EXCEPT !.cooldown = Less(@), !.fresh = Less(@)] \in Observation
      <3>1. PICK o \in Observation : o = obs[b]
        BY <2>1 DEF SharedOK
      <3>2. TTL + 1 \in Nat
        BY ContinuityConstants
      <3>3. Less(o.cooldown) \in Ticks \cup {None}
        <4>1. o.cooldown \in Ticks \cup {None}
          BY DEF Observation
        <4> QED
          BY <4>1, LessIsLess
      <3>4. Less(o.fresh) \in 0..TTL + 1
        <4>1. o.fresh \in 0..TTL + 1
          BY DEF Observation
        <4>2. o.fresh \in Nat /\ Less(o.fresh) \in Nat /\ Less(o.fresh) <= o.fresh
          BY <3>2, <4>1, LessIsLess
        <4> QED
          BY <3>2, <4>1, <4>2
      <3>5. [o EXCEPT !.cooldown = Less(@), !.fresh = Less(@)] \in Observation
        BY <3>3, <3>4 DEF Observation
      <3> QED
        BY <3>1, <3>5
    <2>2. obs' = [b \in Backend |->
                    IF obs[b] = None THEN None
                    ELSE [obs[b] EXCEPT !.cooldown = Less(@), !.fresh = Less(@)]]
      BY DEF Tick
    <2> QED
      BY <2>1, <2>2
  <1>3. window' \in [Task -> 0..Window \cup {None}]
    <2>1. Window \in Nat
      BY ContinuityConstants
    <2>2. ASSUME NEW t \in Task PROVE Less(window[t]) \in 0..Window \cup {None}
      <3>1. window[t] \in 0..Window \cup {None}
        BY DEF SharedOK
      <3> QED
        BY <2>1, <3>1, LessIsLess
    <2> QED
      BY <2>2 DEF Tick
  <1>4. defer' \in [Task -> Ticks \cup {None}]
    <2>1. ASSUME NEW t \in Task PROVE Less(defer[t]) \in Ticks \cup {None}
      <3>1. defer[t] \in Ticks \cup {None}
        BY DEF SharedOK
      <3> QED
        BY <3>1, LessIsLess
    <2> QED
      BY <2>1 DEF Tick
  <1>5. announced' \in [Backend -> Ticks]
    <2>1. ASSUME NEW b \in Backend PROVE Less(announced[b]) \in Ticks
      <3>1. announced[b] \in Ticks
        BY DEF SharedOK
      <3> QED
        BY <3>1, LessIsLess
    <2> QED
      BY <2>1 DEF Tick
  <1>6. RunsOK'
    <2>1. run' = [w \in Worker |->
                    IF run[w] = None THEN None
                    ELSE [run[w] EXCEPT !.time =
                            IF run[w].at = "call" THEN @ + 1
                            ELSE IF run[w].at \in {"observe", "outcome"} THEN Less(@) ELSE @,
                          !.until = Less(@), !.asked = Less(@)]]
      BY DEF Tick
    <2>2. ASSUME NEW w \in Worker, run[w] # None PROVE Sound(run'[w])
      <3>1. PICK r \in Run : r = run[w] /\ Sound(r)
        BY <2>2 DEF RunsOK, Sound
      <3>2. r.at = "call" => r.time < CallTime
        BY <2>2, <3>1 DEF Tick, At
      <3>3. PICK time, until, asked :
              /\ time = IF r.at = "call" THEN r.time + 1
                        ELSE IF r.at \in {"observe", "outcome"} THEN Less(r.time) ELSE r.time
              /\ until = Less(r.until) /\ asked = Less(r.asked)
        OBVIOUS
      <3>4. run'[w] = [r EXCEPT !.time = time, !.until = until, !.asked = asked]
        BY <2>1, <2>2, <3>1, <3>3
      <3>5. Sound([r EXCEPT !.time = time, !.until = until, !.asked = asked])
        BY <3>1, <3>2, <3>3, AgedRun
      <3>6. PICK q : q = [r EXCEPT !.time = time, !.until = until, !.asked = asked]
        OBVIOUS
      <3> QED
        BY <3>4, <3>5, <3>6
    <2>3. run' \in [Worker -> Run \cup {None}]
      <3>1. ASSUME NEW w \in Worker PROVE run'[w] \in Run \cup {None}
        BY <2>1, <2>2 DEF Sound
      <3>2. PICK f : f = run'
        OBVIOUS
      <3> QED
        BY <2>1, <3>1
    <2>4. \A w \in Worker : run'[w] # None => Sound(run'[w])
      BY <2>1, <2>2
    <2> QED
      BY <2>3, <2>4 DEF RunsOK
  <1> QED
    BY <1>1, <1>2, <1>3, <1>4, <1>5, <1>6 DEF SharedOK

LEMMA TypesInit == CInit => SharedOK /\ RunsOK
  <1> SUFFICES ASSUME CInit PROVE SharedOK /\ RunsOK
    OBVIOUS
  <1>1. 0 \in Ticks /\ 0 \in 0..MaxAttempts /\ 0 \in 0..Saturated /\ TTL + 1 \in 0..TTL + 1
    BY DelaysAreTicks, ContinuityConstants
  <1>2. [state |-> "available", cooldown |-> None, failures |-> 0, fresh |-> TTL + 1] \in Observation
    BY <1>1 DEF Observation
  <1>3. obs \in [Backend -> Observation \cup {None}]
    BY <1>2 DEF CInit
  <1> QED
    BY <1>1, <1>3 DEF CInit, SharedOK, RunsOK

LEMMA TypesStep == SharedOK /\ RunsOK /\ [CNext]_vars => SharedOK' /\ RunsOK'
  <1> SUFFICES ASSUME SharedOK, RunsOK, [CNext]_vars PROVE SharedOK' /\ RunsOK'
    OBVIOUS
  <1>1. ASSUME NEW w \in Worker, Step(w) PROVE SharedOK' /\ RunsOK'
    <2>1. CASE Again(w)
      <3>1. TaskOf(w) \in Task
        BY <2>1, RunAt DEF Again, At
      <3> QED
        BY <2>1, <3>1, BeginTypes
    <2> QED
      BY <1>1, <2>1, EndTypes, LookTypes, ReserveTypes, CallTypes, BlameTypes, ObserveTypes,
         OutcomeTypes DEF Step
  <1>2. ASSUME NEW w \in Worker, Answer(w) \/ Crash(w) PROVE SharedOK' /\ RunsOK'
    BY <1>2, EndTypes, CallTypes
  <1>3. ASSUME NEW w \in Worker, NEW t \in Task, Claim(w, t) PROVE SharedOK' /\ RunsOK'
    BY <1>3, BeginTypes
  <1>4. CASE (\E t \in Task : RequestCancel(t) \/ Expire(t)) \/ HealthNext
    BY <1>4, OutsideTypes DEF HealthNext
  <1>5. CASE Tick
    BY <1>5, TickTypes
  <1>6. CASE UNCHANGED vars
    BY <1>6 DEF vars, shared, SharedOK, RunsOK
  <1> QED
    BY <1>1, <1>2, <1>3, <1>4, <1>5, <1>6 DEF CNext, WorkNext

LEMMA TypesInvariant == CSpec => [](SharedOK /\ RunsOK)
  BY TypesInit, TypesStep, PTL DEF CSpec

\* Every variable keeps its type.
THEOREM CTypeCorrect == CSpec => []CTypeOK
  BY TypesInvariant, TypeParts, PTL

-----------------------------------------------------------------------------
(* A run that has lost its lease.                                          *)

\* Other workers' steps leave a run as it is.
LEMMA OthersLeaveIt ==
    ASSUME RunsOK, NEW w \in Worker, NEW v \in Worker, v # w,
           Step(v) \/ Answer(v) \/ Crash(v) \/ \E t \in Task : Claim(v, t)
    PROVE  run'[w] = run[w]
  <1>1. DOMAIN run = Worker
    BY DEF RunsOK
  <1>2. CASE Again(v) \/ Release(v) \/ Stop(v) \/ Look(v) \/ Reserve(v) \/ Route(v)
    BY <1>1, <1>2 DEF Again, Release, Stop, Look, Reserve, Route, GoTo
  <1>3. CASE Blame(v) \/ Observe(v) \/ Credit(v) \/ Outcome(v)
    BY <1>1, <1>3 DEF Blame, Observe, Credit, Outcome
  <1>4. CASE Answer(v) \/ Crash(v) \/ \E t \in Task : Claim(v, t)
    BY <1>1, <1>4 DEF Answer, Succeed, Failure, Raise, Crash, Claim, GoTo
  <1> QED
    BY <1>2, <1>3, <1>4 DEF Step

\* A run that has lost its lease changes nothing any more that another worker can see,
\* whatever its provider answers and however late (assert_lease inside each transaction
\* of continuity.py).
THEOREM StaleRunsAreMute == CSpec => StaleIsMute
  <1>1. ASSUME RunsOK, CNext, NEW w \in Worker, run[w] # None, ~Owns(w), run'[w] # run[w]
        PROVE  UNCHANGED <<shared, ended, holder>> \/ Tick
    <2>1. ASSUME NEW v \in Worker, Step(v) \/ Answer(v) \/ Crash(v) \/ \E t \in Task : Claim(v, t)
          PROVE  UNCHANGED <<shared, ended, holder>>
      <3>1. v = w
        BY <1>1, <2>1, OthersLeaveIt
      <3>2. CASE Step(w)
        BY <1>1, <3>2 DEF Step, Again, Release, Stop, Look, Reserve, Route, Blame, Observe, Credit,
                          Outcome, MayCall
      <3>3. CASE Answer(w) \/ Crash(w)
        BY <3>3 DEF Answer, Succeed, Failure, Raise, Crash
      <3> QED
        BY <1>1, <2>1, <3>1, <3>2, <3>3 DEF Claim
    <2>2. CASE (\E t \in Task : RequestCancel(t) \/ Expire(t)) \/ HealthNext
      BY <1>1, <2>2 DEF RequestCancel, Expire, HealthNext, Health
    <2> QED
      BY <1>1, <2>1, <2>2 DEF CNext, WorkNext
  <1>2. RunsOK /\ [CNext]_vars =>
          [\A w \in Worker :
             (run[w] # None /\ ~Owns(w) /\ run'[w] # run[w]) =>
                \/ UNCHANGED <<shared, ended, holder>>
                \/ Tick]_vars
    BY <1>1
  <1> QED
    BY <1>2, TypesInvariant, PTL DEF CSpec, StaleIsMute

-----------------------------------------------------------------------------
(* The budget of attempts.                                                 *)

Ordered(s) == \A i, j \in 1..Len(s) : i <= j => s[i] <= s[j]

\* The attempts of a task are those of the window that runs now, which attempts counts,
\* and at most MaxAttempts older ones, which are over when this window is.
Budgeted(s, until, counted) ==
    /\ s \in Seq(1..Window) /\ Ordered(s)
    /\ until = None => s = <<>>
    /\ until # None =>
         \E k \in 0..Len(s) :
            /\ k <= MaxAttempts /\ Len(s) - k <= counted
            /\ \A i \in 1..k : s[i] <= until

BudgetInv == DOMAIN tries = Task /\ \A t \in Task : Budgeted(tries[t], window[t], attempts[t])

\* A new attempt is the last to leave.
LEMMA OneMoreAttempt ==
    ASSUME NEW s \in Seq(1..Window), Ordered(s)
    PROVE  /\ Append(s, Window) \in Seq(1..Window) /\ Ordered(Append(s, Window))
           /\ Len(s) \in Nat /\ Len(Append(s, Window)) = Len(s) + 1
           /\ \A i \in 1..Len(s) : Append(s, Window)[i] = s[i] /\ s[i] \in 1..Window
  <1>1. Window \in Nat /\ Window \in 1..Window /\ \A n \in 1..Window : n \in Nat /\ n <= Window
    BY ContinuityConstants
  <1>2. PICK q : q = Append(s, Window)
    OBVIOUS
  <1>3. /\ q \in Seq(1..Window) /\ Len(s) \in Nat /\ Len(q) = Len(s) + 1
        /\ q[Len(s) + 1] = Window
        /\ \A i \in 1..Len(s) : q[i] = s[i] /\ s[i] \in 1..Window
    BY <1>1, <1>2, AppendProperties, ElementOfSeq
  <1>4. ASSUME NEW i \in 1..Len(q), NEW j \in 1..Len(q), i <= j PROVE q[i] <= q[j]
    <2>1. CASE j \in 1..Len(s)
      <3>1. i \in 1..Len(s)
        BY <1>3, <1>4, <2>1
      <3> QED
        BY <1>3, <1>4, <2>1, <3>1 DEF Ordered
    <2>2. CASE j = Len(s) + 1
      <3>1. q[i] \in 1..Window
        BY <1>3, ElementOfSeq
      <3> QED
        BY <1>1, <1>3, <2>2, <3>1
    <2> QED
      BY <1>3, <2>1, <2>2
  <1> QED
    BY <1>2, <1>3, <1>4 DEF Ordered

\* The attempts at their last tick are the first ones.
LEMMA OldestFirst ==
    ASSUME NEW s \in Seq(1..Window), Ordered(s)
    PROVE  LET gone == Cardinality({i \in DOMAIN s : s[i] = 1})
           IN  /\ gone \in 0..Len(s)
               /\ \A i \in 1..Len(s) : s[i] = 1 <=> i <= gone
  <1>1. PICK n \in Nat : n = Len(s) /\ DOMAIN s = 1..n
    BY LenProperties
  <1>2. \A i \in 1..n : s[i] \in 1..Window
    BY <1>1, ElementOfSeq
  <1>3. Window \in Nat
    BY ContinuityConstants
  <1>4. PICK D : D = {i \in DOMAIN s : s[i] = 1}
    OBVIOUS
  <1>5. PICK T : T = (1..n) \ D
    OBVIOUS
  <1>6. \E m \in 0..n : D = 1..m
    <2>1. CASE T = {}
      BY <1>1, <1>4, <1>5, <2>1
    <2>2. CASE T # {}
      <3>1. T \in SUBSET (1..n) /\ IsFiniteSet(1..n)
        BY <1>5, FS_Interval
      <3>2. T \subseteq Int /\ IsFiniteSet(T)
        <4>1. IsFiniteSet(T)
          BY <3>1, FS_Subset
        <4> QED
          BY <3>1, <4>1
      <3>3. PICK m \in T : \A i \in T : m <= i
        BY <2>2, <3>2, Extremes
      <3>4. m \in 1..n /\ s[m] # 1
        BY <1>1, <1>4, <1>5
      <3>5. ASSUME NEW i \in 1..n PROVE s[i] = 1 <=> i <= m - 1
        <4>1. CASE i < m
          BY <1>1, <1>4, <1>5, <3>3, <3>4, <4>1
        <4>2. CASE m <= i
          <5>1. s[m] <= s[i] /\ s[m] \in 1..Window /\ s[i] \in 1..Window
            BY <1>1, <1>2, <3>4, <4>2 DEF Ordered
          <5> QED
            BY <1>3, <3>4, <4>2, <5>1
        <4> QED
          BY <3>4, <4>1, <4>2
      <3>6. D = 1..(m - 1)
        BY <1>1, <1>4, <3>4, <3>5
      <3> QED
        BY <3>4, <3>6
    <2> QED
      BY <2>1, <2>2
  <1>7. PICK m \in 0..n : D = 1..m
    BY <1>6
  <1>8. Cardinality(D) = m
    BY <1>7, FS_Interval
  <1>9. \A i \in 1..n : s[i] = 1 <=> i <= m
    BY <1>1, <1>4, <1>7
  <1> QED
    BY <1>1, <1>4, <1>8, <1>9

\* One tick takes one from the attempts that are left, and leaves them in order.
LEMMA AgedAttempts ==
    ASSUME NEW s \in Seq(1..Window), Ordered(s)
    PROVE  \E gone \in 0..Len(s) :
              /\ Aged(s) \in Seq(1..Window) /\ Ordered(Aged(s))
              /\ Len(s) \in Nat /\ Len(Aged(s)) = Len(s) - gone
              /\ \A i \in 1..Len(s) - gone :
                   /\ Aged(s)[i] = s[i + gone] - 1
                   /\ i + gone \in 1..Len(s) /\ s[i + gone] \in 1..Window
              /\ \A i \in 1..Len(s) : s[i] = 1 <=> i <= gone
  <1>1. PICK gone : gone = Cardinality({i \in DOMAIN s : s[i] = 1})
    OBVIOUS
  <1>2. gone \in 0..Len(s) /\ (\A i \in 1..Len(s) : s[i] = 1 <=> i <= gone)
    BY <1>1, OldestFirst
  <1>3. Len(s) \in Nat /\ Window \in Nat
    BY LenProperties, ContinuityConstants
  <1>4. PICK n \in Nat : n = Len(s) - gone
    BY <1>2, <1>3
  <1>5. \A i \in 1..n : i + gone \in 1..Len(s) /\ i + gone > gone
    BY <1>2, <1>3, <1>4
  <1>6. PICK q : q = [i \in 1..n |-> s[i + gone] - 1]
    OBVIOUS
  <1>7. Aged(s) = q
    BY <1>1, <1>4, <1>6 DEF Aged
  <1>8. ASSUME NEW i \in 1..n
        PROVE  q[i] = s[i + gone] - 1 /\ s[i + gone] \in 1..Window /\ q[i] \in 1..Window
    <2>1. s[i + gone] \in 1..Window /\ s[i + gone] # 1
      BY <1>2, <1>3, <1>5, ElementOfSeq
    <2> QED
      BY <1>3, <1>6, <2>1
  <1>9. q \in Seq(1..Window) /\ Len(q) = n
    <2>1. q \in [1..n -> 1..Window]
      BY <1>6, <1>8
    <2>2. q \in Seq(1..Window)
      BY <2>1, SeqDef
    <2>3. 1..Len(q) = 1..n /\ Len(q) \in Nat
      BY <2>1, <2>2, LenProperties
    <2> QED
      BY <2>2, <2>3
  <1>10. ASSUME NEW i \in 1..n, NEW j \in 1..n, i <= j PROVE q[i] <= q[j]
    <2>1. /\ i + gone \in 1..Len(s) /\ j + gone \in 1..Len(s) /\ i + gone <= j + gone
      BY <1>2, <1>3, <1>5, <1>10
    <2>2. s[i + gone] <= s[j + gone]
      BY <2>1 DEF Ordered
    <2> QED
      BY <1>3, <1>8, <2>2
  <1> QED
    BY <1>2, <1>3, <1>4, <1>5, <1>7, <1>8, <1>9, <1>10 DEF Ordered

\* A reservation, in the window that runs or in a new one.
LEMMA ReservedIsBudgeted ==
    ASSUME NEW s, NEW until \in 0..Window \cup {None}, NEW counted \in 0..MaxAttempts,
           Budgeted(s, until, counted)
    PROVE  /\ until \in {None, 0} => Budgeted(Append(s, Window), Window, 1)
           /\ until \notin {None, 0} => Budgeted(Append(s, Window), until, counted + 1)
  <1>1. Window \in Nat /\ MaxAttempts \in Nat /\ 1 <= MaxAttempts /\ None \notin Int
    BY ContinuityConstants
  <1>2. s \in Seq(1..Window) /\ Ordered(s)
    BY DEF Budgeted
  <1>3. PICK q : q = Append(s, Window)
    OBVIOUS
  <1>4. /\ q \in Seq(1..Window) /\ Ordered(q) /\ Len(s) \in Nat /\ Len(q) = Len(s) + 1
        /\ \A i \in 1..Len(s) : q[i] = s[i] /\ s[i] \in 1..Window
    BY <1>2, <1>3, OneMoreAttempt
  <1>5. CASE until \in {None, 0}
    <2>1. Len(s) <= MaxAttempts
      <3>1. CASE until = None
        BY <1>1, <3>1 DEF Budgeted
      <3>2. CASE until = 0
        <4>1. PICK k \in 0..Len(s) : Len(s) - k <= counted /\ \A i \in 1..k : s[i] <= 0
          BY <1>1, <3>2 DEF Budgeted
        <4>2. k = 0
          <5>1. SUFFICES ASSUME k # 0 PROVE FALSE
            OBVIOUS
          <5>2. 1 \in 1..k /\ 1 \in 1..Len(s)
            BY <1>4, <5>1
          <5>3. s[1] <= 0 /\ s[1] \in 1..Window
            BY <1>4, <4>1, <5>2
          <5> QED
            BY <1>1, <5>3
        <4> QED
          BY <1>1, <1>4, <4>1, <4>2
      <3> QED
        BY <1>5, <3>1, <3>2
    <2>2. Len(s) \in 0..Len(q) /\ Len(q) - Len(s) <= 1
      BY <1>4
    <2>3. \A i \in 1..Len(s) : q[i] <= Window
      BY <1>1, <1>4
    <2>4. \E k \in 0..Len(q) : /\ k <= MaxAttempts /\ Len(q) - k <= 1
                              /\ \A i \in 1..k : q[i] <= Window
      BY <2>1, <2>2, <2>3
    <2>5. Budgeted(q, Window, 1)
      BY <1>1, <1>4, <2>4 DEF Budgeted
    <2> QED
      BY <1>3, <1>5, <2>5
  <1>6. CASE until \notin {None, 0}
    <2>1. PICK k \in 0..Len(s) :
            k <= MaxAttempts /\ Len(s) - k <= counted /\ \A i \in 1..k : s[i] <= until
      BY <1>6 DEF Budgeted
    <2>2. k \in 0..Len(q) /\ Len(q) - k <= counted + 1
      BY <1>1, <1>4, <2>1
    <2>3. \A i \in 1..k : q[i] <= until
      BY <1>4, <2>1
    <2>4. Budgeted(q, until, counted + 1)
      BY <1>4, <1>6, <2>1, <2>2, <2>3 DEF Budgeted
    <2> QED
      BY <1>3, <1>6, <2>4
  <1> QED
    BY <1>5, <1>6

\* A tick, which is one less of the window and of every attempt.
LEMMA AgedIsBudgeted ==
    ASSUME NEW s, NEW until \in 0..Window \cup {None}, NEW counted \in 0..MaxAttempts,
           Budgeted(s, until, counted)
    PROVE  Budgeted(Aged(s), Less(until), counted)
  <1>1. Window \in Nat /\ MaxAttempts \in Nat /\ None \notin Int
    BY ContinuityConstants
  <1>2. s \in Seq(1..Window) /\ Ordered(s)
    BY DEF Budgeted
  <1>3. PICK gone \in 0..Len(s) :
          /\ Aged(s) \in Seq(1..Window) /\ Ordered(Aged(s))
          /\ Len(s) \in Nat /\ Len(Aged(s)) = Len(s) - gone
          /\ \A i \in 1..Len(s) - gone :
               /\ Aged(s)[i] = s[i + gone] - 1
               /\ i + gone \in 1..Len(s) /\ s[i + gone] \in 1..Window
    BY <1>2, AgedAttempts
  <1>4. PICK q : q = Aged(s)
    OBVIOUS
  <1>5. CASE until = None
    <2>1. Len(s) = 0
      BY <1>5 DEF Budgeted
    <2>2. Len(q) = 0
      BY <1>3, <1>4, <2>1
    <2>3. q = <<>>
      BY <1>3, <1>4, <2>2, EmptySeq
    <2>4. Less(until) = None
      BY <1>5, LessIsLess
    <2> QED
      BY <1>3, <1>4, <2>3, <2>4 DEF Budgeted
  <1>6. CASE until # None
    <2>1. PICK k \in 0..Len(s) :
            k <= MaxAttempts /\ Len(s) - k <= counted /\ \A i \in 1..k : s[i] <= until
      BY <1>6 DEF Budgeted
    <2>2. until \in 0..Window /\ Less(until) # None
      <3>1. until \in 0..Window /\ until \in Nat
        BY <1>1, <1>6
      <3>2. Less(until) \in Nat
        BY <3>1, LessIsLess
      <3> QED
        BY <1>1, <3>1, <3>2
    <2>3. PICK j \in 0..Len(q) : j = IF gone <= k THEN k - gone ELSE 0
      <3>1. CASE gone <= k
        <4>1. k - gone \in 0..Len(q)
          BY <1>3, <1>4, <2>1, <3>1
        <4> QED
          BY <3>1, <4>1
      <3>2. CASE ~(gone <= k)
        <4>1. 0 \in 0..Len(q)
          BY <1>3, <1>4
        <4> QED
          BY <3>2, <4>1
      <3> QED
        BY <3>1, <3>2
    <2>4. j <= MaxAttempts /\ Len(q) - j <= counted
      BY <1>1, <1>3, <1>4, <2>1, <2>3
    <2>5. ASSUME NEW i \in 1..j PROVE q[i] <= Less(until)
      <3>1. i \in 1..Len(s) - gone /\ i + gone \in 1..k
        BY <1>3, <2>1, <2>3
      <3>2. q[i] = s[i + gone] - 1 /\ s[i + gone] \in 1..Window /\ s[i + gone] <= until
        BY <1>3, <1>4, <2>1, <3>1
      <3>3. until \in Nat /\ until # 0
        BY <1>1, <2>2, <3>2
      <3>4. Less(until) = until - 1
        BY <3>3, LessIsLess
      <3> QED
        BY <1>1, <3>2, <3>3, <3>4
    <2>6. \E i \in 0..Len(q) : /\ i <= MaxAttempts /\ Len(q) - i <= counted
                              /\ \A h \in 1..i : q[h] <= Less(until)
      BY <2>4, <2>5
    <2> QED
      BY <1>3, <1>4, <2>2, <2>6 DEF Budgeted
  <1> QED
    BY <1>5, <1>6

\* Only Reserve, Outcome and Tick touch the budget.
LEMMA BudgetStep == SharedOK /\ RunsOK /\ BudgetInv /\ [CNext]_vars => BudgetInv'
  <1> SUFFICES ASSUME SharedOK, RunsOK, BudgetInv, [CNext]_vars PROVE BudgetInv'
    OBVIOUS
  <1>1. /\ DOMAIN tries = Task /\ DOMAIN window = Task /\ DOMAIN attempts = Task
        /\ \A t \in Task : /\ Budgeted(tries[t], window[t], attempts[t])
                           /\ window[t] \in 0..Window \cup {None} /\ attempts[t] \in 0..MaxAttempts
    BY DEF BudgetInv, SharedOK
  <1>2. ASSUME UNCHANGED <<tries, window, attempts>> PROVE BudgetInv'
    BY <1>1, <1>2 DEF BudgetInv
  <1>3. ASSUME NEW t \in Task, DOMAIN tries' = Task,
               \A u \in Task : u # t => /\ tries'[u] = tries[u] /\ window'[u] = window[u]
                                        /\ attempts'[u] = attempts[u],
               Budgeted(tries'[t], window'[t], attempts'[t])
        PROVE  BudgetInv'
    BY <1>1, <1>3 DEF BudgetInv
  <1>4. ASSUME NEW w \in Worker, Reserve(w) PROVE BudgetInv'
    <2>1. PICK t \in Task : t = TaskOf(w)
      BY <1>4, RunAt DEF Reserve, At
    <2>2. CASE /\ window[t] \in {None, 0}
               /\ window' = [window EXCEPT ![t] = Window]
               /\ attempts' = [attempts EXCEPT ![t] = 1]
               /\ tries' = [tries EXCEPT ![t] = Append(@, Window)]
      <3>1. Budgeted(Append(tries[t], Window), Window, 1)
        BY <1>1, <2>2, ReservedIsBudgeted
      <3>2. tries'[t] = Append(tries[t], Window) /\ window'[t] = Window /\ attempts'[t] = 1
        BY <1>1, <2>2
      <3>3. DOMAIN tries' = Task /\ \A u \in Task : u # t =>
              tries'[u] = tries[u] /\ window'[u] = window[u] /\ attempts'[u] = attempts[u]
        BY <1>1, <2>2
      <3> QED
        BY <1>3, <3>1, <3>2, <3>3
    <2>3. CASE /\ window[t] \notin {None, 0}
               /\ attempts' = [attempts EXCEPT ![t] = @ + 1] /\ UNCHANGED window
               /\ tries' = [tries EXCEPT ![t] = Append(@, Window)]
      <3>1. Budgeted(Append(tries[t], Window), window[t], attempts[t] + 1)
        BY <1>1, <2>3, ReservedIsBudgeted
      <3>2. tries'[t] = Append(tries[t], Window) /\ window'[t] = window[t]
            /\ attempts'[t] = attempts[t] + 1
        BY <1>1, <2>3
      <3>3. DOMAIN tries' = Task /\ \A u \in Task : u # t =>
              tries'[u] = tries[u] /\ window'[u] = window[u] /\ attempts'[u] = attempts[u]
        BY <1>1, <2>3
      <3> QED
        BY <1>3, <3>1, <3>2, <3>3
    <2>4. CASE UNCHANGED <<window, attempts, tries>>
      BY <1>2, <2>4
    <2> QED
      BY <1>4, <2>1, <2>2, <2>3, <2>4 DEF Reserve
  <1>5. ASSUME NEW w \in Worker, Outcome(w) PROVE BudgetInv'
    <2>1. PICK t \in Task : t = TaskOf(w)
      BY <1>5, RunAt DEF Outcome, At
    <2>2. Window \in Nat /\ MaxAttempts \in Nat /\ None \notin Int
      BY ContinuityConstants
    <2>3. Budgeted(<<>>, Window, 0)
      <3>1. <<>> \in Seq(1..Window) /\ Len(<<>>) = 0 /\ Ordered(<<>>)
        BY EmptySeq DEF Ordered
      <3>2. 0 \in 0..Len(<<>>) /\ 0 <= MaxAttempts /\ Len(<<>>) - 0 <= 0
        BY <2>2, <3>1
      <3>3. \A i \in 1..0 : <<>>[i] <= Window
        OBVIOUS
      <3>4. \E k \in 0..Len(<<>>) : /\ k <= MaxAttempts /\ Len(<<>>) - k <= 0
                                    /\ \A i \in 1..k : <<>>[i] <= Window
        BY <3>2, <3>3
      <3> QED
        BY <2>2, <3>1, <3>4 DEF Budgeted
    <2>4. CASE /\ window' = [window EXCEPT ![t] = Window]
               /\ attempts' = [attempts EXCEPT ![t] = 0]
               /\ tries' = [tries EXCEPT ![t] = <<>>]
      <3>1. tries'[t] = <<>> /\ window'[t] = Window /\ attempts'[t] = 0
        BY <1>1, <2>4
      <3>2. DOMAIN tries' = Task /\ \A u \in Task : u # t =>
              tries'[u] = tries[u] /\ window'[u] = window[u] /\ attempts'[u] = attempts[u]
        BY <1>1, <2>4
      <3> QED
        BY <1>3, <2>3, <3>1, <3>2
    <2>5. CASE /\ window' = [window EXCEPT ![t] = IF @ = None THEN Window ELSE @]
               /\ UNCHANGED <<attempts, tries>>
      <3>1. CASE window[t] = None
        <4>1. tries[t] = <<>>
          BY <1>1, <3>1 DEF Budgeted
        <4>2. Budgeted(<<>>, Window, attempts[t])
          <5>1. PICK k \in 0..Len(<<>>) : /\ k <= MaxAttempts /\ Len(<<>>) - k <= 0
                                          /\ \A i \in 1..k : <<>>[i] <= Window
            BY <2>2, <2>3 DEF Budgeted
          <5>2. Len(<<>>) = 0 /\ attempts[t] \in Nat /\ 0 <= attempts[t]
            BY <1>1, <2>2, EmptySeq
          <5>3. Len(<<>>) - k <= attempts[t]
            BY <5>1, <5>2
          <5> QED
            BY <2>2, <2>3, <5>1, <5>3 DEF Budgeted
        <4>3. tries'[t] = <<>> /\ window'[t] = Window /\ attempts'[t] = attempts[t]
          BY <1>1, <2>5, <3>1, <4>1
        <4>4. DOMAIN tries' = Task /\ \A u \in Task : u # t =>
                tries'[u] = tries[u] /\ window'[u] = window[u] /\ attempts'[u] = attempts[u]
          BY <1>1, <2>5
        <4> QED
          BY <1>3, <4>2, <4>3, <4>4
      <3>2. CASE window[t] # None
        <4>1. /\ DOMAIN tries' = Task /\ DOMAIN window' = Task /\ attempts' = attempts
              /\ \A u \in Task : tries'[u] = tries[u] /\ window'[u] = window[u]
          BY <1>1, <2>5, <3>2
        <4>2. window'[t] = window[t] /\ tries'[t] = tries[t] /\ attempts'[t] = attempts[t]
          BY <4>1
        <4>3. Budgeted(tries'[t], window'[t], attempts'[t])
          BY <1>1, <4>2
        <4> QED
          BY <1>3, <4>1, <4>3
      <3> QED
        BY <3>1, <3>2
    <2> QED
      BY <1>5, <2>1, <2>4, <2>5 DEF Outcome
  <1>6. CASE Tick
    <2>1. ASSUME NEW t \in Task PROVE Budgeted(Aged(tries[t]), Less(window[t]), attempts[t])
      BY <1>1, AgedIsBudgeted
    <2>2. /\ tries' = [t \in Task |-> Aged(tries[t])] /\ window' = [t \in Task |-> Less(window[t])]
          /\ attempts' = attempts
      BY <1>6 DEF Tick
    <2> QED
      BY <2>1, <2>2 DEF BudgetInv
  <1>7. ASSUME NEW w \in Worker, Step(w) \/ Answer(w) \/ Crash(w) \/ \E t \in Task : Claim(w, t)
        PROVE  BudgetInv'
    <2>1. CASE Again(w) \/ Release(w) \/ Stop(w) \/ Look(w) \/ Route(w) \/ Blame(w)
      BY <1>2, <2>1 DEF Again, Release, Stop, Look, Route, Blame, shared
    <2>2. CASE Observe(w) \/ Credit(w) \/ Answer(w) \/ Crash(w) \/ \E t \in Task : Claim(w, t)
      BY <1>2, <2>2 DEF Observe, Credit, Answer, Succeed, Raise, Failure, Crash, Claim, shared
    <2> QED
      BY <1>4, <1>5, <1>7, <2>1, <2>2 DEF Step
  <1>8. CASE (\E t \in Task : RequestCancel(t) \/ Expire(t)) \/ HealthNext \/ UNCHANGED vars
    BY <1>2, <1>8 DEF RequestCancel, Expire, HealthNext, Health, vars, shared
  <1> QED
    BY <1>6, <1>7, <1>8 DEF CNext, WorkNext

\* However often workers crash, lose their lease and are replaced, and however outcomes
\* and windows alternate, a task that has had no success since makes no more than two
\* windows' worth of attempts in any span as long as one window (_reserve).
THEOREM BudgetIsKept == CSpec => []BudgetKept
  <1>1. CInit => BudgetInv
    BY EmptySeq DEF CInit, BudgetInv, Budgeted, Ordered
  <1>2. ASSUME SharedOK, BudgetInv, NEW t \in Task PROVE Len(tries[t]) <= 2 * MaxAttempts
    <2>1. Budgeted(tries[t], window[t], attempts[t]) /\ attempts[t] \in 0..MaxAttempts
      BY <1>2 DEF BudgetInv, SharedOK
    <2>2. MaxAttempts \in Nat /\ Len(tries[t]) \in Nat
      BY <2>1, ContinuityConstants, LenProperties DEF Budgeted
    <2>3. CASE window[t] = None
      <3>1. Len(tries[t]) = 0
        BY <2>1, <2>3, EmptySeq DEF Budgeted
      <3> QED
        BY <2>2, <3>1
    <2>4. CASE window[t] # None
      <3>1. PICK k \in 0..Len(tries[t]) : k <= MaxAttempts /\ Len(tries[t]) - k <= attempts[t]
        BY <2>1, <2>4 DEF Budgeted
      <3> QED
        BY <2>1, <2>2, <3>1
    <2> QED
      BY <2>3, <2>4
  <1>3. SharedOK /\ BudgetInv => BudgetKept
    BY <1>2 DEF BudgetKept
  <1> QED
    BY <1>1, <1>3, TypesInit, TypesStep, BudgetStep, PTL DEF CSpec

-----------------------------------------------------------------------------
(* The delay a provider has asked for.                                     *)

\* A backend that has asked for a delay is recorded as cooling down for at least that
\* long, and no run that holds its task has chosen such a backend.
PoliteInv ==
    /\ \A w \in Worker :
         run[w] # None /\ run[w].at \in Committed /\ Owns(w) =>
            announced[ProviderOf[run[w].model]] = 0
    /\ \A b \in Backend :
         announced[b] # 0 /\ obs[b] # None =>
            obs[b].cooldown # None /\ obs[b].cooldown >= announced[b]

\* A step of one worker that records nothing, and by which no other worker gets a task.
LEMMA PoliteMove ==
    ASSUME RunsOK, PoliteInv, NEW w \in Worker, UNCHANGED <<obs, announced>>,
           \A v \in Worker : v # w =>
              run'[v] = run[v] /\ \A t \in Task : holder'[t] = v => holder[t] = v,
           run'[w] # None /\ run'[w].at \in Committed /\ Owns(w)' =>
              announced[ProviderOf[run'[w].model]] = 0
    PROVE  PoliteInv'
  <1>1. ASSUME NEW v \in Worker, v # w, run'[v] # None, run'[v].at \in Committed, Owns(v)'
        PROVE  announced[ProviderOf[run'[v].model]] = 0
    <2>1. run'[v] = run[v] /\ run[v].task \in Task
      BY <1>1, RunAt DEF TaskOf
    <2>2. Owns(v)
      BY <1>1, <2>1 DEF Owns, TaskOf
    <2> QED
      BY <1>1, <2>1, <2>2 DEF PoliteInv
  <1> QED
    BY <1>1 DEF PoliteInv

\* A worker that takes a usable route takes one that has asked for nothing.
LEMMA UsableIsPolite ==
    ASSUME PoliteInv, SharedOK, NEW b \in Backend, UsableBackend(b)
    PROVE  announced[b] = 0
  <1>1. announced[b] \in Nat
    BY DelaysAreTicks DEF SharedOK
  <1>2. CASE announced[b] # 0
    <2>1. obs[b] # None /\ obs[b].cooldown # None /\ obs[b].cooldown >= announced[b]
      BY <1>2 DEF PoliteInv, UsableBackend, Seen
    <2>2. obs[b].cooldown \in Ticks
      BY <2>1 DEF SharedOK, Observation
    <2>3. obs[b].cooldown = 0
      BY <2>1 DEF UsableBackend
    <2> QED
      BY <1>1, <1>2, <2>1, <2>3
  <1> QED
    BY <1>2

LEMMA PoliteStep == SharedOK /\ RunsOK /\ PoliteInv /\ [CNext]_vars => PoliteInv'
  <1> SUFFICES ASSUME SharedOK, RunsOK, PoliteInv, [CNext]_vars PROVE PoliteInv'
    OBVIOUS
  <1>1. DOMAIN run = Worker /\ DOMAIN holder = Task /\ None \notin Worker
    BY ContinuityConstants DEF RunsOK, SharedOK
  <1>2. ASSUME NEW w \in Worker, run[w] # None PROVE TaskOf(w) \in Task
    BY <1>2, RunAt
  <1>3. ASSUME NEW w \in Worker, Look(w) PROVE PoliteInv'
    <2>1. run[w] # None /\ UNCHANGED <<holder, obs, announced>>
      BY <1>3 DEF Look, At, shared
    <2>2. \A v \in Worker : v # w => run'[v] = run[v]
      BY <1>1, <1>3 DEF Look
    <2>3. CASE /\ Usable(w) # {}
               /\ run' = [run EXCEPT ![w].at = "reserve", ![w].model = Routes[LeastOf(Usable(w))]]
      <3>1. PICK i \in Usable(w) : i = LeastOf(Usable(w)) /\ Routes[i] \in Model
        BY <2>3, UsableRoute
      <3>2. UsableBackend(ProviderOf[Routes[i]]) /\ ProviderOf[Routes[i]] \in Backend
        BY <3>1, ContinuityConstants DEF Usable
      <3>3. announced[ProviderOf[Routes[i]]] = 0
        BY <3>2, UsableIsPolite
      <3>4. run[w] \in Run
        BY <2>1, RunAt
      <3>5. run'[w].model = Routes[i]
        BY <1>1, <2>3, <3>1, <3>4 DEF Run
      <3> QED
        BY <2>1, <2>2, <3>3, <3>5, PoliteMove
    <2>4. CASE run' = [run EXCEPT ![w].at = "outcome", ![w].verdict = "retry_later",
                                  ![w].time = Larger(Base, LeastOf(RetryDates(w)))]
      <3>1. run[w] \in Run
        BY <2>1, RunAt
      <3>2. run'[w].at \notin Committed
        BY <1>1, <2>4, <3>1 DEF Run, Committed
      <3> QED
        BY <2>1, <2>2, <3>2, PoliteMove
    <2>5. CASE run' = [run EXCEPT ![w].at = "outcome", ![w].verdict = "terminal"]
      <3>1. run[w] \in Run
        BY <2>1, RunAt
      <3>2. run'[w].at \notin Committed
        BY <1>1, <2>5, <3>1 DEF Run, Committed
      <3> QED
        BY <2>1, <2>2, <3>2, PoliteMove
    <2> QED
      BY <1>3, <2>3, <2>4, <2>5 DEF Look
  \* The other steps that leave the observations alone: the model stays, or the run is over.
  <1>4. ASSUME NEW w \in Worker,
               Reserve(w) \/ Route(w) \/ Answer(w) \/ Blame(w) \/ Outcome(w) \/ Again(w)
        PROVE  PoliteInv'
    <2>1. run[w] # None /\ UNCHANGED <<holder, obs, announced>>
      BY <1>4 DEF Reserve, Route, Answer, Succeed, Raise, Failure, Blame, Outcome, Again, At, shared
    <2>2. \A v \in Worker : v # w => run'[v] = run[v]
      BY <1>1, <1>4 DEF Reserve, Route, Answer, Succeed, Raise, Failure, Blame, Outcome, Again, GoTo
    <2>3. run[w] \in Run /\ TaskOf(w) \in Task
      BY <2>1, RunAt
    <2>4. \/ /\ run'[w].model = run[w].model /\ run'[w].task = run[w].task
             /\ run[w].at \in Committed
          \/ run'[w].at \notin Committed
      <3>1. PICK r \in Run : r = run[w] 
        BY <2>3
      <3>2. CASE Reserve(w)
        <4>1. r.at \in Committed
          BY <3>1, <3>2 DEF Reserve, At, Committed
        <4>2. CASE GoTo(w, "route")
          BY <1>1, <3>1, <4>1, <4>2 DEF GoTo, Run
        <4>3. CASE run' = [run EXCEPT ![w].at = "outcome", ![w].verdict = "retry_later",
                                      ![w].time = window[TaskOf(w)]]
          <5>1. run'[w] = [r EXCEPT !.at = "outcome", !.verdict = "retry_later",
                                    !.time = window[TaskOf(w)]]
            BY <1>1, <3>1, <4>3
          <5> QED
            BY <5>1 DEF Run, Committed
        <4> QED
          BY <3>2, <4>2, <4>3 DEF Reserve
      <3>3. CASE Route(w)
        <4>1. run'[w] = [r EXCEPT !.at = "call", !.time = 0] /\ r.at \in Committed
          BY <1>1, <3>1, <3>3 DEF Route, At, Committed
        <4> QED
          BY <3>1, <4>1 DEF Run
      <3>4. CASE Succeed(w)
        <4>1. run'[w] = [r EXCEPT !.at = "credit"] /\ r.at \in Committed
          BY <1>1, <3>1, <3>4 DEF Succeed, GoTo, At, Committed
        <4> QED
          BY <3>1, <4>1 DEF Run
      <3>5. ASSUME NEW failure \in Failures, Failure(w, failure)
            PROVE  /\ run'[w].model = run[w].model /\ run'[w].task = run[w].task
                   /\ run[w].at \in Committed
        <4>1. run'[w] = [r EXCEPT !.at = "blame", !.verdict = failure.verdict,
                                  !.time = failure.told, !.until = failure.until,
                                  !.asked = failure.asked]
              /\ r.at \in Committed
          BY <1>1, <3>1, <3>5 DEF Failure, At, Committed
        <4> QED
          BY <3>1, <4>1 DEF Run
      <3>6. CASE Blame(w)
        <4>1. r.at \in Committed
          BY <3>1, <3>6 DEF Blame, At, Committed
        <4>2. CASE run' = [run EXCEPT ![w].at = "observe",
                                      ![w].time = Larger(Larger(Backoff(BackendOf(w)), @),
                                                         run[w].until),
                                      ![w].until = 0]
          <5>1. PICK time : time = Larger(Larger(Backoff(BackendOf(w)), r.time), r.until)
            OBVIOUS
          <5>2. run'[w] = [r EXCEPT !.at = "observe", !.time = time, !.until = 0]
            BY <1>1, <3>1, <4>2, <5>1
          <5> QED
            BY <3>1, <4>1, <5>2 DEF Run
        <4>3. CASE run' = [run EXCEPT ![w] = [Start(TaskOf(w)) EXCEPT !.excluded =
                                                run[w].excluded \cup {run[w].model}]]
          BY <1>1, <4>3 DEF Start, Committed
        <4>4. CASE run' = [run EXCEPT ![w].at = "outcome", ![w].verdict = "terminal"]
          <5>1. run'[w] = [r EXCEPT !.at = "outcome", !.verdict = "terminal"]
            BY <1>1, <3>1, <4>4
          <5> QED
            BY <5>1 DEF Run, Committed
        <4> QED
          BY <3>6, <4>2, <4>3, <4>4 DEF Blame
      <3>7. CASE Outcome(w) \/ Again(w) \/ Raise(w)
        <4>1. PICK s : s = Start(TaskOf(w)) /\ s = [task |-> TaskOf(w), at |-> "look", excluded |-> {},
                        model |-> NoModel, verdict |-> None, time |-> 0, until |-> 0, asked |-> 0]
          BY DEF Start
        <4>2. (\E verdict : run'[w] = [s EXCEPT !.at = "done", !.verdict = verdict]) \/ run'[w] = s
          BY <1>1, <3>1, <3>7, <4>1 DEF Outcome, Again, Raise
        <4>3. \A verdict : [s EXCEPT !.at = "done", !.verdict = verdict].at = "done"
          BY <4>1
        <4>4. s.at = "look"
          BY <4>1
        <4>5. run'[w].at = "done" \/ run'[w].at = "look"
          BY <4>2, <4>3, <4>4
        <4> QED
          BY <4>5 DEF Committed
      <3> QED
        BY <1>4, <3>2, <3>3, <3>4, <3>5, <3>6, <3>7 DEF Answer
    <2>5. run'[w] # None /\ run'[w].at \in Committed /\ Owns(w)' =>
            announced[ProviderOf[run'[w].model]] = 0
      BY <2>1, <2>4 DEF PoliteInv, Owns, TaskOf
    <2> QED
      BY <2>1, <2>2, <2>5, PoliteMove
  <1>5. ASSUME NEW w \in Worker, Release(w) \/ Stop(w) \/ Crash(w) PROVE PoliteInv'
    <2>1. UNCHANGED <<obs, announced>> /\ run'[w] = None
      BY <1>1, <1>5 DEF Release, Stop, Crash, shared
    <2>2. \A v \in Worker : v # w => run'[v] = run[v]
      BY <1>1, <1>5 DEF Release, Stop, Crash
    <2>3. \A v \in Worker, t \in Task : holder'[t] = v => holder[t] = v
      BY <1>1, <1>5 DEF Release, Stop, Crash
    <2> QED
      BY <2>1, <2>2, <2>3, PoliteMove
  <1>6. ASSUME NEW w \in Worker, NEW u \in Task, Claim(w, u) PROVE PoliteInv'
    <2>1. UNCHANGED <<obs, announced>> /\ run'[w] = Start(u)
      BY <1>1, <1>6 DEF Claim, shared
    <2>2. \A v \in Worker : v # w =>
            run'[v] = run[v] /\ \A t \in Task : holder'[t] = v => holder[t] = v
      BY <1>1, <1>6 DEF Claim
    <2>3. run'[w].at \notin Committed
      BY <2>1 DEF Start, Committed
    <2> QED
      BY <2>1, <2>2, <2>3, PoliteMove
  <1>7. ASSUME NEW w \in Worker, Observe(w) \/ Credit(w) PROVE PoliteInv'
    <2>1. PICK b \in Backend : b = BackendOf(w) /\ b = ProviderOf[run[w].model]
      BY <1>7, BackendIs DEF Observe, Credit, At, BackendOf
    <2>2. PICK r \in Run : r = run[w] /\ Sound(r) /\ r.asked \in Ticks
      BY <1>7, RunAt DEF Observe, Credit, At
    <2>3. announced[b] = 0 /\ UNCHANGED holder
      <3>1. run[w] # None /\ run[w].at \in Committed /\ Owns(w)
        BY <1>7 DEF Observe, Credit, At, Committed
      <3> QED
        BY <1>7, <2>1, <3>1 DEF PoliteInv, Observe, Credit
    <2>4. ASSUME NEW v \in Worker, run'[v] # None, run'[v].at \in Committed, Owns(v)'
          PROVE  announced'[ProviderOf[run'[v].model]] = 0
      <3>1. v # w
        BY <1>1, <1>7, <2>2, <2>4 DEF Observe, Credit, Start, Run, Committed
      <3>2. run'[v] = run[v] /\ Owns(v)
        BY <1>1, <1>7, <2>3, <2>4, <3>1 DEF Observe, Credit, Owns, TaskOf
      <3>3. announced[BackendOf(v)] = 0 /\ BackendOf(v) \in Backend
        BY <2>4, <3>2, BackendIs DEF PoliteInv, BackendOf, Committed
      <3>4. CASE Credit(w)
        BY <3>2, <3>3, <3>4 DEF Credit, BackendOf
      <3>5. CASE Observe(w) /\ BackendOf(v) # b
        BY <2>1, <3>2, <3>3, <3>5 DEF Observe, SharedOK, BackendOf
      <3>6. CASE Observe(w) /\ BackendOf(v) = b
        <4>1. Promised(w, b) = announced[b]
          BY <2>4, <3>1, <3>2, <3>6 DEF Promised
        <4> QED
          BY <2>1, <2>3, <3>2, <3>6, <4>1 DEF Observe, SharedOK, BackendOf
      <3> QED
        BY <1>7, <3>4, <3>5, <3>6
    <2>5. ASSUME NEW c \in Backend, c # b
          PROVE  obs'[c] = obs[c] /\ announced'[c] = announced[c]
      BY <1>7, <2>1, <2>5 DEF Observe, Credit, Written, SharedOK
    <2>6. announced'[b] # 0 => obs'[b].cooldown # None /\ obs'[b].cooldown >= announced'[b]
      <3>1. CASE Observe(w)
        <4>1. r.time \in Ticks /\ r.asked <= r.time
          BY <2>2, <3>1 DEF Observe, At, Sound
        <4>2. announced'[b] = 0 \/ announced'[b] = r.asked
          <5>1. announced'[b] \in {announced[b], Larger(announced[b], r.asked)}
            BY <2>1, <2>2, <3>1 DEF Observe, SharedOK, Promised
          <5>2. PICK asked \in Nat : asked = r.asked
            BY <2>2, DelaysAreTicks
          <5> QED
            BY <2>3, <5>1, <5>2 DEF Larger
        <4>3. PICK o : /\ o = [state |-> "unavailable", cooldown |-> r.time,
                               failures |-> FailuresAfter(b, "unavailable"), fresh |-> TTL + 1]
                       /\ obs'[b] = o
          BY <2>1, <2>2, <3>1 DEF Observe, Written, SharedOK
        <4>4. PICK time \in Nat : time = r.time
          BY <4>1, DelaysAreTicks
        <4>5. o.cooldown = time /\ time # None
          BY <4>3, <4>4, ContinuityConstants
        <4> QED
          BY <2>2, <4>1, <4>2, <4>3, <4>4, <4>5, DelaysAreTicks
      <3>2. CASE Credit(w)
        BY <2>3, <3>2 DEF Credit
      <3> QED
        BY <1>7, <3>1, <3>2
    <2>7. \A c \in Backend : announced'[c] # 0 /\ obs'[c] # None =>
             obs'[c].cooldown # None /\ obs'[c].cooldown >= announced'[c]
      BY <2>5, <2>6 DEF PoliteInv
    <2> QED
      BY <2>4, <2>7 DEF PoliteInv
  <1>8. ASSUME NEW b \in Backend, NEW state, Health(b, state) PROVE PoliteInv'
    <2>1. /\ announced' = [announced EXCEPT ![b] = 0] /\ UNCHANGED <<run, holder>>
          /\ \A c \in Backend : c # b => obs'[c] = obs[c]
      BY <1>8 DEF Health, Written, SharedOK
    <2>2. DOMAIN announced = Backend
      BY DEF SharedOK
    <2>3. ASSUME NEW w \in Worker, run[w] # None, run[w].at \in Committed, Owns(w)
          PROVE  announced'[ProviderOf[run[w].model]] = 0
      <3>1. announced[ProviderOf[run[w].model]] = 0 /\ ProviderOf[run[w].model] \in Backend
        BY <2>3, BackendIs DEF PoliteInv, Committed, BackendOf
      <3> QED
        BY <2>1, <2>2, <3>1
    <2> QED
      BY <2>1, <2>2, <2>3 DEF PoliteInv, Owns, TaskOf
  <1>9. CASE \E u \in Task : RequestCancel(u) \/ Expire(u)
    <2>1. /\ UNCHANGED <<obs, announced, run>>
          /\ \A v \in Worker, t \in Task : holder'[t] = v => holder[t] = v
      BY <1>1, <1>9 DEF RequestCancel, Expire, shared
    <2>2. ASSUME NEW v \in Worker, run[v] # None, Owns(v)' PROVE Owns(v)
      BY <1>2, <2>1, <2>2 DEF Owns, TaskOf
    <2> QED
      BY <2>1, <2>2 DEF PoliteInv
  <1>10. CASE Tick
    <2>1. /\ UNCHANGED holder
          /\ announced' = [b \in Backend |-> Less(announced[b])]
          /\ obs' = [b \in Backend |->
                       IF obs[b] = None THEN None
                       ELSE [obs[b] EXCEPT !.cooldown = Less(@), !.fresh = Less(@)]]
      BY <1>10 DEF Tick
    <2>2. ASSUME NEW w \in Worker, run'[w] # None, run'[w].at \in Committed, Owns(w)'
          PROVE  announced'[ProviderOf[run'[w].model]] = 0
      <3>1. run[w] # None
        BY <1>10, <2>2 DEF Tick
      <3>2. run[w] \in Run
        BY <3>1, RunAt
      <3>3. /\ run'[w].at = run[w].at /\ run'[w].model = run[w].model
            /\ run'[w].task = run[w].task
        <4>1. PICK r \in Run : r = run[w]
          BY <3>2
        <4>2. PICK time : run'[w] = [r EXCEPT !.time = time, !.until = Less(@), !.asked = Less(@)]
          BY <1>10, <3>1, <4>1 DEF Tick
        <4> QED
          BY <4>1, <4>2 DEF Run
      <3>4. /\ ProviderOf[run[w].model] \in Backend
            /\ announced[ProviderOf[run[w].model]] = 0
        BY <2>1, <2>2, <3>1, <3>3, BackendIs DEF PoliteInv, Committed, BackendOf, Owns, TaskOf
      <3> QED
        BY <2>1, <3>3, <3>4, LessIsLess
    <2>3. ASSUME NEW b \in Backend, announced'[b] # 0, obs'[b] # None
          PROVE  obs'[b].cooldown # None /\ obs'[b].cooldown >= announced'[b]
      <3>1. announced[b] \in Nat /\ announced[b] # 0 /\ announced'[b] = Less(announced[b])
        BY <2>1, <2>3, LessIsLess, DelaysAreTicks DEF SharedOK
      <3>2. obs[b] # None /\ obs[b].cooldown # None /\ obs[b].cooldown >= announced[b]
        BY <2>1, <2>3, <3>1 DEF PoliteInv
      <3>3. PICK o \in Observation : o = obs[b] /\ o.cooldown \in Nat
        BY <3>2, DelaysAreTicks DEF SharedOK, Observation
      <3>4. obs'[b] = [o EXCEPT !.cooldown = Less(@), !.fresh = Less(@)]
        BY <2>1, <3>2, <3>3
      <3>5. obs'[b].cooldown = Less(o.cooldown) /\ Less(o.cooldown) \in Nat
        BY <3>3, <3>4, LessIsLess DEF Observation
      <3>6. Less(announced[b]) <= Less(o.cooldown)
        BY <3>1, <3>2, <3>3, LessIsLess
      <3> QED
        BY <3>1, <3>2, <3>3, <3>5, <3>6, ContinuityConstants
    <2> QED
      BY <2>2, <2>3 DEF PoliteInv
  <1>11. CASE UNCHANGED vars
    BY <1>11 DEF vars, shared, PoliteInv, Owns, TaskOf
  <1> QED
    BY <1>3, <1>4, <1>5, <1>6, <1>7, <1>8, <1>9, <1>10, <1>11 DEF CNext, WorkNext, HealthNext, Step

\* Once observe has recorded a delay that a backend asked for, and no owner of another
\* task was committed to that backend then, no worker sends it a request for any task
\* within the delay, however often the leases change hands, unless its health was
\* reported anew from outside (the cooldown in backend_observations, which is shared by
\* all tasks and read again in every pass).
THEOREM CallsArePolite == CSpec => PoliteCall
  <1>1. CInit => PoliteInv
    <2>1. CInit => \A b \in Backend : announced[b] = 0
      BY DEF CInit
    <2>2. CInit => \A w \in Worker : run[w] = None
      BY DEF CInit
    <2> QED
      BY <2>1, <2>2 DEF PoliteInv
  <1>2. ASSUME RunsOK, PoliteInv, CNext, NEW w \in Worker, run[w] # None, run'[w] # None,
               run[w].at = "route", run'[w].at = "call"
        PROVE  announced[BackendOf(w)] = 0
    <2>1. run[w] \in Run
      BY <1>2, RunAt
    <2>2. run'[w] # run[w]
      BY <1>2
    <2>3. ASSUME NEW v \in Worker, Step(v) \/ Answer(v) \/ Crash(v) \/ \E u \in Task : Claim(v, u)
          PROVE  Owns(w)
      <3>1. v = w
        BY <1>2, <2>2, <2>3, OthersLeaveIt
      <3>2. CASE Route(w)
        BY <3>2 DEF Route, MayCall
      <3>3. CASE Again(w) \/ Look(w) \/ Reserve(w) \/ Blame(w) \/ Observe(w) \/ Credit(w) \/ Outcome(w)
        BY <1>2, <3>3 DEF Again, Look, Reserve, Blame, Observe, Credit, Outcome, At
      <3>4. CASE Release(w) \/ Stop(w) \/ Crash(w) \/ \E u \in Task : Claim(w, u)
        BY <1>2, <3>4 DEF Release, Stop, Crash, Claim, RunsOK
      <3>5. CASE Answer(w)
        BY <1>2, <3>5 DEF Answer, Succeed, Raise, Failure, At
      <3> QED
        BY <2>3, <3>1, <3>2, <3>3, <3>4, <3>5 DEF Step
    <2>4. ASSUME (\E u \in Task : RequestCancel(u) \/ Expire(u)) \/ HealthNext PROVE Owns(w)
      BY <2>2, <2>4 DEF RequestCancel, Expire, HealthNext, Health
    <2>5. ASSUME Tick PROVE Owns(w)
      <3>1. PICK q : q = run[w] /\ q \in Run
        BY <2>1
      <3>2. PICK time : run'[w] = [q EXCEPT !.time = time, !.until = Less(@), !.asked = Less(@)]
        BY <1>2, <2>5, <3>1 DEF Tick
      <3>3. run'[w].at = q.at
        BY <3>1, <3>2 DEF Run
      <3> QED
        BY <1>2, <3>1, <3>3
    <2>6. Owns(w)
      <3>1. CASE \E v \in Worker : Step(v) \/ Answer(v) \/ Crash(v) \/ \E u \in Task : Claim(v, u)
        BY <2>3, <3>1
      <3>2. \/ \E v \in Worker : Step(v) \/ Answer(v) \/ Crash(v) \/ \E u \in Task : Claim(v, u)
            \/ \E u \in Task : RequestCancel(u) \/ Expire(u)
            \/ HealthNext \/ Tick
        BY <1>2 DEF CNext, WorkNext
      <3> QED
        BY <2>4, <2>5, <3>1, <3>2
    <2> QED
      BY <1>2, <2>1, <2>6 DEF PoliteInv, Owns, BackendOf, Committed
  <1>3. RunsOK /\ PoliteInv /\ [CNext]_vars =>
          [\A w \in Worker :
             (run[w] # None /\ run'[w] # None /\ run[w].at = "route" /\ run'[w].at = "call") =>
                announced[BackendOf(w)] = 0]_vars
    BY <1>2
  <1> QED
    BY <1>1, <1>3, TypesInit, TypesStep, PoliteStep, PTL DEF CSpec, PoliteCall
=============================================================================
