----------------------------- MODULE NodeProofs -----------------------------
(***************************************************************************)
(* What is proved of a node: of NodeStartup for any processes, tasks and   *)
(* identities, that the schema is whole, a start is refused only for a     *)
(* newer database and all starts get one identity, under which machines    *)
(* are recorded; of Workspace for any processes, calls, files and          *)
(* directories, that calls stay where preflight allows, files are whole,   *)
(* and replies, receipts and names can be relied on.                       *)
(***************************************************************************)
EXTENDS NodeStartup, Workspace, TLAPS

-----------------------------------------------------------------------------
(* The schema.                                                             *)

LEMMA BaseTables == Base = {"tasks", "task_events", "routes", "artifacts", "approvals"}
  <1>1. Script[1] = "tasks" /\ Script[2] = "task_events" /\ Script[3] = "routes"
        /\ Script[4] = "artifacts" /\ Script[5] = "approvals"
    BY DEF Script
  <1> QED
    BY <1>1 DEF Base

\* What migrate adds is new to each version before the last, and the tables of a
\* version are never none.
LEMMA TablesGrow ==
    /\ \A v \in 0..Supported - 1 : Tables(v + 1) = Tables(v) \cup Adds[v + 1]
    /\ \A v \in Version : Base \subseteq Tables(v) /\ Tables(v) # {}
    /\ \A v \in Version : Tables(v) \subseteq Tables(Supported + 1)
    /\ \A v \in 0..Supported - 2 : Adds[v + 1] \cap Tables(v) = {}
  <1>1. DOMAIN Adds = 1..4 /\ Supported = 4 /\ Version = 0..5
    BY DEF Adds, Supported, Version
  <1>2. \A v \in 0..3 : Tables(v + 1) = Tables(v) \cup Adds[v + 1]
    <2> SUFFICES ASSUME NEW v \in 0..3 PROVE Tables(v + 1) = Tables(v) \cup Adds[v + 1]
      OBVIOUS
    <2>1. {j \in 1..4 : j <= v + 1} = {j \in 1..4 : j <= v} \cup {v + 1}
      OBVIOUS
    <2>2. ~(v > 4) /\ ~(v + 1 > 4)
      OBVIOUS
    <2> QED
      BY <2>1, <2>2 DEF Tables, Supported
  <1>3. \A v \in 0..5 : Base \subseteq Tables(v) /\ Tables(v) # {}
    BY BaseTables DEF Tables
  <1>4. \A v \in 0..5 : Tables(v) \subseteq Tables(5)
    BY DEF Tables, Supported
  <1>5. \A v \in 0..2 : Adds[v + 1] \cap Tables(v) = {}
    <2>1. Adds[1] \cap Tables(0) = {}
      BY BaseTables DEF Adds, Tables, Supported
    <2>2. Tables(1) = Base \cup Adds[1]
      BY DEF Tables, Supported
    <2>3. Tables(2) = Base \cup Adds[1] \cup Adds[2]
      BY <2>2, <1>2
    <2>4. Adds[2] \cap Tables(1) = {}
      BY <2>2, BaseTables DEF Adds
    <2>5. Adds[3] \cap Tables(2) = {}
      BY <2>3, BaseTables DEF Adds
    <2> QED
      BY <2>1, <2>4, <2>5
  <1> QED
    BY <1>1, <1>2, <1>3, <1>4, <1>5

Database == [version: Version, tables: SUBSET Tables(Supported + 1), accepted: SUBSET Task]
PastSchema(p) == at[p] \in {"identity", "write", "link", "unlink", "read", "inspect", "up"}

\* A schema whose tables are those of its version, and which accepts every task.
Whole(schema) ==
    /\ schema.tables = Tables(schema.version)
    /\ schema.version > 0 => schema.accepted = tasks

\* One process migrates at a time, what it holds is whole, and nobody is past the
\* migration of a database that is not migrated.
SchemaInv ==
    /\ IF Base \subseteq db.tables
       THEN Whole(db)
       ELSE db.version = 0 /\ db.tables \subseteq Base /\ tasks = {}
            /\ \A p \in Proc : at[p] \in {"off", "locked"}
    /\ \A p \in Proc :
         /\ at[p] = "upgrade" <=> draft[p] # None
         /\ at[p] = "upgrade" => /\ db.version <= Supported /\ db.tables \subseteq draft[p].tables
                                 /\ Whole(draft[p]) /\ draft[p].version <= Supported
         /\ PastSchema(p) => db.version = Supported
         /\ at[p] = "refused" => db.version > Supported
    /\ \A p, q \in Proc : at[p] = "upgrade" /\ at[q] = "upgrade" => p = q

\* What a process holds of its identity belongs to where it is.
IdentityInv ==
    /\ \A p \in Proc :
         /\ at[p] \in {"write", "link", "unlink"} => mine[p] \in NodeId
         /\ made[p] => file \in NodeId
         /\ answer[p] # None => answer[p].id = file /\ file \in NodeId
         /\ at[p] = "inspect" => answer[p] # None
    /\ ProfilesOwned

LEMMA STypeInit == SInit => STypeOK
  <1> SUFFICES ASSUME SInit PROVE STypeOK
    OBVIOUS
  <1>1. db \in Database
    BY TablesGrow DEF SInit, Database, Version, Supported
  <1> QED
    BY <1>1 DEF SInit, STypeOK, Database

LEMMA STypeStep == STypeOK /\ SchemaInv /\ IdentityInv /\ [SNext]_svars => STypeOK'
  <1> SUFFICES ASSUME STypeOK, SchemaInv, IdentityInv, [SNext]_svars PROVE STypeOK'
    OBVIOUS
  <1>1. STypeOK /\ db \in Database /\ draft \in [Proc -> Database \cup {None}] /\ None \notin Database
    BY StartupConstants DEF STypeOK, Database
  <1> USE DEF Goto
  <1>2. ASSUME NEW p \in Proc, Open(p) PROVE STypeOK'
    <2>1. \A i \in 1..5 : Script[i] \in Tables(Supported + 1)
      BY TablesGrow DEF Base, Version, Supported
    <2>2. db' \in Database
      BY <1>1, <1>2, <2>1 DEF Open, Database
    <2> QED
      BY <1>1, <1>2, <2>2 DEF Open, STypeOK, Database, idvars
  <1>3. ASSUME NEW p \in Proc, Begin(p) PROVE STypeOK'
    <2>1. draft' \in [Proc -> Database \cup {None}]
      BY <1>1, <1>3 DEF Begin
    <2> QED
      BY <1>1, <1>3, <2>1 DEF Begin, STypeOK, Database, idvars
  <1>4. ASSUME NEW p \in Proc, Upgrade(p) PROVE STypeOK'
    <2> DEFINE v == draft[p].version + 1
               next == [version |-> v, tables |-> draft[p].tables \cup Adds[v],
                        accepted |-> IF v = 1 THEN tasks ELSE draft[p].accepted]
    <2>0. draft[p] \in Database
      BY <1>1, <1>4 DEF Upgrade, SchemaInv
    <2>1. v \in 1..Supported
      BY <1>4, <2>0 DEF Upgrade, Database, Version, Supported
    <2>2. Adds[v] \subseteq Tables(Supported + 1)
      <3>1. v - 1 \in 0..Supported - 1 /\ v \in Version /\ (v - 1) + 1 = v
        BY <2>1 DEF Version, Supported
      <3>2. Tables(v) = Tables(v - 1) \cup Adds[v]
        BY <3>1, TablesGrow
      <3> QED
        BY <3>1, <3>2, TablesGrow
    <2>3. next \in Database
      BY <1>1, <2>0, <2>1, <2>2 DEF Database, Version, Supported, STypeOK
    <2>4. draft' = [draft EXCEPT ![p] = next] \/ draft' = [draft EXCEPT ![p] = None]
      BY <1>1, <1>4 DEF Upgrade
    <2> HIDE DEF next
    <2>5. draft' \in [Proc -> Database \cup {None}]
      BY <1>1, <2>3, <2>4
    <2> QED
      BY <1>1, <1>4, <2>5 DEF Upgrade, STypeOK, Database, idvars
  <1>5. ASSUME NEW p \in Proc, Commit(p) PROVE STypeOK'
    <2>1. db' \in Database /\ draft' \in [Proc -> Database \cup {None}]
      BY <1>1, <1>5 DEF Commit, SchemaInv
    <2> QED
      BY <1>1, <1>5, <2>1 DEF Commit, STypeOK, Database, idvars
  <1>6. ASSUME NEW p \in Proc, LookForId(p) \/ WriteTemp(p) \/ Link(p) \/ Unlink(p)
        PROVE  STypeOK'
    <2>1. at[p] = "write" => mine[p] \in NodeId
      BY <1>6 DEF IdentityInv
    <2>2. at[p] = "link" => mine[p] \in NodeId
      BY <1>6 DEF IdentityInv
    <2>3. CASE LookForId(p)
      BY <1>1, <2>3 DEF LookForId, STypeOK, dbvars
    <2>4. CASE WriteTemp(p)
      BY <1>1, <2>1, <2>4 DEF WriteTemp, STypeOK, dbvars
    <2>5. CASE Link(p)
      BY <1>1, <2>2, <2>5 DEF Link, STypeOK, dbvars
    <2>6. CASE Unlink(p)
      BY <1>1, <2>6 DEF Unlink, STypeOK, dbvars
    <2> QED
      BY <1>6, <2>3, <2>4, <2>5, <2>6
  <1>7. ASSUME NEW p \in Proc, ReadId(p) PROVE STypeOK'
    <2>1. [id |-> file, created |-> made[p]] \in [id: NodeId, created: BOOLEAN]
      BY <1>1, <1>7 DEF ReadId, STypeOK
    <2> QED
      BY <1>1, <1>7, <2>1 DEF ReadId, STypeOK, dbvars
  <1>8. ASSUME NEW p \in Proc, Inspect(p) PROVE STypeOK'
    <2>1. answer[p].id \in NodeId
      BY <1>1, <1>8 DEF Inspect, IdentityInv, STypeOK
    <2> QED
      BY <1>1, <1>8, <2>1 DEF Inspect, STypeOK, dbvars, idvars
  <1>9. ASSUME NEW p \in Proc, NEW t \in Task, CreateTask(p, t) PROVE STypeOK'
    <2>1. db' \in Database
      BY <1>1, <1>9 DEF CreateTask, Database
    <2> QED
      BY <1>1, <1>9, <2>1 DEF CreateTask, STypeOK, Database, idvars
  <1>10. ASSUME NEW p \in Proc, Raise(p) \/ Exit(p) PROVE STypeOK'
    BY <1>1, <1>10 DEF Raise, Exit, Gone, STypeOK
  <1>11. CASE UNCHANGED svars
    BY <1>11 DEF svars, dbvars, idvars, STypeOK
  <1>12. ASSUME NEW p \in Proc, Locked(p) PROVE STypeOK'
    BY <1>1, <1>12 DEF Locked, STypeOK, Database, dbvars, idvars
  <1> QED
    BY <1>12, <1>2, <1>3, <1>4, <1>5, <1>6, <1>7, <1>8, <1>9, <1>10, <1>11 DEF SNext, StartStep

-----------------------------------------------------------------------------
(* The induction.                                                          *)

SInv == STypeOK /\ SchemaInv /\ IdentityInv

LEMMA SchemaInit == SInit => SchemaInv
  <1> SUFFICES ASSUME SInit PROVE SchemaInv
    OBVIOUS
  <1>1. CASE db.tables = {} /\ db.version = 0 /\ tasks = {}
    BY <1>1, BaseTables DEF SInit, SchemaInv, PastSchema
  <1>2. CASE Base \subseteq db.tables /\ Whole(db)
    BY <1>2 DEF SInit, SchemaInv, PastSchema
  <1> QED
    BY <1>1, <1>2, TablesGrow DEF SInit, Whole

LEMMA SchemaStep == STypeOK /\ SchemaInv /\ [SNext]_svars => SchemaInv'
  <1> SUFFICES ASSUME STypeOK, SchemaInv, [SNext]_svars PROVE SchemaInv'
    OBVIOUS
  <1>1. db \in Database /\ draft \in [Proc -> Database \cup {None}] /\ None \notin Database
    BY StartupConstants DEF STypeOK, Database
  <1>2. at = [p \in Proc |-> at[p]]
    BY DEF STypeOK
  <1> USE DEF Goto
  <1>3. ASSUME NEW p \in Proc, Open(p) PROVE SchemaInv'
    <2>1. CASE Base \subseteq db.tables /\ at' = [at EXCEPT ![p] = "migrate"] /\ UNCHANGED db
      BY <1>2, <1>3, <2>1 DEF Open, SchemaInv, Whole, PastSchema, Writable
    <2>2. ASSUME NEW i \in 1..5, Script[i] \notin db.tables, UNCHANGED at,
                 db' = [db EXCEPT !.tables = @ \cup {Script[i]}]
          PROVE  SchemaInv'
      <3>1. Script[i] \in Base
        BY DEF Base
      <3>2. /\ db.version = 0 /\ db.tables \subseteq Base /\ tasks = {}
            /\ \A q \in Proc : at[q] \in {"off", "locked"}
        BY <2>2, <3>1 DEF SchemaInv
      <3>3. db'.version = 0 /\ db'.tables = db.tables \cup {Script[i]}
        BY <1>1, <2>2, <3>2 DEF Database
      <3>4. Base \subseteq db'.tables => Whole(db)'
        BY <3>1, <3>2, <3>3 DEF Whole, Tables, Supported
      <3> QED
        BY <1>3, <2>2, <3>1, <3>2, <3>3, <3>4 DEF Open, SchemaInv, PastSchema
    <2> QED
      BY <1>3, <2>1, <2>2 DEF Open
  <1>4. ASSUME NEW p \in Proc, Begin(p) PROVE SchemaInv'
    <2>1. Base \subseteq db.tables /\ Whole(db)
      BY <1>4 DEF Begin, SchemaInv
    <2>2. CASE db.version > Supported /\ at' = [at EXCEPT ![p] = "refused"] /\ UNCHANGED draft
      BY <1>2, <1>4, <2>1, <2>2 DEF Begin, SchemaInv, Whole, PastSchema
    <2>3. CASE /\ db.version <= Supported
               /\ draft' = [draft EXCEPT ![p] = db] /\ at' = [at EXCEPT ![p] = "upgrade"]
      BY <1>1, <1>2, <1>4, <2>1, <2>3 DEF Begin, SchemaInv, Whole, PastSchema, Writable
    <2> QED
      BY <1>4, <2>2, <2>3 DEF Begin
  <1>5. ASSUME NEW p \in Proc, Upgrade(p) PROVE SchemaInv'
    <2> DEFINE v == draft[p].version + 1
               next == [version |-> v, tables |-> draft[p].tables \cup Adds[v],
                        accepted |-> IF v = 1 THEN tasks ELSE draft[p].accepted]
    <2>1. draft[p] \in Database /\ Whole(draft[p]) /\ at[p] = "upgrade"
      BY <1>1, <1>5 DEF Upgrade, SchemaInv
    <2>2. v \in 1..Supported /\ v - 1 \in 0..Supported - 1 /\ (v - 1) + 1 = v
          /\ draft[p].version = v - 1
      BY <1>5, <2>1 DEF Upgrade, Database, Version, Supported
    <2>3. Tables(v) = Tables(v - 1) \cup Adds[v]
      BY <2>2, TablesGrow
    <2>4. v < Supported => Adds[v] \cap (db.tables \cup draft[p].tables) = {}
      <3>0. db.tables \subseteq draft[p].tables
        BY <2>1 DEF SchemaInv
      <3> SUFFICES ASSUME v < Supported PROVE Adds[v] \cap Tables(v - 1) = {}
        BY <2>1, <2>2, <3>0 DEF Whole
      <3>1. v - 1 \in 0..Supported - 2
        BY <2>2 DEF Supported
      <3> QED
        BY <2>2, <3>1, TablesGrow
    <2>5. Whole(next) /\ next.version <= Supported /\ db.tables \subseteq next.tables
      BY <2>1, <2>2, <2>3 DEF Whole, Supported, SchemaInv
    <2>6. draft' = [draft EXCEPT ![p] = next] /\ UNCHANGED at
      BY <1>1, <1>5, <2>4 DEF Upgrade
    <2>7. next # None
      <3>1. next \in Database
        <4>1. Tables(v) \subseteq Tables(Supported + 1)
          BY <2>2, TablesGrow DEF Version, Supported
        <4> QED
          BY <2>1, <2>2, <2>3, <4>1 DEF Database, Whole, Version, Supported, STypeOK
      <3> QED
        BY <1>1, <3>1
    <2> HIDE DEF next
    <2>8. \A q \in Proc : draft'[q] = IF q = p THEN next ELSE draft[q]
      BY <1>1, <2>6
    <2> QED
      BY <1>5, <2>1, <2>5, <2>6, <2>7, <2>8 DEF Upgrade, SchemaInv, Whole, PastSchema
  <1>6. ASSUME NEW p \in Proc, Commit(p) PROVE SchemaInv'
    <2>1. draft[p] \in Database /\ Whole(draft[p]) /\ db.version <= Supported
      BY <1>1, <1>6 DEF Commit, SchemaInv
    <2>2. Base \subseteq db'.tables
      BY <1>6, <2>1, TablesGrow DEF Commit, Whole, Database
    <2>3. Whole(db)' /\ db'.version = Supported
      BY <1>6, <2>1 DEF Commit, Whole
    <2>4. \A q \in Proc : at'[q] # "upgrade" /\ draft'[q] = None
      BY <1>1, <1>2, <1>6 DEF Commit, SchemaInv
    <2>5. \A q \in Proc : at[q] # "refused"
      BY <1>1, <2>1 DEF SchemaInv, Database, Version, Supported
    <2> QED
      BY <1>2, <1>6, <2>2, <2>3, <2>4, <2>5 DEF Commit, SchemaInv, PastSchema
  <1>7. ASSUME NEW p \in Proc, NEW l \in {"write", "link", "unlink", "read", "inspect", "up"},
               PastSchema(p), at' = [at EXCEPT ![p] = l], UNCHANGED <<db, tasks, draft>>
        PROVE  SchemaInv'
    BY <1>2, <1>7 DEF SchemaInv, Whole, PastSchema
  <1>8. ASSUME NEW p \in Proc, NEW t \in Task, CreateTask(p, t) PROVE SchemaInv'
    <2>1. db'.version = db.version /\ db'.tables = db.tables /\ db'.accepted = db.accepted \cup {t}
      BY <1>1, <1>8 DEF CreateTask, Database
    <2>2. \A q \in Proc : at[q] # "upgrade" /\ draft[q] = None
      BY <1>8 DEF CreateTask, SchemaInv, Writable
    <2>3. Base \subseteq db.tables /\ Whole(db)
      BY <1>8 DEF CreateTask, SchemaInv
    <2>4. Whole(db)'
      BY <1>8, <2>1, <2>3 DEF CreateTask, Whole
    <2> QED
      BY <1>8, <2>1, <2>2, <2>3, <2>4 DEF CreateTask, SchemaInv, PastSchema
  <1>9. ASSUME NEW p \in Proc, Gone(p) PROVE SchemaInv'
    BY <1>1, <1>2, <1>9 DEF Gone, SchemaInv, Whole, PastSchema
  <1>10. CASE UNCHANGED svars
    BY <1>10 DEF svars, dbvars, SchemaInv, Whole, PastSchema
  <1>11. ASSUME NEW p \in Proc,
                \/ LookForId(p) \/ WriteTemp(p) \/ Link(p) \/ Unlink(p) \/ ReadId(p) \/ Inspect(p)
         PROVE  SchemaInv'
    BY <1>7, <1>11
    DEF LookForId, WriteTemp, Link, Unlink, ReadId, Inspect, PastSchema, dbvars
  <1>12. ASSUME NEW p \in Proc, Locked(p) PROVE SchemaInv'
    BY <1>2, <1>12 DEF Locked, SchemaInv, Whole, PastSchema, dbvars
  <1> QED
    BY <1>12, <1>3, <1>4, <1>5, <1>6, <1>8, <1>9, <1>10, <1>11 DEF SNext, StartStep, Raise, Exit

LEMMA IdentityInit == SInit => IdentityInv
  BY DEF SInit, IdentityInv, ProfilesOwned

LEMMA IdentityStep == STypeOK /\ IdentityInv /\ [SNext]_svars => IdentityInv'
  <1> SUFFICES ASSUME STypeOK, IdentityInv, [SNext]_svars PROVE IdentityInv'
    OBVIOUS
  <1> DEFINE Own(p) == /\ at[p] \in {"write", "link", "unlink"} => mine[p] \in NodeId
                       /\ made[p] => file \in NodeId
                       /\ answer[p] # None => answer[p].id = file /\ file \in NodeId
                       /\ at[p] = "inspect" => answer[p] # None
  <1>1. /\ at = [p \in Proc |-> at[p]] /\ mine = [p \in Proc |-> mine[p]]
        /\ made = [p \in Proc |-> made[p]] /\ answer = [p \in Proc |-> answer[p]]
    BY DEF STypeOK
  <1>2. (\A q \in Proc : Own(q)) /\ ProfilesOwned
    BY DEF IdentityInv
  <1>3. SUFFICES (\A q \in Proc : Own(q)') /\ ProfilesOwned'
    BY DEF IdentityInv
  <1> USE DEF Goto
  <1>4. ASSUME NEW p \in Proc, Locked(p) \/ Open(p) \/ Begin(p) \/ Upgrade(p) \/ Commit(p)
        PROVE  (\A q \in Proc : Own(q)') /\ ProfilesOwned'
    BY <1>1, <1>2, <1>4 DEF Locked, Open, Begin, Upgrade, Commit, idvars, ProfilesOwned
  <1>5. ASSUME NEW p \in Proc, LookForId(p) \/ WriteTemp(p)
        PROVE  (\A q \in Proc : Own(q)') /\ ProfilesOwned'
    BY <1>1, <1>2, <1>5 DEF LookForId, WriteTemp, ProfilesOwned
  <1>6. ASSUME NEW p \in Proc, Link(p) \/ Unlink(p)
        PROVE  (\A q \in Proc : Own(q)') /\ ProfilesOwned'
    <2>1. file = None => profiles = {} \/ profiles \subseteq {None}
      BY <1>2 DEF ProfilesOwned
    <2>2. profiles \subseteq NodeId /\ None \notin NodeId
      BY StartupConstants DEF STypeOK
    <2>3. file' = file \/ (file = None /\ file' = mine[p] /\ at[p] = "link")
      BY <1>6 DEF Link, Unlink
    <2>4. ProfilesOwned'
      BY <1>2, <1>6, <2>2, <2>3 DEF Link, Unlink, ProfilesOwned
    <2> QED
      BY <1>1, <1>2, <1>6, <2>2, <2>3, <2>4 DEF Link, Unlink
  <1>7. ASSUME NEW p \in Proc, ReadId(p)
        PROVE  (\A q \in Proc : Own(q)') /\ ProfilesOwned'
    <2>1. [id |-> file, created |-> made[p]] \in [id: NodeId, created: BOOLEAN]
      BY <1>7 DEF ReadId, STypeOK
    <2>2. [id |-> file, created |-> made[p]] # None
      BY <2>1, StartupConstants
    <2>3. answer'[p] = [id |-> file, created |-> made[p]] /\ answer'[p].id = file
      BY <1>1, <1>7 DEF ReadId
    <2> QED
      BY <1>1, <1>2, <1>7, <2>2, <2>3 DEF ReadId, ProfilesOwned
  <1>8. ASSUME NEW p \in Proc, Inspect(p)
        PROVE  (\A q \in Proc : Own(q)') /\ ProfilesOwned'
    BY <1>1, <1>2, <1>8 DEF Inspect, ProfilesOwned, idvars
  <1>9. ASSUME NEW p \in Proc, (\E t \in Task : CreateTask(p, t)) \/ Raise(p) \/ Exit(p)
        PROVE  (\A q \in Proc : Own(q)') /\ ProfilesOwned'
    BY <1>1, <1>2, <1>9 DEF CreateTask, Raise, Exit, Gone, ProfilesOwned, idvars
  <1>10. CASE UNCHANGED svars
    BY <1>2, <1>10 DEF svars, idvars, ProfilesOwned
  <1> QED
    BY <1>4, <1>5, <1>6, <1>7, <1>8, <1>9, <1>10 DEF SNext, StartStep

LEMMA StartupInvariant == SSpec => []SInv
  <1>1. SInit => SInv
    BY STypeInit, SchemaInit, IdentityInit DEF SInv
  <1>2. SInv /\ [SNext]_svars => SInv'
    BY STypeStep, SchemaStep, IdentityStep DEF SInv
  <1> QED
    BY <1>1, <1>2, PTL DEF SSpec

-----------------------------------------------------------------------------
(* The theorems.                                                           *)

\* Every variable of the start-up keeps its type (STypeOK).
THEOREM STypeCorrect == SSpec => []STypeOK
  BY StartupInvariant, PTL DEF SInv

\* Whoever migrates, races and dies in the middle: the tables are those of the
\* version, and every task has an acceptance contract (SchemaWhole, migrate).
THEOREM SchemaStaysWhole == SSpec => []SchemaWhole
  <1>1. SInv => SchemaWhole
    <2> SUFFICES ASSUME SchemaInv, db.version \in Version PROVE SchemaWhole
      BY DEF SInv, STypeOK
    <2>1. Tables(0) = Base
      BY DEF Tables, Supported
    <2> QED
      BY <2>1 DEF SchemaInv, SchemaWhole, Whole, PastSchema, Version
  <1> QED
    BY <1>1, StartupInvariant, PTL

\* A start is refused only for the database of a newer program (OnlyNewerRefused).
THEOREM RefusalsAreRight == SSpec => []OnlyNewerRefused
  <1>1. SInv => OnlyNewerRefused
    BY DEF SInv, SchemaInv, OnlyNewerRefused
  <1> QED
    BY <1>1, StartupInvariant, PTL

\* node-bootstrap and node-qualify record no machine under an identity that is not
\* the node's (ProfilesOwned, inspect_node).
THEOREM MachinesAreOwned == SSpec => []ProfilesOwned
  <1>1. SInv => ProfilesOwned
    BY DEF SInv, IdentityInv
  <1> QED
    BY <1>1, StartupInvariant, PTL

\* All starts of the node get the one identity that was published first
\* (OneIdentity, the os.link of persistent_node_id): the start-up implements a
\* register that is written once.
THEOREM StartupImplementsRegister == SSpec => OneIdentity
  <1> USE DEF Goto
  <1>1. SInit => Register!WOInit
    BY StartupConstants DEF SInit, Register!WOInit
  <1>2. SInv /\ [SNext]_svars => [Register!WONext]_(Register!wovars)
    <2> SUFFICES ASSUME STypeOK, IdentityInv, [SNext]_svars
                 PROVE  Register!WONext \/ UNCHANGED <<file, made, answer>>
      BY DEF SInv, Register!wovars
    <2>1. /\ made = [p \in Proc |-> made[p]] /\ answer = [p \in Proc |-> answer[p]]
          /\ \A p \in Proc : made[p] \in BOOLEAN
      BY DEF STypeOK
    <2>2. ASSUME NEW p \in Proc, Link(p), file = None
          PROVE  Register!WONext
      <3>1. mine[p] \in NodeId /\ \A q \in Proc : ~made[q]
        BY <2>2, StartupConstants DEF Link, IdentityInv
      <3>2. {q \in Proc : made'[q]} = {p}
        BY <2>1, <2>2, <3>1 DEF Link
      <3>3. PICK v \in NodeId \cup {Invalid} : v = mine[p]
        BY <3>1
      <3>4. Register!Choose(p, v)
        BY <2>2, <3>1, <3>2, <3>3 DEF Link, Register!Choose
      <3> QED
        BY <3>4 DEF Register!WONext
    <2>3. ASSUME NEW p \in Proc, ReadId(p) PROVE Register!WONext
      <3>1. {q \in Proc : made'[q]} = {q \in Proc : made[q]} \ {p}
        BY <2>1, <2>3 DEF ReadId
      <3>2. made[p] = (p \in {q \in Proc : made[q]})
        BY <2>1
      <3>3. answer' = [answer EXCEPT ![p] = [id |-> file,
                                             created |-> p \in {q \in Proc : made[q]}]]
        BY <2>3, <3>2 DEF ReadId
      <3>4. file \in NodeId \cup {Invalid} /\ UNCHANGED file
        BY <2>3 DEF ReadId
      <3>5. Register!Tell(p)
        BY <3>1, <3>3, <3>4 DEF Register!Tell
      <3> QED
        BY <3>5 DEF Register!WONext
    <2>4. ASSUME NEW p \in Proc, Gone(p) PROVE Register!WONext
      <3>1. {q \in Proc : made'[q]} = {q \in Proc : made[q]} \ {p}
        BY <2>1, <2>4 DEF Gone
      <3>2. Register!Forget(p)
        BY <2>4, <3>1 DEF Gone, Register!Forget
      <3> QED
        BY <3>2 DEF Register!WONext
    <2>5. ASSUME NEW p \in Proc,
                 \/ Locked(p) \/ Open(p) \/ Begin(p) \/ Upgrade(p) \/ Commit(p)
                 \/ LookForId(p) \/ WriteTemp(p) \/ Unlink(p) \/ Inspect(p)
          PROVE  UNCHANGED <<file, made, answer>>
      BY <2>5 DEF Locked, Open, Begin, Upgrade, Commit, LookForId, WriteTemp, Unlink, Inspect, idvars
    <2>6. ASSUME NEW p \in Proc, Link(p), file # None PROVE UNCHANGED <<file, made, answer>>
      BY <2>6 DEF Link
    <2>7. ASSUME NEW p \in Proc, NEW t \in Task, CreateTask(p, t)
          PROVE  UNCHANGED <<file, made, answer>>
      BY <2>7 DEF CreateTask, idvars
    <2>8. CASE UNCHANGED svars
      BY <2>8 DEF svars, idvars
    <2>9. ASSUME NEW p \in Proc, StartStep(p)
          PROVE  Register!WONext \/ UNCHANGED <<file, made, answer>>
      BY <2>2, <2>3, <2>5, <2>6, <2>9 DEF StartStep
    <2>10. ASSUME NEW p \in Proc, Raise(p) \/ Exit(p) PROVE Register!WONext
      BY <2>4, <2>10 DEF Raise, Exit
    <2>11. ASSUME SNext PROVE Register!WONext \/ UNCHANGED <<file, made, answer>>
      BY <2>7, <2>9, <2>10, <2>11 DEF SNext
    <2> QED
      BY <2>8, <2>11
  <1> QED
    BY <1>1, <1>2, StartupInvariant, PTL DEF SSpec, OneIdentity, Register!WOSpec

-----------------------------------------------------------------------------
(* Types.                                                                  *)

\* A method that is started has its root in the workspace of the task, and is granted
\* what it needs.
LEMMA StartedConfined ==
    \A h \in Started :
        /\ h.method \in DOMAIN Takes /\ h.root \in Dir /\ <<h.root, TaskRoot>> \in Under
        /\ h.grants \in SUBSET Permissions /\ h.grants = {Takes[h.method].may}
  <1> SUFFICES ASSUME NEW h \in Started
               PROVE  /\ h.method \in DOMAIN Takes /\ h.root \in Dir
                      /\ <<h.root, TaskRoot>> \in Under
                      /\ h.grants \in SUBSET Permissions /\ h.grants = {Takes[h.method].may}
    OBVIOUS
  <1>1. PICK x \in Handler \X Manifest :
          /\ h = [method |-> x[1].method, root |-> x[1].root, grants |-> x[2].permissions]
          /\ \E args \in Arguments : Admits(x[2], x[1], args)
    BY DEF Started
  <1>2. x[1].method \in DOMAIN Takes /\ x[1].root \in Dir /\ x[2].permissions \in SUBSET Permissions
    BY <1>1 DEF Handler, Manifest
  <1>3. <<x[1].root, TaskRoot>> \in Under /\ x[2].permissions = {Takes[x[1].method].may}
    BY <1>1 DEF Admits, PolicyAllows, Required, ScopesAgree
  <1> QED
    BY <1>1, <1>2, <1>3

\* The tools that change something in the workspace.
Writing == {"ensure_workspace", "create_directory", "write_text_file", "write_file",
            "download_image"}

Request == [tool: {"write_file", "download_image"} \cup DOMAIN Takes, grants: SUBSET Permissions,
            dir: Dir \cup {Refused}, file: File \cup {Refused}, data: Data, over: BOOLEAN]

\* A tool of the broker works where preflight allows, with what it needs granted.
PlacedAt(r) == r.tool \in DOMAIN Takes =>
    /\ r.dir \in Dir => <<r.dir, TaskRoot>> \in Under
    /\ r.file \in File => <<DirOf[r.file], TaskRoot>> \in Under
    /\ r.tool \in Writing => "write_workspace" \in r.grants

LEMMA RequestType ==
    \A r \in Requests :
        r \in Request /\ PlacedAt(r) /\ (r.tool = "create_directory" => r.file = Refused)
  <1>1. \A root \in Dir : /\ Reach(root) \subseteq File \cup {Refused}
                          /\ Below(root) \subseteq Dir \cup {Refused}
    BY DEF Reach, Below
  <1>2. TaskRoot \in Dir /\ AnyData \in Data /\ \A f \in File : DirOf[f] \in Dir
    BY DirectoryTree, WorkspaceConstants DEF AnyData
  <1>3. \A f \in File \cup {Refused} : DirectoryOf(f) \in Dir \cup {Refused}
    BY <1>2 DEF DirectoryOf
  <1>4. "write_file" \notin DOMAIN Takes /\ "download_image" \notin DOMAIN Takes
    BY DEF Takes
  <1>5. ASSUME NEW r \in Brokered
        PROVE  r \in Request /\ PlacedAt(r) /\ (r.tool = "create_directory" => r.file = Refused)
    <2>1. PICK h \in Started : h.method # "list_directory" /\ r \in BrokeredIn(h)
      BY <1>5 DEF Brokered
    <2>2. /\ h.method \in DOMAIN Takes /\ h.root \in Dir /\ <<h.root, TaskRoot>> \in Under
          /\ h.grants \in SUBSET Permissions /\ h.grants = {Takes[h.method].may}
      BY StartedConfined
    <2>3. h.method \in Writing => "write_workspace" \in h.grants
      BY <2>2 DEF Writing, Takes
    <2>4. CASE h.method \in {"write_text_file", "file_exists"}
      <3>1. PICK f \in Reach(h.root), data \in Data :
              r = [tool |-> h.method, grants |-> h.grants, dir |-> DirectoryOf(f), file |-> f,
                   data |-> data, over |-> TRUE]
        BY <2>1, <2>4 DEF BrokeredIn
      <3>2. f \in File => <<DirOf[f], h.root>> \in Under /\ DirOf[f] \in Dir
        BY <1>2, WorkspaceConstants DEF Reach
      <3>3. f \in File => <<DirOf[f], TaskRoot>> \in Under
        BY <3>2, <2>2, <1>2, DirectoryTree
      <3>4. r \in Request
        BY <3>1, <1>1, <1>3, <2>2 DEF Request
      <3>5. DirectoryOf(f) \in Dir => f \in File /\ DirectoryOf(f) = DirOf[f]
        BY <1>1, <2>2, WorkspaceConstants DEF DirectoryOf
      <3> QED
        BY <3>1, <3>3, <3>4, <3>5, <2>3, <2>4 DEF PlacedAt
    <2>5. CASE h.method \notin {"write_text_file", "file_exists"}
      <3>1. PICK dir \in Below(h.root) \cup {h.root} :
              r = [tool |-> h.method, grants |-> h.grants, dir |-> dir, file |-> Refused,
                   data |-> AnyData, over |-> TRUE]
        BY <2>1, <2>5 DEF BrokeredIn
      <3>2. dir \in Dir => <<dir, h.root>> \in Under
        BY <2>2, DirectoryTree, WorkspaceConstants DEF Below
      <3>3. dir \in Dir => <<dir, TaskRoot>> \in Under
        BY <3>2, <2>2, <1>2, DirectoryTree
      <3>4. r \in Request
        BY <3>1, <1>1, <1>2, <2>2 DEF Request
      <3> QED
        BY <3>1, <3>3, <3>4, <2>3, WorkspaceConstants DEF PlacedAt
    <2> QED
      BY <2>4, <2>5
  <1>6. ASSUME NEW tool \in {"write_file", "download_image"}, NEW leave \in SUBSET BOOLEAN,
               NEW r \in Direct(tool, leave)
        PROVE  r \in Request /\ PlacedAt(r) /\ (r.tool = "create_directory" => r.file = Refused)
    <2>1. PICK f \in Reach(TaskRoot), data \in Data, over \in leave :
            r = [tool |-> tool, grants |-> {}, dir |-> DirectoryOf(f), file |-> f, data |-> data,
                 over |-> over]
      BY <1>6 DEF Direct
    <2>2. r \in Request
      BY <2>1, <1>1, <1>2, <1>3 DEF Request
    <2> QED
      BY <2>1, <2>2, <1>4 DEF PlacedAt
  <1> QED
    BY <1>5, <1>6 DEF Requests

Label == {"probe", "make", "check", "fill", "publish", "clean", "audit", "judge", "report"} \cup Ended

LEMMA FTypeInit == FInit => FTypeOK
  BY DEF FInit, FTypeOK, Content

\* What a call is about never changes.
Same(r, s) ==
    /\ s.tool = r.tool /\ s.dir = r.dir /\ s.grants = r.grants
    /\ s.file = r.file /\ s.data = r.data /\ s.over = r.over
    /\ s.found = r.found /\ s.past = r.past

\* r may become s.
Becoming(r, s) == s \in CallState /\ Same(r, s)

LEMMA Fields ==
    ASSUME NEW r \in CallState, NEW l \in Label, NEW a \in BOOLEAN, NEW b \in BOOLEAN,
           NEW v \in Data \cup {Half, Nothing}
    PROVE  /\ Becoming(r, [r EXCEPT !.at = l])
           /\ Becoming(r, [r EXCEPT !.at = l, !.ok = a])
           /\ Becoming(r, [r EXCEPT !.at = l, !.ok = a, !.wrote = b])
           /\ Becoming(r, [r EXCEPT !.at = l, !.ok = a, !.sick = b])
           /\ Becoming(r, [r EXCEPT !.ok = a, !.sick = b])
           /\ Becoming(r, [r EXCEPT !.at = l, !.receipt = v])
  <1>1. ASSUME NEW q \in CallState, Same(r, q)
        PROVE  /\ Becoming(r, [q EXCEPT !.at = l]) /\ Becoming(r, [q EXCEPT !.ok = a])
               /\ Becoming(r, [q EXCEPT !.wrote = b]) /\ Becoming(r, [q EXCEPT !.sick = b])
               /\ Becoming(r, [q EXCEPT !.receipt = v])
    <2> USE <1>1
    <2>1. Becoming(r, [q EXCEPT !.at = l])
      BY DEF Becoming, Same, CallState, Label
    <2>2. Becoming(r, [q EXCEPT !.ok = a])
      BY DEF Becoming, Same, CallState
    <2>3. Becoming(r, [q EXCEPT !.wrote = b])
      BY DEF Becoming, Same, CallState
    <2>4. Becoming(r, [q EXCEPT !.sick = b])
      BY DEF Becoming, Same, CallState
    <2>5. Becoming(r, [q EXCEPT !.receipt = v])
      BY DEF Becoming, Same, CallState
    <2> QED
      BY <2>1, <2>2, <2>3, <2>4, <2>5
  <1>2. Same(r, r)
    BY DEF Same
  <1>3. PICK q1 \in CallState : q1 = [r EXCEPT !.at = l] /\ Same(r, q1)
    BY <1>1, <1>2 DEF Becoming
  <1>4. PICK q2 \in CallState : q2 = [q1 EXCEPT !.ok = a] /\ Same(r, q2)
    BY <1>1, <1>3 DEF Becoming
  <1>5. PICK q3 \in CallState : q3 = [r EXCEPT !.ok = a] /\ Same(r, q3)
    BY <1>1, <1>2 DEF Becoming
  <1>6. Becoming(r, [r EXCEPT !.at = l]) /\ Becoming(r, [r EXCEPT !.at = l, !.receipt = v])
    BY <1>1, <1>2, <1>3
  <1>7. /\ Becoming(r, [r EXCEPT !.at = l, !.ok = a])
        /\ Becoming(r, [r EXCEPT !.at = l, !.ok = a, !.wrote = b])
        /\ Becoming(r, [r EXCEPT !.at = l, !.ok = a, !.sick = b])
    BY <1>1, <1>3, <1>4
  <1>8. Becoming(r, [r EXCEPT !.ok = a, !.sick = b])
    BY <1>1, <1>5
  <1> QED
    BY <1>6, <1>7, <1>8

\* The fields of a call.
LEMMA CallFields ==
    /\ Nothing \notin CallState
    /\ \A r \in CallState :
         /\ r.at \in Label /\ r.ok \in BOOLEAN /\ r.sick \in BOOLEAN /\ r.wrote \in BOOLEAN
         /\ r.over \in BOOLEAN /\ r.data \in Data /\ r.by \in Runner
         /\ r.file \in File \cup {Refused} /\ r.found \subseteq Call \cup {Nothing}
         /\ r.past \subseteq Call
         /\ r.receipt \in Data \cup {Half, Nothing}
  BY WorkspaceConstants DEF CallState, Label

\* A step of a call is about that call, whatever it does to its file.
LEMMA OwnStep ==
    ASSUME FTypeOK, NEW c \in Call, CallStep(c)
    PROVE  /\ call[c] \in CallState /\ Becoming(call[c], call'[c])
           /\ call' = [call EXCEPT ![c] = call'[c]]
           /\ \A d \in Call \ {c} : part'[d] = part[d]
  <1>0. /\ part \in [Call -> Data \cup {Half, Nothing}]
        /\ call \in [Call -> CallState \cup {Nothing}]
    BY DEF FTypeOK
  <1>1. call[c] \in CallState
    BY <1>0 DEF CallStep, Probe, MakeDirectory, Check, Fill, Break, Publish, Clean, Audit,
                Judge, Report, Certify, AwaitsReceipt, At
  <1>2. ASSUME NEW r, Becoming(call[c], r), Become(c, r)
        PROVE  Becoming(call[c], call'[c]) /\ call' = [call EXCEPT ![c] = call'[c]]
    BY <1>0, <1>2 DEF Become
  <1>3. \A d \in Call \ {c} : part'[d] = part[d]
    BY <1>0 DEF CallStep, Probe, MakeDirectory, Check, Fill, Break, Publish, Clean, Audit,
                Judge, Report, Certify
  <1>4. ASSUME NEW l \in Label, Step(c, l)
        PROVE  Becoming(call[c], call'[c]) /\ call' = [call EXCEPT ![c] = call'[c]]
    <2>1. Becoming(call[c], [call[c] EXCEPT !.at = l])
      BY <1>1, Fields
    <2> QED
      BY <1>2, <1>4, <2>1 DEF Step
  <1>5. CASE Probe(c)
    <2>1. Becoming(call[c], [call[c] EXCEPT !.at = "clean", !.ok = TRUE])
      BY <1>1, Fields DEF Label
    <2> QED
      BY <1>1, <1>2, <1>3, <1>5, <2>1 DEF Probe
  <1>6. CASE Check(c) \/ Break(c) \/ Report(c)
    <2>1. {"fill", "audit", "clean", "replied", "raised"} \subseteq Label
      BY DEF Label, Ended
    <2>2. \E l \in {"fill", "audit", "clean", "replied", "raised"} : Step(c, l)
      BY <1>6 DEF Check, Break, Report
    <2> QED
      BY <1>1, <1>3, <1>4, <2>1, <2>2
  <1>7. CASE Fill(c)
    <2>1. CASE UNCHANGED call
      BY <2>1, <1>0, <1>1, <1>3 DEF Becoming, Same
    <2>2. CASE Step(c, "publish")
      BY <2>2, <1>1, <1>3, <1>4 DEF Label
    <2> QED
      BY <1>7, <2>1, <2>2 DEF Fill
  <1>8. CASE Publish(c)
    <2>1. Becoming(call[c], [call[c] EXCEPT !.at = "audit", !.ok = TRUE, !.wrote = TRUE])
      BY <1>1, Fields DEF Label
    <2> QED
      BY <1>1, <1>2, <1>3, <1>8, <2>1 DEF Publish
  <1>9. CASE Clean(c)
    <2>1. PICK gone \in BOOLEAN :
            Become(c, [call[c] EXCEPT !.at = "audit", !.ok = @ /\ gone, !.sick = @ \/ ~gone])
      BY <1>9 DEF Clean
    <2> DEFINE a == call[c].ok /\ gone
               b == call[c].sick \/ ~gone
    <2>2. Become(c, [call[c] EXCEPT !.at = "audit", !.ok = a, !.sick = b])
      BY <2>1
    <2>3. a \in BOOLEAN /\ b \in BOOLEAN
      OBVIOUS
    <2> HIDE DEF a, b
    <2>4. Becoming(call[c], [call[c] EXCEPT !.at = "audit", !.ok = a, !.sick = b])
      BY <1>1, <2>3, Fields DEF Label
    <2> QED
      BY <1>1, <1>2, <1>3, <2>2, <2>4
  <1>10. CASE Audit(c)
    <2>1. CASE \E l \in {"judge", "replied", "raised"} : Step(c, l)
      <3>1. {"judge", "replied", "raised"} \subseteq Label
        BY DEF Label, Ended
      <3> QED
        BY <1>1, <1>3, <1>4, <2>1, <3>1
    <2>2. CASE Become(c, [call[c] EXCEPT !.ok = FALSE, !.sick = TRUE])
      <3>1. Becoming(call[c], [call[c] EXCEPT !.ok = FALSE, !.sick = TRUE])
        BY <1>1, Fields DEF Label
      <3> QED
        BY <1>1, <1>2, <1>3, <2>2, <3>1
    <2> QED
      BY <1>10, <2>1, <2>2 DEF Audit
  <1>11. CASE Judge(c)
    <2> DEFINE wrong == call[c].ok /\ call[c].data \notin Images
    <2>1. PICK gone \in BOOLEAN :
            Become(c, [call[c] EXCEPT !.at = "report", !.ok = @ /\ ~wrong,
                                      !.sick = @ \/ (wrong /\ ~gone)])
      BY <1>11 DEF Judge
    <2> DEFINE a == call[c].ok /\ ~wrong
               b == call[c].sick \/ (wrong /\ ~gone)
    <2>2. Become(c, [call[c] EXCEPT !.at = "report", !.ok = a, !.sick = b])
      BY <2>1
    <2>3. a \in BOOLEAN /\ b \in BOOLEAN
      OBVIOUS
    <2> HIDE DEF a, b
    <2>4. Becoming(call[c], [call[c] EXCEPT !.at = "report", !.ok = a, !.sick = b])
      BY <1>1, <2>3, Fields DEF Label
    <2> QED
      BY <1>1, <1>2, <1>3, <2>2, <2>4
  <1>12. CASE Certify(c)
    <2>1. Digested(c) \in Data \cup {Half, Nothing}
      BY <1>12 DEF FTypeOK, Certify, AwaitsReceipt, Digested, Content
    <2>2. Becoming(call[c], [call[c] EXCEPT !.at = "certified", !.receipt = Digested(c)])
      BY <1>1, <2>1, Fields DEF Label, Ended
    <2> QED
      BY <1>1, <1>2, <1>3, <1>12, <2>2 DEF Certify
  <1>13. CASE MakeDirectory(c)
    <2>1. Becoming(call[c], [call[c] EXCEPT !.at = "audit", !.ok = TRUE, !.wrote = TRUE])
      BY <1>1, Fields DEF Label
    <2>2. "audit" \in Label
      BY DEF Label
    <2> QED
      BY <1>1, <1>2, <1>3, <1>4, <1>13, <2>1, <2>2 DEF MakeDirectory
  <1> QED
    BY <1>5, <1>6, <1>7, <1>8, <1>9, <1>10, <1>11, <1>12, <1>13 DEF CallStep

\* Where a call begins.
LEMMA FirstSteps ==
    ASSUME NEW r \in Request
    PROVE  /\ FirstStep(r) \in {"probe", "make", "check", "audit"}
           /\ FirstStep(r) = "probe" => r.tool = "ensure_workspace"
           /\ FirstStep(r) = "make" => r.tool = "create_directory"
           /\ FirstStep(r) = "check" => /\ r.file # Refused
                                       /\ r.tool \in {"write_text_file", "write_file", "download_image"}
  <1>1. CASE r.tool = "ensure_workspace"
    BY <1>1 DEF FirstStep
  <1>2. CASE r.tool = "create_directory" /\ r.dir # Refused
    BY <1>2 DEF FirstStep
  <1>3. CASE r.tool \in {"write_text_file", "write_file", "download_image"} /\ r.file # Refused
    BY <1>3 DEF FirstStep
  <1>4. CASE /\ r.tool # "ensure_workspace" /\ ~(r.tool = "create_directory" /\ r.dir # Refused)
             /\ ~(/\ r.tool \in {"write_text_file", "write_file", "download_image"}
                  /\ r.file # Refused)
    BY <1>4 DEF FirstStep
  <1> QED
    BY <1>1, <1>2, <1>3, <1>4

\* A call as it begins.
LEMMA Begun ==
    ASSUME NEW c \in Call, NEW p \in Runner, Enter(c, p), FTypeOK
    PROVE  /\ call'[c] \in CallState /\ call'[c] # Nothing /\ ~call'[c].wrote
           /\ call'[c].receipt = Nothing /\ PlacedAt(call'[c])
           /\ call'[c].at \in {"probe", "make", "audit", "check"}
           /\ call'[c].at = "probe" => call'[c].tool = "ensure_workspace"
           /\ call'[c].at = "make" => call'[c].tool = "create_directory"
           /\ call'[c].at = "check" =>
                /\ call'[c].file # Refused
                /\ call'[c].tool \in {"write_text_file", "write_file", "download_image"}
           /\ call'[c].tool = "create_directory" => call'[c].file = Refused
           /\ call'[c].ok => call'[c].tool = "file_exists"
           /\ call'[c].found = Publisher(call'[c].file) /\ call'[c].past = Past(call'[c].file)
           /\ call[c] = Nothing /\ call' = [call EXCEPT ![c] = call'[c]]
  <1>0. call \in [Call -> CallState \cup {Nothing}] /\ call[c] = Nothing
    BY DEF FTypeOK, Enter
  <1>1. PICK r \in Requests :
         call' = [call EXCEPT ![c] =
                   [tool |-> r.tool, by |-> p, dir |-> r.dir, grants |-> r.grants,
                    file |-> r.file, data |-> r.data, over |-> r.over,
                    found |-> Publisher(r.file), past |-> Past(r.file), at |-> FirstStep(r),
                    ok |-> r.tool = "file_exists" /\ r.file # Refused,
                    wrote |-> FALSE, sick |-> FALSE, receipt |-> Nothing]]
    BY DEF Enter, Become
  <1>2. r \in Request /\ PlacedAt(r) /\ (r.tool = "create_directory" => r.file = Refused)
    BY RequestType
  <1>3. Publisher(r.file) \subseteq Call \cup {Nothing} /\ Past(r.file) \subseteq Call
    BY DEF Publisher, Past, FTypeOK, Content
  <1>4. PICK at0 : at0 = FirstStep(r)
    OBVIOUS
  <1>5. /\ at0 \in {"probe", "make", "check", "audit"}
        /\ at0 = "probe" => r.tool = "ensure_workspace"
        /\ at0 = "make" => r.tool = "create_directory"
        /\ at0 = "check" => /\ r.file # Refused
                           /\ r.tool \in {"write_text_file", "write_file", "download_image"}
    BY <1>2, <1>4, FirstSteps
  <1>6. PICK ok0 \in BOOLEAN : ok0 = (r.tool = "file_exists" /\ r.file # Refused)
    OBVIOUS
  <1>7. call'[c] = [tool |-> r.tool, by |-> p, dir |-> r.dir, grants |-> r.grants,
                    file |-> r.file, data |-> r.data, over |-> r.over,
                    found |-> Publisher(r.file), past |-> Past(r.file), at |-> at0, ok |-> ok0,
                    wrote |-> FALSE, sick |-> FALSE, receipt |-> Nothing]
    BY <1>0, <1>1, <1>4, <1>6
  <1>8. call'[c] \in CallState
    BY <1>2, <1>3, <1>5, <1>6, <1>7 DEF CallState, Request
  <1>9. PlacedAt(call'[c])
    BY <1>2, <1>7 DEF PlacedAt
  <1>10. call' = [call EXCEPT ![c] = call'[c]]
    BY <1>0, <1>1
  <1>11. /\ ~call'[c].wrote /\ call'[c].receipt = Nothing /\ call'[c].at = at0
         /\ call'[c].tool = r.tool /\ call'[c].file = r.file /\ call'[c].ok = ok0
         /\ call'[c].found = Publisher(r.file) /\ call'[c].past = Past(r.file)
    BY <1>7
  <1>12. call'[c] # Nothing
    BY <1>8, CallFields
  <1> QED
    BY <1>0, <1>2, <1>5, <1>6, <1>8, <1>9, <1>10, <1>11, <1>12

\* What a call publishes is complete.
Filled == \A c \in Call : At(c, "publish") => part[c] = call[c].data

LEMMA FTypeStep == FTypeOK /\ Filled /\ [FNext]_fvars => FTypeOK'
  <1> SUFFICES ASSUME FTypeOK, Filled, [FNext]_fvars PROVE FTypeOK'
    OBVIOUS
  <1>0. /\ files \in [File -> Content \cup {Nothing}]
        /\ part \in [Call -> Data \cup {Half, Nothing}]
        /\ call \in [Call -> CallState \cup {Nothing}]
    BY DEF FTypeOK
  <1>1. ASSUME NEW c \in Call, NEW p \in Runner, Enter(c, p) PROVE FTypeOK'
    <2>1. /\ call'[c] \in CallState /\ call' = [call EXCEPT ![c] = call'[c]]
          /\ UNCHANGED <<files, part>>
      BY <1>1, Begun DEF Enter
    <2> QED
      BY <1>0, <2>1 DEF FTypeOK
  <1>2. ASSUME NEW c \in Call, CallStep(c) PROVE FTypeOK'
    <2>1. call' \in [Call -> CallState \cup {Nothing}]
      BY <1>0, <1>2, OwnStep DEF Becoming
    <2>2. call[c] \in CallState
      BY <1>2, OwnStep
    <2>3. part' \in [Call -> Data \cup {Half, Nothing}]
      BY <1>2, <1>0, <2>2, CallFields DEF CallStep, Probe, MakeDirectory, Check, Fill, Break,
                                      Publish, Clean, Audit, Judge, Report, Certify
    <2>4. files' \in [File -> Content \cup {Nothing}]
      <3>1. CASE Publish(c)
        <4>1. [data |-> part[c], by |-> c] \in Content
          BY <3>1, <2>2, CallFields DEF Filled, Publish, At, Content
        <4> QED
          BY <3>1, <1>0, <4>1 DEF Publish, Put
      <3>2. CASE Judge(c)
        BY <3>2, <1>0 DEF Judge, Remove
      <3> QED
        BY <1>2, <1>0, <3>1, <3>2 DEF CallStep, Probe, MakeDirectory, Check, Fill, Break, Clean,
                                      Audit, Report, Certify
    <2> QED
      BY <2>1, <2>3, <2>4 DEF FTypeOK
  <1>3. ASSUME NEW p \in Runner, Halt(p) PROVE FTypeOK'
    <2>1. \A r \in CallState : [r EXCEPT !.at = "dead"] \in CallState
      BY DEF CallState, Label, Ended
    <2> QED
      BY <1>3, <1>0, <2>1 DEF FTypeOK, Halt
  <1>4. CASE UNCHANGED fvars
    BY <1>4 DEF fvars, FTypeOK
  <1> QED
    BY <1>1, <1>2, <1>3, <1>4 DEF FNext


-----------------------------------------------------------------------------
(* What a call does to its file.                                           *)

\* Each step of a call leaves the files alone (or makes a directory), publishes, or
\* removes.
Quiet(c) ==
    /\ UNCHANGED files
    /\ call'[c].wrote = call[c].wrote
    /\ call[c].wrote /\ call'[c].ok => call[c].ok
    /\ call[c].wrote /\ ~call'[c].ok /\ ~call'[c].sick => ~call[c].ok /\ ~call[c].sick
    /\ call'[c].at \in {"fill", "publish"} =>
         /\ call[c].at \in {"check", "fill", "publish"}
         /\ call[c].at \in {"fill", "publish"} \/ call[c].over \/ files[call[c].file] = Nothing
    /\ \/ call'[c].at # "certified" /\ call'[c].receipt = call[c].receipt
       \/ call[c].ok /\ call[c].at = "replied" /\ call'[c].at = "certified"
          /\ call'[c].receipt = Digested(c) /\ AwaitsReceipt(c)

Making(c) ==
    /\ call[c].at = "make" /\ call'[c].at = "audit" /\ call'[c].wrote
    /\ call'[c].receipt = call[c].receipt
    /\ UNCHANGED files

Publishing(c) ==
    /\ call[c].at = "publish" /\ call'[c].at = "audit" /\ call'[c].ok /\ call'[c].wrote
    /\ call'[c].receipt = call[c].receipt
    /\ files' = [files EXCEPT ![call[c].file] = [data |-> call[c].data, by |-> c]]

Removing(c) ==
    /\ call[c].at = "judge" /\ call'[c].at = "report" /\ call[c].ok /\ ~call'[c].ok
    /\ call'[c].wrote = call[c].wrote /\ call'[c].receipt = call[c].receipt
    /\ files' = [files EXCEPT ![call[c].file] = Nothing]

\* Where a call is, and what it has done until there.
Course(c) == call[c] # Nothing =>
    /\ call[c].at = "probe" => call[c].tool = "ensure_workspace"
    /\ call[c].at = "make" => call[c].tool = "create_directory"
    /\ call[c].at \in {"probe", "make", "check", "fill", "publish", "clean"} \/ call[c].wrote
         => call[c].tool \in Writing
    /\ call[c].tool = "create_directory" => call[c].file \notin File
    /\ call[c].at \in {"judge", "report"} => call[c].tool = "download_image"
    /\ call[c].at \in {"check", "fill", "publish"} => call[c].file \in File
    /\ call[c].wrote => call[c].file \in File \/ call[c].tool = "create_directory"
    /\ call[c].at \in {"probe", "make", "check", "fill", "publish"} => ~call[c].wrote
    /\ call[c].tool = "download_image" /\ call[c].ok => call[c].wrote
    /\ call[c].at = "certified" => call[c].file \in File
    /\ call[c].receipt # Nothing => call[c].at = "certified"

\* A temporary file belongs to a call that is still to remove it, or could not.
Temporary(c) == part[c] # Nothing =>
    /\ call[c] # Nothing /\ call[c].tool \in Writing
    /\ call[c].at \in {"fill", "publish", "clean", "dead"} \/ call[c].sick

LEMMA Effects ==
    ASSUME FTypeOK, Filled, NEW c \in Call, CallStep(c), Course(c)
    PROVE  Quiet(c) \/ Making(c) \/ Publishing(c) \/ Removing(c)
  <1>0. /\ call[c] \in CallState /\ call[c] # Nothing /\ call \in [Call -> CallState \cup {Nothing}]
        /\ call[c].ok \in BOOLEAN /\ call[c].sick \in BOOLEAN /\ call[c].wrote \in BOOLEAN
    BY OwnStep, CallFields DEF FTypeOK
  <1>1. ASSUME NEW l, Step(c, l)
        PROVE  /\ call'[c].at = l /\ call'[c].ok = call[c].ok /\ call'[c].wrote = call[c].wrote
               /\ call'[c].sick = call[c].sick /\ call'[c].receipt = call[c].receipt
    BY <1>0, <1>1 DEF Step, Become, CallState
  <1>2. CASE Probe(c)
    BY <1>0, <1>2 DEF Probe, Become, At, Course, Quiet, CallState
  <1>3. CASE Check(c)
    BY <1>0, <1>1, <1>3 DEF Check, At, Quiet
  <1>4. CASE Fill(c)
    BY <1>0, <1>1, <1>4 DEF Fill, At, Quiet
  <1>5. CASE Break(c)
    BY <1>0, <1>1, <1>5 DEF Break, At, Quiet
  <1>6. CASE Publish(c)
    BY <1>0, <1>6 DEF Publish, Put, Become, At, Filled, Publishing, CallState
  <1>7. CASE Clean(c)
    <2>1. PICK gone \in BOOLEAN :
            Become(c, [call[c] EXCEPT !.at = "audit", !.ok = @ /\ gone, !.sick = @ \/ ~gone])
      BY <1>7 DEF Clean
    <2>2. /\ call'[c].at = "audit" /\ call'[c].wrote = call[c].wrote
          /\ call'[c].receipt = call[c].receipt
          /\ call'[c].ok = (call[c].ok /\ gone)
          /\ call'[c].sick = (call[c].sick \/ ~gone)
      BY <1>0, <2>1 DEF Become, CallState
    <2> QED
      BY <1>0, <1>7, <2>2 DEF Clean, Quiet
  <1>8. CASE Audit(c)
    <2>1. CASE \E l \in {"judge", "replied", "raised"} : Step(c, l)
      BY <1>0, <1>1, <1>8, <2>1 DEF Audit, Quiet
    <2>2. CASE call[c].ok /\ Become(c, [call[c] EXCEPT !.ok = FALSE, !.sick = TRUE])
      <3>1. /\ call'[c].at = "audit" /\ call'[c].wrote = call[c].wrote
            /\ call'[c].receipt = call[c].receipt /\ ~call'[c].ok /\ call'[c].sick
        BY <1>0, <1>8, <2>2 DEF Audit, At, Become, CallState
      <3> QED
        BY <1>0, <1>8, <3>1 DEF Audit, Quiet
    <2> QED
      BY <1>8, <2>1, <2>2 DEF Audit
  <1>9. CASE Judge(c)
    <2> DEFINE wrong == call[c].ok /\ call[c].data \notin Images
    <2>1. PICK gone \in BOOLEAN :
            /\ IF wrong /\ gone THEN Remove(call[c].file) ELSE UNCHANGED files
            /\ Become(c, [call[c] EXCEPT !.at = "report", !.ok = @ /\ ~wrong,
                                         !.sick = @ \/ (wrong /\ ~gone)])
      BY <1>9 DEF Judge
    <2>2. /\ call'[c].at = "report" /\ call'[c].wrote = call[c].wrote
          /\ call'[c].receipt = call[c].receipt
          /\ call'[c].ok = (call[c].ok /\ ~wrong)
          /\ call'[c].sick = (call[c].sick \/ (wrong /\ ~gone))
      BY <1>0, <2>1 DEF Become, CallState
    <2>3. wrong => call[c].ok
      OBVIOUS
    <2> HIDE DEF wrong
    <2>4. CASE wrong /\ gone
      BY <1>0, <1>9, <2>1, <2>2, <2>3, <2>4 DEF Judge, At, Remove, Removing
    <2>5. CASE ~(wrong /\ gone)
      BY <1>0, <2>1, <2>2, <2>5 DEF Quiet
    <2> QED
      BY <2>4, <2>5
  <1>10. CASE Report(c)
    BY <1>0, <1>1, <1>10 DEF Report, Quiet
  <1>11. CASE Certify(c)
    BY <1>0, <1>11 DEF Certify, AwaitsReceipt, Become, At, Quiet, CallState
  <1>12. CASE MakeDirectory(c)
    <2>1. CASE Step(c, "audit")
      BY <1>0, <1>1, <1>12, <2>1 DEF MakeDirectory, At, Quiet
    <2>2. CASE Become(c, [call[c] EXCEPT !.at = "audit", !.ok = TRUE, !.wrote = TRUE])
      BY <1>0, <1>12, <2>2 DEF MakeDirectory, Become, At, Making, CallState
    <2> QED
      BY <1>12, <2>1, <2>2 DEF MakeDirectory
  <1> QED
    BY <1>2, <1>3, <1>4, <1>5, <1>6, <1>7, <1>8, <1>9, <1>10, <1>11, <1>12 DEF CallStep

-----------------------------------------------------------------------------
(* A call by itself.                                                       *)

Alone == FTypeOK /\ Filled /\ \A c \in Call : Course(c) /\ Temporary(c)

LEMMA AloneInit == FInit => Alone
  BY FTypeInit DEF FInit, Alone, Filled, At, Course, Temporary

\* How a step of a call changes the call itself, and its temporary file.
LEMMA AloneOwn ==
    ASSUME Alone, NEW c \in Call, CallStep(c)
    PROVE  Course(c)' /\ Temporary(c)' /\ (At(c, "publish") => part[c] = call[c].data)'
  <1>0. /\ call[c] \in CallState /\ call[c] # Nothing /\ call \in [Call -> CallState \cup {Nothing}]
        /\ part \in [Call -> Data \cup {Half, Nothing}]
        /\ call[c].ok \in BOOLEAN /\ call[c].sick \in BOOLEAN /\ call[c].wrote \in BOOLEAN
        /\ call'[c] \in CallState /\ Same(call[c], call'[c])
        /\ call[c].file \in File \cup {Refused} /\ Refused \notin File
        /\ Course(c) /\ Temporary(c) /\ (At(c, "publish") => part[c] = call[c].data)
    BY OwnStep, CallFields, WorkspaceConstants DEF Alone, FTypeOK, Becoming, Filled
  <1>1. ASSUME NEW l, Step(c, l)
        PROVE  /\ call'[c].at = l /\ call'[c].ok = call[c].ok /\ call'[c].wrote = call[c].wrote
               /\ call'[c].sick = call[c].sick /\ call'[c].receipt = call[c].receipt
    BY <1>0, <1>1 DEF Step, Become, CallState
  <1> USE DEF Same, Course, Temporary, At
  <1>2. CASE Probe(c)
    <2>1. /\ call[c].at = "probe" /\ call'[c].at = "clean" /\ call'[c].wrote = call[c].wrote
          /\ call'[c].receipt = call[c].receipt
      BY <1>0, <1>2 DEF Probe, Become, CallState
    <2> QED
      BY <1>0, <2>1, CallFields
  <1>3. CASE Check(c)
    <2>1. /\ call[c].at = "check" /\ call'[c].at \in {"audit", "fill"} /\ part'[c] = part[c]
          /\ call'[c].ok = call[c].ok /\ call'[c].wrote = call[c].wrote
          /\ call'[c].sick = call[c].sick /\ call'[c].receipt = call[c].receipt
      BY <1>1, <1>3 DEF Check
    <2> QED
      BY <1>0, <2>1, CallFields
  <1>4. CASE Fill(c)
    <2>1. /\ call[c].at = "fill" /\ call'[c].at \in {"fill", "publish"}
          /\ call'[c].ok = call[c].ok /\ call'[c].wrote = call[c].wrote
          /\ call'[c].sick = call[c].sick /\ call'[c].receipt = call[c].receipt
          /\ call'[c].at = "publish" => part'[c] = call[c].data
      BY <1>0, <1>1, <1>4 DEF Fill
    <2> QED
      BY <1>0, <2>1, CallFields
  <1>5. CASE Break(c)
    <2>1. /\ call[c].at \in {"probe", "fill", "publish"} /\ call'[c].at = "clean"
          /\ call'[c].ok = call[c].ok /\ call'[c].wrote = call[c].wrote
          /\ call'[c].sick = call[c].sick /\ call'[c].receipt = call[c].receipt
      BY <1>1, <1>5 DEF Break
    <2> QED
      BY <1>0, <2>1, CallFields
  <1>6. CASE Publish(c)
    BY <1>0, <1>6 DEF Publish, Become, CallState
  <1>7. CASE Clean(c)
    <2>1. PICK gone \in BOOLEAN :
            /\ part' = [part EXCEPT ![c] = IF gone THEN Nothing ELSE @]
            /\ Become(c, [call[c] EXCEPT !.at = "audit", !.ok = @ /\ gone, !.sick = @ \/ ~gone])
      BY <1>7 DEF Clean
    <2>2. /\ call'[c].at = "audit" /\ call'[c].wrote = call[c].wrote
          /\ call'[c].receipt = call[c].receipt
          /\ call'[c].ok = (call[c].ok /\ gone)
          /\ call'[c].sick = (call[c].sick \/ ~gone)
      BY <1>0, <2>1 DEF Become, CallState
    <2>3. part'[c] = IF gone THEN Nothing ELSE part[c]
      BY <1>0, <2>1, CallFields
    <2>4. call[c].at = "clean"
      BY <1>7 DEF Clean
    <2>5. Course(c)'
      BY <1>0, <2>2, <2>4, CallFields
    <2>6. Temporary(c)'
      BY <1>0, <2>2, <2>3, CallFields
    <2> QED
      BY <2>2, <2>5, <2>6
  <1>8. CASE Audit(c)
    <2>0. part'[c] = part[c] /\ call[c].at = "audit"
      BY <1>8 DEF Audit
    <2>1. CASE Step(c, IF call[c].tool = "download_image" THEN "judge" ELSE "replied")
      BY <1>0, <1>1, <2>0, <2>1, CallFields
    <2>2. CASE Step(c, "raised")
      BY <1>0, <1>1, <2>0, <2>2, CallFields
    <2>3. CASE Become(c, [call[c] EXCEPT !.ok = FALSE, !.sick = TRUE])
      <3>1. /\ call'[c].at = "audit" /\ ~call'[c].ok /\ call'[c].sick
            /\ call'[c].wrote = call[c].wrote /\ call'[c].receipt = call[c].receipt
        BY <1>0, <2>0, <2>3 DEF Become, CallState
      <3> QED
        BY <1>0, <2>0, <3>1, CallFields
    <2> QED
      BY <1>8, <2>1, <2>2, <2>3 DEF Audit
  <1>9. CASE Judge(c)
    <2> DEFINE wrong == call[c].ok /\ call[c].data \notin Images
    <2>1. PICK gone \in BOOLEAN :
            Become(c, [call[c] EXCEPT !.at = "report", !.ok = @ /\ ~wrong,
                                      !.sick = @ \/ (wrong /\ ~gone)])
      BY <1>9 DEF Judge
    <2>2. /\ call'[c].at = "report" /\ call'[c].wrote = call[c].wrote
          /\ call'[c].receipt = call[c].receipt
          /\ call'[c].ok = (call[c].ok /\ ~wrong)
          /\ call'[c].sick = (call[c].sick \/ (wrong /\ ~gone))
      BY <1>0, <2>1 DEF Become, CallState
    <2>3. part'[c] = part[c] /\ call[c].at = "judge"
      BY <1>9 DEF Judge
    <2> HIDE DEF wrong
    <2> QED
      BY <1>0, <2>2, <2>3, CallFields
  <1>10. CASE Report(c)
    <2>1. /\ call[c].at = "report" /\ call'[c].at \in {"replied", "raised"} /\ part'[c] = part[c]
          /\ call'[c].ok = call[c].ok /\ call'[c].wrote = call[c].wrote
          /\ call'[c].sick = call[c].sick /\ call'[c].receipt = call[c].receipt
      BY <1>1, <1>10 DEF Report
    <2> QED
      BY <1>0, <2>1, CallFields
  <1>11. CASE Certify(c)
    <2>1. /\ call[c].at = "replied" /\ call'[c].at = "certified" /\ part'[c] = part[c]
          /\ call'[c].ok = call[c].ok /\ call'[c].wrote = call[c].wrote
          /\ call'[c].sick = call[c].sick /\ call[c].file \in File
      BY <1>0, <1>11 DEF Certify, AwaitsReceipt, Become, CallState
    <2> QED
      BY <1>0, <2>1, CallFields
  <1>12. CASE MakeDirectory(c)
    <2>1. CASE Step(c, "audit")
      <3>1. /\ call[c].at = "make" /\ call'[c].at = "audit" /\ part'[c] = part[c]
            /\ call'[c].ok = call[c].ok /\ call'[c].wrote = call[c].wrote
            /\ call'[c].sick = call[c].sick /\ call'[c].receipt = call[c].receipt
        BY <1>1, <1>12, <2>1 DEF MakeDirectory
      <3> QED
        BY <1>0, <3>1, CallFields
    <2>2. CASE Become(c, [call[c] EXCEPT !.at = "audit", !.ok = TRUE, !.wrote = TRUE])
      <3>1. /\ call[c].at = "make" /\ call'[c].at = "audit" /\ part'[c] = part[c]
            /\ call'[c].sick = call[c].sick /\ call'[c].receipt = call[c].receipt
        BY <1>0, <1>12, <2>2 DEF MakeDirectory, Become, CallState
      <3>2. call[c].tool \in Writing /\ call[c].tool # "download_image"
        BY <1>0, <3>1
      <3> QED
        BY <1>0, <3>1, <3>2, CallFields
    <2> QED
      BY <1>12, <2>1, <2>2 DEF MakeDirectory
  <1> QED
    BY <1>2, <1>3, <1>4, <1>5, <1>6, <1>7, <1>8, <1>9, <1>10, <1>11, <1>12 DEF CallStep

LEMMA AloneStep == Alone /\ [FNext]_fvars => Alone'
  <1> SUFFICES ASSUME Alone, [FNext]_fvars PROVE Alone'
    OBVIOUS
  <1>0. FTypeOK'
    BY FTypeStep DEF Alone
  <1>t. /\ call \in [Call -> CallState \cup {Nothing}]
        /\ part \in [Call -> Data \cup {Half, Nothing}] /\ Nothing \notin CallState
    BY CallFields DEF Alone, FTypeOK
  <1> DEFINE Good(c) == Course(c) /\ Temporary(c) /\ (At(c, "publish") => part[c] = call[c].data)
  <1>g. \A c \in Call : Good(c)
    BY DEF Alone, Filled
  <1>1. SUFFICES ASSUME NEW d \in Call PROVE Good(d)'
    BY <1>0 DEF Alone, Filled
  <1>2. ASSUME call'[d] = call[d], part'[d] = part[d] PROVE Good(d)'
    BY <1>2, <1>g DEF Course, Temporary, At
  <1>3. ASSUME NEW c \in Call, NEW p \in Runner, Enter(c, p) PROVE Good(d)'
    <2>1. CASE c = d
      <3>1. part'[d] = part[d] /\ call[d] = Nothing
        BY <1>3, <2>1 DEF Enter
      <3>2. part'[d] = Nothing
        BY <1>g, <3>1 DEF Temporary
      <3>3. Course(d)'
        BY <1>3, <2>1, Begun, CallFields, WorkspaceConstants DEF Alone, Course, Writing
      <3>4. ~At(d, "publish")'
        BY <1>3, <2>1, Begun DEF Alone, At
      <3> QED
        BY <3>2, <3>3, <3>4 DEF Temporary
    <2>2. CASE c # d
      BY <1>2, <1>3, <2>2, <1>t DEF Enter, Become
    <2> QED
      BY <2>1, <2>2
  <1>4. ASSUME NEW c \in Call, CallStep(c) PROVE Good(d)'
    <2>1. CASE c = d
      BY <1>4, <2>1, AloneOwn
    <2>2. CASE c # d
      <3>1. part'[d] = part[d] /\ call'[d] = call[d]
        BY <1>4, <2>2, <1>t, OwnStep DEF Alone
      <3> QED
        BY <1>2, <3>1
    <2> QED
      BY <2>1, <2>2
  <1>5. ASSUME NEW p \in Runner, Halt(p) PROVE Good(d)'
    <2>1. CASE call'[d] = call[d]
      BY <1>2, <1>5, <2>1 DEF Halt
    <2>2. CASE (Running(d) \/ AwaitsReceipt(d)) /\ call'[d] = [call[d] EXCEPT !.at = "dead"]
      <3>1. call[d] \in CallState /\ call[d].at # "certified"
        BY <2>2, <1>t DEF Running, AwaitsReceipt, At, Ended
      <3> QED
        BY <1>5, <2>2, <3>1, <1>g, <1>t DEF Halt, Course, Temporary, At, CallState, Ended
    <2> QED
      BY <1>5, <1>t, <2>1, <2>2 DEF Halt
  <1>6. CASE UNCHANGED fvars
    BY <1>2, <1>6 DEF fvars
  <1> QED
    BY <1>3, <1>4, <1>5, <1>6 DEF FNext

\* Calls, files and temporary files never lose their type.
THEOREM FTypeCorrect == FSpec => []FTypeOK
  <1>1. Alone => FTypeOK
    BY DEF Alone
  <1> QED
    BY <1>1, AloneInit, AloneStep, PTL DEF FSpec

-----------------------------------------------------------------------------
(* Calls in a file they share.                                             *)

Wrote(d) == call[d] # Nothing /\ call[d].wrote
Over(d) == call[d] # Nothing /\ call[d].at \in Ended /\ ~AwaitsReceipt(d)

\* What is published is whole, and so is what a call has found or has done there.
Published == \A f \in File :
    files[f] # Nothing => files[f].data \in Data /\ (files[f].by \in Call => Wrote(files[f].by))

FoundGone(c) == call[c] # Nothing =>
    /\ \A d \in call[c].found : d \in Call => Wrote(d)
    /\ ~call[c].over /\ (call[c].at \in {"fill", "publish"} \/ call[c].wrote)
         => Publisher(call[c].file) \cap call[c].found = {}

Replied(c) == Wrote(c) /\ call[c].file \in File =>
    /\ call[c].ok /\ Others(c) = {} => files[call[c].file] = [data |-> call[c].data, by |-> c]
    /\ ~call[c].ok /\ ~call[c].sick => c \notin Publisher(call[c].file)

Certified(c) == At(c, "certified") /\ Others(c) = {} =>
    Verifies(c) /\ (call[c].wrote => call[c].receipt = call[c].data)

\* There is a file that c has answered for.
Holds(c) ==
    /\ call[c] # Nothing /\ call[c].file \in File /\ Others(c) = {}
    /\ (call[c].ok /\ call[c].wrote) \/ call[c].receipt # Nothing

\* The calls that were over when c began are, and what one of them answers for is
\* what c has found.
Met(c) == call[c] # Nothing =>
    \A d \in call[c].past :
        /\ Over(d) /\ call[d].file = call[c].file
        /\ Holds(d) => Publisher(call[c].file) \subseteq call[c].found

Shared == Published /\ \A c \in Call : FoundGone(c) /\ Replied(c) /\ Certified(c) /\ Met(c)

Placed == \A c \in Call : call[c] # Nothing => PlacedAt(call[c])

FInv == Alone /\ Shared /\ Placed

LEMMA FInvInit == FInit => FInv
  <1> SUFFICES ASSUME FInit PROVE FInv
    OBVIOUS
  <1>1. Alone
    BY AloneInit
  <1>2. Published
    BY WorkspaceConstants DEF FInit, Published
  <1>3. \A c \in Call : FoundGone(c) /\ Replied(c) /\ Certified(c) /\ Met(c)
    BY DEF FInit, FoundGone, Replied, Certified, Met, Wrote, At
  <1>4. Placed
    BY DEF FInit, Placed
  <1> QED
    BY <1>1, <1>2, <1>3, <1>4 DEF FInv, Shared

\* A call that is over makes no step.
LEMMA OverStays == ASSUME NEW c \in Call, CallStep(c) PROVE ~Over(c)
  <1>1. Certify(c) \/ (call[c] # Nothing /\ call[c].at \notin Ended)
    BY DEF CallStep, Probe, MakeDirectory, Check, Fill, Break, Publish, Clean, Audit, Judge,
           Report, At, Ended
  <1> QED
    BY <1>1 DEF Certify, Over

\* Once a call has published it has for ever, so the others of a call only grow.
LEMMA OthersGrow ==
    ASSUME FTypeOK, NEW c \in Call, call[c] # Nothing,
           NEW s \in Call, call[s] # Nothing, call' = [call EXCEPT ![s] = call'[s]],
           call'[s] \in CallState, Same(call[s], call'[s]), call[s].wrote => call'[s].wrote
    PROVE  /\ Others(c) \subseteq Others(c)'
           /\ s # c /\ call'[s].wrote /\ call[s].file = call[c].file =>
                s \in Others(c)' \/ s \in call[c].past \/ (c \in call[s].past /\ ~call[s].over)
           /\ \A d \in Call : Wrote(d) => Wrote(d)'
  <1>1. call'[s] # Nothing /\ call \in [Call -> CallState \cup {Nothing}]
    BY CallFields DEF FTypeOK
  <1>2. \A d \in Call : call[d] # Nothing =>
          /\ call'[d] # Nothing /\ call'[d].file = call[d].file
          /\ call'[d].past = call[d].past /\ call'[d].over = call[d].over
          /\ call[d].wrote => call'[d].wrote
    BY <1>1 DEF Same
  <1>3. Others(c) \subseteq Others(c)'
    BY <1>2 DEF Others
  <1>4. ASSUME s # c, call'[s].wrote, call[s].file = call[c].file, s \notin call[c].past,
               c \in call[s].past => call[s].over
        PROVE  s \in Others(c)'
    <2>1. /\ call'[s] # Nothing /\ call'[s].file = call'[c].file
          /\ s \notin call'[c].past /\ (c \in call'[s].past => call'[s].over)
      BY <1>2, <1>4
    <2> QED
      BY <1>4, <2>1 DEF Others
  <1>5. \A d \in Call : Wrote(d) => Wrote(d)'
    BY <1>2 DEF Wrote
  <1> QED
    BY <1>3, <1>4, <1>5

\* What a step of s means for all calls.
LEMMA SharedStep ==
    ASSUME FInv, Alone', NEW s \in Call, CallStep(s)
    PROVE  Shared'
  <1>0. /\ call \in [Call -> CallState \cup {Nothing}] /\ files \in [File -> Content \cup {Nothing}]
        /\ call[s] \in CallState /\ call[s] # Nothing /\ call'[s] \in CallState /\ call'[s] # Nothing
        /\ Same(call[s], call'[s]) /\ call' = [call EXCEPT ![s] = call'[s]]
        /\ Nothing \notin Content
    BY OwnStep, CallFields, WorkspaceConstants DEF FInv, Alone, FTypeOK, Becoming
  <1>1. Quiet(s) \/ Making(s) \/ Publishing(s) \/ Removing(s)
    BY Effects DEF FInv, Alone
  <1>2. call[s].wrote => call'[s].wrote
    BY <1>1 DEF Quiet, Making, Publishing, Removing
  <1>3. \A c \in Call : call[c] # Nothing =>
          /\ Others(c) \subseteq Others(c)'
          /\ s # c /\ call'[s].wrote /\ call[s].file = call[c].file =>
               s \in Others(c)' \/ s \in call[c].past \/ (c \in call[s].past /\ ~call[s].over)
    BY <1>0, <1>2, OthersGrow DEF FInv, Alone
  <1>4. \A d \in Call : Wrote(d) => Wrote(d)'
    BY <1>0, <1>2, OthersGrow DEF FInv, Alone
  <1>5. /\ Course(s) /\ Course(s)' /\ Published
        /\ \A c \in Call : FoundGone(c) /\ Replied(c) /\ Certified(c) /\ Met(c) /\ Course(c)
    BY DEF FInv, Alone, Shared
  <1>6. Publishing(s) => ~Wrote(s) /\ Wrote(s)' /\ call[s].file \in File /\ call[s].data \in Data
    BY <1>0, <1>5, CallFields DEF Publishing, Course, Wrote
  <1>7. Removing(s) => Wrote(s) /\ call[s].file \in File
    BY <1>0, <1>5, CallFields DEF Removing, Course, Wrote
  <1>18. Making(s) => call[s].file \notin File
    BY <1>0, <1>5 DEF Making, Course
  <1>8. Published'
    <2>1. CASE Quiet(s) \/ Making(s)
      BY <2>1, <1>0, <1>4, <1>5 DEF Quiet, Making, Published, Content
    <2>2. CASE Publishing(s)
      BY <2>2, <1>0, <1>4, <1>5, <1>6 DEF Publishing, Published, Content
    <2>3. CASE Removing(s)
      BY <2>3, <1>0, <1>4, <1>5, <1>7 DEF Removing, Published, Content
    <2> QED
      BY <1>1, <2>1, <2>2, <2>3
  <1>9. ASSUME NEW f \in File
        PROVE  /\ Quiet(s) \/ Making(s) => files'[f] = files[f] /\ Publisher(f)' = Publisher(f)
               /\ Publishing(s) => IF f = call[s].file
                    THEN files'[f] = [data |-> call[s].data, by |-> s] /\ Publisher(f)' = {s}
                    ELSE files'[f] = files[f] /\ Publisher(f)' = Publisher(f)
               /\ Removing(s) => IF f = call[s].file
                    THEN files'[f] = Nothing /\ Publisher(f)' = {}
                    ELSE files'[f] = files[f] /\ Publisher(f)' = Publisher(f)
    <2>1. [data |-> call[s].data, by |-> s] # Nothing
      BY <1>0, CallFields, WorkspaceConstants DEF Content
    <2>2. files'[f] = files[f] => Publisher(f)' = Publisher(f)
      BY DEF Publisher
    <2>4. ASSUME Publishing(s), f = call[s].file
          PROVE  files'[f] = [data |-> call[s].data, by |-> s] /\ Publisher(f)' = {s}
      BY <1>0, <2>1, <2>4 DEF Publishing, Publisher
    <2>5. ASSUME Removing(s), f = call[s].file
          PROVE  files'[f] = Nothing /\ Publisher(f)' = {}
      BY <1>0, <2>5 DEF Removing, Publisher
    <2>6. ASSUME Publishing(s) \/ Removing(s), f # call[s].file PROVE files'[f] = files[f]
      BY <1>0, <2>6 DEF Publishing, Removing
    <2>7. Quiet(s) \/ Making(s) => files'[f] = files[f]
      BY DEF Quiet, Making
    <2> QED
      BY <2>2, <2>4, <2>5, <2>6, <2>7
  <1>19. ASSUME NEW c \in Call, Over(c) PROVE c # s /\ Over(c)' /\ call'[c] = call[c]
    <2>1. c # s
      BY <1>19, OverStays
    <2>2. call'[c] = call[c]
      BY <1>0, <2>1
    <2> QED
      BY <1>19, <2>1, <2>2 DEF Over, AwaitsReceipt, At
  <1>20. ASSUME NEW c \in Call, c # s, call[c] # Nothing, call[c].file \in File, Others(c)' = {},
                (call[c].ok /\ call[c].wrote) \/ call[c].receipt # Nothing
         PROVE  /\ files'[call[c].file] = files[call[c].file] /\ Holds(c)
                /\ Publisher(call[c].file)' = Publisher(call[c].file)
    <2>1. Holds(c) /\ Others(c) = {}
      BY <1>3, <1>20 DEF Holds
    <2>2. Publisher(call[c].file) # {}
      <3>1. CASE call[c].ok /\ call[c].wrote
        <4>1. files[call[c].file] = [data |-> call[c].data, by |-> c]
          BY <1>5, <1>20, <2>1, <3>1 DEF Replied, Wrote
        <4>2. call[c] \in CallState /\ files[call[c].file] \in Content \cup {Nothing}
          BY <1>0, <1>20
        <4>3. [data |-> call[c].data, by |-> c] \in Content
          BY <4>2, CallFields DEF Content
        <4> QED
          BY <1>0, <1>20, <4>1, <4>3 DEF Publisher
      <3>2. CASE call[c].receipt # Nothing
        <4>1. At(c, "certified")
          BY <1>5, <1>20, <3>2 DEF Course, At
        <4>2. Digested(c) # Nothing
          BY <1>5, <2>1, <3>2, <4>1 DEF Certified, Verifies
        <4> QED
          BY <1>20, <4>2 DEF Digested, Publisher
      <3> QED
        BY <1>20, <3>1, <3>2
    <2>3. ASSUME Publishing(s) \/ Removing(s), call[s].file = call[c].file PROVE FALSE
      <3>1. s \in call[c].past \/ (c \in call[s].past /\ ~call[s].over)
        BY <1>2, <1>3, <1>6, <1>7, <1>20, <2>3 DEF Wrote
      <3>2. s \notin call[c].past
        BY <1>5, <1>19, <1>20 DEF Met
      <3>3. Publisher(call[c].file) \subseteq call[s].found
        BY <1>0, <1>5, <2>1, <2>3, <3>1, <3>2 DEF Met
      <3>4. Publisher(call[c].file) \cap call[s].found = {}
        BY <1>0, <1>5, <1>7, <2>3, <3>1, <3>2 DEF FoundGone, Publishing, Removing, Wrote
      <3> QED
        BY <2>2, <3>3, <3>4
    <2>4. /\ files'[call[c].file] = files[call[c].file]
          /\ Publisher(call[c].file)' = Publisher(call[c].file)
      <3>1. PICK F : F = call[c].file
        OBVIOUS
      <3>2. call'[c] = call[c]
        BY <1>0, <1>20
      <3> QED
        BY <1>1, <1>9, <1>20, <2>3, <3>1, <3>2
    <2> QED
      BY <2>1, <2>4
  <1>10. SUFFICES ASSUME NEW c \in Call, call'[c] # Nothing
         PROVE  FoundGone(c)' /\ Replied(c)' /\ Certified(c)' /\ Met(c)'
    BY <1>8 DEF Shared, FoundGone, Replied, Certified, Met, Wrote, At
  <1>11. /\ call[c] \in CallState /\ call[c] # Nothing
         /\ call'[c].file = call[c].file /\ call'[c].found = call[c].found
         /\ call'[c].over = call[c].over /\ call'[c].data = call[c].data
         /\ call'[c].tool = call[c].tool /\ call'[c].past = call[c].past
         /\ call[c].file \in File \cup {Refused} /\ call'[c] \in CallState
    BY <1>0, <1>10, CallFields DEF Same
  <1>12. s # c => call'[c] = call[c]
    BY <1>0
  <1>13. PICK F : F = call[c].file
    OBVIOUS
  <1>17. F \notin File => Publisher(F)' = {}
    BY DEF Publisher
  <1>14. FoundGone(c)'
    <2>1. \A d \in call'[c].found : d \in Call => Wrote(d)'
      BY <1>4, <1>5, <1>11, <1>13 DEF FoundGone
    <2>2. ASSUME ~call'[c].over, call'[c].at \in {"fill", "publish"} \/ call'[c].wrote,
                 F \in File
          PROVE  Publisher(F)' \cap call[c].found = {}
      <3>1. CASE Publishing(s) /\ call[s].file = F
        BY <3>1, <2>2, <1>5, <1>6, <1>9, <1>11, <1>13 DEF FoundGone
      <3>2. CASE Removing(s) /\ call[s].file = F
        BY <3>2, <2>2, <1>9
      <3>3. CASE Publisher(F)' = Publisher(F)
        <4>1. CASE s # c
          BY <4>1, <3>3, <2>2, <1>5, <1>11, <1>13, <1>12 DEF FoundGone
        <4>2. CASE s = c /\ Quiet(s)
          <5>1. \/ call[c].at \in {"fill", "publish"} \/ call[c].wrote
                \/ files[call[c].file] = Nothing
            BY <4>2, <2>2, <1>11 DEF Quiet
          <5>2. CASE call[c].at \in {"fill", "publish"} \/ call[c].wrote
            BY <5>2, <3>3, <2>2, <1>5, <1>11, <1>13 DEF FoundGone
          <5>3. CASE files[F] = Nothing
            BY <5>3, <3>3 DEF Publisher
          <5> QED
            BY <5>1, <5>2, <5>3, <1>13
        <4>3. CASE s = c /\ (Publishing(s) \/ Removing(s))
          BY <4>3, <3>1, <3>2, <1>13
        <4> QED
          BY <4>1, <4>2, <4>3, <2>2, <1>1, <1>13, <1>18
      <3> QED
        BY <3>1, <3>2, <3>3, <2>2, <1>1, <1>9
    <2> QED
      BY <2>1, <2>2, <1>11, <1>13, <1>17 DEF FoundGone, Publisher
  <1>15. Replied(c)'
    <2> SUFFICES ASSUME call'[c].wrote, F \in File
                 PROVE  /\ call'[c].ok /\ Others(c)' = {}
                             => files'[F] = [data |-> call[c].data, by |-> c]
                        /\ ~call'[c].ok /\ ~call'[c].sick => c \notin Publisher(F)'
      BY <1>11, <1>13 DEF Replied, Wrote, Publisher
    <2>1. CASE s = c
      <3>1. CASE Quiet(s)
        <4>1. /\ files'[F] = files[F] /\ Publisher(F)' = Publisher(F) /\ call[c].wrote
              /\ call'[c].ok => call[c].ok
              /\ ~call'[c].ok /\ ~call'[c].sick => ~call[c].ok /\ ~call[c].sick
          BY <3>1, <2>1, <1>9 DEF Quiet
        <4>2. Others(c) \subseteq Others(c)'
          BY <1>3, <1>11
        <4> QED
          BY <4>1, <4>2, <1>5, <1>11, <1>13 DEF Replied, Wrote
      <3>2. CASE Publishing(s)
        BY <3>2, <2>1, <1>9, <1>13 DEF Publishing
      <3>3. CASE Removing(s)
        BY <3>3, <2>1, <1>9, <1>13 DEF Removing
      <3> QED
        BY <3>1, <3>2, <3>3, <2>1, <1>1, <1>13, <1>18
    <2>2. CASE s # c
      <3>1. call[c].wrote /\ call'[c] = call[c]
        BY <2>2, <1>12
      <3>2. ASSUME call'[c].ok, Others(c)' = {}
            PROVE  files'[F] = [data |-> call[c].data, by |-> c]
        <4>1. files'[F] = files[F] /\ Holds(c)
          BY <1>11, <1>13, <1>20, <2>2, <3>1, <3>2
        <4> QED
          BY <4>1, <1>5, <1>11, <1>13, <3>1, <3>2 DEF Replied, Wrote, Holds
      <3>3. ASSUME ~call'[c].ok, ~call'[c].sick PROVE c \notin Publisher(F)'
        <4>1. c \notin Publisher(F)
          BY <1>5, <1>11, <1>13, <3>1, <3>3 DEF Replied, Wrote
        <4> QED
          BY <4>1, <1>1, <1>9, <2>2
      <3> QED
        BY <3>2, <3>3
    <2> QED
      BY <2>1, <2>2
  <1>16. Certified(c)'
    <2> SUFFICES ASSUME call'[c].at = "certified", Others(c)' = {}
                 PROVE  Verifies(c)' /\ (call'[c].wrote => call'[c].receipt = call'[c].data)
      BY DEF Certified, At
    <2>0. F \in File
      BY <1>10, <1>11, <1>13 DEF Alone, Course
    <2>1. Others(c) = {}
      BY <1>3, <1>11, <1>13
    <2>2. CASE s = c
      <3>1. Quiet(s)
        BY <2>2, <1>1 DEF Publishing, Removing, Making
      <3>2. call[c].ok /\ call'[c].receipt = Digested(c) /\ UNCHANGED files /\ call'[c].wrote = call[c].wrote
        BY <3>1, <2>2 DEF Quiet
      <3>3. Digested(c)' = Digested(c)
        BY <3>2, <1>11, <1>13 DEF Digested
      <3>4. call[c].wrote => Digested(c) = call[c].data
        <4>1. call[c].wrote => files[F] = [data |-> call[c].data, by |-> c]
          BY <3>2, <2>0, <2>1, <1>5, <1>11, <1>13 DEF Replied, Wrote
        <4>2. [data |-> call[c].data, by |-> c] # Nothing
          BY <1>0, <1>11, <1>13, CallFields DEF Content
        <4> QED
          BY <4>1, <4>2, <1>13 DEF Digested
      <3> QED
        BY <3>2, <3>3, <3>4, <1>11, <1>13 DEF Verifies
    <2>3. CASE s # c
      <3>1. call'[c] = call[c]
        BY <2>3, <1>12
      <3>2. Verifies(c) /\ (call[c].wrote => call[c].receipt = call[c].data)
        BY <3>1, <2>1, <1>5, <1>11, <1>13 DEF Certified, At
      <3>3. CASE call[c].receipt = Nothing
        BY <3>1, <3>2, <3>3 DEF Verifies
      <3>4. CASE call[c].receipt # Nothing
        <4>1. files'[F] = files[F]
          BY <1>11, <1>13, <1>20, <2>0, <2>3, <3>4
        <4> QED
          BY <3>1, <3>2, <4>1, <1>13 DEF Verifies, Digested
      <3> QED
        BY <3>3, <3>4
    <2> QED
      BY <2>2, <2>3
  <1>21. Met(c)'
    <2> SUFFICES ASSUME NEW d \in call[c].past
                 PROVE  /\ Over(d)' /\ call'[d].file = call[c].file
                        /\ Holds(d)' => Publisher(F)' \subseteq call[c].found
      BY <1>11, <1>13 DEF Met, Publisher
    <2>0. d \in Call
      BY <1>11, CallFields
    <2>1. /\ Over(d) /\ call[d].file = F
          /\ Holds(d) => Publisher(F) \subseteq call[c].found
      BY <1>5, <1>11, <1>13 DEF Met
    <2>2. d # s /\ Over(d)' /\ call'[d] = call[d]
      BY <1>19, <2>0, <2>1
    <2>3. ASSUME Holds(d)' PROVE Publisher(F)' \subseteq call[c].found
      <3>1. /\ call[d] # Nothing /\ call[d].file \in File /\ Others(d)' = {}
            /\ (call[d].ok /\ call[d].wrote) \/ call[d].receipt # Nothing
        BY <2>2, <2>3 DEF Holds
      <3>2. Holds(d) /\ Publisher(F)' = Publisher(F)
        BY <1>20, <2>0, <2>1, <2>2, <3>1
      <3> QED
        BY <2>1, <3>2
    <2> QED
      BY <2>1, <2>2, <2>3, <1>13
  <1> QED
    BY <1>14, <1>15, <1>16, <1>21

\* Where the files stay: a call is as it was, begins, or is dead.
Calm(d) ==
    \/ call'[d] = call[d]
    \/ /\ call[d] = Nothing /\ call'[d] # Nothing /\ ~call'[d].wrote
       /\ call'[d].at \in {"probe", "make", "audit", "check"}
       /\ call'[d].found = Publisher(call'[d].file) /\ call'[d].past = Past(call'[d].file)
    \/ /\ call[d] # Nothing /\ call'[d] # Nothing /\ call'[d].at = "dead" /\ ~Over(d)
       /\ Same(call[d], call'[d])
       /\ call'[d].ok = call[d].ok /\ call'[d].sick = call[d].sick
       /\ call'[d].wrote = call[d].wrote /\ call'[d].receipt = call[d].receipt

LEMMA CalmStep ==
    ASSUME FInv, UNCHANGED files, \A d \in Call : Calm(d)
    PROVE  Shared'
  <1>0. /\ Published /\ \A c \in Call : FoundGone(c) /\ Replied(c) /\ Certified(c) /\ Met(c)
        /\ \A c \in Call : call[c] # Nothing => call[c].past \subseteq Call
    BY CallFields DEF FInv, Shared, Alone, FTypeOK
  <1>1. \A d \in Call : Wrote(d)' <=> Wrote(d)
    BY DEF Calm, Wrote
  <1>2. Published'
    BY <1>0, <1>1 DEF Published
  <1>3. SUFFICES ASSUME NEW c \in Call
                 PROVE  FoundGone(c)' /\ Replied(c)' /\ Certified(c)' /\ Met(c)'
    BY <1>2 DEF Shared
  <1>4. ASSUME NEW d \in Call, call[d] # Nothing PROVE Others(d)' = Others(d)
    <2>1. \A e \in Call : call[e] # Nothing =>
            /\ call'[e] # Nothing /\ call'[e].file = call[e].file
            /\ call'[e].past = call[e].past /\ call'[e].over = call[e].over
            /\ call'[e].wrote = call[e].wrote
      BY DEF Calm, Same
    <2>2. \A e \in Call : call[e] = Nothing => call'[e] = Nothing \/ ~call'[e].wrote
      BY DEF Calm
    <2> QED
      BY <1>4, <2>1, <2>2 DEF Others
  <1>5. ASSUME NEW d \in Call, Over(d) PROVE call'[d] = call[d] /\ Over(d)' /\ (Holds(d)' => Holds(d))
    <2>1. call'[d] = call[d]
      BY <1>5 DEF Calm, Over
    <2>2. Others(d)' = Others(d)
      BY <1>4, <1>5 DEF Over
    <2> QED
      BY <1>5, <2>1, <2>2 DEF Over, AwaitsReceipt, At, Holds
  <1>6. ASSUME call[c] # Nothing, call'[c] # Nothing, call'[c].file = call[c].file,
               call'[c].past = call[c].past, call'[c].found = call[c].found
        PROVE  Met(c)'
    BY <1>0, <1>5, <1>6 DEF Met, Publisher
  <1>7. CASE call'[c] = call[c]
    <2>1. FoundGone(c)'
      <3>1. \A d \in call[c].found : call[c] # Nothing /\ d \in Call => Wrote(d)'
        BY <1>0, <1>1 DEF FoundGone
      <3> QED
        BY <1>0, <1>7, <3>1 DEF FoundGone, Publisher
    <2>2. Replied(c)'
      BY <1>0, <1>1, <1>4, <1>7 DEF Replied, Wrote, Publisher
    <2>3. Certified(c)'
      BY <1>0, <1>4, <1>7 DEF Certified, At, Verifies, Digested
    <2>4. Met(c)'
      BY <1>6, <1>7 DEF Met
    <2> QED
      BY <2>1, <2>2, <2>3, <2>4
  <1>8. CASE /\ call[c] = Nothing /\ call'[c] # Nothing /\ ~call'[c].wrote
             /\ call'[c].at \in {"probe", "make", "audit", "check"}
             /\ call'[c].found = Publisher(call'[c].file) /\ call'[c].past = Past(call'[c].file)
    <2>1. PICK F : F = call'[c].file
      OBVIOUS
    <2>2. \A d \in Publisher(F) : d \in Call => Wrote(d)
      BY <1>0 DEF Published, Publisher
    <2>3. \A d \in call'[c].found : d \in Call => Wrote(d)'
      BY <1>1, <1>8, <2>1, <2>2
    <2>4. Met(c)'
      <3>1. \A d \in Past(F) : d \in Call /\ Over(d) /\ call[d].file = F
        BY DEF Past, Over
      <3>2. \A d \in Past(F) : Over(d)' /\ call'[d].file = F
        BY <1>5, <3>1
      <3>3. Publisher(F)' = call'[c].found
        BY <1>8, <2>1 DEF Publisher
      <3>4. call'[c].past = Past(F)
        BY <1>8, <2>1
      <3> QED
        BY <2>1, <3>2, <3>3, <3>4 DEF Met, Publisher
    <2> QED
      BY <1>8, <2>3, <2>4 DEF FoundGone, Replied, Certified, Wrote, At
  <1>9. CASE /\ call[c] # Nothing /\ call'[c] # Nothing /\ call'[c].at = "dead" /\ ~Over(c)
             /\ Same(call[c], call'[c])
             /\ call'[c].ok = call[c].ok /\ call'[c].sick = call[c].sick
             /\ call'[c].wrote = call[c].wrote /\ call'[c].receipt = call[c].receipt
    <2>1. FoundGone(c)'
      <3>1. \A d \in call'[c].found : d \in Call => Wrote(d)'
        BY <1>0, <1>1, <1>9 DEF FoundGone, Same
      <3> QED
        BY <1>0, <1>9, <3>1 DEF FoundGone, Publisher, Same
    <2>2. Replied(c)'
      BY <1>0, <1>4, <1>9 DEF Replied, Wrote, Publisher, Same
    <2>3. Certified(c)'
      BY <1>9 DEF Certified, At
    <2>4. Met(c)'
      BY <1>6, <1>9 DEF Same
    <2> QED
      BY <2>1, <2>2, <2>3, <2>4
  <1> QED
    BY <1>7, <1>8, <1>9 DEF Calm

LEMMA FInvStep == FInv /\ [FNext]_fvars => FInv'
  <1> SUFFICES ASSUME FInv, [FNext]_fvars PROVE FInv'
    OBVIOUS
  <1>0. Alone'
    BY AloneStep DEF FInv
  <1>t. /\ call \in [Call -> CallState \cup {Nothing}] /\ FTypeOK
        /\ Nothing \notin CallState /\ Placed
    BY CallFields DEF FInv, Alone, FTypeOK
  <1>1. ASSUME NEW s \in Call, CallStep(s) PROVE FInv'
    <2>1. /\ call' = [call EXCEPT ![s] = call'[s]] /\ Same(call[s], call'[s])
          /\ call[s] # Nothing
      BY <1>1, <1>t, OwnStep DEF Becoming
    <2>2. Placed'
      BY <1>t, <2>1 DEF Placed, PlacedAt, Same
    <2> QED
      BY <1>0, <1>1, <2>2, SharedStep DEF FInv
  <1>2. ASSUME NEW c \in Call, NEW p \in Runner, Enter(c, p) PROVE FInv'
    <2>1. /\ UNCHANGED files /\ call' = [call EXCEPT ![c] = call'[c]]
          /\ PlacedAt(call'[c])
      BY <1>2, <1>t, Begun DEF Enter
    <2>2. \A d \in Call \ {c} : call'[d] = call[d]
      BY <1>t, <2>1
    <2>3. Calm(c)
      BY <1>2, <1>t, Begun DEF Calm
    <2>4. Shared'
      BY <2>1, <2>2, <2>3, CalmStep DEF Calm
    <2>5. Placed'
      BY <1>t, <2>1, <2>2 DEF Placed, PlacedAt
    <2> QED
      BY <1>0, <2>4, <2>5 DEF FInv
  <1>3. ASSUME NEW p \in Runner, Halt(p) PROVE FInv'
    <2>1. UNCHANGED files
      BY <1>3 DEF Halt
    <2>2. ASSUME NEW r \in CallState
          PROVE  /\ [r EXCEPT !.at = "dead"] \in CallState
                 /\ [r EXCEPT !.at = "dead"].at = "dead" /\ Same(r, [r EXCEPT !.at = "dead"])
                 /\ [r EXCEPT !.at = "dead"].ok = r.ok /\ [r EXCEPT !.at = "dead"].sick = r.sick
                 /\ [r EXCEPT !.at = "dead"].wrote = r.wrote
                 /\ [r EXCEPT !.at = "dead"].receipt = r.receipt
      BY DEF CallState, Same, Ended
    <2>3. ASSUME NEW d \in Call
          PROVE  \/ call'[d] = call[d]
                 \/ /\ call[d] \in CallState /\ call'[d] = [call[d] EXCEPT !.at = "dead"]
                    /\ ~Over(d)
      <3>1. CASE call[d] # Nothing /\ call[d].by = p /\ (Running(d) \/ AwaitsReceipt(d))
        BY <3>1, <1>3, <1>t DEF Halt, Over, Running
      <3>2. CASE ~(call[d] # Nothing /\ call[d].by = p /\ (Running(d) \/ AwaitsReceipt(d)))
        BY <3>2, <1>3 DEF Halt
      <3> QED
        BY <3>1, <3>2
    <2>4. ASSUME NEW d \in Call PROVE Calm(d)
      <3>1. CASE call[d] \in CallState /\ call'[d] = [call[d] EXCEPT !.at = "dead"] /\ ~Over(d)
        <4>1. call'[d] \in CallState /\ call'[d].at = "dead" /\ Same(call[d], call'[d])
              /\ call'[d].ok = call[d].ok /\ call'[d].sick = call[d].sick
              /\ call'[d].wrote = call[d].wrote /\ call'[d].receipt = call[d].receipt
          BY <3>1, <2>2
        <4> QED
          BY <3>1, <4>1, <1>t DEF Calm
      <3> QED
        BY <2>3, <3>1 DEF Calm
    <2>5. \A d \in Call : call'[d] # Nothing => Same(call[d], call'[d]) /\ call[d] # Nothing
      <3>1. ASSUME NEW d \in Call, call'[d] # Nothing
            PROVE  Same(call[d], call'[d]) /\ call[d] # Nothing
        <4>1. CASE call'[d] = call[d]
          BY <3>1, <4>1 DEF Same
        <4>2. CASE call[d] \in CallState /\ call'[d] = [call[d] EXCEPT !.at = "dead"]
          BY <4>2, <1>t, <2>2
        <4> QED
          BY <2>3, <4>1, <4>2
      <3> QED
        BY <3>1
    <2>6. Placed'
      BY <1>t, <2>5 DEF Placed, PlacedAt, Same
    <2> QED
      BY <1>0, <2>1, <2>4, <2>6, CalmStep DEF FInv
  <1>4. CASE UNCHANGED fvars
    <2>1. Shared'
      BY <1>4, CalmStep DEF fvars, Calm
    <2>2. Placed'
      BY <1>4, <1>t DEF fvars, Placed
    <2> QED
      BY <1>0, <2>1, <2>2 DEF FInv
  <1> QED
    BY <1>1, <1>2, <1>3, <1>4 DEF FNext

LEMMA WorkspaceInvariant == FSpec => []FInv
  BY FInvInit, FInvStep, PTL DEF FSpec

\* What the broker starts works in the workspace of its task, and changes it only if its
\* manifest grants that (preflight).
THEOREM StaysConfined == FSpec => []Confined
  <1>1. ASSUME FInv PROVE Confined
    <2> SUFFICES ASSUME NEW c \in Call, call[c] # Nothing, call[c].tool \in DOMAIN Takes
                 PROVE  /\ call[c].dir \in Dir => <<call[c].dir, TaskRoot>> \in Under
                        /\ call[c].file \in File => <<DirOf[call[c].file], TaskRoot>> \in Under
                        /\ part[c] # Nothing \/ call[c].wrote => "write_workspace" \in call[c].grants
      BY DEF Confined
    <2>1. PlacedAt(call[c]) /\ Course(c) /\ Temporary(c)
      BY <1>1 DEF FInv, Alone, Placed
    <2>2. part[c] # Nothing \/ call[c].wrote => call[c].tool \in Writing
      BY <2>1 DEF Course, Temporary
    <2> QED
      BY <2>1, <2>2 DEF PlacedAt
  <1> QED
    BY <1>1, WorkspaceInvariant, PTL

\* Files are whole, and temporary files have an owner (os.replace, finally).
THEOREM FilesAreWhole == FSpec => []WholeOrNothing
  <1>1. ASSUME FInv PROVE WholeOrNothing
    <2>1. \A f \in File : files[f] = Nothing \/ files[f].data # Half
      BY <1>1, WorkspaceConstants DEF FInv, Shared, Published
    <2>2. \A c \in Call : part[c] # Nothing => Running(c) \/ At(c, "dead") \/ call[c].sick
      BY <1>1 DEF FInv, Alone, Temporary, Running, At, Ended
    <2> QED
      BY <2>1, <2>2 DEF WholeOrNothing
  <1> QED
    BY <1>1, WorkspaceInvariant, PTL

\* A reply can be relied on until a call that was under way at the same time, or may
\* overwrite, has published in the file (_atomic_write, _wrap, download_image).
THEOREM RepliesAreTrue == FSpec => []ReplyTruthful
  <1>1. ASSUME FInv PROVE ReplyTruthful
    <2> SUFFICES ASSUME NEW c \in Call, At(c, "replied") \/ At(c, "certified"),
                        call[c].file \in File
                 PROVE  /\ call[c].ok /\ call[c].wrote /\ Others(c) = {} =>
                             files[call[c].file] = [data |-> call[c].data, by |-> c]
                        /\ ~call[c].ok /\ ~call[c].sick => c \notin Publisher(call[c].file)
      BY DEF ReplyTruthful
    <2>1. call[c] # Nothing /\ Replied(c) /\ Published
      BY <1>1 DEF FInv, Shared, At
    <2>2. c \in Publisher(call[c].file) => Wrote(c)
      BY <2>1 DEF Published, Publisher
    <2> QED
      BY <2>1, <2>2 DEF Replied, Wrote
  <1> QED
    BY <1>1, WorkspaceInvariant, PTL

\* A receipt certifies what the call did, and stands until a call that was under way at
\* the same time, or may overwrite, has published in the file (receipt, verified_receipt).
THEOREM ReceiptsStand == FSpec => []ReceiptStands
  <1>1. ASSUME FInv PROVE ReceiptStands
    BY <1>1 DEF FInv, Alone, Course, Shared, Certified, ReceiptStands, At
  <1> QED
    BY <1>1, WorkspaceInvariant, PTL

\* A call without overwrite takes away nothing it has found (target.exists).
THEOREM NamesAreKept == FSpec => NewNamesKept
  <1>1. ASSUME FInv, [FNext]_fvars
        PROVE  [\A c \in Call, f \in File :
                  /\ files'[f] # files[f]
                  /\ <<call[c], part[c]>>' # <<call[c], part[c]>> /\ ~call[c].over
                  => Publisher(f) \cap call[c].found = {}]_fvars
    <2> SUFFICES ASSUME NEW c \in Call, NEW f \in File, files'[f] # files[f],
                        <<call[c], part[c]>>' # <<call[c], part[c]>>, ~call[c].over
                 PROVE  Publisher(f) \cap call[c].found = {}
      OBVIOUS
    <2>0. /\ call \in [Call -> CallState \cup {Nothing}] /\ files \in [File -> Content \cup {Nothing}]
          /\ FTypeOK /\ Filled /\ Course(c) /\ FoundGone(c) /\ FNext
      BY <1>1 DEF FInv, Alone, Shared, FTypeOK, fvars
    <2>1. PICK s \in Call : CallStep(s)
      BY <2>0 DEF FNext, Enter, Halt
    <2>2. s = c
      BY <2>0, <2>1, OwnStep
    <2>3. call[c] # Nothing /\ (Publishing(c) \/ Removing(c))
      BY <2>0, <2>1, <2>2, OwnStep, Effects, CallFields DEF Quiet, Making
    <2>4. f = call[c].file
      BY <2>0, <2>3 DEF Publishing, Removing
    <2>5. call[c].at \in {"fill", "publish"} \/ call[c].wrote
      BY <2>0, <2>3 DEF Publishing, Removing, Course
    <2> QED
      BY <2>0, <2>3, <2>4, <2>5 DEF FoundGone
  <1> QED
    BY <1>1, WorkspaceInvariant, PTL DEF FSpec, NewNamesKept
=============================================================================
