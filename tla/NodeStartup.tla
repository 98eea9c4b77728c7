------------------------------ MODULE NodeStartup ------------------------------
(***************************************************************************)
(* How a process of the node starts (dante/cli.py): it opens the ledger,   *)
(* which creates and migrates the schema (dante/ledger.py,                 *)
(* dante/migrations.py); node-bootstrap and node-qualify then read or      *)
(* create the identity of the node and record the machine                  *)
(* (dante/node_bootstrap.py).  Any number of processes start at the same   *)
(* time, on no database, an old one, a current one or one of a newer       *)
(* program, and die at any step.  node-inspect, which records the machine  *)
(* under the identity it is given, is left out.                            *)
(*                                                                         *)
(* SQLite is external: one writer at a time (BEGIN IMMEDIATE waits), and   *)
(* what was not committed is gone when its process dies.  No lock covers   *)
(* the directory of the identity file.                                     *)
(***************************************************************************)
EXTENDS Integers

CONSTANTS
    Proc,           \* processes of the node
    Task,           \* tasks, old and new
    NodeId,         \* canonical UUID4s
    Invalid,        \* a file that holds anything else, or is a link
    None

VARIABLES
    at,             \* at[p]: the next step of p's start
    db,             \* the committed schema: user_version, tables, task_acceptance
    tasks,          \* table tasks
    draft,          \* draft[p]: the migration p is in, or None
    file,           \* the identity file
    temps,          \* the temporary files beside it
    mine,           \* mine[p]: the identity p has generated, or None
    made,           \* made[p]: created, of persistent_node_id
    answer,         \* answer[p]: what persistent_node_id returned to p, or None
    profiles        \* the node ids of node_profiles

dbvars == <<db, tasks, draft>>
idvars == <<file, temps, mine, made, answer>>
svars == <<at, dbvars, idvars, profiles>>

Supported == 4
Version == 0..Supported + 1

Script == <<"tasks", "task_events", "routes", "artifacts", "approvals">>
Base == {Script[i] : i \in 1..5}
Adds == <<{"task_acceptance", "execution_steps"}, {"task_queue"},
          {"backend_observations", "task_continuity"},
          {"node_profiles", "model_qualifications"}>>

\* The schema of each version; that of a newer program is only known to be one.
Tables(v) == Base \cup (IF v > Supported THEN {"unknown"} ELSE {})
                  \cup UNION {Adds[i] : i \in {j \in 1..Supported : j <= v}}

ASSUME StartupConstants ==
    /\ Invalid \notin NodeId /\ None \notin NodeId \cup {Invalid}
    /\ None \notin [version: Version, tables: SUBSET Tables(Supported + 1), accepted: SUBSET Task]
    /\ None \notin [id: NodeId, created: BOOLEAN]

\* No database yet, or one left by a program of any age.
SInit ==
    /\ at = [p \in Proc |-> "off"]
    /\ tasks \in SUBSET Task
    /\ \/ /\ db = [version |-> 0, tables |-> {}, accepted |-> {}]
          /\ tasks = {}
       \/ \E v \in Version :
            db = [version |-> v, tables |-> Tables(v),
                  accepted |-> IF v = 0 THEN {} ELSE tasks]
    /\ draft = [p \in Proc |-> None]
    /\ file \in NodeId \cup {None, Invalid}
    /\ temps = {}
    /\ mine = [p \in Proc |-> None]
    /\ made = [p \in Proc |-> FALSE]
    /\ answer = [p \in Proc |-> None]
    /\ profiles = {}

Goto(p, label) == at' = [at EXCEPT ![p] = label]
Writable == \A p \in Proc : at[p] # "upgrade"

-----------------------------------------------------------------------------
(* TaskLedger._initialize and migrate.                                     *)

\* PRAGMA journal_mode=WAL changes a new database, and does not wait: when two
\* starts race to it, one may be refused at once (database is locked).
Locked(p) ==
    /\ at[p] = "off"
    /\ db.tables = {}
    /\ \E q \in Proc \ {p} : at[q] = "off"
    /\ Goto(p, "locked")
    /\ UNCHANGED <<dbvars, idvars, profiles>>

\* The base tables, if they do not exist: executescript commits each by itself.
Open(p) ==
    /\ at[p] = "off"
    /\ Writable
    /\ \/ /\ Base \subseteq db.tables
          /\ Goto(p, "migrate")
          /\ UNCHANGED db
       \/ \E i \in 1..5 :
          /\ Script[i] \notin db.tables
          /\ \A j \in 1..i - 1 : Script[j] \in db.tables
          /\ db' = [db EXCEPT !.tables = @ \cup {Script[i]}]
          /\ UNCHANGED at
    /\ UNCHANGED <<tasks, draft, idvars, profiles>>

\* Seeded fault: a deferred transaction, so that another one may be open.
BeginDeferred(p) ==
    /\ at[p] = "migrate"
    /\ \/ /\ db.version > Supported
          /\ Goto(p, "refused")
          /\ UNCHANGED draft
       \/ /\ db.version <= Supported
          /\ draft' = [draft EXCEPT ![p] = db]
          /\ Goto(p, "upgrade")
    /\ UNCHANGED <<db, tasks, idvars, profiles>>

\* Seeded fault: the version is not compared with what this program supports.
BeginBlindly(p) ==
    /\ at[p] = "migrate"
    /\ Writable
    /\ draft' = [draft EXCEPT ![p] = [db EXCEPT !.version = IF @ > Supported THEN Supported - 1 ELSE @]]
    /\ Goto(p, "upgrade")
    /\ UNCHANGED <<db, tasks, idvars, profiles>>

\* BEGIN IMMEDIATE; then the version is read.
Begin(p) ==
    /\ at[p] = "migrate"
    /\ Writable
    /\ \/ /\ db.version > Supported
          /\ Goto(p, "refused")
          /\ UNCHANGED draft
       \/ /\ db.version <= Supported
          /\ draft' = [draft EXCEPT ![p] = db]
          /\ Goto(p, "upgrade")
    /\ UNCHANGED <<db, tasks, idvars, profiles>>

\* The next version; the first one accepts every task there is.  A table that is
\* there already is an error, except in the last version.
Upgrade(p) ==
    /\ at[p] = "upgrade"
    /\ draft[p].version < Supported
    /\ LET v == draft[p].version + 1
           there == db.tables \cup draft[p].tables
       IN  \/ /\ v = Supported \/ Adds[v] \cap there = {}
              /\ draft' = [draft EXCEPT ![p] =
                             [version |-> v, tables |-> @.tables \cup Adds[v],
                              accepted |-> IF v = 1 THEN tasks ELSE @.accepted]]
              /\ UNCHANGED at
           \/ /\ v < Supported /\ Adds[v] \cap there # {}
              /\ draft' = [draft EXCEPT ![p] = None]
              /\ Goto(p, "refused")
    /\ UNCHANGED <<db, tasks, idvars, profiles>>

\* Only the node commands go on to the identity.
Commit(p) ==
    /\ at[p] = "upgrade"
    /\ draft[p].version = Supported
    /\ db' = draft[p]
    /\ draft' = [draft EXCEPT ![p] = None]
    /\ \E next \in {"identity", "up"} : Goto(p, next)
    /\ UNCHANGED <<tasks, idvars, profiles>>

-----------------------------------------------------------------------------
(* persistent_node_id and inspect_node.                                    *)

\* The file is there, or a new identity is generated.
LookForId(p) ==
    /\ at[p] = "identity"
    /\ \/ file # None /\ Goto(p, "read") /\ UNCHANGED mine
       \/ /\ file = None
          /\ \E id \in NodeId \ (temps \cup {mine[q] : q \in Proc}) :
               mine' = [mine EXCEPT ![p] = id]
          /\ Goto(p, "write")
    /\ UNCHANGED <<dbvars, file, temps, made, answer, profiles>>

WriteTemp(p) ==
    /\ at[p] = "write"
    /\ temps' = temps \cup {mine[p]}
    /\ Goto(p, "link")
    /\ UNCHANGED <<dbvars, file, mine, made, answer, profiles>>

\* Seeded fault: os.replace instead of os.link.
LinkReplaces(p) ==
    /\ at[p] = "link"
    /\ file' = mine[p]
    /\ made' = [made EXCEPT ![p] = TRUE]
    /\ Goto(p, "unlink")
    /\ UNCHANGED <<dbvars, temps, mine, answer, profiles>>

\* os.link, which fails if the file exists.
Link(p) ==
    /\ at[p] = "link"
    /\ IF file = None
         THEN file' = mine[p] /\ made' = [made EXCEPT ![p] = TRUE]
         ELSE UNCHANGED <<file, made>>
    /\ Goto(p, "unlink")
    /\ UNCHANGED <<dbvars, temps, mine, answer, profiles>>

Unlink(p) ==
    /\ at[p] = "unlink"
    /\ temps' = temps \ {mine[p]}
    /\ Goto(p, "read")
    /\ UNCHANGED <<dbvars, file, mine, made, answer, profiles>>

\* _read_node_id refuses anything that is not a canonical UUID4 in a plain file; who
\* has published an identity must find it.
ReadId(p) ==
    /\ at[p] = "read"
    /\ file \in NodeId
    /\ made[p] => file = mine[p]
    /\ answer' = [answer EXCEPT ![p] = [id |-> file, created |-> made[p]]]
    /\ made' = [made EXCEPT ![p] = FALSE]
    /\ Goto(p, "inspect")
    /\ UNCHANGED <<dbvars, file, temps, mine, profiles>>

\* inspect_node: the machine is probed and recorded under the identity.
Inspect(p) ==
    /\ at[p] = "inspect"
    /\ Writable
    /\ profiles' = profiles \cup {answer[p].id}
    /\ Goto(p, "up")
    /\ UNCHANGED <<dbvars, idvars>>

\* create_task, by a process that has started.
CreateTask(p, t) ==
    /\ at[p] = "up"
    /\ Writable
    /\ t \notin tasks
    /\ tasks' = tasks \cup {t}
    /\ db' = [db EXCEPT !.accepted = @ \cup {t}]
    /\ UNCHANGED <<at, draft, idvars, profiles>>

\* What p leaves behind when it is gone; its transaction is rolled back.
Gone(p) ==
    /\ Goto(p, "off")
    /\ draft' = [draft EXCEPT ![p] = None]
    /\ mine' = [mine EXCEPT ![p] = None]
    /\ made' = [made EXCEPT ![p] = FALSE]
    /\ answer' = [answer EXCEPT ![p] = None]
    /\ UNCHANGED <<db, tasks, file, profiles>>

\* An exception: a bad identity file, a full disk, a probe that fails.  The finally
\* clause removes the temporary file.
Raise(p) ==
    /\ at[p] \in {"write", "link", "read", "inspect"}
    /\ Gone(p)
    /\ temps' = temps \ {mine[p]}

\* The process ends, dies where it is, or has waited in vain for another writer.
Exit(p) ==
    /\ at[p] # "off"
    /\ Gone(p)
    /\ UNCHANGED temps

StartStep(p) ==
    \/ Locked(p) \/ Open(p) \/ Begin(p) \/ Upgrade(p) \/ Commit(p)
    \/ LookForId(p) \/ WriteTemp(p) \/ Link(p) \/ Unlink(p) \/ ReadId(p) \/ Inspect(p)

SNext == \E p \in Proc :
    \/ StartStep(p) \/ Raise(p) \/ Exit(p)
    \/ \E t \in Task : CreateTask(p, t)

SSpec == SInit /\ [][SNext]_svars

-----------------------------------------------------------------------------
(* Properties.                                                             *)

\* Every variable keeps its type.
STypeOK ==
    /\ at \in [Proc -> {"off", "locked", "migrate", "upgrade", "identity", "write", "link",
                        "unlink", "read", "inspect", "up", "refused"}]
    /\ db \in [version: Version, tables: SUBSET Tables(Supported + 1), accepted: SUBSET Task]
    /\ tasks \subseteq Task
    /\ draft \in [Proc -> [version: Version, tables: SUBSET Tables(Supported + 1),
                           accepted: SUBSET Task] \cup {None}]
    /\ file \in NodeId \cup {None, Invalid}
    /\ temps \subseteq NodeId
    /\ mine \in [Proc -> NodeId \cup {None}]
    /\ made \in [Proc -> BOOLEAN]
    /\ answer \in [Proc -> [id: NodeId, created: BOOLEAN] \cup {None}]
    /\ profiles \subseteq NodeId

\* Whoever migrates, races and dies in the middle, what the database says of its
\* version is true of its tables, no task, old or new, is left without an acceptance
\* contract (the single exclusive transaction of migrate, create_task), and a
\* process is up only on the schema of this program.
SchemaWhole ==
    /\ IF db.version = 0 THEN db.tables \subseteq Base ELSE db.tables = Tables(db.version)
    /\ db.version > 0 => db.accepted = tasks
    /\ \A p \in Proc : at[p] = "up" => db.version = Supported

\* migrate refuses a start for the database of a newer program only, never because
\* another start has migrated, or died migrating, at the same time (the lock of a new
\* database is another matter: Locked).
OnlyNewerRefused == \A p \in Proc : at[p] = "refused" => db.version > Supported

\* All starts of the node, racing or repeated after a death, get the one identity
\* that was published first, and at most one believes it has created it
\* (os.link in persistent_node_id).
Register == INSTANCE WriteOnce WITH
    Value <- NodeId \cup {Invalid},
    chosen <- file,
    creators <- {p \in Proc : made[p]},
    told <- answer

OneIdentity == Register!WOSpec

\* node-bootstrap and node-qualify never record the machine under an identity that
\* is not the node's (inspect_node gets what persistent_node_id has returned).
ProfilesOwned == profiles \subseteq {file}
=============================================================================
