------------------------------- MODULE Schema --------------------------------
(***************************************************************************)
(* Migrations at work: `alembic upgrade` and `downgrade` run the scripts of  *)
(* a path in one transaction, and other sessions go on reading and writing   *)
(* the committed tables.                                                     *)
(***************************************************************************)
EXTENDS Database

VARIABLES
    mig,        \* the migration command: "idle" or "running"
    goal,       \* the revision it was asked for
    at,         \* the revision it has reached
    block,      \* the next block of the script it is in
    work,       \* the catalog as its transaction sees it
    doomed,     \* the edge types whose rows it has deleted
    held,       \* the committed tables it keeps from the other sessions
    blame,      \* the statement that made the last command fail
    commands    \* the commands given

schemaVars == <<databaseVars, mig, goal, at, block, work, doomed, held, blame, commands>>

CONSTANTS
    Target,        \* the revisions the operator migrates to
    MaxCommands    \* bound: migration commands in a behaviour

ASSUME SchemaConstants == Target \subseteq 0..6 /\ MaxCommands \in Nat

------------------------------------------------------------------------------
Admits(e) ==
    /\ Tables(catalog, "edges") # {}
    /\ \A o \in catalog : o.kind = "check" => e \in Allowed(o.name)

(* The sessions start on a database that has been in use at its revision:   *)
(* rows of edges that its CHECK allows, and rows of the events of 0001.     *)
SchemaInit ==
    /\ revision \in Target
    /\ catalog = Expected(revision)
    /\ edges \in SUBSET {e \in EdgeType : Admits(e)}
    /\ filled \in SUBSET ({<<1, "events">>} \cap {o.of : o \in catalog})
    /\ mig = "idle"
    /\ goal = revision
    /\ at = revision
    /\ block = 1
    /\ work = {}
    /\ doomed = {}
    /\ held = {}
    /\ blame = NoBlame
    /\ commands = 0

(* The operator: alembic upgrade or downgrade to a revision.                *)
Migrate(r) ==
    /\ mig = "idle"
    /\ r # revision
    /\ commands < MaxCommands
    /\ mig' = "running"
    /\ goal' = r
    /\ at' = revision
    /\ block' = 1
    /\ work' = catalog
    /\ blame' = NoBlame
    /\ commands' = commands + 1
    /\ UNCHANGED <<catalog, revision, edges, filled, doomed, held>>

Script == IF at < goal THEN Up[at + 1] ELSE Down[at]

(* The transaction is over and has changed nothing.                         *)
Rollback ==
    /\ mig' = "idle"
    /\ work' = {}
    /\ at' = revision
    /\ goal' = revision
    /\ block' = 1
    /\ doomed' = {}
    /\ held' = {}
    /\ UNCHANGED <<catalog, revision, edges, filled, commands>>

(* The DELETE of 0003's downgrade reaches the rows committed by then.       *)
DeletedBy(script) == IF Deletes(script) THEN edges \ {"supersedes"} ELSE {}

(* One block of the script of a revision; a statement that fails, or the    *)
(* RuntimeError of 0004, ends the command.                                  *)
RunBlock ==
    /\ mig = "running"
    /\ at # goal
    /\ \E done \in {Run(work, edges \ doomed, Script[block], at + 1)} :
        \/ /\ done.failed # NoBlame
           /\ blame' = done.failed
           /\ Rollback
        \/ /\ done.failed = NoBlame
           /\ work' = done.cat
           /\ held' = held \cup (done.held \cap {o.of : o \in catalog})
           /\ doomed' = doomed \cup DeletedBy(Script[block])
           /\ IF block < Len(Script)
              THEN block' = block + 1 /\ UNCHANGED at
              ELSE block' = 1 /\ at' = IF at < goal THEN at + 1 ELSE at - 1
           /\ UNCHANGED <<catalog, revision, edges, filled, mig, goal, blame, commands>>

(* Faulty variant: the locks outlive the commit.                            *)
CommitKeepsLocks ==
    LET left == {o.of : o \in work} IN
    /\ mig = "running"
    /\ at = goal
    /\ mig' = "idle"
    /\ catalog' = work
    /\ revision' = goal
    /\ edges' = IF <<1, "edges">> \in left THEN edges \ doomed ELSE {}
    /\ filled' = filled \cap left
    /\ doomed' = {}
    /\ block' = 1
    /\ work' = {}
    /\ UNCHANGED <<held, goal, at, blame, commands>>

(* One transaction for the whole command (env.py).                          *)
Commit ==
    LET left == {o.of : o \in work} IN
    /\ mig = "running"
    /\ at = goal
    /\ mig' = "idle"
    /\ catalog' = work
    /\ revision' = goal
    /\ edges' = IF <<1, "edges">> \in left THEN edges \ doomed ELSE {}
    /\ filled' = filled \cap left
    /\ doomed' = {}
    /\ held' = {}
    /\ block' = 1
    /\ work' = {}
    /\ UNCHANGED <<goal, at, blame, commands>>

(* The process or its connection dies: the server rolls back.               *)
Die ==
    /\ mig = "running"
    /\ Rollback
    /\ UNCHANGED blame

------------------------------------------------------------------------------
(* The other sessions: a row of edges, of a type that the committed CHECKs  *)
(* allow, or a row of a table. Each is a transaction of one statement. (The *)
(* locks of foreign-key checks are left out.)                               *)
Writable(n) == Tables(catalog, n) # {} /\ Ids(catalog, {n}) \cap held = {}

InsertEdge(e) ==
    /\ Writable("edges")
    /\ Admits(e)
    /\ edges' = edges \cup {e}
    /\ doomed' = doomed \ {e}
    /\ UNCHANGED <<catalog, revision, filled, mig, goal, at, block, work, held, blame, commands>>

Insert(n) ==
    /\ Writable(n)
    /\ filled' = filled \cup Ids(catalog, {n})
    /\ UNCHANGED <<catalog, revision, edges, mig, goal, at, block, work, doomed, held, blame,
                   commands>>

(* The session goes on: what RunBlock and Commit do to where it is, stated  *)
(* without the work they do, so that fairness is cheap to check.            *)
place == <<mig, at, block>>

MigrationGoesOn ==
    mig = "running" /\ mig' \in {"idle", "running"} /\ at' \in 0..6 /\ block' \in 1..2

SchemaNext ==
    \/ \E r \in Target : Migrate(r)
    \/ RunBlock \/ Commit
    \/ Die
    \/ \E e \in EdgeType : InsertEdge(e)
    \/ Insert("events")

------------------------------------------------------------------------------
(* The migrations can be trusted with the rows: at a revision, the database *)
(* is what the upgrades from nothing make it, whichever commands led there, *)
(* which failed and which died half way; what a command sees between two    *)
(* scripts is too. A downgrade undoes its upgrade, names included. The rows *)
(* of edges meet the CHECK in force, also those that other sessions wrote   *)
(* while the migration that adds it ran.                                    *)
CatalogAtRevision ==
    /\ catalog = Expected(revision)
    /\ \A e \in edges : Admits(e)
    /\ mig = "running" /\ block = 1 => work = Expected(at)

(* A command fails only on rows of edges that its CHECK forbids: at 0004,   *)
(* or at 0003's downgrade when a row comes in behind its DELETE. No path    *)
(* meets a name that is taken, one that is missing, or a table that another *)
(* still refers to.                                                         *)
OnlyEdgesFail ==
    blame # NoBlame =>
        /\ blame.on = "edges"
        /\ blame.do = "select" \/ (blame.do = "create" /\ blame.kind = "check")

(* Rows disappear only in a downgrade that commits: a table's when its      *)
(* revision is undone, the edges that 0001 does not allow when 0003 is. The *)
(* rows of the legacy events outlive 0006 in both directions.               *)
RowsKept ==
    [][ /\ \A t \in filled \ filled' : revision' < t[1]
        /\ \A e \in edges \ edges' :
              revision' < 3 /\ revision' < revision /\ (e = "supersedes" => revision' = 0)
      ]_schemaVars
==============================================================================
