------------------------------- MODULE Database --------------------------------
(***************************************************************************)
(* What the migrations promise to the sessions that use the database: a      *)
(* migration happens at once or not at all, its outcome depends on the       *)
(* revision it leads to and the rows there are, and a row that the revision  *)
(* can hold stays.                                                           *)
(***************************************************************************)
EXTENDS Scripts

VARIABLES
    catalog,    \* the committed objects: tables, their indexes, columns, CHECKs
    revision,   \* the committed alembic_version
    edges,      \* the edge types that have committed rows
    filled      \* the other tables that have committed rows

databaseVars == <<catalog, revision, edges, filled>>

DatabaseInit ==
    /\ revision \in 0..6
    /\ catalog = Expected(revision)
    /\ edges \in SUBSET Admitted(revision)
    /\ filled \in SUBSET {o.of : o \in catalog}

(* The rows of a table go with the table. Edges that the revision does not  *)
(* admit stop a migration to 0003 or above, and are deleted by one below.   *)
MigrateTo(r) ==
    /\ r < 3 \/ edges \subseteq Admitted(r)
    /\ revision' = r
    /\ catalog' = Expected(r)
    /\ edges' = edges \cap Admitted(r)
    /\ filled' = {t \in filled : t[1] <= r}

WriteEdge(e) ==
    /\ e \in Admitted(revision)
    /\ edges' = edges \cup {e}
    /\ UNCHANGED <<catalog, revision, filled>>

Write(n) ==
    /\ filled' = filled \cup Ids(catalog, {n})
    /\ UNCHANGED <<catalog, revision, edges>>

DatabaseNext ==
    \/ \E r \in 0..6 : MigrateTo(r)
    \/ \E e \in EdgeType : WriteEdge(e)
    \/ \E t \in {o \in catalog : o.kind = "table"} : Write(t.name)

(* Migrations are atomic. The scripts of a path read rows, delete them and  *)
(* add CHECKs in separate statements while other sessions commit rows in    *)
(* between, and may fail or die at any of them; whoever looks at the        *)
(* committed database sees a single step from one revision to another, that *)
(* keeps the rows of every table that stays and exactly the edges that the  *)
(* revision admits. Also the legacy events survive 0006 both ways.          *)
DatabaseSpec == DatabaseInit /\ [][DatabaseNext]_databaseVars
==============================================================================
