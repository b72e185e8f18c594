------------------------------ MODULE Operations -------------------------------
(***************************************************************************)
(* The operator's day: collect commands and migrations on one database. The  *)
(* collectors of CollectAll write the tables that the scripts of Schema      *)
(* create, rename and drop; a write waits while a migration holds its table  *)
(* and fails when the committed schema has none of that name and shape.      *)
(***************************************************************************)
EXTENDS Schema, CollectAll

CONSTANT TableOf   \* TableOf[s]: the table that the collector of s writes

ASSUME TableOfSources ==
    TableOf \in [Source -> {"filings", "ohlcv", "news", "macro_series", "events"}]

opsVars == <<schemaVars, collectVars>>

(* The collectors write the tables of 0006; the events of 0001 have other   *)
(* columns.                                                                 *)
Known0006(n) == <<6, n>> \in Ids(catalog, {n})

TypeOK ==
    /\ CollectTypeOK
    /\ revision \in 0..6 /\ goal \in 0..6 /\ at \in 0..6
    /\ edges \subseteq EdgeType /\ doomed \subseteq edges
    /\ \A t \in filled \cup held : t \in {o.of : o \in catalog}
    /\ mig \in {"idle", "running"}
    /\ block \in 1..2
    /\ commands \in 0..MaxCommands

Init == SchemaInit /\ CollectInit

------------------------------------------------------------------------------
(* The collector in hand stores a document; or the table is missing; or the *)
(* document or the connection is at fault.                                  *)
StoreInTable ==
    /\ StoreDoc
    /\ Known0006(TableOf[requested[pos]])
    /\ Insert(TableOf[requested[pos]])

NoTable ==
    /\ FailDoc
    /\ ~Known0006(TableOf[requested[pos]])
    /\ UNCHANGED schemaVars

DocFault == FailDoc /\ UNCHANGED schemaVars

(* The row of the run in collector_runs, best effort: the command goes on   *)
(* without it. A lock makes it wait.                                        *)
RecordInTable == RecordRun /\ Insert("collector_runs")

RecordSkipped ==
    /\ RecordRun
    /\ ~Known0006("collector_runs")
    /\ UNCHANGED schemaVars

RecordFault == RecordRun /\ UNCHANGED schemaVars

(* The steps of the command itself, and what may end it or its collector.   *)
CommandStep ==
    /\ \/ GetEngine \/ CallSource \/ CallFails \/ EndDocs \/ Report
    /\ UNCHANGED schemaVars

CommandFault == (NoEngine \/ SourceRaises \/ Kill) /\ UNCHANGED schemaVars

CollectorStep == StoreInTable \/ NoTable \/ RecordInTable \/ RecordSkipped \/ CommandStep

Next ==
    \/ CollectorStep \/ DocFault \/ RecordFault \/ CommandFault
    \/ (\E m \in {"one", "all"}, q \in Request : Invoke(m, q)) /\ UNCHANGED schemaVars
    \/ SchemaNext /\ UNCHANGED collectVars

Spec == Init /\ [][Next]_opsVars

(* A running migration is not abandoned, PostgreSQL serves the waiters of a *)
(* lock in turn, and a collector that runs goes on.                         *)
Fairness ==
    /\ WF_place(MigrationGoesOn)
    /\ WF_opsVars(CommandStep)
    /\ SF_opsVars(StoreInTable \/ NoTable)
    /\ SF_opsVars(RecordInTable \/ RecordSkipped)

FairSpec == Spec /\ Fairness

------------------------------------------------------------------------------
(* No collect command hangs: it gets past every source of its list, through *)
(* missing tables, exceptions and the locks of migrations that succeed,     *)
(* fail or die, to an exit code.                                            *)
CommandsEnd == pc = "engine" ~> pc \in {"idle", "exited"}
==============================================================================
