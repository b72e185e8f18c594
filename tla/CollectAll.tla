------------------------------ MODULE CollectAll -------------------------------
(***************************************************************************)
(* The command line (src/cli): `stock collect <source>` runs one collector   *)
(* and `stock collect all --sources=...` runs a list of them one after the   *)
(* other, each isolated from the exceptions of the others; the exit code     *)
(* sums the runs up. A collector is reduced to what the command sees of it:  *)
(* documents that are stored or end in stats["failed"], the row that it      *)
(* leaves in collector_runs, or the exception that ends it.                  *)
(***************************************************************************)
EXTENDS Naturals, Sequences

CONSTANTS
    Source,       \* _KNOWN_SOURCES
    Incomplete,   \* the sources that collect all calls without an argument they require
    Silent,       \* the sources whose own command returns 0 whatever failed
    Name,         \* what a user may write in --sources
    Request,      \* the lists of names that users pass
    MaxDocs       \* bound: documents of one collector run

ASSUME CollectConstants ==
    /\ Source \subseteq Name
    /\ Incomplete \subseteq Source /\ Silent \subseteq Source
    /\ Request \subseteq Seq(Name)
    /\ MaxDocs \in Nat

VARIABLES
    pc,          \* where the command is
    mode,        \* "one" source or "all"
    requested,   \* the sources, in the order given
    pos,         \* the position of the source in hand
    todo,        \* the documents its run has left
    failing,     \* stats["failed"] of its run is not empty
    results,     \* results[s]: the status in the report, "none" before an entry
    code,        \* the exit code
    lost         \* history: the positions whose run raised or lost a document

collectVars == <<pc, mode, requested, pos, todo, failing, results, code, lost>>

Status == {"ok", "partial", "error"}

CollectTypeOK ==
    /\ pc \in {"idle", "engine", "next", "collect", "record", "exited"}
    /\ mode \in {"one", "all"}
    /\ requested \in Seq(Name)
    /\ pos \in Nat \ {0}
    /\ todo \in 0..MaxDocs
    /\ failing \in BOOLEAN
    /\ results \in [Source -> Status \cup {"none"}]
    /\ code \in 0..2
    /\ lost \subseteq DOMAIN requested

CollectInit ==
    /\ pc = "idle"
    /\ mode = "all"
    /\ requested = << >>
    /\ pos = 1
    /\ todo = 0
    /\ failing = FALSE
    /\ results = [s \in Source |-> "none"]
    /\ code = 0
    /\ lost = {}

Known(q) == \A i \in DOMAIN q : q[i] \in Source

------------------------------------------------------------------------------
Start(where, m, q, c) ==
    /\ pc' = where
    /\ mode' = m
    /\ requested' = q
    /\ pos' = 1
    /\ todo' = 0
    /\ failing' = FALSE
    /\ results' = [s \in Source |-> "none"]
    /\ code' = c
    /\ lost' = {}

(* A user gives a command. collect all looks at the names before anything   *)
(* else; the parser has no subcommand for an unknown one.                   *)
Invoke(m, q) ==
    /\ pc \in {"idle", "exited"}
    /\ m = "one" => Len(q) = 1 /\ Known(q)
    /\ IF Known(q) THEN Start("engine", m, q, 0) ELSE Start("exited", m, q, 2)

(* _dispatch and _engine are called outside the try.                        *)
GetEngine ==
    /\ pc = "engine"
    /\ pc' = "next"
    /\ UNCHANGED <<mode, requested, pos, todo, failing, results, code, lost>>

Exit(c) == pc' = "exited" /\ code' = c /\ UNCHANGED <<pos, results>>

NoEngine ==
    /\ pc = "engine"
    /\ Exit(1)
    /\ UNCHANGED <<mode, requested, todo, failing, lost>>

(* The entry of the source in hand is written over that of an earlier run.  *)
Enter(status) ==
    /\ results' = [results EXCEPT ![requested[pos]] = status]
    /\ pos' = pos + 1
    /\ pc' = "next"
    /\ UNCHANGED code

(* Faulty variant: the source that raised is tried again.                   *)
RaisedRetries ==
    IF mode = "all"
    THEN /\ results' = [results EXCEPT ![requested[pos]] = "error"]
         /\ pc' = "next"
         /\ UNCHANGED <<pos, code>>
    ELSE Exit(1)

(* An exception: collect all records it and goes on with the next source,   *)
(* a command of its own dies of it.                                         *)
Raised == IF mode = "all" THEN Enter("error") ELSE Exit(1)

CallSource ==
    /\ pc = "next"
    /\ pos <= Len(requested)
    /\ ~(mode = "all" /\ requested[pos] \in Incomplete)
    /\ pc' = "collect"
    /\ \E n \in 0..MaxDocs : todo' = n
    /\ failing' = FALSE
    /\ UNCHANGED <<mode, requested, pos, results, code, lost>>

(* dispatch["dart"](engine=engine): a TypeError.                            *)
CallFails ==
    /\ pc = "next"
    /\ pos <= Len(requested)
    /\ mode = "all" /\ requested[pos] \in Incomplete
    /\ Raised
    /\ lost' = lost \cup {pos}
    /\ UNCHANGED <<mode, requested, todo, failing>>

StoreDoc ==
    /\ pc = "collect"
    /\ todo > 0
    /\ todo' = todo - 1
    /\ UNCHANGED <<pc, mode, requested, pos, failing, results, code, lost>>

FailDoc ==
    /\ pc = "collect"
    /\ todo > 0
    /\ todo' = todo - 1
    /\ failing' = TRUE
    /\ lost' = lost \cup {pos}
    /\ UNCHANGED <<pc, mode, requested, pos, results, code>>

SourceRaises ==
    /\ pc = "collect"
    /\ Raised
    /\ lost' = lost \cup {pos}
    /\ UNCHANGED <<mode, requested, todo, failing>>

EndDocs ==
    /\ pc = "collect"
    /\ todo = 0
    /\ pc' = "record"
    /\ UNCHANGED <<mode, requested, pos, todo, failing, results, code, lost>>

(* Faulty variant: only exceptions count, not stats["failed"].              *)
ReturnedIgnoresFailed == IF mode = "all" THEN Enter("ok") ELSE Exit(0)

Returned ==
    IF mode = "all"
    THEN Enter(IF failing THEN "partial" ELSE "ok")
    ELSE Exit(IF failing /\ requested[pos] \notin Silent THEN 1 ELSE 0)

(* record_collector_run, whose failure changes nothing, and the return of   *)
(* the stats.                                                               *)
RecordRun ==
    /\ pc = "record"
    /\ Returned
    /\ UNCHANGED <<mode, requested, todo, failing, lost>>

(* The report and the exit code of collect all.                             *)
Report ==
    /\ pc = "next"
    /\ pos > Len(requested)
    /\ Exit(IF \E s \in Source : results[s] \in {"error", "partial"} THEN 1 ELSE 0)
    /\ UNCHANGED <<mode, requested, todo, failing, lost>>

(* The process dies, and tells nobody anything.                             *)
Kill ==
    /\ pc \notin {"idle", "exited"}
    /\ Start("idle", "all", << >>, 0)

CollectNext ==
    \/ \E m \in {"one", "all"}, q \in Request : Invoke(m, q)
    \/ GetEngine \/ NoEngine
    \/ CallSource \/ CallFails
    \/ StoreDoc \/ FailDoc \/ SourceRaises \/ EndDocs
    \/ RecordRun \/ Report \/ Kill

CollectSpec == CollectInit /\ [][CollectNext]_collectVars

------------------------------------------------------------------------------
LastRun(i) == \A j \in DOMAIN requested : j > i => requested[j] # requested[i]

Spoiled == \E i \in lost : LastRun(i)

OncePerName == \A i, j \in DOMAIN requested : requested[i] = requested[j] => i = j

(* The exit code can be acted on. 0 from collect all: every source of the   *)
(* list had its turn; and when no name is given twice, what the docstring   *)
(* of cmd_collect_all says: every one ran without failures. Of a name given *)
(* twice the entry of the last run is all that counts, so kind,kind may     *)
(* exit with 0 after a run that failed, which the docstring rules out: what *)
(* is true of such a list is that the last run of each name lost nothing.   *)
(* 1: such a run lost something, or no collector was called at all. 2: none *)
(* was. A command of its own tells the same of its run, unless it is that   *)
(* of dart.                                                                 *)
ExitTells ==
    pc = "exited" =>
        /\ code = 0 /\ mode = "all" => pos > Len(requested) /\ ~Spoiled
        /\ code = 0 /\ mode = "all" /\ OncePerName => lost = {}
        /\ code = 0 /\ mode = "one" => lost = {} \/ requested[1] \in Silent
        /\ code = 1 => lost # {} \/ pos = 1
        /\ code = 1 /\ mode = "all" => Spoiled \/ (lost = {} /\ pos = 1)
        /\ code = 2 => lost = {} /\ pos = 1
==============================================================================
