--------------------------- MODULE OperationsProofs ---------------------------
(***************************************************************************)
(* What TLAPS proves about the operator's day. The command line alone, for   *)
(* every set of sources and every list a user gives: the exit code tells     *)
(* what became of the last run of each source. The migrations, for any       *)
(* number of commands between any revisions: the committed database is that  *)
(* of its revision, and rows survive. And the two composed: what is proved   *)
(* of the command line alone holds beside migrations.                        *)
(***************************************************************************)
EXTENDS Operations, ScriptFacts, TLAPS

------------------------------------------------------------------------------
(* The command line. The report is the only memory the command has of its   *)
(* runs, so the invariant says what it holds at each position.              *)


Active == pc \notin {"idle", "exited"}

Bad(s) == results[s] \in {"error", "partial"}

(* The source s has lost something in the last of its runs before pos.      *)
Blamed(s) == \E i \in lost :
                /\ i < pos /\ requested[i] = s
                /\ \A j \in DOMAIN requested : i < j /\ j < pos => requested[j] # s

ReportHonest == Active /\ mode = "all" => \A s \in Source : Bad(s) <=> Blamed(s)

(* A run in hand has its failures in stats["failed"]; the positions behind  *)
(* it are done, those before it untouched.                                  *)
Places ==
    /\ Active => Known(requested)
    /\ pc = "engine" => pos = 1 /\ lost = {}
    /\ pc = "next" => \A i \in lost : i < pos
    /\ pc \in {"collect", "record"} =>
          pos <= Len(requested) /\ (\A i \in lost : i <= pos) /\ (failing <=> pos \in lost)
    /\ Active /\ mode = "one" => pos = 1 /\ Len(requested) = 1

CollectInv == CollectTypeOK /\ Places /\ ReportHonest /\ ExitTells

USE DEF Status

LEMMA CollectInitInv == CollectInit => CollectInv
  <1> SUFFICES ASSUME CollectInit PROVE CollectInv
    OBVIOUS
  <1>1. CollectTypeOK
    <2>1. results \in [Source -> Status \cup {"none"}] /\ requested \in Seq(Name)
      BY DEF CollectInit
    <2>2. pos \in Nat \ {0} /\ todo \in 0..MaxDocs /\ code \in 0..2
      BY CollectConstants DEF CollectInit
    <2> QED
      BY <2>1, <2>2 DEF CollectInit, CollectTypeOK
  <1>2. QED
    BY <1>1 DEF CollectInv, CollectInit, Places, ReportHonest, ExitTells, Active

(* A command begins, at the parser or at the engine, with nothing behind it. *)
LEMMA StartInv ==
  ASSUME NEW m \in {"one", "all"}, NEW q \in Request, NEW c \in 0..2,
         NEW w \in {"engine", "exited"},
         m = "one" => Len(q) = 1,
         w = "engine" => Known(q),
         w = "exited" => c = 2,
         Start(w, m, q, c)
  PROVE  CollectInv'
  <1>1. CollectTypeOK'
    <2>1. results' \in [Source -> Status \cup {"none"}] /\ requested' \in Seq(Name)
      BY CollectConstants DEF Start
    <2>2. pos' \in Nat \ {0} /\ todo' \in 0..MaxDocs /\ code' \in 0..2
      BY CollectConstants DEF Start
    <2> QED
      BY <2>1, <2>2 DEF Start, CollectTypeOK
  <1>2. Places'
    BY DEF Start, Places, Active, Known
  <1>3. ReportHonest'
    BY DEF Start, ReportHonest, Active, Bad, Blamed
  <1>4. ExitTells'
    BY DEF Start, ExitTells
  <1> QED
    BY <1>1, <1>2, <1>3, <1>4 DEF CollectInv

(* The entry of the run in hand replaces that of an earlier one.            *)
LEMMA EnterInv ==
  ASSUME CollectInv, Active, mode = "all", pos <= Len(requested),
         \A i \in lost : i <= pos,
         NEW status \in Status, Enter(status),
         lost' = lost \/ lost' = lost \cup {pos},
         status = "ok" <=> pos \notin lost',
         UNCHANGED <<mode, requested>>, todo' \in 0..MaxDocs, failing' \in BOOLEAN
  PROVE  CollectInv'
  <1> USE DEF CollectInv, CollectTypeOK
  <1>a. pos \in DOMAIN requested /\ requested[pos] \in Source
    BY DEF Places, Known
  <1>1. CollectTypeOK'
    BY <1>a DEF Enter
  <1>2. Places'
    BY <1>a DEF Places, Enter, Active, Known
  <1>3. ASSUME NEW s \in Source PROVE Bad(s)' <=> Blamed(s)'
    <2>1. CASE s = requested[pos]
      <3>1. Bad(s)' <=> pos \in lost'
        BY <2>1, <1>a DEF Bad, Enter
      <3>2. Blamed(s)' <=> pos \in lost'
        BY <2>1, <1>a DEF Blamed, Enter
      <3> QED
        BY <3>1, <3>2
    <2>2. CASE s # requested[pos]
      <3>1. Bad(s)' <=> Bad(s)
        BY <2>2, <1>a DEF Bad, Enter
      <3>2. Blamed(s)' <=> Blamed(s)
        BY <2>2, <1>a DEF Blamed, Enter
      <3>3. Bad(s) <=> Blamed(s)
        BY DEF ReportHonest
      <3> QED
        BY <3>1, <3>2, <3>3
    <2> QED
      BY <2>1, <2>2
  <1>4. ReportHonest'
    BY <1>3 DEF ReportHonest
  <1>5. ExitTells'
    BY DEF Enter, ExitTells
  <1> QED
    BY <1>1, <1>2, <1>4, <1>5

LEMMA CollectNextInv == CollectInv /\ [CollectNext]_collectVars => CollectInv'
  <1> SUFFICES ASSUME CollectInv, [CollectNext]_collectVars PROVE CollectInv'
    OBVIOUS
  <1>0. CASE UNCHANGED collectVars
    BY <1>0 DEF collectVars, CollectInv, CollectTypeOK, Places, ReportHonest, ExitTells, Active,
                Known, Bad, Blamed, LastRun, Spoiled, OncePerName
  <1>1. ASSUME NEW m \in {"one", "all"}, NEW q \in Request, Invoke(m, q) PROVE CollectInv'
    <2>1. CASE Known(q)
      BY <1>1, <2>1, StartInv DEF Invoke
    <2>2. CASE ~Known(q)
      BY <1>1, <2>2, StartInv DEF Invoke
    <2> QED
      BY <2>1, <2>2
  <1>2. CASE GetEngine
    <2>1. (CollectTypeOK /\ Places /\ ExitTells)'
      BY <1>2 DEF GetEngine, CollectInv, CollectTypeOK, Places, ExitTells, Active, Known
    <2>2. ReportHonest'
      BY <1>2 DEF GetEngine, CollectInv, ReportHonest, Active, Bad, Blamed
    <2> QED
      BY <2>1, <2>2 DEF CollectInv
  <1>3. CASE NoEngine
    <2>1. CollectTypeOK'
      BY <1>3 DEF NoEngine, Exit, CollectInv, CollectTypeOK
    <2>2. (Places /\ ReportHonest)'
      BY <1>3 DEF NoEngine, Exit, Places, ReportHonest, Active
    <2>3. ExitTells'
      BY <1>3 DEF NoEngine, Exit, CollectInv, Places, ExitTells, CollectTypeOK
    <2> QED
      BY <2>1, <2>2, <2>3 DEF CollectInv
  <1>4. CASE CallSource
    <2>1. CollectTypeOK'
      BY <1>4 DEF CallSource, CollectInv, CollectTypeOK
    <2>2. Places'
      BY <1>4 DEF CallSource, CollectInv, CollectTypeOK, Places, Active, Known
    <2>3. ReportHonest'
      BY <1>4 DEF CallSource, CollectInv, ReportHonest, Active, Bad, Blamed
    <2>4. ExitTells'
      BY <1>4 DEF CallSource, ExitTells
    <2> QED
      BY <2>1, <2>2, <2>3, <2>4 DEF CollectInv
  <1>5. CASE CallFails
    BY <1>5, EnterInv DEF CallFails, Raised, CollectInv, CollectTypeOK, Places, Active
  <1>6. CASE StoreDoc
    <2>1. (CollectTypeOK /\ Places /\ ExitTells)'
      BY <1>6, CollectConstants DEF StoreDoc, CollectInv, CollectTypeOK, Places, ExitTells, Active, Known
    <2>2. ReportHonest'
      BY <1>6 DEF StoreDoc, CollectInv, ReportHonest, Active, Bad, Blamed
    <2> QED
      BY <2>1, <2>2 DEF CollectInv
  <1>7. CASE FailDoc
    <2>1. (CollectTypeOK /\ Places /\ ExitTells)'
      BY <1>7, CollectConstants DEF FailDoc, CollectInv, CollectTypeOK, Places, ExitTells, Active, Known
    <2>2. ASSUME NEW s \in Source PROVE Blamed(s)' <=> Blamed(s)
      BY <1>7 DEF FailDoc, Blamed, CollectInv, CollectTypeOK
    <2>3. ReportHonest'
      BY <1>7, <2>2 DEF FailDoc, CollectInv, ReportHonest, Active, Bad
    <2> QED
      BY <2>1, <2>3 DEF CollectInv
  <1>8. CASE SourceRaises
    <2>1. CASE mode = "all"
      BY <1>8, <2>1, EnterInv DEF SourceRaises, Raised, CollectInv, CollectTypeOK, Places, Active
    <2>2. CASE mode = "one"
      <3>1. CollectTypeOK'
        BY <1>8, <2>2 DEF SourceRaises, Raised, Exit, CollectInv, CollectTypeOK, Places
      <3>2. (Places /\ ReportHonest)'
        BY <1>8, <2>2 DEF SourceRaises, Raised, Exit, Places, ReportHonest, Active
      <3>3. ExitTells'
        BY <1>8, <2>2 DEF SourceRaises, Raised, Exit, ExitTells
      <3> QED
        BY <3>1, <3>2, <3>3 DEF CollectInv
    <2> QED
      BY <2>1, <2>2 DEF CollectInv, CollectTypeOK
  <1>9. CASE EndDocs
    <2>1. (CollectTypeOK /\ Places /\ ExitTells)'
      BY <1>9 DEF EndDocs, CollectInv, CollectTypeOK, Places, ExitTells, Active, Known
    <2>2. ReportHonest'
      BY <1>9 DEF EndDocs, CollectInv, ReportHonest, Active, Bad, Blamed
    <2> QED
      BY <2>1, <2>2 DEF CollectInv
  <1>10. CASE RecordRun
    <2>1. CASE mode = "all"
      BY <1>10, <2>1, EnterInv DEF RecordRun, Returned, CollectInv, CollectTypeOK, Places, Active
    <2>2. CASE mode = "one"
      <3>1. CollectTypeOK'
        BY <1>10, <2>2 DEF RecordRun, Returned, Exit, CollectInv, CollectTypeOK
      <3>2. (Places /\ ReportHonest)'
        BY <1>10, <2>2 DEF RecordRun, Returned, Exit, Places, ReportHonest, Active
      <3>3. ExitTells'
        BY <1>10, <2>2 DEF RecordRun, Returned, Exit, ExitTells, CollectInv, Places, CollectTypeOK,
                           Active
      <3> QED
        BY <3>1, <3>2, <3>3 DEF CollectInv
    <2> QED
      BY <2>1, <2>2 DEF CollectInv, CollectTypeOK
  <1>11. CASE Report
    <2>1. CollectTypeOK'
      BY <1>11 DEF Report, Exit, CollectInv, CollectTypeOK
    <2>2. (Places /\ ReportHonest)'
      BY <1>11 DEF Report, Exit, Places, ReportHonest, Active
    <2>3. mode = "all" /\ Known(requested) /\ pos > Len(requested) /\ Len(requested) \in Nat
      BY <1>11 DEF Report, CollectInv, CollectTypeOK, Places, Active
    <2>4. (\E s \in Source : Bad(s)) <=> Spoiled
      <3>1. ASSUME NEW s \in Source, Bad(s) PROVE Spoiled
        <4>1. Blamed(s)
          BY <1>11, <2>3, <3>1 DEF Report, CollectInv, ReportHonest, Active
        <4> QED
          BY <4>1, <2>3 DEF Blamed, Spoiled, LastRun, CollectInv, CollectTypeOK
      <3>2. ASSUME NEW i \in lost, LastRun(i) PROVE \E s \in Source : Bad(s)
        <4>1. i \in DOMAIN requested /\ requested[i] \in Source /\ i < pos
          BY <2>3 DEF Known, CollectInv, CollectTypeOK
        <4>2. Blamed(requested[i])
          BY <3>2, <4>1, <2>3 DEF Blamed, LastRun, CollectInv, CollectTypeOK
        <4> QED
          BY <1>11, <2>3, <4>1, <4>2 DEF Report, CollectInv, ReportHonest, Active
      <3> QED
        BY <3>1, <3>2 DEF Spoiled
    <2>5. Spoiled' <=> Spoiled
      BY <1>11 DEF Report, Spoiled, LastRun
    <2>6. ASSUME OncePerName, NEW i \in lost PROVE Spoiled
      <3>1. DOMAIN requested \subseteq Nat /\ i \in DOMAIN requested
        BY DEF CollectInv, CollectTypeOK
      <3>2. \A j \in DOMAIN requested : j > i => requested[j] # requested[i]
        BY <2>6, <3>1 DEF OncePerName
      <3> QED
        BY <3>2 DEF Spoiled, LastRun
    <2>7. OncePerName' <=> OncePerName
      BY <1>11 DEF Report, OncePerName
    <2>8. code' = IF Spoiled THEN 1 ELSE 0
      BY <1>11, <2>4 DEF Report, Exit, Bad
    <2>9. OncePerName /\ ~Spoiled => lost = {}
      BY <2>6
    <2>10. Spoiled => lost # {}
      BY DEF Spoiled
    <2>11. mode' = mode /\ requested' = requested /\ pos' = pos /\ lost' = lost
      BY <1>11 DEF Report, Exit
    <2>12. ExitTells'
      BY <2>3, <2>5, <2>7, <2>8, <2>9, <2>10, <2>11 DEF ExitTells
    <2> QED
      BY <2>1, <2>2, <2>12 DEF CollectInv
  <1>12. CASE Kill
    <2>1. CollectTypeOK'
      <3>1. results' \in [Source -> Status \cup {"none"}] /\ requested' \in Seq(Name)
        BY <1>12 DEF Kill, Start
      <3>2. pos' \in Nat \ {0} /\ todo' \in 0..MaxDocs /\ code' \in 0..2
        BY <1>12, CollectConstants DEF Kill, Start
      <3> QED
        BY <1>12, <3>1, <3>2 DEF Kill, Start, CollectTypeOK
    <2>2. (Places /\ ReportHonest /\ ExitTells)'
      BY <1>12 DEF Kill, Start, Places, ReportHonest, ExitTells, Active
    <2> QED
      BY <2>1, <2>2 DEF CollectInv
  <1> QED
    BY <1>0, <1>1, <1>2, <1>3, <1>4, <1>5, <1>6, <1>7, <1>8, <1>9, <1>10, <1>11, <1>12
    DEF CollectNext

LEMMA CollectInvariance == CollectSpec => []CollectInv
  BY CollectInitInv, CollectNextInv, PTL DEF CollectSpec

(* The exit code of every command tells what became of its runs: whatever   *)
(* the list, however often it names a source, and whatever raises.          *)
THEOREM ExitCodesTell == CollectSpec => []ExitTells
  BY CollectInvariance, PTL DEF CollectInv

(* The state of the command is what the code can hold; in particular the    *)
(* report has entries for known sources only.                               *)
THEOREM CommandTypeCorrect == CollectSpec => []CollectTypeOK
  BY CollectInvariance, PTL DEF CollectInv

------------------------------------------------------------------------------
(* The migrations. A running one is on its way from the committed revision  *)
(* to its goal, and the transaction sees the catalog in which the block at  *)
(* hand begins.                                                             *)
Path ==
    mig = "running" =>
        /\ goal # revision
        /\ goal > revision => revision <= at /\ at <= goal
        /\ goal < revision => goal <= at /\ at <= revision
        /\ at = goal => block = 1
        /\ at # goal => block \in 1..Len(Leaving(at, goal))
        /\ work = Entry(at, goal, block)

(* The committed objects are those of the revision, the rows of edges meet  *)
(* their CHECK.                                                             *)
Committed ==
    /\ catalog = Expected(revision)
    /\ Meets(edges, catalog)
    /\ revision = 0 => edges = {}

(* Rows are deleted below 0003 only, and never those that 0001 allows.      *)
DoomedBelow ==
    doomed # {} => mig = "running" /\ goal < 3 /\ goal < revision /\ "supersedes" \notin doomed

(* The rows that stay meet the CHECKs that the transaction has so far: from *)
(* the first new one on, the lock of edges keeps other sessions away.       *)
Guarded ==
    mig = "running" =>
        /\ Meets(edges \ doomed, work)
        /\ revision = 0 \/ EdgesTable \in held \/ ChecksOf(work) \subseteq ChecksOf(catalog)

SchemaTypes ==
    /\ revision \in 0..6 /\ goal \in 0..6 /\ at \in 0..6
    /\ edges \subseteq EdgeType /\ doomed \subseteq edges
    /\ \A t \in filled \cup held : t \in {o.of : o \in catalog}
    /\ mig \in {"idle", "running"}
    /\ block \in 1..2
    /\ commands \in 0..MaxCommands

SchemaInv == SchemaTypes /\ Committed /\ Path /\ DoomedBelow /\ Guarded /\ OnlyEdgesFail

(* At 0 there is nothing; from 1 on there is one table edges.               *)
LEMMA EdgesAt ==
  ASSUME NEW r \in 0..6
  PROVE  /\ r = 0 => Expected(r) = {}
         /\ r # 0 => Tables(Expected(r), "edges") # {}
         /\ r # 0 => EdgesTable \in Ids(Expected(r), {"edges"}) /\ EdgesTable \in Of(Expected(r))
  <1>1. CASE r = 0
    BY <1>1 DEF Expected
  <1>2. CASE r # 0
    <2>1. EdgesTable \in Ids(Expected(r), {"edges"})
      BY <1>2, OneEdgesTable
    <2>2. PICK x \in Expected(r) : x.kind = "table" /\ x.name = "edges" /\ x.of = EdgesTable
      BY <2>1 DEF Ids
    <2> QED
      BY <1>2, <2>1, <2>2 DEF Tables, Of
  <1> QED
    BY <1>1, <1>2

LEMMA SchemaInitInv == SchemaInit => SchemaInv
  <1> SUFFICES ASSUME SchemaInit PROVE SchemaInv
    OBVIOUS
  <1>1. SchemaTypes
    BY SchemaConstants DEF SchemaInit, SchemaTypes
  <1>2. Committed
    <2>1. Meets(edges, catalog)
      BY DEF SchemaInit, Meets, ChecksOf, Admits
    <2>2. revision = 0 => edges = {}
      BY <1>1, EdgesAt DEF SchemaInit, SchemaTypes, Admits, Tables
    <2> QED
      BY <2>1, <2>2 DEF SchemaInit, Committed
  <1> QED
    BY <1>1, <1>2 DEF SchemaInit, SchemaInv, Path, DoomedBelow, Guarded, OnlyEdgesFail

LEMMA MigrateInv ==
  ASSUME SchemaInv, NEW r \in Target, Migrate(r)
  PROVE  SchemaInv'
  <1> USE DEF Migrate, SchemaInv
  <1>1. SchemaTypes'
    BY SchemaConstants DEF SchemaTypes
  <1>2. Committed'
    BY DEF Committed
  <1>3. Path'
    <2>1. r \in 0..6 /\ revision \in 0..6
      BY SchemaConstants DEF SchemaTypes
    <2>2. Len(Leaving(revision, r)) \in 1..2
      BY <2>1, TwoBlocks
    <2>3. work' = Entry(revision, r, 1)
      BY DEF Committed, Entry
    <2> QED
      BY <2>1, <2>2, <2>3 DEF Path
  <1>4. DoomedBelow'
    BY DEF DoomedBelow
  <1>5. Guarded'
    BY DEF Guarded, Committed, DoomedBelow, Meets
  <1> QED
    BY <1>1, <1>2, <1>3, <1>4, <1>5 DEF OnlyEdgesFail

(* Nothing is left of a transaction that is rolled back.                    *)
LEMMA RollbackInv ==
  ASSUME SchemaInv, Rollback, OnlyEdgesFail'
  PROVE  SchemaInv'
  <1> USE DEF Rollback, SchemaInv
  <1>1. SchemaTypes'
    BY DEF SchemaTypes
  <1>2. Committed'
    BY DEF Committed
  <1> QED
    BY <1>1, <1>2 DEF Path, DoomedBelow, Guarded

(* What the block at hand does, from BlocksLead.                            *)
LEMMA BlockLeads ==
  ASSUME SchemaInv, mig = "running", at # goal,
         NEW done, done = Run(work, edges \ doomed, Script[block], at + 1)
  PROVE  /\ Script = Leaving(at, goal)
         /\ block \in 1..Len(Script) /\ Len(Script) \in 1..2
         /\ IF done.failed = NoBlame
            THEN /\ done.cat = IF block < Len(Script) THEN Entry(at, goal, block + 1)
                                                      ELSE Expected(Beyond(at, goal))
                 /\ Meets(edges \ doomed, done.cat)
                 /\ EdgesTable \in done.held \/ ChecksOf(done.cat) \subseteq ChecksOf(work)
            ELSE /\ done.failed.on = "edges"
                 /\ \/ done.failed.do = "select"
                    \/ done.failed.do = "create" /\ done.failed.kind = "check"
  <1>1. at \in 0..6 /\ goal \in 0..6 /\ edges \ doomed \in SUBSET EdgeType
    BY DEF SchemaInv, SchemaTypes
  <1>2. Script = Leaving(at, goal)
    BY DEF Script, Leaving
  <1>3. block \in 1..Len(Script) /\ Len(Script) \in 1..2 /\ work = Entry(at, goal, block)
    BY <1>1, <1>2, TwoBlocks DEF SchemaInv, Path
  <1>4. Meets(edges \ doomed, work)
    BY DEF SchemaInv, Guarded
  <1>5. done = Run(Entry(at, goal, block), edges \ doomed, Leaving(at, goal)[block], at + 1)
    BY <1>2, <1>3
  <1>6. Leads(at, goal, block, edges \ doomed)
    BY <1>1, <1>2, <1>3, BlocksLead
  <1> QED
    BY <1>2, <1>3, <1>4, <1>5, <1>6 DEF Leads

LEMMA RunBlockInv ==
  ASSUME SchemaInv, RunBlock
  PROVE  SchemaInv'
  <1> DEFINE done == Run(work, edges \ doomed, Script[block], at + 1)
  <1>0. mig = "running" /\ at # goal
    BY DEF RunBlock
  <1>1. /\ Script = Leaving(at, goal)
        /\ block \in 1..Len(Script) /\ Len(Script) \in 1..2
        /\ IF done.failed = NoBlame
           THEN /\ done.cat = IF block < Len(Script) THEN Entry(at, goal, block + 1)
                                                     ELSE Expected(Beyond(at, goal))
                /\ Meets(edges \ doomed, done.cat)
                /\ EdgesTable \in done.held \/ ChecksOf(done.cat) \subseteq ChecksOf(work)
           ELSE /\ done.failed.on = "edges"
                /\ \/ done.failed.do = "select"
                   \/ done.failed.do = "create" /\ done.failed.kind = "check"
    BY <1>0, BlockLeads
  <1>2. CASE done.failed # NoBlame
    <2>1. blame' = done.failed /\ Rollback
      BY <1>2 DEF RunBlock
    <2>2. OnlyEdgesFail'
      BY <1>1, <1>2, <2>1 DEF OnlyEdgesFail
    <2> QED
      BY <2>1, <2>2, RollbackInv
  <1>3. CASE done.failed = NoBlame
    <2>1. /\ work' = done.cat
          /\ held' = held \cup (done.held \cap {o.of : o \in catalog})
          /\ doomed' = doomed \cup DeletedBy(Script[block])
          /\ IF block < Len(Script)
             THEN block' = block + 1 /\ at' = at
             ELSE block' = 1 /\ at' = IF at < goal THEN at + 1 ELSE at - 1
          /\ UNCHANGED <<catalog, revision, edges, filled, mig, goal, blame, commands>>
      BY <1>3 DEF RunBlock
    <2> HIDE DEF done
    <2>2. SchemaTypes'
      <3>1. at' \in 0..6 /\ block' \in 1..2
        <4>1. PICK n \in 1..2 : n = Len(Script)
          BY <1>1
        <4>2. at \in 0..6 /\ goal \in 0..6 /\ block \in 1..2
          BY DEF SchemaInv, SchemaTypes
        <4>3. CASE block < n
          <5>1. block + 1 \in 1..2
            BY <4>2, <4>3
          <5>2. block' = block + 1 /\ at' = at
            BY <2>1, <4>1, <4>3
          <5> QED
            BY <4>2, <5>1, <5>2
        <4>4. CASE ~(block < n)
          BY <1>0, <2>1, <4>1, <4>2, <4>4
        <4> QED
          BY <4>3, <4>4
      <3>2. doomed' \subseteq edges'
        BY <2>1 DEF SchemaInv, SchemaTypes, DeletedBy
      <3>3. \A t \in (filled \cup held)' : t \in {o.of : o \in catalog'}
        BY <2>1 DEF SchemaInv, SchemaTypes
      <3> QED
        BY <2>1, <3>1, <3>2, <3>3 DEF SchemaInv, SchemaTypes
    <2>3. Committed'
      BY <2>1 DEF SchemaInv, Committed
    <2>4. Path'
      <3>1. CASE block < Len(Script)
        BY <1>0, <1>1, <1>3, <2>1, <3>1 DEF SchemaInv, SchemaTypes, Path
      <3>2. CASE ~(block < Len(Script))
        <4>1. block' = 1 /\ at' = Beyond(at, goal) /\ work' = Expected(at')
          BY <1>1, <1>3, <2>1, <3>2 DEF Beyond
        <4>2. work' = Entry(at', goal', block')
          BY <4>1 DEF Entry
        <4>3. at' # goal' => Len(Leaving(at', goal')) \in 1..2
          BY <2>2, TwoBlocks DEF SchemaTypes
        <4>4. /\ goal > revision => revision <= at' /\ at' <= goal
              /\ goal < revision => goal <= at' /\ at' <= revision
          BY <1>0, <4>1 DEF SchemaInv, SchemaTypes, Path, Beyond
        <4>5. at' # goal' => block' \in 1..Len(Leaving(at', goal'))
          BY <4>1, <4>3
        <4>6. goal' # revision' /\ UNCHANGED <<goal, revision>>
          BY <1>0, <2>1 DEF SchemaInv, Path
        <4> QED
          BY <4>1, <4>2, <4>4, <4>5, <4>6 DEF Path
      <3> QED
        BY <3>1, <3>2
    <2>5. DoomedBelow'
      <3>1. Deletes(Script[block]) => at = 3 /\ goal < 3
        BY <1>0, <1>1, OneDelete DEF SchemaInv, SchemaTypes
      <3> QED
        BY <1>0, <2>1, <3>1 DEF SchemaInv, SchemaTypes, DoomedBelow, DeletedBy, Path
    <2>6. Guarded'
      <3>1. Meets(edges \ doomed', done.cat)
        BY <1>1, <1>3, <2>1 DEF Meets
      <3>2. revision # 0 => EdgesTable \in {o.of : o \in catalog}
        BY EdgesAt DEF SchemaInv, SchemaTypes, Committed, Of
      <3>3. revision = 0 \/ EdgesTable \in held' \/ ChecksOf(done.cat) \subseteq ChecksOf(catalog)
        BY <1>0, <1>1, <1>3, <2>1, <3>2 DEF SchemaInv, Guarded
      <3> QED
        BY <2>1, <3>1, <3>3 DEF Guarded
    <2>7. OnlyEdgesFail'
      BY <2>1 DEF SchemaInv, OnlyEdgesFail
    <2> QED
      BY <2>2, <2>3, <2>4, <2>5, <2>6, <2>7 DEF SchemaInv
  <1> QED
    BY <1>2, <1>3

LEMMA CommitInv ==
  ASSUME SchemaInv, Commit
  PROVE  SchemaInv'
  <1>1. work = Expected(goal) /\ catalog' = Expected(goal) /\ revision' = goal /\ mig' = "idle"
    BY DEF Commit, SchemaInv, Path, Entry
  <1>2. edges' = {} \/ (edges' = edges \ doomed /\ EdgesTable \in {o.of : o \in work})
    BY DEF Commit, EdgesTable
  <1>3. SchemaTypes'
    <2>1. \A t \in (filled \cup held)' : t \in {o.of : o \in catalog'}
      BY DEF Commit
    <2> QED
      BY <1>2, <2>1 DEF Commit, SchemaInv, SchemaTypes
  <1>4. Committed'
    <2>1. Meets(edges', catalog')
      <3>1. Meets(edges \ doomed, work)
        BY DEF Commit, SchemaInv, Guarded
      <3> QED
        BY <1>2, <3>1 DEF Commit, Meets
    <2>2. goal = 0 => edges' = {}
      BY <1>1, <1>2 DEF Expected
    <2> QED
      BY <1>1, <2>1, <2>2 DEF Committed
  <1>5. Path' /\ Guarded' /\ DoomedBelow' /\ OnlyEdgesFail'
    BY <1>1 DEF Commit, SchemaInv, Path, Guarded, DoomedBelow, OnlyEdgesFail
  <1> QED
    BY <1>3, <1>4, <1>5 DEF SchemaInv

(* A row written beside a migration meets the CHECKs of its transaction:    *)
(* the table is not held, so there is no new one.                           *)
LEMMA InsertEdgeInv ==
  ASSUME SchemaInv, NEW e \in EdgeType, InsertEdge(e)
  PROVE  SchemaInv'
  <1>1. SchemaTypes'
    BY DEF InsertEdge, SchemaInv, SchemaTypes
  <1>2. revision # 0
    BY EdgesAt DEF InsertEdge, Writable, Tables, SchemaInv, SchemaTypes, Committed
  <1>3. \A o \in ChecksOf(catalog) : e \in Allowed(o.name)
    BY DEF InsertEdge, Admits, ChecksOf
  <1>4. Committed'
    BY <1>2, <1>3 DEF InsertEdge, SchemaInv, Committed, Meets
  <1>5. Guarded'
    <2>1. EdgesTable \notin held
      BY <1>2, EdgesAt DEF InsertEdge, Writable, SchemaInv, SchemaTypes, Committed
    <2>2. mig = "running" => \A o \in ChecksOf(work) : e \in Allowed(o.name)
      BY <1>2, <1>3, <2>1 DEF SchemaInv, Guarded
    <2>3. mig = "running" => Meets((edges \ doomed)', work)
      BY <2>2 DEF InsertEdge, SchemaInv, Guarded, Meets
    <2> QED
      BY <2>3 DEF InsertEdge, SchemaInv, Guarded
  <1>6. Path' /\ DoomedBelow' /\ OnlyEdgesFail'
    BY DEF InsertEdge, SchemaInv, Path, DoomedBelow, OnlyEdgesFail
  <1> QED
    BY <1>1, <1>4, <1>5, <1>6 DEF SchemaInv

LEMMA InsertInv ==
  ASSUME SchemaInv, NEW n, Insert(n)
  PROVE  SchemaInv'
  <1>1. SchemaTypes'
    BY DEF Insert, Ids, SchemaInv, SchemaTypes
  <1> QED
    BY <1>1 DEF Insert, SchemaInv, Committed, Path, DoomedBelow, Guarded, OnlyEdgesFail

(* The steps that change the schema or its rows, in the composition: a      *)
(* collector may write any table.                                           *)
SchemaMove == SchemaNext \/ \E n : Insert(n)

LEMMA SchemaNextInv == SchemaInv /\ [SchemaMove]_schemaVars => SchemaInv'
  <1> SUFFICES ASSUME SchemaInv, [SchemaMove]_schemaVars PROVE SchemaInv'
    OBVIOUS
  <1>1. CASE UNCHANGED schemaVars
    BY <1>1 DEF schemaVars, databaseVars, SchemaInv, SchemaTypes, Committed, Path, DoomedBelow,
                Guarded, OnlyEdgesFail
  <1>2. ASSUME Die PROVE SchemaInv'
    <2>1. OnlyEdgesFail'
      BY <1>2 DEF Die, SchemaInv, OnlyEdgesFail
    <2> QED
      BY <1>2, <2>1, RollbackInv DEF Die
  <1> QED
    BY <1>1, <1>2, MigrateInv, RunBlockInv, CommitInv, InsertEdgeInv, InsertInv
    DEF SchemaMove, SchemaNext

(* A step that takes rows away is the commit of a downgrade.                *)
LEMMA SchemaNextKeepsRows ==
  ASSUME SchemaInv, SchemaMove
  PROVE  /\ \A t \in filled \ filled' : revision' < t[1]
         /\ \A e \in edges \ edges' :
               revision' < 3 /\ revision' < revision /\ (e = "supersedes" => revision' = 0)
  <1>1. CASE Commit
    <2>1. /\ goal \in 0..6 /\ revision \in 0..6 /\ goal # revision /\ revision' = goal
          /\ catalog = Expected(revision) /\ work = Expected(goal)
      BY <1>1 DEF Commit, SchemaInv, SchemaTypes, Committed, Path, Entry
    <2>2. ASSUME NEW t \in filled \ filled' PROVE goal < t[1]
      <3>1. t \in Of(Expected(revision)) /\ t \notin Of(Expected(goal))
        BY <1>1, <2>1, <2>2 DEF Commit, Of, SchemaInv, SchemaTypes
      <3> QED
        BY <2>1, <3>1, TablesStay
    <2>3. ASSUME NEW e \in edges \ edges'
          PROVE goal < 3 /\ goal < revision /\ (e = "supersedes" => goal = 0)
      <3>1. CASE EdgesTable \in Of(work)
        <4>1. e \in doomed
          BY <1>1, <2>3, <3>1 DEF Commit, EdgesTable, Of
        <4> QED
          BY <4>1 DEF SchemaInv, DoomedBelow
      <3>2. CASE EdgesTable \notin Of(work)
        <4>1. goal = 0
          BY <2>1, <3>2, EdgesAt
        <4> QED
          BY <2>1, <4>1
      <3> QED
        BY <3>1, <3>2
    <2> QED
      BY <2>1, <2>2, <2>3
  <1>2. CASE ~Commit
    <2>1. filled \subseteq filled' /\ edges \subseteq edges'
      BY <1>2 DEF SchemaMove, SchemaNext, Migrate, RunBlock, Rollback, Die, InsertEdge, Insert
    <2> QED
      BY <2>1
  <1> QED
    BY <1>1, <1>2

(* The edges that meet the CHECKs of a revision are those it admits.        *)
LEMMA MeetsAdmitted ==
  ASSUME NEW r \in 1..6, NEW rows \in SUBSET EdgeType
  PROVE  Meets(rows, Expected(r)) <=> rows \subseteq Admitted(r)
  BY ChecksAdmit DEF Meets

(* The edges that a commit leaves are those that its revision admits: the   *)
(* rest was deleted, or no CHECK was added that forbids it.                 *)
LEMMA CommitLeavesAdmitted ==
  ASSUME SchemaInv, Commit
  PROVE  /\ edges' = edges \cap Admitted(goal)
         /\ goal < 3 \/ edges \subseteq Admitted(goal)
  <1>1. /\ goal \in 0..6 /\ work = Expected(goal)
        /\ edges \subseteq EdgeType /\ doomed \subseteq edges
    BY DEF Commit, SchemaInv, SchemaTypes, Path, Entry
  <1>2. CASE goal = 0
    <2>1. work = {}
      BY <1>1, <1>2, EdgesAt
    <2>2. edges' = {}
      BY <2>1 DEF Commit
    <2> QED
      BY <1>2, <2>2 DEF Admitted
  <1>3. CASE goal # 0
    <2>1. edges' = edges \ doomed
      BY <1>1, <1>3, EdgesAt DEF Commit, Of, EdgesTable
    <2>2. edges \ doomed \subseteq Admitted(goal)
      BY <1>1, <1>3, MeetsAdmitted DEF Commit, SchemaInv, Guarded
    <2>3. doomed # {} => goal < 3 /\ "supersedes" \notin doomed
      BY DEF SchemaInv, DoomedBelow
    <2>4. goal < 3 => Admitted(goal) \subseteq {"supersedes"}
      BY <1>1, <1>3 DEF Admitted
    <2> QED
      BY <1>1, <2>1, <2>2, <2>3, <2>4
  <1> QED
    BY <1>2, <1>3

LEMMA CommitIsMigration ==
  ASSUME SchemaInv, Commit
  PROVE  MigrateTo(goal) /\ goal \in 0..6
  <1>1. /\ goal \in 0..6 /\ revision \in 0..6 /\ revision' = goal
        /\ catalog = Expected(revision) /\ work = Expected(goal) /\ catalog' = Expected(goal)
    BY DEF Commit, SchemaInv, SchemaTypes, Committed, Path, Entry
  <1>2. filled' = {t \in filled : t[1] <= goal}
    <2>1. filled' = filled \cap Of(Expected(goal))
      BY <1>1 DEF Commit, Of
    <2>2. \A t \in filled : t \in Of(Expected(revision))
      BY <1>1 DEF SchemaInv, SchemaTypes, Of
    <2> QED
      BY <1>1, <2>1, <2>2, TablesStay
  <1> QED
    BY <1>1, <1>2, CommitLeavesAdmitted DEF MigrateTo

LEMMA SchemaNextAtomic ==
  ASSUME SchemaInv, [SchemaMove]_schemaVars
  PROVE  [DatabaseNext]_databaseVars
  <1>1. CASE Commit
    BY <1>1, CommitIsMigration DEF DatabaseNext
  <1>2. ASSUME NEW e \in EdgeType, InsertEdge(e) PROVE DatabaseNext
    <2>1. revision \in 1..6 /\ catalog = Expected(revision)
      BY <1>2, EdgesAt DEF InsertEdge, Writable, Tables, SchemaInv, SchemaTypes, Committed
    <2>2. e \in Admitted(revision)
      BY <1>2, <2>1, ChecksAdmit DEF InsertEdge, Admits, ChecksOf
    <2> QED
      BY <1>2, <2>2 DEF InsertEdge, WriteEdge, DatabaseNext
  <1>3. ASSUME NEW n, Insert(n) PROVE DatabaseNext
    <2>1. PICK t \in catalog : t.kind = "table" /\ t.name = n
      BY <1>3 DEF Insert, Writable, Tables
    <2>2. Write(n)
      BY <1>3 DEF Insert, Write
    <2> QED
      BY <2>1, <2>2 DEF DatabaseNext
  <1>4. CASE UNCHANGED schemaVars \/ RunBlock \/ Die \/ \E r \in Target : Migrate(r)
    BY <1>4 DEF schemaVars, databaseVars, RunBlock, Die, Rollback, Migrate
  <1> QED
    BY <1>1, <1>2, <1>3, <1>4 DEF SchemaMove, SchemaNext

------------------------------------------------------------------------------
(* The composition: each step of the operator's day is a step of the command *)
(* line or none, and a step of the database or none.                        *)
LEMMA NextParts == [Next]_opsVars => [CollectNext]_collectVars /\ [SchemaMove]_schemaVars
  <1> SUFFICES ASSUME [Next]_opsVars PROVE [CollectNext]_collectVars /\ [SchemaMove]_schemaVars
    OBVIOUS
  <1>1. CASE UNCHANGED opsVars
    BY <1>1 DEF opsVars
  <1>2. CASE CollectorStep \/ DocFault \/ RecordFault \/ CommandFault
    BY <1>2 DEF CollectorStep, StoreInTable, NoTable, RecordInTable, RecordSkipped, CommandStep,
                DocFault, RecordFault, CommandFault, CollectNext, SchemaMove
  <1>3. CASE (\E m \in {"one", "all"}, q \in Request : Invoke(m, q)) /\ UNCHANGED schemaVars
    BY <1>3 DEF CollectNext
  <1>4. CASE SchemaNext /\ UNCHANGED collectVars
    BY <1>4 DEF SchemaMove
  <1> QED
    BY <1>1, <1>2, <1>3, <1>4 DEF Next

(* Beside migrations the command line is the one of CollectAll: a missing   *)
(* table or a lock gives it no behaviour that it does not have alone.       *)
THEOREM OperationsImplementCollect == Spec => CollectSpec
  <1>1. Init => CollectInit
    BY DEF Init
  <1> QED
    BY <1>1, NextParts, PTL DEF Spec, CollectSpec

LEMMA Invariance == Spec => [](CollectInv /\ SchemaInv)
  <1>1. Init => SchemaInv
    BY SchemaInitInv DEF Init
  <1>2. SchemaInv /\ [Next]_opsVars => SchemaInv'
    BY NextParts, SchemaNextInv
  <1>3. Spec => []SchemaInv
    BY <1>1, <1>2, PTL DEF Spec
  <1> QED
    BY <1>3, OperationsImplementCollect, CollectInvariance, PTL

(* The exit code tells what became of the runs, also when migrations rename *)
(* and drop the tables under them.                                          *)
THEOREM ExitCodesTellBesideMigrations == Spec => []ExitTells
  BY OperationsImplementCollect, ExitCodesTell, PTL

(* The state of the composition is what the code and the database can hold. *)
THEOREM TypeCorrect == Spec => []TypeOK
  <1>1. CollectInv /\ SchemaInv => TypeOK
    BY DEF CollectInv, SchemaInv, SchemaTypes, TypeOK
  <1> QED
    BY <1>1, Invariance, PTL

(* Whatever sequence of upgrades and downgrades is given, fails or dies,    *)
(* and whatever is written meanwhile, the committed database is that of its *)
(* revision, and its rows meet its CHECKs.                                  *)
THEOREM MigrationsLeadToTheRevision == Spec => []CatalogAtRevision
  <1>1. SchemaInv => CatalogAtRevision
    <2> SUFFICES ASSUME SchemaInv PROVE CatalogAtRevision
      OBVIOUS
    <2>1. ASSUME NEW e \in edges PROVE Admits(e)
      <3>1. revision \in 0..6 /\ revision # 0 /\ catalog = Expected(revision)
        BY DEF SchemaInv, SchemaTypes, Committed
      <3>2. Tables(catalog, "edges") # {}
        BY <3>1, EdgesAt
      <3>3. \A o \in catalog : o.kind = "check" => e \in Allowed(o.name)
        BY DEF SchemaInv, Committed, Meets, ChecksOf
      <3> QED
        BY <3>2, <3>3 DEF Admits
    <2>2. mig = "running" /\ block = 1 => work = Expected(at)
      BY DEF SchemaInv, Path, Entry
    <2> QED
      BY <2>1, <2>2 DEF CatalogAtRevision, SchemaInv, Committed
  <1> QED
    BY <1>1, Invariance, PTL

(* Migrations are atomic to everybody else: whatever a command does between *)
(* its statements, and whatever the others write meanwhile, the committed   *)
(* database behaves as one in which a migration is a single step.           *)
THEOREM MigrationsAreAtomic == Spec => DatabaseSpec
  <1>1. Init => DatabaseInit
    <2> SUFFICES ASSUME Init PROVE DatabaseInit
      OBVIOUS
    <2>1. SchemaInv
      BY SchemaInitInv DEF Init
    <2>2. edges \subseteq Admitted(revision)
      BY <2>1, MeetsAdmitted DEF SchemaInv, SchemaTypes, Committed
    <2> QED
      BY <2>1, <2>2 DEF SchemaInv, SchemaTypes, Committed, DatabaseInit
  <1>2. SchemaInv /\ [Next]_opsVars => [DatabaseNext]_databaseVars
    BY NextParts, SchemaNextAtomic
  <1> QED
    BY <1>1, <1>2, Invariance, PTL DEF Spec, DatabaseSpec

(* No migration fails but for a row of edges that its CHECK forbids.        *)
THEOREM MigrationsFailOnEdgesOnly == Spec => []OnlyEdgesFail
  BY Invariance, PTL DEF SchemaInv

(* Rows disappear only in a downgrade that commits, and only those that the *)
(* revision cannot hold.                                                    *)
THEOREM MigrationsKeepRows == Spec => RowsKept
  <1>1. SchemaInv /\ [Next]_opsVars =>
          [/\ \A t \in filled \ filled' : revision' < t[1]
           /\ \A e \in edges \ edges' :
                 revision' < 3 /\ revision' < revision /\ (e = "supersedes" => revision' = 0)
          ]_schemaVars
    BY NextParts, SchemaNextKeepsRows
  <1> QED
    BY <1>1, Invariance, PTL DEF Spec, RowsKept
==============================================================================
