----------------------------- MODULE MacroProofs -----------------------------
(***************************************************************************)
(* Theorems about MacroCollector, for any catalog, window and values. The   *)
(* argument: every stored value has gone through NUMERIC(20, 6), so that an *)
(* observation classified as unchanged equals its own stored form           *)
(* (StoredInv), and a series is fetched and written only while it has no    *)
(* outcome yet (LoopInv).                                                   *)
(***************************************************************************)
EXTENDS MacroCollector, TLAPS

StoredInv == \A x \in Cell : macroSeries[x] # None => \E v \in Value : macroSeries[x] = Stored[v]

Working == {"fetch", "upsert"}

LoopInv ==
    /\ pc = "idle" => \A s \in Series : outcome[s] = None
    /\ pc # "idle" => \A s \in Series :
          outcome[s] = None <=> (s \in todo \/ (pc \in Working /\ s = cur))
    /\ pc = "record" => todo = {}

(* A string finds no stored row, so a run keyed by strings has no revision. *)
SilentInv == keys # "date" => revisions = {}

IInv == TypeOK /\ StoredInv /\ LoopInv /\ SilentInv /\ CountedIsStored /\ SeriesAccounted

------------------------------------------------------------------------------
(* Nothing is observed, stored or counted.                                  *)
LEMMA IInvInit == Init => IInv
<1> SUFFICES ASSUME Init PROVE IInv
  OBVIOUS
<1>0. \A x \in Cell : macroSeries[x] = None /\ fetched[x] = None
  BY DEF Init, NoValues
<1>1. TypeOK
  BY MacroConstants DEF Init, TypeOK, NoValues, Day
<1>2. StoredInv /\ CountedIsStored
  BY <1>0 DEF StoredInv, CountedIsStored
<1>3. LoopInv /\ SeriesAccounted
  BY DEF Init, LoopInv, SeriesAccounted
<1>4. SilentInv
  BY DEF Init, SilentInv
<1> QED
  BY <1>1, <1>2, <1>3, <1>4 DEF IInv

(* The observations that a series has in hand.                              *)
LEMMA BatchParts ==
  ASSUME TypeOK, NEW x \in Cell
  PROVE  /\ x \in Batch <=> x[1] = cur /\ fetched[x] # None
         /\ x \in Batch => fetched[x] \in Value /\ Stored[fetched[x]] \in Nat
         /\ x \in Batch => x \in Inserted \/ x \in Updated
                           \/ (macroSeries[x] # None /\ macroSeries[x] = fetched[x])
         /\ x \in Inserted \cup Updated => x \in Batch
<1>1. fetched[x] \in Value \cup {None}
  BY DEF TypeOK
<1>2. \A v \in Value : Stored[v] \in Nat
  BY MacroConstants
<1> QED
  BY <1>1, <1>2 DEF Batch, Inserted, Updated, Existing

(* The table after the upsert of one series.                                *)
LEMMA UpsertTable ==
  ASSUME TypeOK, UpsertSeries
  PROVE  /\ macroSeries' \in [Cell -> Nat \cup {None}]
         /\ \A x \in Cell : x \in Inserted \cup Updated => macroSeries'[x] = Stored[fetched[x]]
         /\ \A x \in Cell : x \notin Inserted \cup Updated => macroSeries'[x] = macroSeries[x]
<1>1. macroSeries' = [x \in Cell |-> IF x \in Inserted \cup Updated
                                     THEN Stored[fetched[x]] ELSE macroSeries[x]]
  BY DEF UpsertSeries
<1>2. \A x \in Cell : macroSeries[x] \in Nat \cup {None}
  BY DEF TypeOK
<1> HIDE DEF Inserted, Updated
<1> QED
  BY <1>1, <1>2, BatchParts

(* Every step of collect_macro, of the sources and of the clock.            *)
LEMMA TypeNext == TypeOK /\ [Next]_vars => TypeOK'
<1> SUFFICES ASSUME TypeOK, [Next]_vars PROVE TypeOK'
  OBVIOUS
<1> USE DEF run
<1>0. None \notin Series /\ {"written", "skipped", "failed"} \subseteq Outcome
  BY MacroConstants DEF Outcome
<1>1. CASE UNCHANGED vars
  BY <1>1 DEF vars, TypeOK
<1>2. ASSUME NEW s \in Series, NEW d \in Day, Observe(s, d) PROVE TypeOK'
  <2>1. PICK v \in Value : observed' = [observed EXCEPT ![<<s, d>>] = v]
    BY <1>2 DEF Observe
  <2>2. observed' \in [Cell -> Value \cup {None}]
    BY <2>1 DEF TypeOK
  <2> QED
    BY <1>2, <2>2 DEF Observe, TypeOK
<1>3. CASE Midnight
  BY <1>3, MacroConstants DEF Midnight, TypeOK, Day
<1>4. CASE StartRun \/ NextSeries \/ EndLoop
  BY <1>4 DEF StartRun, NextSeries, EndLoop, TypeOK
<1>5. ASSUME NEW o \in Outcome, Count(o), pc \in Working,
             UNCHANGED <<today, observed, keys, todo, fetched>>, faults' \in Nat,
             macroSeries' \in [Cell -> Nat \cup {None}], revisions' \subseteq Revision
      PROVE  TypeOK'
  BY <1>5 DEF Count, TypeOK, Working
<1>6. CASE FetchSeries
  <2>1. CASE Count("failed") /\ UNCHANGED fetched
    BY <1>0, <1>5, <1>6, <2>1 DEF FetchSeries, Working, TypeOK
  <2>2. CASE /\ fetched' = [x \in Cell |-> IF x[1] = cur THEN Answer[x] ELSE fetched[x]]
             /\ pc' = "upsert" /\ UNCHANGED <<outcome, cur>>
    <3>1. \A x \in Cell : Answer[x] \in Value \cup {None}
      BY DEF Answer, TypeOK
    <3>2. fetched' \in [Cell -> Value \cup {None}]
      BY <2>2, <3>1 DEF TypeOK
    <3> QED
      BY <1>6, <2>2, <3>2 DEF FetchSeries, TypeOK
  <2> QED
    BY <1>6, <2>1, <2>2 DEF FetchSeries
<1>7. CASE UpsertSeries
  <2>1. revisions' \subseteq Revision
    <3>1. ASSUME NEW x \in Updated
          PROVE  [series |-> cur, day |-> x[2], old |-> Existing(x), new |-> fetched[x]] \in Revision
      <4>1. x \in Cell /\ x \in Batch /\ cur \in Series
        BY <1>7, <3>1 DEF Updated, Batch, UpsertSeries, TypeOK
      <4>2. Existing(x) \in Nat
        BY <3>1, <4>1 DEF Updated, Existing, TypeOK
      <4>3. x[2] \in Day /\ fetched[x] \in Value
        BY <4>1, BatchParts DEF Cell
      <4> QED
        BY <4>1, <4>2, <4>3 DEF Revision
    <3>2. revisions' = revisions \cup
             {[series |-> cur, day |-> x[2], old |-> Existing(x), new |-> fetched[x]] : x \in Updated}
      BY <1>7 DEF UpsertSeries
    <3> QED
      BY <3>1, <3>2 DEF TypeOK
  <2>2. Count("skipped") \/ Count("written")
    BY <1>7 DEF UpsertSeries
  <2> QED
    BY <1>0, <1>5, <1>7, <2>1, <2>2, UpsertTable DEF UpsertSeries, Working, TypeOK
<1>8. CASE SeriesFails
  BY <1>0, <1>5, <1>8 DEF SeriesFails, Fault, Working, TypeOK
<1>9. CASE RecordRun \/ Crash
  BY <1>9 DEF RecordRun, Crash, Fault, LeaveRun, NoValues, TypeOK
<1> QED
  BY <1>1, <1>2, <1>3, <1>4, <1>6, <1>7, <1>8, <1>9 DEF Next, Environment, RunStep

(* Only the upsert writes the table, and what it writes is in stored form.  *)
LEMMA StoredNext == TypeOK /\ StoredInv /\ [Next]_vars => StoredInv'
<1> SUFFICES ASSUME TypeOK, StoredInv, [Next]_vars PROVE StoredInv'
  OBVIOUS
<1>1. CASE UNCHANGED macroSeries
  BY <1>1 DEF StoredInv
<1>2. CASE UpsertSeries
  <2>1. SUFFICES ASSUME NEW x \in Cell, macroSeries'[x] # None
                 PROVE  \E v \in Value : macroSeries'[x] = Stored[v]
    BY DEF StoredInv
  <2>2. CASE x \in Inserted \cup Updated
    <3>1. fetched[x] \in Value
      BY <2>2, BatchParts
    <3>2. macroSeries'[x] = Stored[fetched[x]]
      BY <1>2, <2>2, UpsertTable
    <3> QED
      BY <3>1, <3>2
  <2>3. CASE x \notin Inserted \cup Updated
    <3>1. macroSeries'[x] = macroSeries[x]
      BY <1>2, <2>3, UpsertTable
    <3> QED
      BY <2>1, <3>1 DEF StoredInv
  <2> QED
    BY <2>2, <2>3
<1>3. UpsertSeries \/ UNCHANGED macroSeries
  BY DEF Next, Environment, RunStep, Observe, Midnight, StartRun, NextSeries, FetchSeries,
         SeriesFails, EndLoop, RecordRun, Crash, vars
<1> QED
  BY <1>1, <1>2, <1>3

(* A series is counted once: it leaves the list, then gets its outcome.     *)
LEMMA LoopNext == TypeOK /\ LoopInv /\ [Next]_vars => LoopInv'
<1> SUFFICES ASSUME TypeOK, LoopInv, [Next]_vars PROVE LoopInv'
  OBVIOUS
<1>0. None \notin Outcome
  BY MacroConstants
<1>1. CASE UNCHANGED <<pc, todo, cur, outcome>>
  BY <1>1 DEF LoopInv
<1>2. ASSUME Environment \/ UNCHANGED vars PROVE UNCHANGED <<pc, todo, cur, outcome>>
  BY <1>2 DEF Environment, Observe, Midnight, vars, run
<1>3. CASE StartRun
  BY <1>3 DEF StartRun, LoopInv, Working
<1>4. CASE NextSeries
  BY <1>4 DEF NextSeries, LoopInv, Working, TypeOK
<1>5. ASSUME NEW o \in Outcome, Count(o), pc \in Working, UNCHANGED todo PROVE LoopInv'
  <2>1. ASSUME NEW s \in Series PROVE outcome'[s] = None <=> s \in todo
    <3>1. CASE s = cur
      BY <1>0, <1>5, <3>1 DEF Count, TypeOK, Working
    <3>2. CASE s # cur
      BY <1>5, <3>2 DEF Count, TypeOK, LoopInv, Working
    <3> QED
      BY <3>1, <3>2
  <2> QED
    BY <1>5, <2>1 DEF Count, LoopInv, Working
<1>6. CASE FetchSeries
  <2>1. CASE Count("failed")
    BY <1>5, <1>6, <2>1 DEF FetchSeries, Working, Outcome
  <2>2. CASE pc' = "upsert" /\ UNCHANGED <<outcome, cur>>
    BY <1>6, <2>2 DEF FetchSeries, LoopInv, Working
  <2> QED
    BY <1>6, <2>1, <2>2 DEF FetchSeries
<1>7. CASE UpsertSeries
  BY <1>5, <1>7 DEF UpsertSeries, Working, Outcome
<1>8. CASE SeriesFails
  BY <1>5, <1>8 DEF SeriesFails, Working, Outcome
<1>9. CASE EndLoop
  BY <1>9 DEF EndLoop, LoopInv, Working
<1>10. CASE RecordRun \/ Crash
  BY <1>10 DEF RecordRun, Crash, LeaveRun, LoopInv
<1> QED
  BY <1>1, <1>2, <1>3, <1>4, <1>6, <1>7, <1>8, <1>9, <1>10 DEF Next, RunStep

(* The upsert stores what it counts and leaves the other series alone.      *)
LEMMA CountedUpsert ==
  ASSUME TypeOK, StoredInv, CountedIsStored, UpsertSeries
  PROVE  CountedIsStored'
<1> SUFFICES ASSUME NEW x \in Cell,
                    outcome'[x[1]] \in {"written", "skipped"}, fetched'[x] # None
             PROVE  macroSeries'[x] = Stored[fetched'[x]]
  BY DEF CountedIsStored
<1>0. fetched' = fetched /\ cur \in Series /\ x[1] \in Series
  BY DEF UpsertSeries, TypeOK, Cell
<1>1. CASE x \in Inserted \cup Updated
  BY <1>0, <1>1, UpsertTable
<1>2. CASE x \notin Inserted \cup Updated /\ x[1] = cur
  <2>1. x \in Batch /\ fetched[x] \in Value /\ macroSeries[x] # None
        /\ macroSeries[x] = fetched[x]
    BY <1>0, <1>2, BatchParts
  <2>2. PICK v \in Value : macroSeries[x] = Stored[v]
    BY <2>1 DEF StoredInv
  <2>3. Stored[fetched[x]] = fetched[x]
    BY <2>1, <2>2, MacroConstants
  <2> QED
    BY <1>0, <1>2, <2>1, <2>3, UpsertTable
<1>3. CASE x \notin Inserted \cup Updated /\ x[1] # cur
  <2>1. outcome'[x[1]] = outcome[x[1]]
    BY <1>0, <1>3 DEF UpsertSeries, Count, TypeOK
  <2>2. macroSeries[x] = Stored[fetched[x]]
    BY <1>0, <2>1 DEF CountedIsStored
  <2> QED
    BY <1>0, <1>3, <2>2, UpsertTable
<1> QED
  BY <1>1, <1>2, <1>3

(* Nothing else disturbs a counted series: what is fetched belongs to one   *)
(* that has no outcome yet.                                                 *)
LEMMA CountedNext ==
  TypeOK /\ StoredInv /\ LoopInv /\ CountedIsStored /\ [Next]_vars => CountedIsStored'
<1> SUFFICES ASSUME TypeOK, StoredInv, LoopInv, CountedIsStored, [Next]_vars
             PROVE  CountedIsStored'
  OBVIOUS
<1>1. CASE UNCHANGED <<outcome, fetched, macroSeries>>
  BY <1>1 DEF CountedIsStored
<1>2. ASSUME Environment \/ UNCHANGED vars \/ StartRun \/ NextSeries \/ EndLoop
      PROVE  UNCHANGED <<outcome, fetched, macroSeries>>
  BY <1>2 DEF Environment, Observe, Midnight, StartRun, NextSeries, EndLoop, vars, run
<1>3. ASSUME Count("failed"), UNCHANGED <<fetched, macroSeries>> PROVE CountedIsStored'
  <2>1. ASSUME NEW s \in Series, outcome'[s] \in {"written", "skipped"}
        PROVE  outcome'[s] = outcome[s]
    BY <1>3, <2>1 DEF Count, TypeOK
  <2>2. \A x \in Cell : x[1] \in Series
    BY DEF Cell
  <2> QED
    BY <1>3, <2>1, <2>2 DEF CountedIsStored
<1>4. CASE FetchSeries
  <2>1. CASE Count("failed") /\ UNCHANGED fetched
    BY <1>3, <1>4, <2>1 DEF FetchSeries
  <2>2. CASE /\ fetched' = [x \in Cell |-> IF x[1] = cur THEN Answer[x] ELSE fetched[x]]
             /\ UNCHANGED <<outcome, cur>>
    <3>1. outcome[cur] = None
      BY <1>4 DEF FetchSeries, LoopInv, Working, TypeOK
    <3>2. None \notin {"written", "skipped"}
      BY MacroConstants DEF Outcome
    <3>3. \A x \in Cell : outcome'[x[1]] \in {"written", "skipped"} => fetched'[x] = fetched[x]
      BY <2>2, <3>1, <3>2
    <3> QED
      BY <1>4, <2>2, <3>3 DEF FetchSeries, CountedIsStored
  <2> QED
    BY <1>4, <2>1, <2>2 DEF FetchSeries
<1>5. CASE UpsertSeries
  BY <1>5, CountedUpsert
<1>6. CASE SeriesFails
  BY <1>3, <1>6 DEF SeriesFails
<1>7. CASE RecordRun \/ Crash
  <2>1. \A x \in Cell : fetched'[x] = None
    BY <1>7 DEF RecordRun, Crash, LeaveRun, NoValues
  <2> QED
    BY <2>1 DEF CountedIsStored
<1> QED
  BY <1>1, <1>2, <1>4, <1>5, <1>6, <1>7 DEF Next, RunStep

LEMMA SilentNext == SilentInv /\ [Next]_vars => SilentInv'
<1> SUFFICES ASSUME SilentInv, [Next]_vars PROVE SilentInv'
  OBVIOUS
<1>1. CASE UpsertSeries
  <2>1. ASSUME keys # "date" PROVE Updated = {}
    BY <2>1 DEF Updated, Existing
  <2>2. keys' = keys
    BY <1>1 DEF UpsertSeries
  <2>3. ASSUME keys # "date" PROVE revisions' = {}
    BY <1>1, <2>1, <2>3 DEF UpsertSeries, SilentInv
  <2> QED
    BY <2>2, <2>3 DEF SilentInv
<1>2. CASE ~UpsertSeries
  <2>1. keys' = keys /\ (revisions' = revisions \/ revisions' = {})
    BY <1>2 DEF Next, Environment, RunStep, Observe, Midnight, StartRun, NextSeries, FetchSeries,
                SeriesFails, EndLoop, RecordRun, Crash, LeaveRun, vars, run
  <2> QED
    BY <2>1 DEF SilentInv
<1> QED
  BY <1>1, <1>2

(* The whole invariant is inductive.                                        *)
LEMMA IInvNext == IInv /\ [Next]_vars => IInv'
<1> SUFFICES ASSUME IInv, [Next]_vars PROVE IInv'
  OBVIOUS
<1>1. TypeOK' /\ StoredInv' /\ LoopInv' /\ CountedIsStored'
  BY TypeNext, StoredNext, LoopNext, CountedNext DEF IInv
<1>2. SeriesAccounted'
  BY <1>1 DEF LoopInv, SeriesAccounted, Working
<1>3. SilentInv'
  BY SilentNext DEF IInv
<1> QED
  BY <1>1, <1>2, <1>3 DEF IInv

(* Every reachable state satisfies the invariant.                           *)
LEMMA Inductive == Spec => []IInv
BY IInvInit, IInvNext, PTL DEF Spec

------------------------------------------------------------------------------
(* Every variable of the collector keeps its type, for every instance.      *)
THEOREM TypeCorrect == Spec => []TypeOK
<1>1. IInv => TypeOK
  BY DEF IInv
<1> QED
  BY <1>1, Inductive, PTL

(* What a run counts as written or skipped is in macro_series at the        *)
(* column's precision, and stays there until the run ends.                  *)
THEOREM CountedStaysStored == Spec => []CountedIsStored
<1>1. IInv => CountedIsStored
  BY DEF IInv
<1> QED
  BY <1>1, Inductive, PTL

(* When a run reaches its accounting, every series of the catalog has an    *)
(* outcome, whatever failed on the way.                                     *)
THEOREM NoSeriesDropped == Spec => []SeriesAccounted
<1>1. IInv => SeriesAccounted
  BY DEF IInv
<1> QED
  BY <1>1, Inductive, PTL

(* R-06: the step that overwrites a stored value is the upsert. It appends  *)
(* the record of the two values if the observations are keyed by date; if   *)
(* they are keyed by ISO strings, as those of the fetchers are, the run     *)
(* reports no revision, of this overwrite or of any other.                  *)
THEOREM OverwritesReportedByDateOnly == Spec => RevisionsReported
<1>1. IInv /\ [Next]_vars =>
         [\A x \in Cell : Overwritten(x) => (Reports(x) <=> keys = "date")]_vars
  <2> SUFFICES ASSUME IInv, Next, NEW x \in Cell, Overwritten(x)
               PROVE  Reports(x) <=> keys = "date"
    BY DEF vars, run, Overwritten
  <2>1. TypeOK
    BY DEF IInv
  <2>2. UpsertSeries
    BY DEF Overwritten, Next, Environment, RunStep, Observe, Midnight, StartRun, NextSeries,
           FetchSeries, SeriesFails, EndLoop, RecordRun, Crash
  <2>3. x \in Inserted \cup Updated
    BY <2>1, <2>2, UpsertTable DEF Overwritten
  <2>4. ASSUME keys = "date" PROVE Reports(x)
    <3>1. x \in Updated /\ Existing(x) = macroSeries[x]
      BY <2>3, <2>4 DEF Overwritten, Inserted, Existing
    <3>2. x[1] = cur /\ macroSeries'[x] = Stored[fetched[x]]
      BY <2>1, <2>2, <2>3, BatchParts, UpsertTable
    <3> DEFINE r == [series |-> cur, day |-> x[2], old |-> Existing(x), new |-> fetched[x]]
    <3>3. r \in revisions'
      BY <2>2, <3>1 DEF UpsertSeries
    <3> QED
      BY <3>1, <3>2, <3>3 DEF Reports
  <2>5. ASSUME keys # "date" PROVE ~Reports(x)
    <3>1. keys' = keys
      BY <2>2 DEF UpsertSeries
    <3>2. SilentInv'
      BY SilentNext DEF IInv
    <3>3. revisions' = {}
      BY <2>5, <3>1, <3>2 DEF SilentInv
    <3> QED
      BY <3>3 DEF Reports
  <2> QED
    BY <2>4, <2>5
<1> QED
  BY <1>1, Inductive, PTL DEF Spec, RevisionsReported
=============================================================================
