--------------------------- MODULE MacroCollector ----------------------------
(***************************************************************************)
(* collect_macro (src/collectors/macro): for each series of the catalog the  *)
(* collector fetches the observations of the last days from ECOS or FRED    *)
(* and upserts them into macro_series, one transaction per series that      *)
(* loads the stored rows, classifies each observation and reports the       *)
(* revisions it overwrites (R-06). The sources revise past observations;    *)
(* days go by; series fail one by one; the process may die and is rerun.    *)
(*                                                                         *)
(* The stored rows are keyed by datetime.date. What the observations are    *)
(* keyed by depends on the caller: db_writer and its tests say date, the    *)
(* fetchers emit ISO strings, and a string never finds a date in the dict.  *)
(***************************************************************************)
EXTENDS Naturals, FiniteSets

CONSTANTS
    Series,        \* the entries of the catalog (source, series_id, item_code)
    Value, Stored, \* observed values, and Stored[v]: v as NUMERIC(20, 6)
    Window,        \* days_back: how many days a fetch covers
    LastDay,       \* bound: the days of a behaviour are 1..LastDay
    KeyType,       \* what observations may be keyed by: {"date", "iso"} or less
    MaxFaults,     \* bound: crashes and failing calls in a behaviour
    None

Day == 1..LastDay

Outcome == {"written", "skipped", "failed"}

ASSUME MacroConstants ==
    /\ Window \in Nat \ {0}
    /\ LastDay \in Nat \ {0}
    /\ Value \subseteq Nat
    /\ Stored \in [Value -> Nat]
    /\ \A v, w \in Value : Stored[v] = w => Stored[w] = w
    /\ KeyType \subseteq {"date", "iso"}
    /\ KeyType # {}
    /\ MaxFaults \in Nat
    /\ None \notin Nat \cup Series
    /\ None \notin Outcome

VARIABLES
    today,         \* the day of the clock
    observed,      \* observed[<<s, d>>]: the value the source gives, or None
    macroSeries,   \* macroSeries[<<s, d>>]: the stored value, or None
    keys,          \* what the observations of this deployment are keyed by
    pc, todo, cur, \* where the run is, series left, series in hand
    fetched,       \* fetched[<<s, d>>]: the observations of this run
    outcome,       \* outcome[s]: how stats counted the series
    revisions,     \* all_revisions: [series, day, old, new]
    faults

Cell == Series \X Day
run == <<pc, todo, cur, fetched, outcome, revisions>>
vars == <<today, observed, macroSeries, keys, run, faults>>

Revision == [series : Series, day : Day, old : Nat, new : Value]
NoValues == [x \in Cell |-> None]

TypeOK ==
    /\ today \in Day
    /\ observed \in [Cell -> Value \cup {None}]
    /\ macroSeries \in [Cell -> Nat \cup {None}]
    /\ keys \in KeyType
    /\ pc \in {"idle", "next", "fetch", "upsert", "record"}
    /\ todo \subseteq Series
    /\ cur \in Series \cup {None}
    /\ pc \in {"fetch", "upsert"} => cur \in Series \ todo
    /\ fetched \in [Cell -> Value \cup {None}]
    /\ outcome \in [Series -> Outcome \cup {None}]
    /\ revisions \subseteq Revision
    /\ faults \in Nat

Init == /\ today = 1
        /\ observed = NoValues
        /\ macroSeries = NoValues
        /\ keys \in KeyType
        /\ pc = "idle" /\ todo = {} /\ cur = None
        /\ fetched = NoValues
        /\ outcome = [s \in Series |-> None]
        /\ revisions = {}
        /\ faults = 0

------------------------------------------------------------------------------
(* The statistical offices and the clock.                                   *)

InWindow(d) == d <= today /\ d + Window > today

(* Bound: a value is revised to a later member of Value (its numeric order), *)
(* and only while a fetch can see it.                                       *)
Observe(s, d) ==
    /\ InWindow(d)
    /\ \E v \in Value :
          /\ observed[<<s, d>>] # None => observed[<<s, d>>] < v
          /\ observed' = [observed EXCEPT ![<<s, d>>] = v]
    /\ UNCHANGED <<today, macroSeries, keys, run, faults>>

Midnight ==
    /\ today < LastDay
    /\ today' = today + 1
    /\ UNCHANGED <<observed, macroSeries, keys, run, faults>>

------------------------------------------------------------------------------
Fault == faults < MaxFaults /\ faults' = faults + 1

(* A missing API key or an unreadable catalog raises before this step.      *)
StartRun ==
    /\ pc = "idle"
    /\ pc' = "next"
    /\ todo' = Series
    /\ UNCHANGED <<today, observed, macroSeries, keys, cur, fetched, outcome,
                   revisions, faults>>

(* Faulty variant: the series in hand stays on the list.                    *)
NextSeriesAgain ==
    /\ pc = "next"
    /\ \E s \in todo : cur' = s
    /\ pc' = "fetch"
    /\ UNCHANGED <<today, observed, macroSeries, keys, todo, fetched, outcome,
                   revisions, faults>>

NextSeries ==
    /\ pc = "next"
    /\ \E s \in todo : cur' = s /\ todo' = todo \ {s}
    /\ pc' = "fetch"
    /\ UNCHANGED <<today, observed, macroSeries, keys, fetched, outcome,
                   revisions, faults>>

Count(o) == outcome' = [outcome EXCEPT ![cur] = o] /\ pc' = "next" /\ cur' = None

(* Faulty variant: the window ends before today.                            *)
AnswerUntilYesterday ==
    [x \in Cell |-> IF x[1] = cur /\ InWindow(x[2]) /\ x[2] < today
                    THEN observed[x] ELSE None]

(* fetch_ecos_series, fetch_fred_series: the days that have a value. None   *)
(* at all raises MacroEmptyResultError, counted as a failure of the series. *)
Answer == [x \in Cell |-> IF x[1] = cur /\ InWindow(x[2]) THEN observed[x] ELSE None]

FetchSeries ==
    /\ pc = "fetch"
    /\ IF \A x \in Cell : Answer[x] = None
       THEN Count("failed") /\ UNCHANGED fetched
       ELSE /\ fetched' = [x \in Cell |-> IF x[1] = cur THEN Answer[x] ELSE fetched[x]]
            /\ pc' = "upsert"
            /\ UNCHANGED <<outcome, cur>>
    /\ UNCHANGED <<today, observed, macroSeries, keys, todo, revisions, faults>>

------------------------------------------------------------------------------
(* upsert_macro_observations, one transaction.                              *)

Batch == {x \in Cell : x[1] = cur /\ fetched[x] # None}

(* existing.get(obs_date)                                                   *)
Existing(x) == IF keys = "date" THEN macroSeries[x] ELSE None

Inserted == {x \in Batch : Existing(x) = None}
(* Faulty variant: what is there is not looked at again.                    *)
UpdatedNever == {x \in Batch : FALSE}

Updated == {x \in Batch : Existing(x) # None /\ Existing(x) # fetched[x]}

(* Faulty variant: the old value is read after the upsert.                  *)
UpsertThenLoad ==
    /\ pc = "upsert"
    /\ macroSeries' = [x \in Cell |-> IF x \in Inserted \cup Updated
                                      THEN Stored[fetched[x]] ELSE macroSeries[x]]
    /\ revisions' = revisions \cup
          {[series |-> cur, day |-> x[2], old |-> Stored[fetched[x]],
            new |-> fetched[x]] : x \in Updated}
    /\ Count(IF Inserted \cup Updated = {} THEN "skipped" ELSE "written")
    /\ UNCHANGED <<today, observed, keys, todo, fetched, faults>>

UpsertSeries ==
    /\ pc = "upsert"
    /\ macroSeries' = [x \in Cell |-> IF x \in Inserted \cup Updated
                                      THEN Stored[fetched[x]] ELSE macroSeries[x]]
    /\ revisions' = revisions \cup
          {[series |-> cur, day |-> x[2], old |-> Existing(x), new |-> fetched[x]] :
              x \in Updated}
    /\ Count(IF Inserted \cup Updated = {} THEN "skipped" ELSE "written")
    /\ UNCHANGED <<today, observed, keys, todo, fetched, faults>>

(* Faulty variant: the exception ends the loop.                             *)
SeriesEndsLoop ==
    /\ pc \in {"fetch", "upsert"}
    /\ Fault
    /\ pc' = "record" /\ cur' = None
    /\ UNCHANGED <<today, observed, macroSeries, keys, todo, fetched, outcome,
                   revisions>>

(* Any other exception of one series: the next series goes on.              *)
SeriesFails ==
    /\ pc \in {"fetch", "upsert"}
    /\ Fault
    /\ Count("failed")
    /\ UNCHANGED <<today, observed, macroSeries, keys, todo, fetched, revisions>>

EndLoop ==
    /\ pc = "next"
    /\ todo = {}
    /\ pc' = "record"
    /\ UNCHANGED <<today, observed, macroSeries, keys, todo, cur, fetched, outcome,
                   revisions, faults>>

(* The revisions go to collector_runs.extra; the locals are gone.           *)
LeaveRun == /\ pc' = "idle" /\ todo' = {} /\ cur' = None
            /\ fetched' = NoValues
            /\ outcome' = [s \in Series |-> None]
            /\ revisions' = {}

RecordRun == /\ pc = "record"
             /\ LeaveRun
             /\ UNCHANGED <<today, observed, macroSeries, keys, faults>>

Crash == /\ pc # "idle"
         /\ Fault
         /\ LeaveRun
         /\ UNCHANGED <<today, observed, macroSeries, keys>>

------------------------------------------------------------------------------
Environment == (\E s \in Series, d \in Day : Observe(s, d)) \/ Midnight

RunStep == NextSeries \/ FetchSeries \/ UpsertSeries \/ EndLoop \/ RecordRun

Next == Environment \/ StartRun \/ RunStep \/ SeriesFails \/ Crash

Spec == Init /\ [][Next]_vars

FairSpec == Spec /\ WF_vars(RunStep) /\ SF_vars(StartRun)

------------------------------------------------------------------------------
(* R-06: a run that changes a stored observation reports the value it       *)
(* overwrote and the new one if observations are keyed by date, as          *)
(* db_writer documents them, and only then: of the ISO strings that the     *)
(* fetchers emit, no overwrite is ever reported.                            *)
Reports(x) == \E r \in revisions' : /\ r.series = x[1] /\ r.day = x[2]
                                    /\ r.old = macroSeries[x]
                                    /\ Stored[r.new] = macroSeries'[x]

Overwritten(x) == macroSeries[x] # None /\ macroSeries'[x] # macroSeries[x]

RevisionsReported ==
    [][\A x \in Cell : Overwritten(x) => (Reports(x) <=> keys = "date")]_vars

(* A series counted as written or skipped has every fetched observation in  *)
(* the table, at its stored precision, until the run ends: what classified  *)
(* as unchanged was there, and later series do not disturb it.              *)
CountedIsStored ==
    \A x \in Cell : (outcome[x[1]] \in {"written", "skipped"} /\ fetched[x] # None)
                        => macroSeries[x] = Stored[fetched[x]]

(* One failing series does not keep another from being tried.               *)
SeriesAccounted == pc = "record" => \A s \in Series : outcome[s] # None

(* An observation that the source stops revising is stored, unless its day  *)
(* leaves the window, whatever failed before.                               *)
EventuallyStored ==
    \A x \in Cell : \A v \in Value :
        (observed[x] = v /\ InWindow(x[2])) ~>
            (macroSeries[x] = Stored[v] \/ observed[x] # v \/ ~InWindow(x[2]))

(* The same for the observations the fetchers really emit: db_writer says   *)
(* "updated = count of obs_dates that existed with a different value" and   *)
(* "revisions = R-06 list (one dict per updated row)".                      *)
OverwritesAlwaysReported ==
    [][\A x \in Cell : Overwritten(x) => Reports(x)]_vars
==============================================================================
