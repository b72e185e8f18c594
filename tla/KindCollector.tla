---------------------------- MODULE KindCollector ----------------------------
(***************************************************************************)
(* collect_kind (src/collectors/kind): exchange events come from two         *)
(* sources, DART's exchange filings (pblntf_ty "I") and, when the caller     *)
(* asks for it, the undisclosure pages of KIND. A DART event is a paired     *)
(* write of two transactions, filings and then events; a KIND event is an    *)
(* events row only. Each source and each event may fail without stopping     *)
(* the run, the process may die between the two writes, and runs are         *)
(* repeated while filings enter and leave the 30-day window. The entity      *)
(* tables that names and tickers are resolved in are those of EntityStore.   *)
(***************************************************************************)
EXTENDS EntityStore, Naturals

CONSTANTS
    EventType, Day,
    Unfaithful,    \* the one event type the KIND pages report
    Disclosure,    \* DART exchange filings: [rcept, key, corp]
    Notice,        \* rows of the KIND pages: [name, day]
    Scope,         \* tickers of the portfolio, Portfolio.scope_tickers()
    Company,       \* what the other commands upsert: [corp, name, ticker]
    MaxFaults      \* bound: crashes and failing calls in a behaviour

(* The deduplication key of a run: (event_type, ticker, event_date). A      *)
(* ticker that is missing or malformed is None.                             *)
Key == [type : EventType, ticker : Ticker \cup {None}, day : Day]

(* KIND has no stable id: the collector builds one from company and date.   *)
Rcept == {d.rcept : d \in Disclosure}
Id == Rcept \cup Notice
Source == {"dart", "kind"}
Event == [source : Source, id : Id, key : Key, corp : CorpCode \cup {None}]

Outcome == {"inserted", "skipped", "failed"}    \* of one event

ASSUME KindConstants ==
    /\ Unfaithful \in EventType
    /\ Scope \subseteq Ticker
    /\ \A d \in Disclosure : d.key \in Key /\ d.corp \in CorpCode
    /\ \A d, e \in Disclosure : d.rcept = e.rcept => d = e
    /\ Rcept \cap Notice = {}
    /\ \A n \in Notice : n.name \in CompanyName /\ n.day \in Day
    /\ Company \subseteq [corp : CorpCode, name : CompanyName,
                          ticker : Ticker \cup {None}]
    /\ MaxFaults \in Nat
    /\ None \notin Event \cup CorpCode
    /\ None \notin Outcome

VARIABLES
    named,         \* the pairs <<c, n>> with a current 'name' alias
    dart, kind,    \* what each source shows: "new", "listed", "gone"
    filings,       \* filings[r]: the corp_code of the row r, or None
    eventRows,     \* the rows of the events table
    pc, scrape,    \* where the run is, and enable_kind_scrape
    events,        \* the events fetched
    seen,          \* seen_keys
    cur, corp,     \* the event in hand, and the corp_code it will carry
    filed,         \* filing_outcome of the event in hand
    outcome,       \* outcome[i]: how stats counted the event with id i
    broken,        \* the sources reported in stats["failed"]
    faults         \* faults so far

tables == <<filings, eventRows>>
aliases == <<entities, holders, named>>
sources == <<dart, kind>>
local == <<scrape, events, seen, cur, corp, filed, outcome, broken>>
vars == <<aliases, sources, tables, pc, local, faults>>

Shown == {"new", "listed", "gone"}

TypeOK ==
    /\ StoreTypeOK
    /\ named \subseteq CorpCode \X CompanyName
    /\ dart \in [Disclosure -> Shown]
    /\ kind \in [Notice -> Shown]
    /\ filings \in [Rcept -> CorpCode \cup {None}]
    /\ eventRows \subseteq Event
    /\ pc \in {"idle", "dart", "kind", "loop", "resolve", "filing", "event", "record"}
    /\ scrape \in BOOLEAN
    /\ events \subseteq Event
    /\ seen \subseteq Key
    /\ cur \in Event \cup {None}
    /\ pc \in {"resolve", "filing", "event"} => cur \in events
    /\ corp \in CorpCode \cup {None}
    /\ pc \in {"filing", "event"} => corp \in CorpCode
    /\ filed \in Outcome \cup {None}
    /\ outcome \in [Id -> Outcome \cup {None}]
    /\ broken \subseteq Source
    /\ faults \in Nat

Init == /\ StoreInit
        /\ named = {}
        /\ dart = [d \in Disclosure |-> "new"]
        /\ kind = [n \in Notice |-> "new"]
        /\ filings = [r \in Rcept |-> None]
        /\ eventRows = {}
        /\ pc = "idle" /\ scrape = FALSE
        /\ events = {} /\ seen = {} /\ cur = None /\ corp = None /\ filed = None
        /\ outcome = [i \in Id |-> None]
        /\ broken = {}
        /\ faults = 0

------------------------------------------------------------------------------
(* The environment: filings enter and leave the window, rows enter and      *)
(* leave the first pages of KIND, and other commands write the entities.    *)

Move(shown, x) == \/ shown[x] = "new" /\ shown' = [shown EXCEPT ![x] = "listed"]
                  \/ shown[x] = "listed" /\ shown' = [shown EXCEPT ![x] = "gone"]

MoveDart(d) == /\ Move(dart, d)
               /\ UNCHANGED <<aliases, kind, tables, pc, local, faults>>

MoveKind(n) == /\ Move(kind, n)
               /\ UNCHANGED <<aliases, dart, tables, pc, local, faults>>

SeedEntity(x) == /\ UpsertEntity(x.corp, x.name, x.ticker)
                 /\ UNCHANGED <<named, sources, tables, pc, local, faults>>

SeedNames ==
    /\ named' = named \cup {<<c, entities[c].name>> : c \in
                               {d \in CorpCode : entities[d] # None}}
    /\ UNCHANGED <<entities, holders, sources, tables, pc, local, faults>>

------------------------------------------------------------------------------
Fault == faults < MaxFaults /\ faults' = faults + 1

StartRun(s) ==
    /\ pc = "idle"
    /\ pc' = "dart"
    /\ scrape' = s
    /\ UNCHANGED <<aliases, sources, tables, events, seen, cur, corp, filed,
                   outcome, broken, faults>>

(* fetch_exchange_events; filings of no known report_nm pattern are dropped *)
(* by the classifier and are not in Disclosure.                             *)
FetchDart ==
    /\ pc = "dart"
    /\ events' = {[source |-> "dart", id |-> d.rcept, key |-> d.key, corp |-> d.corp] :
                     d \in {x \in Disclosure : dart[x] = "listed"}}
    /\ pc' = IF scrape THEN "kind" ELSE "loop"
    /\ UNCHANGED <<aliases, sources, tables, scrape, seen, cur, corp, filed,
                   outcome, broken, faults>>

FetchDartFails ==
    /\ pc = "dart"
    /\ Fault
    /\ broken' = broken \cup {"dart"}
    /\ pc' = IF scrape THEN "kind" ELSE "loop"
    /\ UNCHANGED <<aliases, sources, tables, scrape, events, seen, cur, corp,
                   filed, outcome>>

(* resolve_entity_by_alias picks one current holder of the name, if any.    *)
(* An unresolved row keeps ticker None and corp_code None.                  *)
Named(n) == {c \in CorpCode : <<c, n.name>> \in named}

Resolved(n) == IF Named(n) = {} THEN {None} ELSE Named(n)

KindEvent(n, c) == [source |-> "kind", id |-> n, corp |-> c,
                    key |-> [type |-> Unfaithful, day |-> n.day,
                             ticker |-> IF c = None THEN None ELSE entities[c].ticker]]

FetchKind ==
    /\ pc = "kind"
    /\ \E who \in [{n \in Notice : kind[n] = "listed"} -> CorpCode \cup {None}] :
          /\ \A n \in DOMAIN who : who[n] \in Resolved(n)
          /\ events' = events \cup {KindEvent(n, who[n]) : n \in DOMAIN who}
    /\ pc' = "loop"
    /\ UNCHANGED <<aliases, sources, tables, scrape, seen, cur, corp, filed,
                   outcome, broken, faults>>

(* ParseError or any other error: the rows of every page are dropped.       *)
FetchKindFails ==
    /\ pc = "kind"
    /\ Fault
    /\ broken' = broken \cup {"kind"}
    /\ pc' = "loop"
    /\ UNCHANGED <<aliases, sources, tables, scrape, events, seen, cur, corp,
                   filed, outcome>>

------------------------------------------------------------------------------
(* The loop over the events: the DART events first, each source in the      *)
(* order it listed them, which the code does not rely on.                   *)

InScope(e) == e.key.ticker \in Scope

Todo == {e \in events : outcome[e.id] = None}

NextOf(todo) == {e \in todo : e.source = "kind" => \A x \in todo : x.source = "kind"}

(* Faulty variant: the early exit of one event lacks its "continue".        *)
CountFallsThrough(e, o) == /\ outcome' = [outcome EXCEPT ![e.id] = o]
                           /\ UNCHANGED pc
                           /\ cur' = None /\ corp' = None /\ filed' = None

Count(e, o) == /\ outcome' = [outcome EXCEPT ![e.id] = o]
               /\ pc' = "loop"
               /\ cur' = None /\ corp' = None /\ filed' = None

(* Faulty variant: without the deduplication by key.                        *)
TakeEveryEvent ==
    /\ pc = "loop"
    /\ \E e \in NextOf(Todo) :
          IF InScope(e)
          THEN cur' = e /\ pc' = "resolve" /\ UNCHANGED <<corp, filed, outcome>>
          ELSE Count(e, "skipped")
    /\ UNCHANGED <<aliases, sources, tables, scrape, events, seen, broken, faults>>

(* Out of scope, or a key this run has met: skipped. Otherwise the key is   *)
(* marked as seen before anything is written.                               *)
TakeEvent ==
    /\ pc = "loop"
    /\ \E e \in NextOf(Todo) :
          \/ /\ ~InScope(e) \/ e.key \in seen
             /\ Count(e, "skipped")
             /\ UNCHANGED seen
          \/ /\ InScope(e) /\ e.key \notin seen
             /\ seen' = seen \cup {e.key}
             /\ cur' = e
             /\ pc' = "resolve"
             /\ UNCHANGED <<corp, filed, outcome>>
    /\ UNCHANGED <<aliases, sources, tables, scrape, events, broken, faults>>

(* Faulty variant: the events row is written without the filing.            *)
ResolveCorpThenEvent ==
    /\ pc = "resolve"
    /\ corp' \in IF ResolveTicker(cur.key.ticker) # {}
                 THEN ResolveTicker(cur.key.ticker) ELSE {cur.corp}
    /\ pc' = "event"
    /\ UNCHANGED <<aliases, sources, tables, scrape, events, seen, cur, filed,
                   outcome, broken, faults>>

(* resolve_entity by ticker, else the corp_code that came with the event:   *)
(* DART sends one, and a KIND row without one has no ticker either.         *)
ResolveCorp ==
    /\ pc = "resolve"
    /\ corp' \in IF ResolveTicker(cur.key.ticker) # {}
                 THEN ResolveTicker(cur.key.ticker) ELSE {cur.corp}
    /\ pc' = IF cur.source = "dart" THEN "filing" ELSE "event"
    /\ UNCHANGED <<aliases, sources, tables, scrape, events, seen, cur, filed,
                   outcome, broken, faults>>

(* Faulty variant: a filing that exists is taken for a finished event.      *)
WriteFilingOrSkip ==
    /\ pc = "filing"
    /\ CASE filings[cur.id] # None -> Count(cur, "skipped") /\ UNCHANGED filings
         [] filings[cur.id] = None /\ entities[corp] # None ->
              /\ filings' = [filings EXCEPT ![cur.id] = corp]
              /\ filed' = "inserted" /\ pc' = "event"
              /\ UNCHANGED <<cur, corp, outcome>>
         [] OTHER -> Count(cur, "failed") /\ UNCHANGED filings
    /\ UNCHANGED <<aliases, sources, eventRows, scrape, events, seen, broken, faults>>

(* upsert_kind_filing, one transaction. The body is always the empty text,  *)
(* so a row that exists has the same hash: only last_seen_at moves. A new   *)
(* row needs the entities row (foreign key).                                *)
WriteFiling ==
    /\ pc = "filing"
    /\ CASE filings[cur.id] # None ->
              /\ filed' = "skipped" /\ pc' = "event"
              /\ UNCHANGED <<filings, cur, corp, outcome>>
         [] filings[cur.id] = None /\ entities[corp] # None ->
              /\ filings' = [filings EXCEPT ![cur.id] = corp]
              /\ filed' = "inserted" /\ pc' = "event"
              /\ UNCHANGED <<cur, corp, outcome>>
         [] OTHER ->
              Count(cur, "failed") /\ UNCHANGED filings
    /\ UNCHANGED <<aliases, sources, eventRows, scrape, events, seen, broken, faults>>

(* upsert_kind_event, the second transaction: ON CONFLICT (event_type,      *)
(* ticker, event_date, source, source_id) DO NOTHING.                       *)
Recorded(e) == \E r \in eventRows : r.source = e.source /\ r.id = e.id /\ r.key = e.key

WriteEvent ==
    /\ pc = "event"
    /\ IF Recorded(cur)
       THEN /\ Count(cur, IF filed = "inserted" THEN "inserted" ELSE "skipped")
            /\ UNCHANGED eventRows
       ELSE /\ Count(cur, "inserted")
            /\ eventRows' = eventRows \cup {[source |-> cur.source, id |-> cur.id,
                                             key |-> cur.key, corp |-> corp]}
    /\ UNCHANGED <<aliases, sources, filings, scrape, events, seen, broken, faults>>

(* Faulty variant: the exception is swallowed.                              *)
EventFailsQuietly ==
    /\ pc \in {"resolve", "filing", "event"}
    /\ Fault
    /\ Count(cur, "skipped")
    /\ UNCHANGED <<aliases, sources, tables, scrape, events, seen, broken>>

(* Any exception of the three calls: this event is failed, the loop goes on.*)
EventFails ==
    /\ pc \in {"resolve", "filing", "event"}
    /\ Fault
    /\ Count(cur, "failed")
    /\ UNCHANGED <<aliases, sources, tables, scrape, events, seen, broken>>

EndLoop ==
    /\ pc = "loop"
    /\ Todo = {}
    /\ pc' = "record"
    /\ UNCHANGED <<aliases, sources, tables, local, faults>>

LeaveRun == /\ pc' = "idle" /\ scrape' = FALSE
            /\ events' = {} /\ seen' = {} /\ cur' = None /\ corp' = None /\ filed' = None
            /\ outcome' = [i \in Id |-> None]
            /\ broken' = {}

RecordRun == /\ pc = "record"
             /\ LeaveRun
             /\ UNCHANGED <<aliases, sources, tables, faults>>

Crash == /\ pc # "idle"
         /\ Fault
         /\ LeaveRun
         /\ UNCHANGED <<aliases, sources, tables>>

------------------------------------------------------------------------------
Environment == \/ \E d \in Disclosure : MoveDart(d)
               \/ \E n \in Notice : MoveKind(n)
               \/ \E x \in Company : SeedEntity(x)
               \/ SeedNames

RunStep == \/ FetchDart \/ FetchKind \/ TakeEvent \/ ResolveCorp
           \/ WriteFiling \/ WriteEvent \/ EndLoop \/ RecordRun

FaultStep == FetchDartFails \/ FetchKindFails \/ EventFails \/ Crash

Next == \/ Environment
        \/ \E s \in BOOLEAN : StartRun(s)
        \/ RunStep
        \/ FaultStep

Spec == Init /\ [][Next]_vars

(* The command is run again and again, with the scrape or without.          *)
FairSpec == Spec /\ WF_vars(RunStep) /\ SF_vars(\E s \in BOOLEAN : StartRun(s))

------------------------------------------------------------------------------
(* The paired write is never seen the wrong way round: an event that came   *)
(* from DART has its filing, and every event has its entity, whatever       *)
(* failed or crashed between the transactions. (upsert_kind_event has no    *)
(* entities row of its own to rely on: the foreign key of corp_code holds   *)
(* because of what ran before it.)                                          *)
EventsHaveParents ==
    \A r \in eventRows : /\ r.corp # None
                         /\ entities[r.corp] # None
                         /\ r.source = "dart" => filings[r.id] # None

(* A run that dedups across sources inserts at most one event per key.      *)
OneInsertPerKey ==
    \A e, f \in events :
        (e.key = f.key /\ outcome[e.id] = "inserted" /\ outcome[f.id] = "inserted")
            => e = f

(* Nothing is dropped in silence: of every fetched event in scope, some     *)
(* event with its key is in the tables or is reported as failed when the    *)
(* run ends. (The one that failed may have hidden the others.)              *)
Stored(e) == Recorded(e) /\ (e.source = "dart" => filings[e.id] # None)

StoredOrReported ==
    pc = "record" =>
        \A e \in events : InScope(e) =>
            \E f \in events : f.key = e.key /\ (Stored(f) \/ outcome[f.id] = "failed")

(* Repeated runs complete what a crash or a failed call left half done: a   *)
(* disclosure that stays in the window gets an events row with its key,     *)
(* once the corporations that file under this key are known. (One that is   *)
(* not known fails its foreign key in every run and hides the others.)      *)
Known(key) == \A d \in Disclosure : d.key = key => entities[d.corp] # None

EventuallyCovered ==
    \A d \in Disclosure :
        (dart[d] = "listed" /\ d.key.ticker \in Scope /\ Known(d.key))
            ~> (dart[d] = "gone" \/ \E r \in eventRows : r.key = d.key)

(* Docstring of upsert_kind_event: DART and KIND emitting the same          *)
(* disclosure "produce only ONE row - whichever wrote first wins".          *)
OneRowAcrossSources ==
    \A r, s \in eventRows : r.key = s.key => r.source = s.source
==============================================================================
