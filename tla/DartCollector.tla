---------------------------- MODULE DartCollector ----------------------------
(***************************************************************************)
(* collect_dart (src/collectors/dart): one process lists the A and B        *)
(* filings of one corporation, fetches each body page by page, upserts it   *)
(* into the filings table, and after the loop upserts the entity when       *)
(* anything was written. Runs fail half-way and are repeated; DART publishes *)
(* and amends meanwhile, also between two pages. Each db_writer call is one *)
(* transaction of a single writer and is one step here; upsert_entity is    *)
(* the step of EntityStore.                                                 *)
(***************************************************************************)
EXTENDS EntityStore, Integers, Sequences

CONSTANTS
    Filing,        \* receipt numbers (rcept_no), increasing with time
    MaxDocs,       \* how many filings one listing returns at most
    MaxTries,      \* attempts of fetch_body (stop_after_attempt)
    Pages,         \* the pages a filing's body consists of
    Amendable,     \* bound: the filings whose body changes at the source,
    MaxVersion,    \* and how many bodies each of them has
    MaxFaults,     \* bound: crashes, failing calls and empty pages
    CorpInfo,      \* the names and stock codes DART may report
    SeedScript     \* TRUE when the operator also runs seed_entities

Outcome == {"inserted", "updated", "skipped", "failed"}

(* The parts of a body_md: the text of each page, and as part 0 the summary *)
(* that to_dict may have. A part is 0 when it is missing, else the version  *)
(* of the filing that it was taken from.                                    *)
Page == 1..Pages
Part == 0..Pages
Body == [Part -> Nat]
NoBody == [p \in Part |-> 0]
FilingRow == [corp : CorpCode, body : Body, ticker : Ticker \cup {None}]

ASSUME DartConstants == /\ MaxDocs \in Nat \ {0}
                        /\ MaxTries \in Nat \ {0}
                        /\ Pages \in Nat \ {0}
                        /\ Amendable \subseteq Filing
                        /\ MaxVersion \in Nat
                        /\ MaxFaults \in Nat
                        /\ CorpInfo \subseteq EntityRow
                        /\ Filing \subseteq Nat
                        /\ SeedScript \in BOOLEAN
                        /\ None \notin FilingRow \cup CorpCode
                        /\ None \notin Outcome

VARIABLES
    (* the source *)
    published,     \* published[c]: its filings, newest first
    version,       \* version[f]: the body DART serves for f (0: unpublished)
    info,          \* info[c]: name and stock code in DART's corp list
    (* the filings table *)
    filings,       \* filings[f]: the row with rcept_no f, or None
    (* the running collector *)
    pc, corp,      \* where it is, and the corporation it collects
    about,         \* the name and stock code it read at the start
    listed, base,  \* the filings it listed, and their bodies at that time
    todo, cur,     \* filings still to visit, and the one in hand
    draft, page,   \* the parts in hand, and the page to read next
    tries,         \* the attempts made to get the body
    blank,         \* history: filings a page of which came back empty
    outcome,       \* outcome[f]: how stats counted f
    warned,        \* stats["warnings"] is not empty
    faults         \* faults so far

source == <<published, version, info>>
progress == <<corp, about, listed, base>>
body == <<draft, page, blank>>
loop == <<todo, cur, body, tries, outcome, warned>>
vars == <<entities, holders, source, filings, pc, progress, loop, faults>>

TypeOK ==
    /\ StoreTypeOK
    /\ published \in [CorpCode -> Seq(Filing)]
    /\ version \in [Filing -> Nat]
    /\ info \in [CorpCode -> EntityRow]
    /\ filings \in [Filing -> FilingRow \cup {None}]
    /\ pc \in {"idle", "next", "fetch", "store", "seed", "record"}
    /\ corp \in CorpCode \cup {None}
    /\ pc # "idle" => corp \in CorpCode
    /\ about \in EntityRow \cup {None}
    /\ pc # "idle" => about \in EntityRow
    /\ listed \subseteq Filing
    /\ base \in [Filing -> Nat]
    /\ todo \subseteq listed
    /\ pc \in {"fetch", "store"} => cur \in listed
    /\ draft \in Body
    /\ page \in 1..(Pages + 1)
    /\ tries \in Nat
    /\ blank \subseteq Filing
    /\ outcome \in [Filing -> Outcome \cup {None}]
    /\ warned \in BOOLEAN
    /\ faults \in Nat

Init == /\ StoreInit
        /\ pc = "idle" /\ corp = None /\ about = None
        /\ listed = {} /\ base = [f \in Filing |-> 0]
        /\ todo = {} /\ cur = None /\ tries = 0
        /\ draft = NoBody /\ page = 1 /\ blank = {}
        /\ outcome = [f \in Filing |-> None] /\ warned = FALSE
        /\ published = [c \in CorpCode |-> <<>>]
        /\ version = [f \in Filing |-> 0]
        /\ info \in [CorpCode -> CorpInfo]
        /\ filings = [f \in Filing |-> None]
        /\ faults = 0

------------------------------------------------------------------------------
(* The environment: DART, and the operator's seed_entities script.          *)

Publish(c, f) ==
    /\ version[f] = 0
    /\ \A g \in Filing : g < f => version[g] # 0
    /\ published' = [published EXCEPT ![c] = <<f>> \o @]
    /\ version' = [version EXCEPT ![f] = 1]
    /\ UNCHANGED <<entities, holders, info, filings, pc, progress, loop, faults>>

Amend(f) ==
    /\ f \in Amendable
    /\ version[f] \in 1..(MaxVersion - 1)
    /\ version' = [version EXCEPT ![f] = @ + 1]
    /\ UNCHANGED <<entities, holders, published, info, filings, pc, progress, loop, faults>>

(* The corporation is renamed, listed or delisted.                          *)
ChangeInfo(c) ==
    /\ info' \in {[info EXCEPT ![c] = i] : i \in CorpInfo}
    /\ UNCHANGED <<entities, holders, published, version, filings, pc, progress, loop, faults>>

(* seed_entities_from_portfolio upserts each corporation it can look up.    *)
RunSeedScript(c) ==
    /\ SeedScript
    /\ UpsertEntity(c, info[c].name, info[c].ticker)
    /\ UNCHANGED <<source, filings, pc, progress, loop, faults>>

------------------------------------------------------------------------------
(* collect_dart. An exception of the client, of find_corp or of the listing *)
(* leaves before anything is written, also no collector_runs row: no step.  *)

Listing(c) == {published[c][i] : i \in {j \in DOMAIN published[c] : j <= MaxDocs}}

StartRun(c) ==
    /\ pc = "idle"
    /\ pc' = "next"
    /\ corp' = c
    /\ about' = info[c]
    /\ listed' = Listing(c)
    /\ base' = [f \in Filing |-> IF f \in Listing(c) THEN version[f] ELSE 0]
    /\ todo' = Listing(c)
    /\ UNCHANGED <<entities, holders, source, filings, cur, body, tries,
                   outcome, warned, faults>>

NextFiling ==
    /\ pc = "next"
    /\ \E f \in todo : cur' = f /\ todo' = todo \ {f}
    /\ pc' = "fetch"
    /\ UNCHANGED <<entities, holders, source, filings, progress, body, tries,
                   outcome, warned, faults>>

(* fetch_body asks for one page after the other and takes the text that is  *)
(* served at that moment, or the one its page object still has from an      *)
(* earlier attempt.                                                         *)
ReadPage ==
    /\ pc = "fetch"
    /\ page <= Pages
    /\ \E text \in {version[cur], draft[page]} \ {0} : draft' = [draft EXCEPT ![page] = text]
    /\ page' = page + 1
    /\ UNCHANGED <<entities, holders, source, filings, pc, progress, todo, cur, blank,
                   tries, outcome, warned, faults>>

Fault == faults < MaxFaults /\ faults' = faults + 1

(* Faulty variant: the texts of one filing are still there for the next.    *)
CountKeepsTexts(o) == /\ outcome' = [outcome EXCEPT ![cur] = o]
                      /\ pc' = "next"
                      /\ cur' = None /\ tries' = 0
                      /\ page' = 1 /\ UNCHANGED <<draft, blank>>

(* The filing in hand is counted and the loop goes on.                      *)
Count(o) == /\ outcome' = [outcome EXCEPT ![cur] = o]
            /\ pc' = "next"
            /\ cur' = None /\ tries' = 0
            /\ draft' = NoBody /\ page' = 1 /\ UNCHANGED blank

(* A page whose html is empty is left out, which is no failure.             *)
PageEmpty ==
    /\ pc = "fetch"
    /\ page <= Pages
    /\ Fault
    /\ draft' = [draft EXCEPT ![page] = 0]
    /\ page' = page + 1
    /\ blank' = blank \cup {cur}
    /\ UNCHANGED <<entities, holders, source, filings, pc, progress, todo, cur, tries,
                   outcome, warned>>

(* The texts are joined. If no page had one, the summary of to_dict is the  *)
(* body: none, or as DART gave it since the listing. An empty body is       *)
(* returned like any other.                                                 *)
JoinPages ==
    /\ pc = "fetch"
    /\ page > Pages
    /\ \E summary \in {0} \cup base[cur]..version[cur] :
          draft' = IF \A p \in Page : draft[p] = 0
                   THEN [draft EXCEPT ![0] = summary]
                   ELSE draft
    /\ pc' = "store"
    /\ tries' = 0
    /\ UNCHANGED <<entities, holders, source, filings, progress, todo, cur, page, blank,
                   outcome, warned, faults>>

(* Faulty variant: a failing filing ends the loop.                          *)
FetchErrorEndsLoop ==
    /\ pc = "fetch"
    /\ Fault
    /\ pc' = "record"
    /\ UNCHANGED <<entities, holders, source, filings, progress, todo, cur, body,
                   tries, outcome, warned>>

(* A connection error is retried from the first page until the last         *)
(* attempt, any other error is raised at once.                              *)
FetchError ==
    /\ pc = "fetch"
    /\ Fault
    /\ \/ /\ tries + 1 < MaxTries
          /\ tries' = tries + 1 /\ page' = 1
          /\ UNCHANGED <<pc, cur, draft, blank, outcome>>
       \/ Count("failed")
    /\ UNCHANGED <<entities, holders, source, filings, progress, todo, warned>>

(* upsert_dart_filing: equal content hashes only bump last_seen_at; an      *)
(* INSERT needs the entities row (foreign key), COALESCE keeps the ticker.  *)
Written(f) ==
    IF filings[f] = None
    THEN [corp |-> corp, body |-> draft, ticker |-> about.ticker]
    ELSE [corp |-> filings[f].corp, body |-> draft,
          ticker |-> IF about.ticker # None THEN about.ticker ELSE filings[f].ticker]

(* Faulty variant: ON CONFLICT (rcept_no) DO NOTHING.                       *)
StoreFilingOnce ==
    /\ pc = "store"
    /\ CASE filings[cur] # None -> Count("skipped") /\ UNCHANGED filings
         [] filings[cur] = None /\ entities[corp] = None ->
              Count("failed") /\ UNCHANGED filings
         [] OTHER ->
              Count("inserted") /\ filings' = [filings EXCEPT ![cur] = Written(cur)]
    /\ UNCHANGED <<entities, holders, source, progress, todo, warned, faults>>

StoreFiling ==
    /\ pc = "store"
    /\ CASE filings[cur] = None /\ entities[corp] = None ->
              Count("failed") /\ UNCHANGED filings
         [] filings[cur] = None /\ entities[corp] # None ->
              Count("inserted") /\ filings' = [filings EXCEPT ![cur] = Written(cur)]
         [] filings[cur] # None /\ filings[cur].body = draft ->
              Count("skipped") /\ UNCHANGED filings
         [] OTHER ->
              Count("updated") /\ filings' = [filings EXCEPT ![cur] = Written(cur)]
    /\ UNCHANGED <<entities, holders, source, progress, todo, warned, faults>>

StoreError ==
    /\ pc = "store"
    /\ Fault
    /\ Count("failed")
    /\ UNCHANGED <<entities, holders, source, filings, progress, todo, warned>>

(* Faulty variant: only an insert seeds the entity.                         *)
WroteNew == \E f \in listed : outcome[f] = "inserted"

Wrote == \E f \in listed : outcome[f] \in {"inserted", "updated"}

EndLoop ==
    /\ pc = "next"
    /\ todo = {}
    /\ pc' = IF Wrote THEN "seed" ELSE "record"
    /\ UNCHANGED <<entities, holders, source, filings, progress, loop, faults>>

SeedEntity ==
    /\ pc = "seed"
    /\ UpsertEntity(corp, about.name, about.ticker)
    /\ pc' = "record"
    /\ UNCHANGED <<source, filings, progress, loop, faults>>

(* An exception of upsert_entity becomes a warning of the run.              *)
SeedEntityError ==
    /\ pc = "seed"
    /\ Fault
    /\ warned' = TRUE
    /\ pc' = "record"
    /\ UNCHANGED <<entities, holders, source, filings, progress, todo, cur, body,
                   tries, outcome>>

(* Faulty variant: the list of filings outlives the run.                    *)
LeaveRunWithList ==
    /\ pc' = "idle" /\ corp' = None /\ about' = None
    /\ listed' = {} /\ base' = [f \in Filing |-> 0]
    /\ UNCHANGED todo /\ cur' = None /\ tries' = 0
    /\ draft' = NoBody /\ page' = 1 /\ blank' = {}
    /\ outcome' = [f \in Filing |-> None] /\ warned' = FALSE

(* The locals of collect_dart are gone when it returns or the process dies. *)
LeaveRun == /\ pc' = "idle" /\ corp' = None /\ about' = None
            /\ listed' = {} /\ base' = [f \in Filing |-> 0]
            /\ todo' = {} /\ cur' = None /\ tries' = 0
            /\ draft' = NoBody /\ page' = 1 /\ blank' = {}
            /\ outcome' = [f \in Filing |-> None] /\ warned' = FALSE

(* record_collector_run swallows its own failures; the run returns stats.   *)
RecordRun ==
    /\ pc = "record"
    /\ LeaveRun
    /\ UNCHANGED <<entities, holders, source, filings, faults>>

Crash ==
    /\ pc # "idle"
    /\ Fault
    /\ LeaveRun
    /\ UNCHANGED <<entities, holders, source, filings>>

------------------------------------------------------------------------------
Environment == \/ \E c \in CorpCode, f \in Filing : Publish(c, f)
               \/ \E f \in Filing : Amend(f)
               \/ \E c \in CorpCode : ChangeInfo(c) \/ RunSeedScript(c)

RunStep == \/ NextFiling \/ ReadPage \/ JoinPages \/ StoreFiling
           \/ EndLoop \/ SeedEntity \/ RecordRun

FaultStep == PageEmpty \/ FetchError \/ StoreError \/ SeedEntityError \/ Crash

Next == \/ Environment
        \/ \E c \in CorpCode : StartRun(c)
        \/ RunStep
        \/ FaultStep

Spec == Init /\ [][Next]_vars

(* The operator (or cron) repeats the command for every corporation, and a  *)
(* process that runs keeps running. Faults stop after MaxFaults.            *)
FairSpec == /\ Spec
            /\ WF_vars(RunStep)
            /\ \A c \in CorpCode : SF_vars(StartRun(c))

------------------------------------------------------------------------------
(* One failing filing never hides another: when the loop is over every      *)
(* filing that was listed has been counted exactly once.                    *)
EveryFilingAccounted ==
    pc \in {"seed", "record"} => \A f \in listed : outcome[f] # None

(* A filing that a run counts as inserted, updated or skipped is in the     *)
(* table, and what it has of the body is at least as new as DART's when the *)
(* run listed it, although bodies change between the listing, the pages and *)
(* the write. Only a page that came back empty may be missing.              *)
CountedIsCurrent ==
    \A f \in listed : outcome[f] \in Outcome \ {"failed"}
        => /\ filings[f] # None
           /\ \A p \in Part : filings[f].body[p] # 0 => filings[f].body[p] >= base[f]
           /\ f \notin blank => \A p \in Page : filings[f].body[p] >= base[f]

(* A stored page never goes back to an older text of the filing, and is     *)
(* lost only to a fetch for which one of its pages came back empty (the     *)
(* upsert then writes the shorter body over the longer one).                *)
BodiesAdvance ==
    [][\A f \in Filing : filings[f] # None
          => /\ filings'[f] # None
             /\ \A p \in Page : \/ filings'[f].body[p] >= filings[f].body[p]
                                \/ filings'[f].body[p] = 0 /\ f \in blank]_vars

(* Bug C: a run that wrote a filing and saw no warning leaves the stock     *)
(* code of the corporation resolvable for the other collectors.             *)
WriterSeeds ==
    (/\ pc = "record" /\ ~warned /\ about.ticker # None
     /\ \E f \in listed : outcome[f] \in {"inserted", "updated"})
        => corp \in ResolveTicker(about.ticker)

(* Once the entity exists, repeated runs bring every filing that stays      *)
(* within the listing up to date, all of its pages, whatever crashed, failed *)
(* or came back empty before.                                               *)
Current(f) == /\ filings[f] # None
              /\ \A p \in Page : filings[f].body[p] = version[f]

EventuallyCurrent ==
    \A c \in CorpCode, f \in Filing :
        (entities[c] # None /\ f \in Listing(c))
            ~> (f \notin Listing(c) \/ Current(f))

(* cmd_collect_dart: "production runs auto-seed entities/entity_aliases".   *)
RunsSeedTheEntity ==
    \A c \in CorpCode : Listing(c) # {} ~> entities[c] # None
==============================================================================
