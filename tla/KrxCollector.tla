---------------------------- MODULE KrxCollector -----------------------------
(***************************************************************************)
(* collect_krx (src/collectors/krx) for one trade date. Any number of runs   *)
(* may overlap (a cron job and an operator); each run visits the tickers of *)
(* the portfolio, fetches prices, investor flow and the T+2 short balance   *)
(* in separate calls, and writes one ohlcv row per ticker: a SELECT that    *)
(* decides the outcome, then an upsert that keeps short figures and         *)
(* corp_code the new fetch does not have. The exchange revises its figures  *)
(* and publishes the short balance late.                                    *)
(***************************************************************************)
EXTENDS EntityStore, Naturals

CONSTANTS
    Scope,         \* portfolio.scope_tickers()
    Run,           \* processes that may run collect_krx
    Company,       \* what the other commands upsert: [corp, name, ticker]
    Traded,        \* bound: the tickers the exchange has figures for,
    MaxPrice,      \* and how often the exchange publishes a price,
    MaxFlow,       \* an investor flow
    MaxShort,      \* and a short balance for each
    MaxFaults      \* bound: crashes and failing or empty calls in a behaviour

(* A figure is the number of its revision at the exchange; None is "empty   *)
(* DataFrame" at the exchange and NULL in the table.                        *)
Figure == Nat \cup {None}
Row == [price : Nat, flow : Figure, short : Figure, corp : CorpCode]

Outcome == {"inserted", "updated", "skipped", "failed"}

ASSUME KrxConstants ==
    /\ Scope \subseteq Ticker
    /\ Traded \subseteq Scope
    /\ Company \subseteq [corp : CorpCode, name : CompanyName,
                          ticker : Ticker \cup {None}]
    /\ {MaxPrice, MaxFlow, MaxShort} \subseteq Nat \ {0}
    /\ MaxFaults \in Nat
    /\ None \notin CorpCode \cup Nat \cup Row
    /\ None \notin Outcome

VARIABLES
    price, flow, short,    \* what the exchange answers for each ticker
    ohlcv,                 \* ohlcv[t]: the row of t, or None
    pc, todo, cur,         \* of each run: where it is, tickers left, ticker
    gotPrice, gotFlow,     \* what it fetched for this ticker
    gotShort, corp,        \* and the corp_code it resolved
    found,                 \* TRUE when its SELECT found a row
    outcome,               \* outcome[<<p, t>>]: how stats counted t
    alone,                 \* history: the runs that nothing has disturbed
    faults                 \* faults so far

exchange == <<price, flow, short>>
entityTables == <<entities, holders>>
hand == <<cur, gotPrice, gotFlow, gotShort, corp, found>>
vars == <<entityTables, exchange, ohlcv, pc, todo, hand, outcome, alone, faults>>

Step == {"price", "entity", "flow", "short", "select", "upsert"}

TypeOK ==
    /\ StoreTypeOK
    /\ price \in [Scope -> Figure] /\ flow \in [Scope -> Figure]
    /\ short \in [Scope -> Figure]
    /\ ohlcv \in [Scope -> Row \cup {None}]
    /\ pc \in [Run -> Step \cup {"idle", "next", "record"}]
    /\ todo \in [Run -> SUBSET Scope]
    /\ cur \in [Run -> Scope \cup {None}]
    /\ \A p \in Run : pc[p] \in Step => cur[p] \in Scope
    /\ gotPrice \in [Run -> Figure] /\ gotFlow \in [Run -> Figure]
    /\ gotShort \in [Run -> Figure]
    /\ \A p \in Run : pc[p] \in Step \ {"price"} => gotPrice[p] \in Nat
    /\ corp \in [Run -> CorpCode \cup {None}]
    /\ \A p \in Run : pc[p] \in Step \ {"price", "entity"} => corp[p] \in CorpCode
    /\ found \in [Run -> BOOLEAN]
    /\ outcome \in [Run \X Scope -> Outcome \cup {None}]
    /\ alone \subseteq Run
    /\ faults \in Nat

Init == /\ StoreInit
        /\ price = [t \in Scope |-> None]
        /\ flow = [t \in Scope |-> None]
        /\ short = [t \in Scope |-> None]
        /\ ohlcv = [t \in Scope |-> None]
        /\ pc = [p \in Run |-> "idle"]
        /\ todo = [p \in Run |-> {}]
        /\ cur = [p \in Run |-> None]
        /\ gotPrice = [p \in Run |-> None]
        /\ gotFlow = [p \in Run |-> None]
        /\ gotShort = [p \in Run |-> None]
        /\ corp = [p \in Run |-> None]
        /\ found = [p \in Run |-> FALSE]
        /\ outcome = [x \in Run \X Scope |-> None]
        /\ alone = {}
        /\ faults = 0

------------------------------------------------------------------------------
(* The exchange publishes and revises a figure; others write the entities.  *)

Revise(figure, max, t) ==
    \/ figure[t] = None /\ figure' = [figure EXCEPT ![t] = 1]
    \/ /\ figure[t] # None
       /\ figure[t] < max
       /\ figure' = [figure EXCEPT ![t] = @ + 1]

Publish(t) ==
    /\ \/ Revise(price, MaxPrice, t) /\ UNCHANGED <<flow, short>>
       \/ price[t] # None /\ Revise(flow, MaxFlow, t) /\ UNCHANGED <<price, short>>
       \/ price[t] # None /\ Revise(short, MaxShort, t) /\ UNCHANGED <<price, flow>>
    /\ alone' = {}
    /\ UNCHANGED <<entityTables, ohlcv, pc, todo, hand, outcome, faults>>

SeedEntity(x) ==
    /\ UpsertEntity(x.corp, x.name, x.ticker)
    /\ UNCHANGED <<exchange, ohlcv, pc, todo, hand, outcome, alone, faults>>

------------------------------------------------------------------------------
Goto(p, label) == pc' = [pc EXCEPT ![p] = label]

Fault == faults < MaxFaults /\ faults' = faults + 1

DropHand(p) == /\ cur' = [cur EXCEPT ![p] = None]
               /\ gotPrice' = [gotPrice EXCEPT ![p] = None]
               /\ gotFlow' = [gotFlow EXCEPT ![p] = None]
               /\ gotShort' = [gotShort EXCEPT ![p] = None]
               /\ corp' = [corp EXCEPT ![p] = None]
               /\ found' = [found EXCEPT ![p] = FALSE]

(* Faulty variant: the early exit of one ticker lacks its "continue".       *)
CountFallsThrough(p, o) == /\ outcome' = [outcome EXCEPT ![<<p, cur[p]>>] = o]
                           /\ UNCHANGED pc
                           /\ DropHand(p)

(* The ticker in hand is counted, and the loop goes on with the next one.   *)
Count(p, o) == /\ outcome' = [outcome EXCEPT ![<<p, cur[p]>>] = o]
               /\ Goto(p, "next")
               /\ DropHand(p)

StartRun(p) ==
    /\ pc[p] = "idle"
    /\ Goto(p, "next")
    /\ todo' = [todo EXCEPT ![p] = Scope]
    /\ alone' = IF \A q \in Run : pc[q] = "idle" THEN {p} ELSE {}
    /\ UNCHANGED <<entityTables, exchange, ohlcv, hand, outcome, faults>>

NextTicker(p) ==
    /\ pc[p] = "next"
    /\ \E t \in todo[p] : /\ cur' = [cur EXCEPT ![p] = t]
                          /\ todo' = [todo EXCEPT ![p] = @ \ {t}]
    /\ Goto(p, "price")
    /\ UNCHANGED <<entityTables, exchange, ohlcv, gotPrice, gotFlow, gotShort,
                   corp, found, outcome, alone, faults>>

(* An empty OHLCV frame is a holiday: skipped, whatever the table holds.    *)
FetchPrice(p) ==
    /\ pc[p] = "price"
    /\ IF price[cur[p]] = None
       THEN Count(p, "skipped")
       ELSE /\ gotPrice' = [gotPrice EXCEPT ![p] = price[cur[p]]]
            /\ Goto(p, "entity")
            /\ UNCHANGED <<cur, gotFlow, gotShort, corp, found, outcome>>
    /\ UNCHANGED <<entityTables, exchange, ohlcv, todo, alone, faults>>

(* Faulty variant: the lookup does not filter by ticker.                    *)
ResolveAnyEntity(p) ==
    /\ pc[p] = "entity"
    /\ \E c \in {d \in CorpCode : entities[d] # None} : corp' = [corp EXCEPT ![p] = c]
    /\ Goto(p, "flow")
    /\ UNCHANGED <<entityTables, exchange, ohlcv, todo, cur, gotPrice, gotFlow,
                   gotShort, found, outcome, alone, faults>>

(* R-03: no entity for the ticker, no write.                                *)
ResolveEntity(p) ==
    /\ pc[p] = "entity"
    /\ IF ResolveTicker(cur[p]) = {}
       THEN Count(p, "failed")
       ELSE /\ \E c \in ResolveTicker(cur[p]) : corp' = [corp EXCEPT ![p] = c]
            /\ Goto(p, "flow")
            /\ UNCHANGED <<cur, gotPrice, gotFlow, gotShort, found, outcome>>
    /\ UNCHANGED <<entityTables, exchange, ohlcv, todo, alone, faults>>

FetchFlow(p) ==
    /\ pc[p] = "flow"
    /\ gotFlow' = [gotFlow EXCEPT ![p] = flow[cur[p]]]
    /\ Goto(p, "short")
    /\ UNCHANGED <<entityTables, exchange, ohlcv, todo, cur, gotPrice, gotShort,
                   corp, found, outcome, alone, faults>>

FetchShort(p) ==
    /\ pc[p] = "short"
    /\ gotShort' = [gotShort EXCEPT ![p] = short[cur[p]]]
    /\ Goto(p, "select")
    /\ UNCHANGED <<entityTables, exchange, ohlcv, todo, cur, gotPrice, gotFlow,
                   corp, found, outcome, alone, faults>>

(* pykrx answers with an empty frame although the figure has been published.*)
FetchEmpty(p) ==
    /\ pc[p] \in {"flow", "short"}
    /\ Fault
    /\ Goto(p, IF pc[p] = "flow" THEN "short" ELSE "select")
    /\ alone' = alone \ {p}
    /\ UNCHANGED <<entityTables, exchange, ohlcv, todo, hand, outcome>>

(* The row after INSERT .. ON CONFLICT (ticker, trade_date) DO UPDATE: price*)
(* and flow are overwritten, also by NULL; short is COALESCE(new, old).     *)
Coalesce(new, old) == IF new = None THEN old ELSE new

(* Faulty variant: short is overwritten like the other figures.             *)
MergedNoCoalesce(p, row) ==
    [price |-> gotPrice[p], flow |-> gotFlow[p], short |-> gotShort[p], corp |-> corp[p]]

Merged(p, row) ==
    [price |-> gotPrice[p],
     flow  |-> gotFlow[p],
     short |-> IF row = None THEN gotShort[p] ELSE Coalesce(gotShort[p], row.short),
     corp  |-> corp[p]]

(* Faulty variant: a row with the same price is taken for unchanged.        *)
SelectRowByPrice(p) ==
    /\ pc[p] = "select"
    /\ LET row == ohlcv[cur[p]]
       IN  IF row # None /\ Merged(p, row).price = row.price
           THEN Count(p, "skipped")
           ELSE /\ found' = [found EXCEPT ![p] = row # None]
                /\ Goto(p, "upsert")
                /\ UNCHANGED <<cur, gotPrice, gotFlow, gotShort, corp, outcome>>
    /\ UNCHANGED <<entityTables, exchange, ohlcv, todo, alone, faults>>

(* upsert_ohlcv, first statement: a row that would not change ends the call.*)
SelectRow(p) ==
    /\ pc[p] = "select"
    /\ LET row == ohlcv[cur[p]]
       IN  IF row # None /\ Merged(p, row) = row
           THEN Count(p, "skipped")
           ELSE /\ found' = [found EXCEPT ![p] = row # None]
                /\ Goto(p, "upsert")
                /\ UNCHANGED <<cur, gotPrice, gotFlow, gotShort, corp, outcome>>
    /\ UNCHANGED <<entityTables, exchange, ohlcv, todo, alone, faults>>

(* Second statement and commit. It merges with the row as it is now, which  *)
(* need not be the row the SELECT saw; the outcome is the SELECT's.         *)
UpsertRow(p) ==
    /\ pc[p] = "upsert"
    /\ ohlcv' = [ohlcv EXCEPT ![cur[p]] = Merged(p, ohlcv[cur[p]])]
    /\ Count(p, IF found[p] THEN "updated" ELSE "inserted")
    /\ UNCHANGED <<entityTables, exchange, todo, alone, faults>>

(* Faulty variant: the exception ends the loop.                             *)
TickerEndsLoop(p) ==
    /\ pc[p] \in Step
    /\ Fault
    /\ Goto(p, "record")
    /\ DropHand(p)
    /\ UNCHANGED <<entityTables, exchange, ohlcv, todo, outcome, alone>>

(* Any exception for one ticker, retries included, ends that ticker only.   *)
TickerFails(p) ==
    /\ pc[p] \in Step
    /\ Fault
    /\ Count(p, "failed")
    /\ UNCHANGED <<entityTables, exchange, ohlcv, todo, alone>>

EndLoop(p) ==
    /\ pc[p] = "next"
    /\ todo[p] = {}
    /\ Goto(p, "record")
    /\ UNCHANGED <<entityTables, exchange, ohlcv, todo, hand, outcome, alone, faults>>

LeaveRun(p) == /\ Goto(p, "idle")
               /\ todo' = [todo EXCEPT ![p] = {}]
               /\ DropHand(p)
               /\ outcome' = [x \in Run \X Scope |-> IF x[1] = p THEN None ELSE outcome[x]]
               /\ alone' = alone \ {p}

RecordRun(p) == /\ pc[p] = "record"
                /\ LeaveRun(p)
                /\ UNCHANGED <<entityTables, exchange, ohlcv, faults>>

Crash(p) == /\ pc[p] # "idle"
            /\ Fault
            /\ LeaveRun(p)
            /\ UNCHANGED <<entityTables, exchange, ohlcv>>

------------------------------------------------------------------------------
RunStep(p) == \/ NextTicker(p) \/ FetchPrice(p) \/ ResolveEntity(p)
              \/ FetchFlow(p) \/ FetchShort(p) \/ SelectRow(p) \/ UpsertRow(p)
              \/ EndLoop(p) \/ RecordRun(p)

FaultStep(p) == FetchEmpty(p) \/ TickerFails(p) \/ Crash(p)

Next == \/ \E t \in Traded : Publish(t)
        \/ \E x \in Company : SeedEntity(x)
        \/ \E p \in Run : StartRun(p) \/ RunStep(p) \/ FaultStep(p)

Spec == Init /\ [][Next]_vars

------------------------------------------------------------------------------
(* db_writer: "a stale follow-up fetch NEVER NULL-clobbers existing data".  *)
(* Once stored, a short figure stays, also when a run whose fetch predates  *)
(* the publication writes over the row of a run that had it.                *)
ShortKept ==
    [][\A t \in Scope : ohlcv[t] # None /\ ohlcv[t].short # None
                           => ohlcv'[t] # None /\ ohlcv'[t].short # None]_vars

(* Every row belongs to a corporation that resolve_entity returns for its   *)
(* ticker, which was looked up two network calls before the write.          *)
RowsAttributed ==
    \A t \in Scope : ohlcv[t] # None => ohlcv[t].corp \in ResolveTicker(t)

(* No ticker is dropped by the failure of another, and what a run counts as *)
(* written is in the table, whichever of the overlapping runs wrote it.     *)
TickersAccounted ==
    \A p \in Run, t \in Scope :
        /\ pc[p] = "record" => outcome[<<p, t>>] # None
        /\ outcome[<<p, t>>] \in {"inserted", "updated"} => ohlcv[t] # None

(* Collecting a date again (--since) repairs it. Whatever earlier runs left *)
(* behind, by overlapping, by failing between two calls, by empty answers or *)
(* because they came before the T+2 balance: a run that nothing disturbs (no *)
(* other run beside it, no revision, no empty answer for a published figure) *)
(* leaves the row of each ticker it does not report as failed equal to what *)
(* the exchange says. The comparison of upsert_ohlcv must not take an       *)
(* outdated row for unchanged, nor the COALESCE keep an outdated balance.   *)
Agrees(t) == /\ ohlcv[t] # None
             /\ ohlcv[t].price = price[t]
             /\ ohlcv[t].flow = flow[t]
             /\ ohlcv[t].short = short[t]

RerunAgrees ==
    \A p \in alone, t \in Scope :
        outcome[<<p, t>>] \in Outcome \ {"failed"} /\ price[t] # None => Agrees(t)
==============================================================================
