------------------------------ MODULE KrxProofs ------------------------------
(***************************************************************************)
(* Theorems about KrxCollector, for any portfolio and any number of         *)
(* overlapping runs. The argument for RowsAttributed: a holder of a ticker  *)
(* stays one, so the corporation resolved before two network calls is still *)
(* right when the row is written (HandInv). The argument for                *)
(* TickersAccounted: a ticker is on the list, in hand or counted (LoopInv). *)
(* The argument for RerunAgrees: what an undisturbed run has fetched is what *)
(* the exchange says (AloneInv), and a short figure that the table has, or  *)
(* that a run has in hand, has been published (PastInv), so that a run that *)
(* fetched none cannot find one to keep.                                    *)
(***************************************************************************)
EXTENDS KrxCollector, TLAPS

(* The stages of a ticker whose corporation has been resolved.              *)
Resolved == {"flow", "short", "select", "upsert"}

HandInv == \A p \in Run : pc[p] \in Resolved => corp[p] \in ResolveTicker(cur[p])

(* A ticker leaves the list of its run only to be counted.                  *)
LoopInv ==
    \A p \in Run, t \in Scope :
        \/ pc[p] = "idle"
        \/ pc[p] # "record" /\ t \in todo[p]
        \/ pc[p] \in Step /\ t = cur[p]
        \/ outcome[<<p, t>>] # None

(* What a run has in hand that nothing has disturbed since it started.      *)
Undisturbed(p) ==
    /\ pc[p] # "idle"
    /\ \A q \in Run : q # p => pc[q] = "idle"
    /\ pc[p] \in Step \ {"price"} => gotPrice[p] = price[cur[p]]
    /\ pc[p] \in {"short", "select", "upsert"} => gotFlow[p] = flow[cur[p]]
    /\ pc[p] \in {"select", "upsert"} => gotShort[p] = short[cur[p]]

AloneInv == \A p \in alone : Undisturbed(p)

PastInv ==
    /\ \A t \in Scope : ohlcv[t] # None /\ ohlcv[t].short # None => short[t] # None
    /\ \A p \in Run : gotShort[p] # None => pc[p] \in Step /\ short[cur[p]] # None

(* Nothing is counted for a run that is not running.                        *)
IdleInv == \A p \in Run, t \in Scope : pc[p] = "idle" => outcome[<<p, t>>] = None

IInv == /\ TypeOK /\ HandInv /\ LoopInv /\ RowsAttributed /\ TickersAccounted
        /\ AloneInv /\ PastInv /\ IdleInv /\ RerunAgrees

------------------------------------------------------------------------------
(* No run has started and nothing is stored.                                *)
LEMMA IInvInit == Init => IInv
<1> SUFFICES ASSUME Init PROVE IInv
  OBVIOUS
<1>1. TypeOK
  BY DEF Init, StoreInit, TypeOK, StoreTypeOK, Figure, Step
<1>2. \A p \in Run, t \in Scope : outcome[<<p, t>>] = None
  BY DEF Init
<1>3. TickersAccounted
  BY <1>2, KrxConstants DEF Init, TickersAccounted, Outcome
<1>4. HandInv /\ LoopInv /\ RowsAttributed
  BY DEF Init, HandInv, LoopInv, RowsAttributed, Resolved
<1>5. AloneInv /\ PastInv /\ IdleInv /\ RerunAgrees
  BY <1>2 DEF Init, AloneInv, PastInv, IdleInv, RerunAgrees
<1> QED
  BY <1>1, <1>3, <1>4, <1>5 DEF IInv

(* The exchange: a figure is published or replaced by its next revision.    *)
LEMMA ReviseType ==
  ASSUME NEW old \in [Scope -> Figure], NEW new, NEW t \in Scope, NEW max \in Nat,
         \/ old[t] = None /\ new = [old EXCEPT ![t] = 1]
         \/ old[t] # None /\ old[t] < max /\ new = [old EXCEPT ![t] = @ + 1]
  PROVE  new \in [Scope -> Figure]
<1>1. old[t] \in Nat \/ old[t] = None
  BY DEF Figure
<1> QED
  BY <1>1 DEF Figure

(* Counting the ticker in hand keeps the types.                             *)
LEMMA CountType ==
  ASSUME TypeOK, NEW p \in Run, NEW o \in Outcome, pc[p] \in Step, Count(p, o),
         UNCHANGED <<entityTables, exchange, todo, alone>>, faults' \in Nat,
         ohlcv' \in [Scope -> Row \cup {None}]
  PROVE  TypeOK'
  BY DEF Count, DropHand, Goto, TypeOK, StoreTypeOK, entityTables, exchange, Step, Figure

(* So does the end of a run.                                                *)
LEMMA LeaveType ==
  ASSUME TypeOK, NEW p \in Run, LeaveRun(p),
         UNCHANGED <<entityTables, exchange, ohlcv>>, faults' \in Nat
  PROVE  TypeOK'
<1>1. outcome' \in [Run \X Scope -> Outcome \cup {None}]
  BY DEF LeaveRun, TypeOK
<1> QED
  BY <1>1 DEF LeaveRun, DropHand, Goto, TypeOK, StoreTypeOK, entityTables, exchange, Step,
     Figure

(* Every step of collect_krx and of its environment keeps the types.        *)
LEMMA TypeNext == TypeOK /\ [Next]_vars => TypeOK'
<1> SUFFICES ASSUME TypeOK, [Next]_vars PROVE TypeOK'
  OBVIOUS
<1>0. /\ faults \in Nat /\ ohlcv \in [Scope -> Row \cup {None}]
      /\ {"inserted", "updated", "skipped", "failed"} \subseteq Outcome
  BY DEF TypeOK, Outcome
<1>1. CASE UNCHANGED vars
  BY <1>1 DEF vars, entityTables, exchange, hand, TypeOK, StoreTypeOK
<1>2. ASSUME NEW t \in Scope, Publish(t) PROVE TypeOK'
  <2>1. {MaxPrice, MaxFlow, MaxShort} \subseteq Nat
    BY KrxConstants
  <2>2. price' \in [Scope -> Figure] /\ flow' \in [Scope -> Figure]
        /\ short' \in [Scope -> Figure]
    BY <1>2, <2>1, ReviseType DEF Publish, Revise, TypeOK
  <2> QED
    BY <1>2, <2>2 DEF Publish, TypeOK, StoreTypeOK, entityTables, hand
<1>3. ASSUME NEW x \in Company, SeedEntity(x) PROVE TypeOK'
  <2>1. /\ x.corp \in CorpCode /\ x.ticker \in Ticker \cup {None}
        /\ [name |-> x.name, ticker |-> x.ticker] \in EntityRow
    BY KrxConstants DEF EntityRow
  <2>2. StoreTypeOK'
    BY <1>3, <2>1 DEF SeedEntity, UpsertEntity, TypeOK, StoreTypeOK
  <2> QED
    BY <1>3, <2>2 DEF SeedEntity, TypeOK, exchange, hand
<1>4. ASSUME NEW p \in Run, StartRun(p) \/ EndLoop(p) PROVE TypeOK'
  <2>1. /\ pc' \in [Run -> Step \cup {"idle", "next", "record"}]
        /\ pc'[p] \in {"next", "record"} /\ \A q \in Run : q # p => pc'[q] = pc[q]
        /\ todo' \in [Run -> SUBSET Scope] /\ alone' \subseteq Run
    BY <1>4 DEF StartRun, EndLoop, Goto, TypeOK, Step
  <2>2. UNCHANGED <<entityTables, exchange, ohlcv, hand, outcome, faults>>
    BY <1>4 DEF StartRun, EndLoop
  <2> QED
    BY <2>1, <2>2 DEF TypeOK, StoreTypeOK, entityTables, exchange, hand, Step
<1>5. ASSUME NEW p \in Run, NextTicker(p) PROVE TypeOK'
  BY <1>5 DEF NextTicker, Goto, TypeOK, StoreTypeOK, entityTables, exchange, Step
<1>6. ASSUME NEW p \in Run, FetchPrice(p) PROVE TypeOK'
  <2>1. pc[p] \in Step /\ UNCHANGED <<entityTables, exchange, ohlcv, todo, alone, faults>>
    BY <1>6 DEF FetchPrice, Step
  <2>2. CASE Count(p, "skipped")
    BY <1>0, <2>1, <2>2, CountType
  <2>3. CASE price[cur[p]] # None
    <3>1. price[cur[p]] \in Nat
      BY <2>1, <2>3 DEF TypeOK, Figure
    <3> QED
      BY <1>6, <2>3, <3>1 DEF FetchPrice, Goto, TypeOK, StoreTypeOK, entityTables, exchange,
         Step, Figure
  <2> QED
    BY <1>6, <2>2, <2>3 DEF FetchPrice
<1>7. ASSUME NEW p \in Run, ResolveEntity(p) PROVE TypeOK'
  <2>1. pc[p] \in Step /\ UNCHANGED <<entityTables, exchange, ohlcv, todo, alone, faults>>
    BY <1>7 DEF ResolveEntity, Step
  <2>2. CASE Count(p, "failed")
    BY <1>0, <2>1, <2>2, CountType
  <2>3. CASE /\ \E c \in ResolveTicker(cur[p]) : corp' = [corp EXCEPT ![p] = c]
             /\ Goto(p, "flow")
             /\ UNCHANGED <<cur, gotPrice, gotFlow, gotShort, found, outcome>>
    <3>1. PICK c \in CorpCode : corp' = [corp EXCEPT ![p] = c]
      BY <2>3 DEF ResolveTicker
    <3>2. corp' \in [Run -> CorpCode \cup {None}] /\ corp'[p] \in CorpCode
      BY <3>1 DEF TypeOK
    <3>3. pc' = [pc EXCEPT ![p] = "flow"] /\ pc[p] = "entity" /\ gotPrice[p] \in Nat
      BY <1>7, <2>3 DEF Goto, ResolveEntity, TypeOK, Step
    <3> QED
      BY <2>1, <2>3, <3>1, <3>2, <3>3 DEF TypeOK, StoreTypeOK, entityTables, exchange, Step
  <2> QED
    BY <1>7, <2>2, <2>3 DEF ResolveEntity
<1>8. ASSUME NEW p \in Run, FetchFlow(p) \/ FetchShort(p) PROVE TypeOK'
  BY <1>8 DEF FetchFlow, FetchShort, Goto, TypeOK, StoreTypeOK, entityTables, exchange, Step
<1>9. ASSUME NEW p \in Run, FetchEmpty(p) PROVE TypeOK'
  BY <1>9 DEF FetchEmpty, Fault, Goto, TypeOK, StoreTypeOK, entityTables, exchange, hand, Step
<1>10. ASSUME NEW p \in Run, SelectRow(p) PROVE TypeOK'
  <2>1. pc[p] \in Step /\ UNCHANGED <<entityTables, exchange, ohlcv, todo, alone, faults>>
    BY <1>10 DEF SelectRow, Step
  <2>2. CASE Count(p, "skipped")
    BY <1>0, <2>1, <2>2, CountType
  <2>3. CASE /\ found' = [found EXCEPT ![p] = ohlcv[cur[p]] # None]
             /\ Goto(p, "upsert")
             /\ UNCHANGED <<cur, gotPrice, gotFlow, gotShort, corp, outcome>>
    BY <1>10, <2>1, <2>3 DEF SelectRow, Goto, TypeOK, StoreTypeOK, entityTables, exchange, Step
  <2> QED
    BY <1>10, <2>2, <2>3 DEF SelectRow
<1>11. ASSUME NEW p \in Run, UpsertRow(p) PROVE TypeOK'
  <2>1. pc[p] \in Step /\ pc[p] = "upsert"
        /\ UNCHANGED <<entityTables, exchange, todo, alone, faults>>
    BY <1>11 DEF UpsertRow, Step
  <2>2. Merged(p, ohlcv[cur[p]]) \in Row
    BY <2>1 DEF Merged, Coalesce, Row, TypeOK, Step, Figure
  <2>3. ohlcv' \in [Scope -> Row \cup {None}]
    BY <1>0, <1>11, <2>2 DEF UpsertRow
  <2> QED
    BY <1>0, <1>11, <2>1, <2>3, CountType DEF UpsertRow
<1>12. ASSUME NEW p \in Run, TickerFails(p) PROVE TypeOK'
  BY <1>0, <1>12, CountType DEF TickerFails, Fault
<1>13. ASSUME NEW p \in Run, RecordRun(p) \/ Crash(p) PROVE TypeOK'
  BY <1>0, <1>13, LeaveType DEF RecordRun, Crash, Fault
<1> QED
  BY <1>1, <1>2, <1>3, <1>4, <1>5, <1>6, <1>7, <1>8, <1>9, <1>10, <1>11, <1>12, <1>13,
     KrxConstants DEF Next, RunStep, FaultStep

------------------------------------------------------------------------------
(* Who holds a ticker keeps it, and rows of ohlcv are never deleted.        *)
LEMMA NothingLost ==
  ASSUME TypeOK, [Next]_vars
  PROVE  /\ holders \subseteq holders'
         /\ \A t \in Scope : ohlcv[t] # None => ohlcv'[t] # None
<1>1. holders \subseteq holders'
  BY DEF vars, Next, RunStep, FaultStep, Publish, SeedEntity, UpsertEntity, StartRun,
     NextTicker, FetchPrice, ResolveEntity, FetchFlow, FetchShort, FetchEmpty, SelectRow,
     UpsertRow, TickerFails, EndLoop, RecordRun, Crash, entityTables
<1>2. ohlcv' = ohlcv \/ \E p \in Run : UpsertRow(p)
  BY DEF vars, Next, RunStep, FaultStep, Publish, SeedEntity, StartRun,
     NextTicker, FetchPrice, ResolveEntity, FetchFlow, FetchShort, FetchEmpty, SelectRow,
     TickerFails, EndLoop, RecordRun, Crash
<1>3. ASSUME NEW p \in Run, UpsertRow(p), NEW t \in Scope, ohlcv[t] # None
      PROVE  ohlcv'[t] # None
  <2>1. Merged(p, ohlcv[cur[p]]) \in Row
    BY <1>3 DEF UpsertRow, Merged, Coalesce, Row, TypeOK, Step, Figure
  <2>2. None \notin Row
    BY KrxConstants
  <2> QED
    BY <1>3, <2>1, <2>2 DEF UpsertRow, TypeOK
<1> QED
  BY <1>1, <1>2, <1>3
(* What a run resolved is what it writes, however late.                     *)
LEMMA HandNext == TypeOK /\ HandInv /\ [Next]_vars => HandInv'
<1> SUFFICES ASSUME TypeOK, HandInv, [Next]_vars,
                    NEW q \in Run, pc'[q] \in Resolved
             PROVE  <<corp'[q], cur'[q]>> \in holders' /\ corp'[q] \in CorpCode
  BY DEF HandInv, ResolveTicker
<1>0. holders \subseteq holders'
  BY NothingLost
<1>1. \/ pc[q] \in Resolved /\ corp'[q] = corp[q] /\ cur'[q] = cur[q]
      \/ ResolveEntity(q)
  <2>1. CASE UNCHANGED <<pc, corp, cur>>
    BY <2>1
  <2>2. ASSUME NEW p \in Run, StartRun(p) \/ EndLoop(p) \/ FetchFlow(p) \/ FetchShort(p)
                               \/ FetchEmpty(p)
        PROVE  pc[q] \in Resolved /\ corp'[q] = corp[q] /\ cur'[q] = cur[q]
    BY <2>2 DEF StartRun, EndLoop, FetchFlow, FetchShort, FetchEmpty, Goto, hand, Resolved,
       TypeOK
  <2>3. ASSUME NEW p \in Run, NextTicker(p) \/ RecordRun(p) \/ Crash(p) \/ TickerFails(p)
                               \/ UpsertRow(p)
        PROVE  pc[q] \in Resolved /\ corp'[q] = corp[q] /\ cur'[q] = cur[q]
    BY <2>3 DEF NextTicker, RecordRun, Crash, LeaveRun, TickerFails, UpsertRow, Count,
       DropHand, Goto, Resolved, TypeOK
  <2>4. ASSUME NEW p \in Run, FetchPrice(p) \/ SelectRow(p)
        PROVE  pc[q] \in Resolved /\ corp'[q] = corp[q] /\ cur'[q] = cur[q]
    BY <2>4 DEF FetchPrice, SelectRow, Count, DropHand, Goto, Resolved, TypeOK
  <2>5. ASSUME NEW p \in Run, ResolveEntity(p), p # q
        PROVE  pc[q] \in Resolved /\ corp'[q] = corp[q] /\ cur'[q] = cur[q]
    BY <2>5 DEF ResolveEntity, Count, DropHand, Goto, TypeOK
  <2>6. ASSUME vars' = vars \/ (\E t \in Scope : Publish(t)) \/ (\E x \in Company : SeedEntity(x))
        PROVE  UNCHANGED <<pc, corp, cur>>
    BY <2>6 DEF vars, Publish, SeedEntity, hand
  <2> QED
    BY <2>1, <2>2, <2>3, <2>4, <2>5, <2>6, KrxConstants DEF Next, RunStep, FaultStep
<1>2. CASE ResolveEntity(q)
  <2>1. CASE Count(q, "failed")
    BY <2>1 DEF Count, Goto, Resolved, TypeOK
  <2>2. CASE \E c \in ResolveTicker(cur[q]) : corp' = [corp EXCEPT ![q] = c]
    BY <1>0, <1>2, <2>2 DEF ResolveEntity, Count, DropHand, ResolveTicker, TypeOK
  <2>3. ResolveTicker(cur[q]) # {} => UNCHANGED cur
    BY <1>2 DEF ResolveEntity
  <2> QED
    BY <1>2, <2>1, <2>2, <2>3 DEF ResolveEntity
<1>3. CASE pc[q] \in Resolved /\ corp'[q] = corp[q] /\ cur'[q] = cur[q]
  BY <1>0, <1>3 DEF HandInv, ResolveTicker
<1> QED
  BY <1>1, <1>2, <1>3

(* An upsert puts the resolved corporation into the row.                    *)
LEMMA RowsNext == TypeOK /\ HandInv /\ RowsAttributed /\ [Next]_vars => RowsAttributed'
<1> SUFFICES ASSUME TypeOK, HandInv, RowsAttributed, [Next]_vars,
                    NEW t \in Scope, ohlcv'[t] # None
             PROVE  ohlcv'[t].corp \in CorpCode /\ <<ohlcv'[t].corp, t>> \in holders'
  BY DEF RowsAttributed, ResolveTicker
<1>0. holders \subseteq holders'
  BY NothingLost
<1>1. ohlcv' = ohlcv \/ \E p \in Run : UpsertRow(p)
  BY DEF vars, Next, RunStep, FaultStep, Publish, SeedEntity, StartRun,
     NextTicker, FetchPrice, ResolveEntity, FetchFlow, FetchShort, FetchEmpty, SelectRow,
     TickerFails, EndLoop, RecordRun, Crash
<1>2. CASE ohlcv'[t] = ohlcv[t]
  BY <1>0, <1>2 DEF RowsAttributed, ResolveTicker
<1>3. ASSUME NEW p \in Run, UpsertRow(p), t = cur[p]
      PROVE  ohlcv'[t].corp \in CorpCode /\ <<ohlcv'[t].corp, t>> \in holders'
  <2>1. ohlcv'[t].corp = corp[p]
    BY <1>3 DEF UpsertRow, Merged, TypeOK
  <2>2. corp[p] \in ResolveTicker(cur[p])
    BY <1>3 DEF UpsertRow, HandInv, Resolved
  <2> QED
    BY <1>0, <1>3, <2>1, <2>2 DEF ResolveTicker
<1>4. ASSUME NEW p \in Run, UpsertRow(p), t # cur[p] PROVE ohlcv'[t] = ohlcv[t]
  BY <1>4 DEF UpsertRow, TypeOK
<1> QED
  BY <1>1, <1>2, <1>3, <1>4

------------------------------------------------------------------------------
(* What a step of the run p leaves alone of another run q.                  *)
Apart(q) == /\ pc'[q] = pc[q] /\ todo'[q] = todo[q] /\ cur'[q] = cur[q]
            /\ \A t \in Scope : outcome'[<<q, t>>] = outcome[<<q, t>>]

(* No run touches the place, the list or the outcomes of another.           *)
LEMMA RunsApart ==
  ASSUME TypeOK, NEW p \in Run, NEW q \in Run, p # q,
         StartRun(p) \/ RunStep(p) \/ FaultStep(p)
  PROVE  Apart(q)
<1>1. CASE StartRun(p) \/ NextTicker(p) \/ FetchFlow(p) \/ FetchShort(p) \/ FetchEmpty(p)
           \/ EndLoop(p)
  BY <1>1 DEF StartRun, NextTicker, FetchFlow, FetchShort, FetchEmpty, EndLoop, Goto, hand,
     Apart, TypeOK
<1>2. ASSUME NEW o, Count(p, o), UNCHANGED todo PROVE Apart(q)
  <2>1. cur[p] \in Scope \cup {None}
    BY DEF TypeOK
  <2> QED
    BY <1>2, <2>1 DEF Count, DropHand, Goto, Apart, TypeOK
<1>3. CASE FetchPrice(p) \/ ResolveEntity(p) \/ SelectRow(p) \/ UpsertRow(p) \/ TickerFails(p)
  <2>1. UNCHANGED todo
    BY <1>3 DEF FetchPrice, ResolveEntity, SelectRow, UpsertRow, TickerFails
  <2>2. \/ Count(p, "failed") \/ Count(p, "skipped") \/ Count(p, "inserted")
        \/ Count(p, "updated")
        \/ UNCHANGED <<cur, outcome>> /\ (Goto(p, "entity") \/ Goto(p, "flow") \/ Goto(p, "upsert"))
    BY <1>3 DEF FetchPrice, ResolveEntity, SelectRow, UpsertRow, TickerFails
  <2>3. ASSUME UNCHANGED <<cur, outcome>>,
               Goto(p, "entity") \/ Goto(p, "flow") \/ Goto(p, "upsert")
        PROVE  Apart(q)
    BY <2>1, <2>3 DEF Goto, Apart, TypeOK
  <2> QED
    BY <1>2, <2>1, <2>2, <2>3
<1>4. CASE RecordRun(p) \/ Crash(p)
  BY <1>4 DEF RecordRun, Crash, LeaveRun, DropHand, Goto, Apart, TypeOK
<1> QED
  BY <1>1, <1>3, <1>4 DEF RunStep, FaultStep

(* The ticker in hand gets its outcome, the others keep theirs.             *)
LEMMA CountOutcome ==
  ASSUME TypeOK, NEW p \in Run, NEW o, Count(p, o), pc[p] \in Step
  PROVE  /\ outcome'[<<p, cur[p]>>] = o /\ pc'[p] = "next"
         /\ \A t \in Scope : t # cur[p] => outcome'[<<p, t>>] = outcome[<<p, t>>]
  BY DEF Count, Goto, TypeOK

(* The list, the ticker in hand and the outcomes of one run.                *)
LEMMA LoopNext == TypeOK /\ LoopInv /\ [Next]_vars => LoopInv'
<1> SUFFICES ASSUME TypeOK, LoopInv, [Next]_vars, NEW q \in Run, NEW t \in Scope
             PROVE  \/ pc'[q] = "idle"
                    \/ pc'[q] # "record" /\ t \in todo'[q]
                    \/ pc'[q] \in Step /\ t = cur'[q]
                    \/ outcome'[<<q, t>>] # None
  BY DEF LoopInv
<1> DEFINE Goal == \/ pc'[q] = "idle"
                   \/ pc'[q] # "record" /\ t \in todo'[q]
                   \/ pc'[q] \in Step /\ t = cur'[q]
                   \/ outcome'[<<q, t>>] # None
<1>1. ASSUME Apart(q) PROVE Goal
  BY <1>1 DEF Apart, LoopInv
<1>2. ASSUME UNCHANGED vars \/ (\E u \in Scope : Publish(u)) \/ (\E x \in Company : SeedEntity(x))
      PROVE  Apart(q)
  BY <1>2 DEF vars, Publish, SeedEntity, hand, Apart
<1>3. ASSUME NEW o \in Outcome, Count(q, o), pc[q] \in Step, UNCHANGED todo PROVE Goal
  <2>1. o # None
    BY KrxConstants
  <2>2. /\ outcome'[<<q, cur[q]>>] = o /\ pc'[q] = "next"
        /\ t # cur[q] => outcome'[<<q, t>>] = outcome[<<q, t>>]
    BY <1>3, CountOutcome
  <2>3. pc[q] # "idle" /\ pc[q] # "record"
    BY <1>3 DEF Step
  <2>4. CASE t = cur[q]
    BY <2>1, <2>2, <2>4
  <2>5. CASE t # cur[q]
    BY <1>3, <2>2, <2>3, <2>5 DEF LoopInv
  <2> QED
    BY <2>4, <2>5
<1>4. ASSUME UNCHANGED <<todo, cur, outcome>>, pc[q] \in Step, pc'[q] \in Step PROVE Goal
  BY <1>4 DEF LoopInv, Step
<1>5. ASSUME StartRun(q) \/ NextTicker(q) \/ EndLoop(q) PROVE Goal
  BY <1>5 DEF StartRun, NextTicker, EndLoop, Goto, hand, LoopInv, TypeOK, Step
<1>6. ASSUME FetchFlow(q) \/ FetchShort(q) \/ FetchEmpty(q) PROVE Goal
  <2>1. pc'[q] \in Step /\ pc[q] \in Step /\ UNCHANGED <<todo, cur, outcome>>
    BY <1>6 DEF FetchFlow, FetchShort, FetchEmpty, Goto, hand, Step, TypeOK
  <2> QED
    BY <1>4, <2>1
<1>7. ASSUME FetchPrice(q) \/ ResolveEntity(q) \/ SelectRow(q) \/ UpsertRow(q) \/ TickerFails(q)
      PROVE  Goal
  <2>1. pc[q] \in Step /\ UNCHANGED todo
    BY <1>7 DEF FetchPrice, ResolveEntity, SelectRow, UpsertRow, TickerFails, Step
  <2>2. \/ Count(q, "failed") \/ Count(q, "skipped") \/ Count(q, "inserted")
        \/ Count(q, "updated")
        \/ UNCHANGED <<cur, outcome>> /\ (Goto(q, "entity") \/ Goto(q, "flow") \/ Goto(q, "upsert"))
    BY <1>7 DEF FetchPrice, ResolveEntity, SelectRow, UpsertRow, TickerFails
  <2>3. ASSUME Goto(q, "entity") \/ Goto(q, "flow") \/ Goto(q, "upsert") PROVE pc'[q] \in Step
    BY <2>3 DEF Goto, TypeOK, Step
  <2>4. {"failed", "skipped", "inserted", "updated"} \subseteq Outcome
    BY DEF Outcome
  <2> QED
    BY <1>3, <1>4, <2>1, <2>2, <2>3, <2>4
<1>8. ASSUME RecordRun(q) \/ Crash(q) PROVE Goal
  BY <1>8 DEF RecordRun, Crash, LeaveRun, Goto, TypeOK
<1> QED
  BY <1>1, <1>2, <1>5, <1>6, <1>7, <1>8, RunsApart, KrxConstants
     DEF Next, RunStep, FaultStep

(* What is counted as written is in the table and stays there.              *)
LEMMA WrittenNext ==
  IInv /\ [Next]_vars =>
    \A q \in Run, t \in Scope :
        outcome'[<<q, t>>] \in {"inserted", "updated"} => ohlcv'[t] # None
<1> SUFFICES ASSUME IInv, [Next]_vars, NEW q \in Run, NEW t \in Scope,
                    outcome'[<<q, t>>] \in {"inserted", "updated"}
             PROVE  ohlcv'[t] # None
  OBVIOUS
<1>0. TypeOK /\ (ohlcv[t] # None => ohlcv'[t] # None)
  BY NothingLost DEF IInv
<1>1. CASE outcome'[<<q, t>>] = outcome[<<q, t>>]
  BY <1>0, <1>1 DEF IInv, TickersAccounted
<1>2. CASE UpsertRow(q)
  <2>1. CASE t = cur[q]
    <3>1. Merged(q, ohlcv[cur[q]]) \in Row
      BY <1>0, <1>2 DEF UpsertRow, Merged, Coalesce, Row, TypeOK, Step, Figure
    <3> QED
      BY <1>0, <1>2, <2>1, <3>1, KrxConstants DEF UpsertRow, TypeOK
  <2>2. CASE t # cur[q]
    BY <1>0, <1>1, <1>2, <2>2, CountOutcome DEF UpsertRow, Step
  <2> QED
    BY <2>1, <2>2
<1>3. CASE FetchPrice(q) \/ ResolveEntity(q) \/ SelectRow(q) \/ TickerFails(q)
  <2>1. pc[q] \in Step
    BY <1>3 DEF FetchPrice, ResolveEntity, SelectRow, TickerFails, Step
  <2>2. UNCHANGED outcome \/ Count(q, "skipped") \/ Count(q, "failed")
    BY <1>3 DEF FetchPrice, ResolveEntity, SelectRow, TickerFails
  <2>3. ASSUME NEW o \in {"skipped", "failed"}, Count(q, o)
        PROVE  outcome'[<<q, t>>] = outcome[<<q, t>>]
    <3>1. /\ outcome'[<<q, cur[q]>>] = o
          /\ t # cur[q] => outcome'[<<q, t>>] = outcome[<<q, t>>]
      BY <1>0, <2>1, <2>3, CountOutcome
    <3> QED
      BY <3>1
  <2>4. outcome'[<<q, t>>] = outcome[<<q, t>>]
    BY <2>2, <2>3
  <2> QED
    BY <1>1, <2>4
<1>4. CASE StartRun(q) \/ NextTicker(q) \/ FetchFlow(q) \/ FetchShort(q) \/ FetchEmpty(q)
           \/ EndLoop(q) \/ UNCHANGED vars \/ (\E u \in Scope : Publish(u))
           \/ (\E x \in Company : SeedEntity(x))
  BY <1>1, <1>4 DEF StartRun, NextTicker, FetchFlow, FetchShort, FetchEmpty, EndLoop, vars,
     Publish, SeedEntity
<1>5. CASE RecordRun(q) \/ Crash(q)
  <2>1. outcome'[<<q, t>>] = None
    BY <1>0, <1>5 DEF RecordRun, Crash, LeaveRun
  <2> QED
    BY <2>1, KrxConstants DEF Outcome
<1>6. ASSUME NEW p \in Run, p # q, StartRun(p) \/ RunStep(p) \/ FaultStep(p)
      PROVE  outcome'[<<q, t>>] = outcome[<<q, t>>]
  BY <1>0, <1>6, RunsApart DEF Apart
<1> QED
  BY <1>1, <1>2, <1>3, <1>4, <1>5, <1>6, KrxConstants DEF Next, RunStep, FaultStep

------------------------------------------------------------------------------
(* A figure that has been published is revised, never withdrawn.            *)
LEMMA ReviseKeeps ==
  ASSUME NEW old \in [Scope -> Figure], NEW new, NEW t \in Scope,
         \/ old[t] = None /\ new = [old EXCEPT ![t] = 1]
         \/ old[t] # None /\ new = [old EXCEPT ![t] = @ + 1]
  PROVE  \A u \in Scope : old[u] # None => new[u] # None
<1>1. /\ None \notin Nat
      /\ old[t] # None => old[t] \in Nat
  BY KrxConstants DEF Figure
<1> QED
  BY <1>1

(* So a short balance stays published.                                      *)
LEMMA ShortStaysPublished ==
  ASSUME TypeOK, [Next]_vars
  PROVE  \A t \in Scope : short[t] # None => short'[t] # None
<1>1. ASSUME NEW t \in Scope, Publish(t)
      PROVE  \A u \in Scope : short[u] # None => short'[u] # None
  <2>1. CASE UNCHANGED short
    BY <2>1
  <2>2. CASE Revise(short, MaxShort, t)
    BY <2>2, ReviseKeeps DEF Revise, TypeOK
  <2> QED
    BY <1>1, <2>1, <2>2 DEF Publish
<1>2. short' = short \/ \E t \in Scope : Publish(t)
  BY KrxConstants DEF vars, exchange, Next, RunStep, FaultStep, SeedEntity, StartRun,
     NextTicker, FetchPrice, ResolveEntity, FetchFlow, FetchShort, FetchEmpty, SelectRow,
     UpsertRow, TickerFails, EndLoop, RecordRun, Crash
<1> QED
  BY <1>1, <1>2

(* A run is undisturbed after a step: it was before, and the step is its    *)
(* own and no empty answer, or it has just started with no other beside it. *)
LEMMA AloneStep ==
  ASSUME TypeOK, AloneInv, [Next]_vars, NEW p \in alone'
  PROVE  /\ p \in Run /\ UNCHANGED exchange
         /\ \/ p \in alone /\ UNCHANGED <<ohlcv, pc, todo, hand, outcome, alone>>
            \/ StartRun(p) /\ \A q \in Run : pc[q] = "idle"
            \/ p \in alone /\ ((RunStep(p) /\ ~RecordRun(p)) \/ TickerFails(p))
<1>1. alone \subseteq Run /\ Traded \subseteq Scope
  BY KrxConstants DEF TypeOK
<1>2. ASSUME NEW t \in Scope, Publish(t) PROVE FALSE
  BY <1>2 DEF Publish
<1>3. CASE UNCHANGED vars \/ \E x \in Company : SeedEntity(x)
  BY <1>1, <1>3 DEF vars, SeedEntity
<1>4. ASSUME NEW q \in Run, StartRun(q) PROVE q = p /\ \A r \in Run : pc[r] = "idle"
  BY <1>4 DEF StartRun
<1>5. ASSUME NEW q \in Run, RunStep(q) \/ FaultStep(q)
      PROVE  p \in alone /\ q = p /\ ((RunStep(p) /\ ~RecordRun(p)) \/ TickerFails(p))
  <2>1. pc[q] # "idle"
    BY <1>5 DEF RunStep, FaultStep, NextTicker, FetchPrice, ResolveEntity, FetchFlow,
       FetchShort, FetchEmpty, SelectRow, UpsertRow, TickerFails, EndLoop, RecordRun, Crash,
       Step
  <2>2. alone' \subseteq alone
    BY <1>5 DEF RunStep, FaultStep, NextTicker, FetchPrice, ResolveEntity, FetchFlow,
       FetchShort, FetchEmpty, SelectRow, UpsertRow, TickerFails, EndLoop, RecordRun, Crash,
       LeaveRun
  <2>3. p \in alone /\ q = p
    BY <1>5, <2>1, <2>2 DEF AloneInv, Undisturbed
  <2>4. ~RecordRun(p) /\ ~FetchEmpty(p) /\ ~Crash(p)
    BY DEF RecordRun, FetchEmpty, Crash, LeaveRun
  <2> QED
    BY <1>5, <2>3, <2>4 DEF RunStep, FaultStep
<1>6. UNCHANGED exchange
  BY <1>1, <1>2 DEF vars, Next, RunStep, FaultStep, SeedEntity, StartRun, NextTicker,
     FetchPrice, ResolveEntity, FetchFlow, FetchShort, FetchEmpty, SelectRow, UpsertRow,
     TickerFails, EndLoop, RecordRun, Crash
<1>7. p \in Run
  BY <1>1, <1>3, <1>4, <1>5, <1>2 DEF Next, StartRun, vars, SeedEntity
<1> QED
  BY <1>1, <1>2, <1>3, <1>4, <1>5, <1>6, <1>7 DEF Next

(* What an undisturbed run has in hand stays what the exchange says.        *)
LEMMA AloneNext == TypeOK /\ AloneInv /\ [Next]_vars => AloneInv'
<1> SUFFICES ASSUME TypeOK, AloneInv, [Next]_vars, NEW p \in alone'
             PROVE  Undisturbed(p)'
  BY DEF AloneInv
<1>0. p \in Run /\ UNCHANGED <<price, flow, short>>
  BY AloneStep DEF exchange
<1>1. CASE p \in alone /\ UNCHANGED <<ohlcv, pc, todo, hand, outcome, alone>>
  BY <1>0, <1>1 DEF AloneInv, Undisturbed, hand
<1>2. CASE StartRun(p) /\ \A q \in Run : pc[q] = "idle"
  BY <1>0, <1>2 DEF StartRun, Goto, Undisturbed, TypeOK, Step
<1>3. CASE p \in alone /\ ((RunStep(p) /\ ~RecordRun(p)) \/ TickerFails(p))
  <2>0. Undisturbed(p) /\ (RunStep(p) \/ FaultStep(p))
    BY <1>3 DEF AloneInv, FaultStep
  <2>1. \A q \in Run : q # p => pc'[q] = "idle"
    BY <1>0, <2>0, RunsApart DEF Apart, Undisturbed
  <2>2. ASSUME NEW o, Count(p, o) PROVE Undisturbed(p)'
    <3>1. pc'[p] = "next"
      BY <1>0, <2>2 DEF Count, Goto, TypeOK
    <3> QED
      BY <2>1, <3>1 DEF Undisturbed, Step
  <2>3. CASE NextTicker(p) \/ EndLoop(p)
    <3>1. pc'[p] = "price" \/ pc'[p] = "record"
      BY <1>0, <2>3 DEF NextTicker, EndLoop, Goto, TypeOK
    <3> QED
      BY <2>1, <3>1 DEF Undisturbed, Step
  <2>4. CASE FetchPrice(p) /\ price[cur[p]] # None
    <3>1. /\ pc'[p] = "entity" /\ UNCHANGED cur /\ gotPrice'[p] = price[cur[p]]
      BY <1>0, <2>4 DEF FetchPrice, Goto, TypeOK
    <3> QED
      BY <1>0, <2>1, <3>1 DEF Undisturbed, Step
  <2>5. CASE ResolveEntity(p) /\ ResolveTicker(cur[p]) # {}
    <3>1. pc[p] = "entity" /\ pc'[p] = "flow" /\ UNCHANGED <<cur, gotPrice>>
      BY <1>0, <2>5 DEF ResolveEntity, Goto, TypeOK
    <3> QED
      BY <1>0, <2>0, <2>1, <3>1 DEF Undisturbed, Step
  <2>6. CASE FetchFlow(p)
    <3>1. /\ pc[p] = "flow" /\ pc'[p] = "short" /\ UNCHANGED <<cur, gotPrice>>
          /\ gotFlow'[p] = flow[cur[p]]
      BY <1>0, <2>6 DEF FetchFlow, Goto, TypeOK
    <3> QED
      BY <1>0, <2>0, <2>1, <3>1 DEF Undisturbed, Step
  <2>7. CASE FetchShort(p)
    <3>1. /\ pc[p] = "short" /\ pc'[p] = "select" /\ UNCHANGED <<cur, gotPrice, gotFlow>>
          /\ gotShort'[p] = short[cur[p]]
      BY <1>0, <2>7 DEF FetchShort, Goto, TypeOK
    <3> QED
      BY <1>0, <2>0, <2>1, <3>1 DEF Undisturbed, Step
  <2>8. CASE SelectRow(p) /\ Goto(p, "upsert") /\ UNCHANGED <<cur, gotPrice, gotFlow, gotShort>>
    <3>1. pc[p] = "select" /\ pc'[p] = "upsert"
      BY <1>0, <2>8 DEF SelectRow, Goto, TypeOK
    <3> QED
      BY <1>0, <2>0, <2>1, <2>8, <3>1 DEF Undisturbed, Step
  <2>9. CASE UpsertRow(p) \/ TickerFails(p)
    BY <2>2, <2>9 DEF UpsertRow, TickerFails
  <2>10. FetchPrice(p) /\ price[cur[p]] = None => Count(p, "skipped")
    BY DEF FetchPrice
  <2>11. ResolveEntity(p) /\ ResolveTicker(cur[p]) = {} => Count(p, "failed")
    BY DEF ResolveEntity
  <2>12. SelectRow(p) =>
           Count(p, "skipped")
           \/ (Goto(p, "upsert") /\ UNCHANGED <<cur, gotPrice, gotFlow, gotShort>>)
    BY DEF SelectRow
  <2> QED
    BY <1>3, <2>2, <2>3, <2>4, <2>5, <2>6, <2>7, <2>8, <2>9, <2>10, <2>11, <2>12 DEF RunStep
<1> QED
  BY <1>1, <1>2, <1>3, AloneStep

(* The row that an upsert leaves.                                           *)
LEMMA UpsertedRow ==
  ASSUME TypeOK, NEW p \in Run, UpsertRow(p)
  PROVE  /\ cur[p] \in Scope /\ ohlcv'[cur[p]] = Merged(p, ohlcv[cur[p]])
         /\ ohlcv'[cur[p]] # None
         /\ \A t \in Scope : t # cur[p] => ohlcv'[t] = ohlcv[t]
<1>1. cur[p] \in Scope
  BY DEF UpsertRow, TypeOK, Step
<1>2. Merged(p, ohlcv[cur[p]]) \in Row
  BY DEF UpsertRow, Merged, Coalesce, Row, TypeOK, Step, Figure
<1> QED
  BY <1>1, <1>2, KrxConstants DEF UpsertRow, TypeOK

(* A short figure in the table or in hand has been published.               *)
LEMMA PastNext == TypeOK /\ PastInv /\ [Next]_vars => PastInv'
<1> SUFFICES ASSUME TypeOK, PastInv, [Next]_vars PROVE PastInv'
  OBVIOUS
<1>0. \A t \in Scope : short[t] # None => short'[t] # None
  BY ShortStaysPublished
<1>1. \A t \in Scope : ohlcv'[t] # None /\ ohlcv'[t].short # None => short'[t] # None
  <2>1. ohlcv' = ohlcv \/ \E p \in Run : UpsertRow(p)
    BY DEF vars, Next, RunStep, FaultStep, Publish, SeedEntity, StartRun,
       NextTicker, FetchPrice, ResolveEntity, FetchFlow, FetchShort, FetchEmpty, SelectRow,
       TickerFails, EndLoop, RecordRun, Crash
  <2>2. ASSUME NEW p \in Run, UpsertRow(p), NEW t \in Scope, ohlcv'[t].short # None,
               ohlcv'[t] # None
        PROVE  short[t] # None
    <3>1. CASE t = cur[p]
      <4>0. ohlcv'[t] = Merged(p, ohlcv[t])
        BY <2>2, <3>1, UpsertedRow
      <4>1. ohlcv'[t].short = gotShort[p]
            \/ (ohlcv[t] # None /\ ohlcv'[t].short = ohlcv[t].short)
        BY <4>0 DEF Merged, Coalesce
      <4> QED
        BY <2>2, <3>1, <4>1 DEF PastInv
    <3>2. CASE t # cur[p]
      BY <2>2, <3>2, UpsertedRow DEF PastInv
    <3> QED
      BY <3>1, <3>2
  <2> QED
    BY <1>0, <2>1, <2>2 DEF PastInv
<1>2. ASSUME NEW q \in Run, gotShort'[q] # None
      PROVE  pc'[q] \in Step /\ short'[cur'[q]] # None
  <2>1. ASSUME gotShort'[q] = gotShort[q], cur'[q] = cur[q],
               pc[q] \in Step => pc'[q] \in Step
        PROVE  pc'[q] \in Step /\ short'[cur'[q]] # None
    <3>1. pc[q] \in Step /\ short[cur[q]] # None /\ cur[q] \in Scope
      BY <1>2, <2>1 DEF PastInv, TypeOK
    <3> QED
      BY <1>0, <2>1, <3>1
  <2>2. CASE UNCHANGED <<pc, hand>>
    BY <2>1, <2>2 DEF hand
  <2>3. ASSUME NEW p \in Run, DropHand(p), UNCHANGED pc \/ \E label : Goto(p, label)
        PROVE  gotShort'[q] = gotShort[q] /\ cur'[q] = cur[q] /\ pc'[q] = pc[q]
    BY <1>2, <2>3 DEF DropHand, Goto, TypeOK
  <2>4. ASSUME NEW p \in Run, StartRun(p) \/ EndLoop(p)
        PROVE  gotShort'[q] = gotShort[q] /\ cur'[q] = cur[q]
               /\ (pc[q] \in Step => pc'[q] \in Step)
    BY <2>4 DEF StartRun, EndLoop, Goto, hand, TypeOK, Step
  <2>5. ASSUME NEW p \in Run, NextTicker(p)
        PROVE  gotShort'[q] = gotShort[q] /\ cur'[q] = cur[q] /\ pc'[q] = pc[q]
    <3>1. p # q
      BY <1>2, <2>5 DEF NextTicker, PastInv, Step
    <3> QED
      BY <2>5, <3>1 DEF NextTicker, Goto, TypeOK
  <2>6. ASSUME NEW p \in Run, FetchFlow(p) \/ FetchEmpty(p)
        PROVE  gotShort'[q] = gotShort[q] /\ cur'[q] = cur[q]
               /\ (pc[q] \in Step => pc'[q] \in Step)
    BY <2>6 DEF FetchFlow, FetchEmpty, Goto, hand, TypeOK, Step
  <2>7. ASSUME NEW p \in Run, FetchShort(p)
        PROVE  pc'[q] \in Step /\ short'[cur'[q]] # None
    <3>1. CASE p = q
      <4>1. pc'[q] = "select" /\ gotShort'[q] = short[cur[q]] /\ cur' = cur /\ short' = short
        BY <2>7, <3>1 DEF FetchShort, Goto, exchange, TypeOK
      <4> QED
        BY <1>2, <4>1 DEF Step
    <3>2. CASE p # q
      <4>1. pc'[q] = pc[q] /\ gotShort'[q] = gotShort[q] /\ cur' = cur
        BY <2>7, <3>2 DEF FetchShort, Goto, TypeOK
      <4> QED
        BY <2>1, <4>1
    <3> QED
      BY <3>1, <3>2
  <2>8. ASSUME NEW p \in Run, UNCHANGED <<cur, gotShort>>,
               Goto(p, "entity") \/ Goto(p, "flow") \/ Goto(p, "upsert")
        PROVE  gotShort'[q] = gotShort[q] /\ cur'[q] = cur[q]
               /\ (pc[q] \in Step => pc'[q] \in Step)
    BY <2>8 DEF Goto, TypeOK, Step
  <2>9. ASSUME NEW p \in Run, FetchPrice(p) \/ ResolveEntity(p) \/ SelectRow(p)
                               \/ UpsertRow(p) \/ TickerFails(p) \/ RecordRun(p) \/ Crash(p)
        PROVE  \/ DropHand(p) /\ \E label : Goto(p, label)
               \/ /\ UNCHANGED <<cur, gotShort>>
                  /\ Goto(p, "entity") \/ Goto(p, "flow") \/ Goto(p, "upsert")
    BY <2>9 DEF FetchPrice, ResolveEntity, SelectRow, UpsertRow, TickerFails, RecordRun,
       Crash, LeaveRun, Count
  <2>10. ASSUME vars' = vars \/ (\E t \in Traded : Publish(t)) \/ (\E x \in Company : SeedEntity(x))
         PROVE  UNCHANGED <<pc, hand>>
    BY <2>10 DEF vars, Publish, SeedEntity
  <2> QED
    BY <2>1, <2>2, <2>3, <2>4, <2>5, <2>6, <2>7, <2>8, <2>9, <2>10 DEF Next, RunStep, FaultStep
<1> QED
  BY <1>1, <1>2 DEF PastInv

(* Only a running run has outcomes.                                         *)
LEMMA IdleNext == TypeOK /\ IdleInv /\ [Next]_vars => IdleInv'
<1> SUFFICES ASSUME TypeOK, IdleInv, [Next]_vars, NEW q \in Run, NEW t \in Scope,
                    pc'[q] = "idle"
             PROVE  outcome'[<<q, t>>] = None
  BY DEF IdleInv
<1>1. ASSUME pc'[q] = pc[q], outcome'[<<q, t>>] = outcome[<<q, t>>]
      PROVE  outcome'[<<q, t>>] = None
  BY <1>1 DEF IdleInv
<1>2. ASSUME UNCHANGED vars \/ (\E u \in Traded : Publish(u)) \/ (\E x \in Company : SeedEntity(x))
      PROVE  pc'[q] = pc[q] /\ outcome'[<<q, t>>] = outcome[<<q, t>>]
  BY <1>2 DEF vars, Publish, SeedEntity
<1>3. ASSUME NEW p \in Run, p # q, StartRun(p) \/ RunStep(p) \/ FaultStep(p)
      PROVE  pc'[q] = pc[q] /\ outcome'[<<q, t>>] = outcome[<<q, t>>]
  BY <1>3, RunsApart DEF Apart
<1>4. ASSUME RecordRun(q) \/ Crash(q) PROVE outcome'[<<q, t>>] = None
  BY <1>4 DEF RecordRun, Crash, LeaveRun
<1>5. ASSUME StartRun(q) \/ NextTicker(q) \/ FetchPrice(q) \/ ResolveEntity(q) \/ FetchFlow(q)
             \/ FetchShort(q) \/ SelectRow(q) \/ UpsertRow(q) \/ EndLoop(q) \/ FetchEmpty(q)
             \/ TickerFails(q)
      PROVE  FALSE
  BY <1>5 DEF StartRun, NextTicker, FetchPrice, ResolveEntity, FetchFlow, FetchShort,
     SelectRow, UpsertRow, EndLoop, FetchEmpty, TickerFails, Count, Goto, TypeOK
<1> QED
  BY <1>1, <1>2, <1>3, <1>4, <1>5 DEF Next, RunStep, FaultStep

(* An upsert, or a SELECT that finds nothing to change, leaves the row equal *)
(* to what an undisturbed run has in hand, which is what the exchange says. *)
LEMMA RowAgrees ==
  ASSUME TypeOK, AloneInv, PastInv, NEW p \in alone, NEW t \in Scope, t = cur[p],
         pc[p] \in {"select", "upsert"}, UNCHANGED exchange,
         ohlcv'[t] # None, ohlcv'[t] = Merged(p, ohlcv[t])
  PROVE  Agrees(t)'
<1>1. p \in Run
  BY DEF TypeOK
<1>2. gotPrice[p] = price[t] /\ gotFlow[p] = flow[t] /\ gotShort[p] = short[t]
  BY DEF AloneInv, Undisturbed, Step
<1>3. gotShort[p] = None => ohlcv[t] = None \/ ohlcv[t].short = None
  BY <1>1, <1>2 DEF PastInv
<1>4. /\ ohlcv'[t].price = gotPrice[p]
      /\ ohlcv'[t].flow = gotFlow[p]
      /\ ohlcv'[t].short = gotShort[p]
  BY <1>3 DEF Merged, Coalesce
<1> QED
  BY <1>2, <1>4 DEF Agrees, exchange

(* What an undisturbed run does not report as failed agrees.                *)
LEMMA RerunNext ==
  TypeOK /\ AloneInv /\ PastInv /\ IdleInv /\ RerunAgrees /\ [Next]_vars => RerunAgrees'
<1> SUFFICES ASSUME TypeOK, AloneInv, PastInv, IdleInv, RerunAgrees, [Next]_vars,
                    NEW p \in alone', NEW t \in Scope,
                    outcome'[<<p, t>>] \in Outcome \ {"failed"}, price'[t] # None
             PROVE  Agrees(t)'
  BY DEF RerunAgrees
<1>0. p \in Run /\ UNCHANGED <<price, flow, short>> /\ UNCHANGED exchange
      /\ None \notin Outcome
  BY AloneStep, KrxConstants DEF exchange
<1>1. ASSUME p \in alone, ohlcv'[t] = ohlcv[t], outcome'[<<p, t>>] = outcome[<<p, t>>]
      PROVE  Agrees(t)'
  BY <1>0, <1>1 DEF RerunAgrees, Agrees
<1>2. CASE p \in alone /\ UNCHANGED <<ohlcv, pc, todo, hand, outcome, alone>>
  BY <1>1, <1>2
<1>3. CASE StartRun(p)
  BY <1>0, <1>3 DEF StartRun, IdleInv
<1>4. CASE p \in alone /\ ((RunStep(p) /\ ~RecordRun(p)) \/ TickerFails(p))
  <2>1. CASE NextTicker(p) \/ EndLoop(p) \/ FetchFlow(p) \/ FetchShort(p)
    BY <1>1, <1>4, <2>1 DEF NextTicker, EndLoop, FetchFlow, FetchShort
  <2>2. CASE UpsertRow(p)
    <3>1. CASE t = cur[p]
      <4>1. pc[p] = "upsert" /\ ohlcv'[t] # None /\ ohlcv'[t] = Merged(p, ohlcv[t])
        BY <1>0, <2>2, <3>1, UpsertedRow DEF UpsertRow
      <4> QED
        BY <1>0, <1>4, <3>1, <4>1, RowAgrees
    <3>2. CASE t # cur[p]
      <4>1. ohlcv'[t] = ohlcv[t] /\ outcome'[<<p, t>>] = outcome[<<p, t>>]
        BY <1>0, <2>2, <3>2, UpsertedRow, CountOutcome DEF UpsertRow, Step
      <4> QED
        BY <1>1, <1>4, <4>1
    <3> QED
      BY <3>1, <3>2
  <2>3. ASSUME NEW o, Count(p, o), pc[p] \in Step, UNCHANGED ohlcv,
               t = cur[p] => \/ o = "failed" \/ price[t] = None
                             \/ pc[p] = "select" /\ ohlcv[t] # None
                                /\ Merged(p, ohlcv[t]) = ohlcv[t]
        PROVE  Agrees(t)'
    <3>1. /\ outcome'[<<p, cur[p]>>] = o
          /\ t # cur[p] => outcome'[<<p, t>>] = outcome[<<p, t>>]
      BY <1>0, <2>3, CountOutcome
    <3>2. CASE t # cur[p]
      BY <1>1, <1>4, <2>3, <3>1, <3>2
    <3>3. CASE t = cur[p]
      <4>1. pc[p] = "select" /\ ohlcv[t] # None /\ Merged(p, ohlcv[t]) = ohlcv[t]
        BY <1>0, <2>3, <3>1, <3>3
      <4>2. ohlcv'[t] # None /\ ohlcv'[t] = Merged(p, ohlcv[t])
        BY <2>3, <3>3, <4>1
      <4> QED
        BY <1>0, <1>4, <3>3, <4>1, <4>2, RowAgrees
    <3> QED
      BY <3>2, <3>3
  <2>4. CASE FetchPrice(p) \/ ResolveEntity(p) \/ SelectRow(p) \/ TickerFails(p)
    <3>1. pc[p] \in Step /\ UNCHANGED ohlcv
      BY <2>4 DEF FetchPrice, ResolveEntity, SelectRow, TickerFails, Step
    <3>2. CASE UNCHANGED outcome
      BY <1>1, <1>4, <3>1, <3>2
    <3>3. CASE Count(p, "failed")
      BY <2>3, <3>1, <3>3
    <3>4. CASE FetchPrice(p) /\ Count(p, "skipped") /\ price[cur[p]] = None
      BY <2>3, <3>1, <3>4
    <3>5. CASE /\ SelectRow(p) /\ Count(p, "skipped") /\ ohlcv[cur[p]] # None
               /\ Merged(p, ohlcv[cur[p]]) = ohlcv[cur[p]]
      <4>1. pc[p] = "select"
        BY <3>5 DEF SelectRow
      <4> QED
        BY <2>3, <3>1, <3>5, <4>1
    <3> QED
      BY <2>4, <3>2, <3>3, <3>4, <3>5 DEF FetchPrice, ResolveEntity, SelectRow, TickerFails
  <2> QED
    BY <1>4, <2>1, <2>2, <2>4 DEF RunStep
<1> QED
  BY <1>2, <1>3, <1>4, AloneStep

(* Every step preserves the inductive invariant.                            *)
LEMMA IInvNext == IInv /\ [Next]_vars => IInv'
<1> SUFFICES ASSUME IInv, [Next]_vars PROVE IInv'
  OBVIOUS
<1>1. TypeOK' /\ HandInv' /\ LoopInv' /\ RowsAttributed'
      /\ AloneInv' /\ PastInv' /\ IdleInv' /\ RerunAgrees'
  BY TypeNext, HandNext, LoopNext, RowsNext, AloneNext, PastNext, IdleNext, RerunNext DEF IInv
<1>2. TickersAccounted'
  <2>1. ASSUME NEW p \in Run, NEW t \in Scope, pc'[p] = "record" PROVE outcome'[<<p, t>>] # None
    BY <1>1, <2>1 DEF LoopInv, Step
  <2> QED
    BY <2>1, WrittenNext DEF TickersAccounted
<1> QED
  BY <1>1, <1>2 DEF IInv

(* IInv holds in every reachable state.                                     *)
LEMMA Inductive == Spec => []IInv
  BY IInvInit, IInvNext, PTL DEF Spec

(* TypeOK is an invariant of overlapping collect_krx runs.                  *)
THEOREM TypeCorrect == Spec => []TypeOK
<1>1. IInv => TypeOK
  BY DEF IInv
<1> QED
  BY <1>1, Inductive, PTL

(* Every ohlcv row carries a corporation that resolve_entity returns for    *)
(* its ticker, although it was looked up before two network calls.          *)
THEOREM RowsHaveHolders == Spec => []RowsAttributed
<1>1. IInv => RowsAttributed
  BY DEF IInv
<1> QED
  BY <1>1, Inductive, PTL

(* When a run of collect_krx ends, every ticker of the portfolio has been   *)
(* counted, whichever tickers failed, and what is counted as written is in  *)
(* the table.                                                               *)
THEOREM NoTickerDropped == Spec => []TickersAccounted
<1>1. IInv => TickersAccounted
  BY DEF IInv
<1> QED
  BY <1>1, Inductive, PTL

(* A run of collect_krx that nothing disturbs leaves the rows of the tickers *)
(* it does not report as failed equal to what the exchange says, whatever   *)
(* earlier runs of that date left behind.                                   *)
THEOREM RerunsRepair == Spec => []RerunAgrees
<1>1. IInv => RerunAgrees
  BY DEF IInv
<1> QED
  BY <1>1, Inductive, PTL

(* The COALESCE of upsert_ohlcv: no write of any overlapping run takes a    *)
(* stored short figure away.                                                *)
THEOREM ShortFiguresKept == Spec => ShortKept
<1> DEFINE Kept == \A t \in Scope : ohlcv[t] # None /\ ohlcv[t].short # None
                                     => ohlcv'[t] # None /\ ohlcv'[t].short # None
<1>1. TypeOK /\ [Next]_vars => [Kept]_vars
  <2> SUFFICES ASSUME TypeOK, [Next]_vars, NEW t \in Scope,
                      ohlcv[t] # None, ohlcv[t].short # None
               PROVE  ohlcv'[t] # None /\ ohlcv'[t].short # None
    OBVIOUS
  <2>1. ohlcv'[t] # None
    BY NothingLost
  <2>2. ohlcv' = ohlcv \/ \E p \in Run : UpsertRow(p)
    BY DEF vars, Next, RunStep, FaultStep, Publish, SeedEntity, StartRun,
       NextTicker, FetchPrice, ResolveEntity, FetchFlow, FetchShort, FetchEmpty, SelectRow,
       TickerFails, EndLoop, RecordRun, Crash
  <2>3. ASSUME NEW p \in Run, UpsertRow(p) PROVE ohlcv'[t].short # None
    <3>1. CASE t = cur[p]
      <4>1. ohlcv'[t] = Merged(p, ohlcv[t])
        BY <2>3, <3>1 DEF UpsertRow, TypeOK
      <4> QED
        BY <4>1 DEF Merged, Coalesce
    <3>2. CASE t # cur[p]
      BY <2>3, <3>2 DEF UpsertRow, TypeOK
    <3> QED
      BY <3>1, <3>2
  <2> QED
    BY <2>1, <2>2, <2>3
<1> QED
  BY <1>1, TypeCorrect, PTL DEF Spec, ShortKept

=============================================================================
