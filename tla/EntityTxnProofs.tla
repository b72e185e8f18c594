--------------------------- MODULE EntityTxnProofs ---------------------------
(***************************************************************************)
(* Theorems about EntityTxn, for any sets of corporations, names, tickers,  *)
(* calls, writers and seeders. The argument: whoever is past its first      *)
(* statement holds the row lock of its corporation (LockInv), so what the   *)
(* SELECT on entity_aliases returned is still true when the transaction     *)
(* commits (AliasInv).                                                      *)
(***************************************************************************)
EXTENDS EntityTxn, TLAPS

(* Writers past their first statement hold their row.                       *)
LockInv == \A w \in Writer : stage[w] \in Holding => lock[call[w].corp] = w

(* What the SELECT saw stays so until the commit.                           *)
Aliases(w) == tickerAlias[<<call[w].corp, call[w].ticker>>]

AliasInv ==
    \A w \in Writer :
        /\ stage[w] \in {"select", "insert", "commitBoth"} => call[w].ticker # None
        /\ stage[w] \in {"insert", "commitBoth"} => Aliases(w) = 0
        /\ (stage[w] = "commitRow" /\ call[w].ticker # None) => Aliases(w) > 0

IInv == TypeOK /\ LockInv /\ AliasInv /\ UniqueTickerAlias /\ CurrentTickerHeld

(* Every row a seeder has read is still to be visited, about to be seeded,  *)
(* or has its alias already.                                                *)
SeedLoopInv ==
    \A s \in Seeder : \A r \in seed[s].snap :
        r \in seed[s].rows \/ r \in seed[s].pend \/ nameAlias[r] > 0

(* A seeder that runs alone is about to insert only what is missing.        *)
SeedAloneInv ==
    /\ \A s \in Seeder : \A r \in seed[s].pend : nameAlias[r] = 0
    /\ UniqueNameAlias

------------------------------------------------------------------------------
(* The empty tables and idle processes are well typed.                      *)
LEMMA TypeInit == Init => TypeOK
  BY TxnNoneIsFresh DEF Init, TypeOK, NoSeed, NamePair

(* A call that is being served has the shape of upsert_entity's arguments.  *)
LEMMA CallParts ==
  ASSUME TypeOK, NEW w \in Writer, stage[w] # "idle"
  PROVE  /\ call[w].corp \in CorpCode
         /\ call[w].name \in CompanyName
         /\ call[w].ticker \in Ticker \cup {None}
         /\ [name |-> call[w].name, ticker |-> call[w].ticker] \in EntityRow
  BY CallShape DEF TypeOK, EntityRow

(* Every step of a writer or of a seeder keeps the types.                   *)
LEMMA TypeNext == TypeOK /\ [Next]_vars => TypeOK'
<1> SUFFICES ASSUME TypeOK, [Next]_vars PROVE TypeOK'
  OBVIOUS
<1> USE TxnNoneIsFresh, CallShape
<1>1. CASE UNCHANGED vars
  BY <1>1 DEF vars, TypeOK
<1>2. ASSUME NEW w \in Writer, BeginUpsert(w) PROVE TypeOK'
  BY <1>2 DEF TypeOK, BeginUpsert, db
<1>3. ASSUME NEW w \in Writer, UpsertRow(w) PROVE TypeOK'
  BY <1>3 DEF TypeOK, UpsertRow, db, Holding
<1>4. ASSUME NEW w \in Writer, SelectAlias(w) PROVE TypeOK'
  BY <1>4 DEF TypeOK, SelectAlias, db, Holding
<1>5. ASSUME NEW w \in Writer, InsertAlias(w) PROVE TypeOK'
  BY <1>5 DEF TypeOK, InsertAlias, db, Holding
<1>6. ASSUME NEW w \in Writer, CommitUpsert(w) PROVE TypeOK'
  <2>1. stage[w] # "idle"
    BY <1>6 DEF CommitUpsert
  <2>2. entities' \in [CorpCode -> EntityRow \cup {None}]
    BY <1>6, <2>1, CallParts DEF TypeOK, CommitUpsert
  <2>3. tickerAlias' \in [CorpCode \X Ticker -> Nat]
    <3> DEFINE p == <<call[w].corp, call[w].ticker>>
    <3>1. tickerAlias \in [CorpCode \X Ticker -> Nat]
      BY DEF TypeOK
    <3>2. tickerAlias' = [tickerAlias EXCEPT ![p] = tickerAlias[p] + 1]
            \/ tickerAlias' = tickerAlias
      BY <1>6 DEF CommitUpsert
    <3>3. p \in CorpCode \X Ticker => tickerAlias[p] + 1 \in Nat
      BY <3>1
    <3> HIDE DEF p
    <3> QED
      BY <3>1, <3>2, <3>3
  <2>4. lock' \in [CorpCode -> Writer \cup {None}]
    BY <1>6 DEF TypeOK, CommitUpsert, Release
  <2>5. /\ stage' \in [Writer -> Holding \cup {"idle", "row"}]
        /\ call' \in [Writer -> Call \cup {None}]
        /\ \A v \in Writer : stage'[v] # "idle" => call'[v] \in Call
    BY <1>6 DEF TypeOK, CommitUpsert, Finish, Holding
  <2> QED
    BY <1>6, <2>2, <2>3, <2>4, <2>5 DEF TypeOK, CommitUpsert
<1>7. ASSUME NEW w \in Writer, AbortUpsert(w) PROVE TypeOK'
  BY <1>7 DEF TypeOK, AbortUpsert, db, Release, Finish
<1>8. ASSUME NEW s \in Seeder, BeginSeed(s) PROVE TypeOK'
  BY <1>8 DEF TypeOK, BeginSeed, db, Known, NamePair, EntityRow
<1>9. ASSUME NEW s \in Seeder, SeedSelect(s) PROVE TypeOK'
  BY <1>9 DEF TypeOK, SeedSelect, db
<1>10. ASSUME NEW s \in Seeder, SeedInsert(s) PROVE TypeOK'
  BY <1>10 DEF TypeOK, SeedInsert, db
<1>11. ASSUME NEW s \in Seeder, SeedCommit(s) PROVE TypeOK'
  BY <1>11 DEF TypeOK, SeedCommit, NoSeed
<1>12. ASSUME NEW s \in Seeder, SeedAbort(s) PROVE TypeOK'
  BY <1>12 DEF TypeOK, SeedAbort, db, NoSeed
<1> QED
  BY <1>1, <1>2, <1>3, <1>4, <1>5, <1>6, <1>7, <1>8, <1>9, <1>10, <1>11, <1>12
     DEF Next, WriterStep, SeederStep

(* TypeOK is an invariant of the transactions of upsert_entity and of       *)
(* seed_name_aliases.                                                       *)
THEOREM TypeCorrect == Spec => []TypeOK
  BY TypeInit, TypeNext, PTL DEF Spec

------------------------------------------------------------------------------
(* Row locks exclude: only the owner writes a corporation.                  *)
LEMMA LockNext == TypeOK /\ LockInv /\ [Next]_vars => LockInv'
<1> SUFFICES ASSUME TypeOK, LockInv, [Next]_vars,
                    NEW v \in Writer, stage'[v] \in Holding
             PROVE  lock'[call'[v].corp] = v
  BY DEF LockInv
<1>1. CASE UNCHANGED vars
  BY <1>1 DEF vars, LockInv
<1>2. ASSUME NEW w \in Writer, BeginUpsert(w) PROVE lock'[call'[v].corp] = v
  BY <1>2 DEF TypeOK, LockInv, BeginUpsert, Holding
<1>3. ASSUME NEW w \in Writer, UpsertRow(w) PROVE lock'[call'[v].corp] = v
  BY <1>3, CallParts, TxnNoneIsFresh DEF TypeOK, LockInv, UpsertRow, Holding
<1>4. ASSUME NEW w \in Writer, SelectAlias(w) \/ InsertAlias(w)
      PROVE lock'[call'[v].corp] = v
  BY <1>4 DEF TypeOK, LockInv, SelectAlias, InsertAlias, Holding
<1>5. ASSUME NEW w \in Writer, CommitUpsert(w) \/ AbortUpsert(w)
      PROVE lock'[call'[v].corp] = v
  <2>1. v # w /\ stage[v] \in Holding /\ call'[v] = call[v]
    BY <1>5 DEF TypeOK, CommitUpsert, AbortUpsert, Finish, Holding
  <2>2. lock[call[v].corp] = v
    BY <2>1 DEF LockInv
  <2>3. CASE stage[w] \in Holding
    <3>1. lock[call[w].corp] = w
      BY <2>3 DEF LockInv
    <3>2. call[v].corp # call[w].corp
      BY <2>1, <2>2, <3>1
    <3> QED
      BY <1>5, <2>1, <2>2, <2>3, <3>2, CallParts
         DEF TypeOK, CommitUpsert, AbortUpsert, Release, Holding
  <2>4. CASE stage[w] \notin Holding
    BY <1>5, <2>1, <2>2, <2>4 DEF CommitUpsert, AbortUpsert, Holding
  <2> QED
    BY <2>3, <2>4
<1>6. ASSUME NEW s \in Seeder, SeederStep(s) PROVE lock'[call'[v].corp] = v
  BY <1>6 DEF LockInv, SeederStep, BeginSeed, SeedSelect, SeedInsert,
              SeedCommit, SeedAbort
<1> QED
  BY <1>1, <1>2, <1>3, <1>4, <1>5, <1>6 DEF Next, WriterStep

(* A commit of another writer concerns another corporation, so it cannot    *)
(* falsify what this writer read.                                           *)
LEMMA AliasNext == TypeOK /\ LockInv /\ AliasInv /\ [Next]_vars => AliasInv'
<1> SUFFICES ASSUME TypeOK, LockInv, AliasInv, [Next]_vars, NEW v \in Writer
             PROVE  /\ stage'[v] \in {"select", "insert", "commitBoth"}
                          => call'[v].ticker # None
                    /\ stage'[v] \in {"insert", "commitBoth"} => Aliases(v)' = 0
                    /\ (stage'[v] = "commitRow" /\ call'[v].ticker # None)
                          => Aliases(v)' > 0
  BY DEF AliasInv
<1> DEFINE Goal == /\ stage'[v] \in {"select", "insert", "commitBoth"}
                         => call'[v].ticker # None
                   /\ stage'[v] \in {"insert", "commitBoth"} => Aliases(v)' = 0
                   /\ (stage'[v] = "commitRow" /\ call'[v].ticker # None)
                         => Aliases(v)' > 0
<1>0. ASSUME UNCHANGED <<tickerAlias, call[v], stage[v]>> PROVE Goal
  BY <1>0 DEF AliasInv, Aliases
<1>1. CASE UNCHANGED vars
  BY <1>0, <1>1 DEF vars
<1>2. ASSUME NEW w \in Writer, BeginUpsert(w) PROVE Goal
  BY <1>0, <1>2 DEF TypeOK, BeginUpsert, db
<1>3. ASSUME NEW w \in Writer, UpsertRow(w) PROVE Goal
  BY <1>0, <1>3 DEF TypeOK, UpsertRow, db
<1>4. ASSUME NEW w \in Writer, SelectAlias(w) PROVE Goal
  <2>1. CASE v # w
    BY <1>0, <1>4, <2>1 DEF TypeOK, SelectAlias, db
  <2>2. CASE v = w
    <3>1. /\ call'[v] = call[v] /\ tickerAlias' = tickerAlias
          /\ call[v].ticker # None
          /\ stage'[v] = IF Aliases(v) = 0 THEN "insert" ELSE "commitRow"
      BY <1>4, <2>2 DEF TypeOK, SelectAlias, db, AliasInv, Aliases
    <3>2. Aliases(v) \in Nat
      BY <1>4, <2>2, <3>1, CallParts DEF TypeOK, SelectAlias, Aliases
    <3> QED
      BY <3>1, <3>2 DEF Aliases
  <2> QED
    BY <2>1, <2>2
<1>5. ASSUME NEW w \in Writer, InsertAlias(w) PROVE Goal
  BY <1>0, <1>5 DEF TypeOK, InsertAlias, db, AliasInv, Aliases
<1>6. ASSUME NEW w \in Writer, CommitUpsert(w) PROVE Goal
  <2>1. CASE v = w
    BY <1>6, <2>1 DEF TypeOK, CommitUpsert, Finish
  <2>2. CASE v # w /\ stage[v] \notin Holding
    BY <1>6, <2>2 DEF TypeOK, CommitUpsert, Finish, Holding
  <2>3. CASE v # w /\ stage[v] \in Holding
    <3>1. call[v].corp # call[w].corp
      BY <1>6, <2>3 DEF CommitUpsert, LockInv, Holding
    <3>2. call'[v] = call[v] /\ stage'[v] = stage[v]
      BY <1>6, <2>3 DEF TypeOK, CommitUpsert, Finish
    <3>3. ASSUME call[v].ticker # None PROVE Aliases(v)' = Aliases(v)
      <4>1. <<call[v].corp, call[v].ticker>> \in CorpCode \X Ticker
        BY <2>3, <3>3, CallParts DEF Holding
      <4> QED
        BY <1>6, <3>1, <3>2, <4>1 DEF TypeOK, CommitUpsert, Aliases
    <3> QED
      BY <3>2, <3>3 DEF AliasInv
  <2> QED
    BY <2>1, <2>2, <2>3
<1>7. ASSUME NEW w \in Writer, AbortUpsert(w) PROVE Goal
  BY <1>0, <1>7 DEF TypeOK, AbortUpsert, Finish, db
<1>8. ASSUME NEW s \in Seeder, SeederStep(s) PROVE Goal
  BY <1>0, <1>8 DEF SeederStep, BeginSeed, SeedSelect, SeedInsert,
                    SeedCommit, SeedAbort, db
<1> QED
  BY <1>1, <1>2, <1>3, <1>4, <1>5, <1>6, <1>7, <1>8 DEF Next, WriterStep

(* An alias is inserted only by a transaction that saw none and still holds *)
(* the row, so that the count does not pass one.                            *)
LEMMA UniqueNext ==
  TypeOK /\ AliasInv /\ UniqueTickerAlias /\ [Next]_vars => UniqueTickerAlias'
<1> SUFFICES ASSUME TypeOK, AliasInv, UniqueTickerAlias, [Next]_vars,
                    NEW p \in CorpCode \X Ticker
             PROVE  tickerAlias'[p] <= 1
  BY DEF UniqueTickerAlias
<1>1. ASSUME UNCHANGED tickerAlias PROVE tickerAlias'[p] <= 1
  BY <1>1 DEF UniqueTickerAlias
<1>2. ASSUME NEW w \in Writer, CommitUpsert(w) PROVE tickerAlias'[p] <= 1
  <2> DEFINE q == <<call[w].corp, call[w].ticker>>
  <2>1. CASE stage[w] = "commitBoth"
    <3>1. tickerAlias' = [tickerAlias EXCEPT ![q] = tickerAlias[q] + 1]
      BY <1>2, <2>1 DEF CommitUpsert
    <3>2. tickerAlias[q] = 0
      BY <2>1 DEF AliasInv, Aliases
    <3>3. tickerAlias[p] <= 1 /\ tickerAlias \in [CorpCode \X Ticker -> Nat]
      BY DEF UniqueTickerAlias, TypeOK
    <3> HIDE DEF q
    <3> QED
      BY <3>1, <3>2, <3>3
  <2>2. CASE stage[w] # "commitBoth"
    BY <1>1, <1>2, <2>2 DEF CommitUpsert
  <2> QED
    BY <2>1, <2>2
<1> QED
  BY <1>1, <1>2 DEF Next, vars, db, WriterStep, SeederStep, BeginUpsert, UpsertRow,
     SelectAlias, InsertAlias, AbortUpsert, BeginSeed, SeedSelect, SeedInsert,
     SeedCommit, SeedAbort

(* A commit changes one entities row and at most one ticker alias; when it  *)
(* carries a ticker, the alias of that ticker exists afterwards.            *)
LEMMA CommitEffect ==
  ASSUME TypeOK, AliasInv, NEW w \in Writer, CommitUpsert(w)
  PROVE  /\ call[w].corp \in CorpCode
         /\ call[w].name \in CompanyName
         /\ call[w].ticker \in Ticker \cup {None}
         /\ entities' = [entities EXCEPT ![call[w].corp] =
                            [name |-> call[w].name, ticker |-> call[w].ticker]]
         /\ \A p \in CorpCode \X Ticker :
               tickerAlias'[p] > 0
                  <=> (tickerAlias[p] > 0 \/ p = <<call[w].corp, call[w].ticker>>)
<1>1. stage[w] \in {"commitRow", "commitBoth"} /\ stage[w] # "idle"
  BY DEF CommitUpsert
<1>2. ASSUME NEW p \in CorpCode \X Ticker
      PROVE  tickerAlias'[p] > 0
                <=> (tickerAlias[p] > 0 \/ p = <<call[w].corp, call[w].ticker>>)
  <2> DEFINE q == <<call[w].corp, call[w].ticker>>
  <2>1. tickerAlias \in [CorpCode \X Ticker -> Nat]
    BY DEF TypeOK
  <2>2. CASE stage[w] = "commitBoth"
    <3>1. tickerAlias' = [tickerAlias EXCEPT ![q] = tickerAlias[q] + 1]
      BY <2>2 DEF CommitUpsert
    <3> HIDE DEF q
    <3> QED
      BY <2>1, <3>1 DEF q
  <2>3. CASE stage[w] = "commitRow"
    <3>1. tickerAlias' = tickerAlias
      BY <2>3 DEF CommitUpsert
    <3>2. p = q => tickerAlias[p] > 0
      BY <2>3, TxnNoneIsFresh DEF AliasInv, Aliases
    <3> QED
      BY <3>1, <3>2
  <2> QED
    BY <1>1, <2>2, <2>3
<1> QED
  BY <1>1, <1>2, CallParts DEF CommitUpsert

(* Only the commit of a writer changes the entities or the ticker aliases.  *)
LEMMA OnlyCommitsShow ==
  ASSUME [Next]_vars
  PROVE  UNCHANGED <<entities, tickerAlias>> \/ \E w \in Writer : CommitUpsert(w)
  BY DEF Next, vars, db, WriterStep, SeederStep, BeginUpsert, UpsertRow, SelectAlias,
     InsertAlias, AbortUpsert, BeginSeed, SeedSelect, SeedInsert, SeedCommit, SeedAbort

(* A commit leaves the ticker it writes resolvable, and no step takes an    *)
(* alias away.                                                              *)
LEMMA HeldNext ==
  TypeOK /\ AliasInv /\ CurrentTickerHeld /\ [Next]_vars => CurrentTickerHeld'
<1> SUFFICES ASSUME TypeOK, AliasInv, CurrentTickerHeld, [Next]_vars,
                    NEW c \in CorpCode, entities'[c] # None, entities'[c].ticker # None
             PROVE  tickerAlias'[<<c, entities'[c].ticker>>] > 0
  BY DEF CurrentTickerHeld, Known
<1>1. CASE UNCHANGED <<entities, tickerAlias>>
  BY <1>1 DEF CurrentTickerHeld, Known
<1>2. ASSUME NEW w \in Writer, CommitUpsert(w)
      PROVE  tickerAlias'[<<c, entities'[c].ticker>>] > 0
  <2>0. /\ entities' = [entities EXCEPT ![call[w].corp] =
                            [name |-> call[w].name, ticker |-> call[w].ticker]]
        /\ entities \in [CorpCode -> EntityRow \cup {None}]
        /\ call[w].ticker \in Ticker \cup {None}
    BY <1>2, CommitEffect DEF TypeOK
  <2>1. CASE c = call[w].corp
    <3>1. entities'[c].ticker = call[w].ticker
      BY <2>0, <2>1
    <3>2. call[w].ticker \in Ticker
      BY <2>0, <3>1
    <3> QED
      BY <1>2, <2>1, <3>1, <3>2, CommitEffect
  <2>2. CASE c # call[w].corp
    <3>0. entities'[c] = entities[c]
      BY <2>0, <2>2
    <3>1. entities'[c] = entities[c] /\ entities[c] \in EntityRow
      BY <2>0, <3>0
    <3>2. tickerAlias[<<c, entities[c].ticker>>] > 0 /\ entities[c].ticker \in Ticker
      BY <3>1 DEF CurrentTickerHeld, Known, EntityRow
    <3> QED
      BY <1>2, <3>1, <3>2, CommitEffect
  <2> QED
    BY <2>1, <2>2
<1> QED
  BY <1>1, <1>2, OnlyCommitsShow

------------------------------------------------------------------------------
(* The inductive invariant holds on the empty database.                     *)
LEMMA IInvInit == Init => IInv
  BY TypeInit, TxnNoneIsFresh DEF Init, IInv, LockInv, AliasInv, UniqueTickerAlias,
     CurrentTickerHeld, Known, Holding

(* Every step of upsert_entity and of seed_name_aliases preserves it.       *)
LEMMA IInvNext == IInv /\ [Next]_vars => IInv'
  BY TypeNext, LockNext, AliasNext, UniqueNext, HeldNext DEF IInv

(* So it holds in every reachable state.                                    *)
LEMMA Inductive == Spec => []IInv
  BY IInvInit, IInvNext, PTL DEF Spec

(* However upsert_entity calls interleave, abort and repeat, entity_aliases *)
(* holds at most one current row per corporation and ticker.                *)
THEOREM NoDuplicateTickerAlias == Spec => []UniqueTickerAlias
<1>1. IInv => UniqueTickerAlias
  BY DEF IInv
<1> QED
  BY <1>1, Inductive, PTL

(* The ticker shown by an entities row has a current alias row.             *)
THEOREM TickerResolvable == Spec => []CurrentTickerHeld
<1>1. IInv => CurrentTickerHeld
  BY DEF IInv
<1> QED
  BY <1>1, Inductive, PTL

(* The transactions implement the one-step upsert of EntityStore.           *)
THEOREM TransactionsImplementStore == Spec => ImplementsStore
<1> DEFINE h == {p \in CorpCode \X Ticker : tickerAlias[p] > 0}
<1>1. Init => Store!StoreInit
  BY DEF Init, Store!StoreInit
<1>2. IInv /\ [Next]_vars => [Store!StoreNext]_(Store!storeVars)
  <2> SUFFICES ASSUME IInv, [Next]_vars PROVE Store!StoreNext \/ UNCHANGED Store!storeVars
    OBVIOUS
  <2>1. CASE UNCHANGED <<entities, tickerAlias>>
    BY <2>1 DEF Store!storeVars
  <2>2. ASSUME NEW w \in Writer, CommitUpsert(w) PROVE Store!StoreNext
    <3>1. TypeOK /\ AliasInv
      BY DEF IInv
    <3>2. h' = h \cup ({<<call[w].corp, call[w].ticker>>} \cap (CorpCode \X Ticker))
      BY <2>2, <3>1, CommitEffect
    <3>3. Store!UpsertEntity(call[w].corp, call[w].name, call[w].ticker)
      BY <2>2, <3>1, <3>2, CommitEffect DEF Store!UpsertEntity
    <3>4. /\ call[w].corp \in CorpCode
          /\ call[w].name \in CompanyName
          /\ call[w].ticker \in Ticker \cup {None}
      BY <2>2, <3>1, CommitEffect
    <3> QED
      BY <3>3, <3>4 DEF Store!StoreNext, Store!UpsertEntity
  <2> QED
    BY <2>1, <2>2, OnlyCommitsShow
<1> QED
  BY <1>1, <1>2, Inductive, PTL DEF Spec, ImplementsStore, Store!StoreSpec

------------------------------------------------------------------------------
(* Writers leave the name aliases and the seeders alone.                    *)
LEMMA WritersLeaveNames ==
  ASSUME NEW w \in Writer, WriterStep(w)
  PROVE  UNCHANGED <<nameAlias, seed>>
  BY DEF WriterStep, BeginUpsert, UpsertRow, SelectAlias, InsertAlias,
         CommitUpsert, AbortUpsert, db

(* The fields of a seeder's record are those of its type.                   *)
LEMMA SeedParts ==
  ASSUME TypeOK, NEW s \in Seeder
  PROVE  /\ seed[s].snap \subseteq NamePair
         /\ seed[s].rows \subseteq NamePair
         /\ seed[s].pend \subseteq NamePair
         /\ nameAlias \in [NamePair -> Nat]
  BY DEF TypeOK

(* No step makes a seeder lose sight of a row that it has read.             *)
LEMMA SeedLoopNext == TypeOK /\ SeedLoopInv /\ [Next]_vars => SeedLoopInv'
<1> SUFFICES ASSUME TypeOK, SeedLoopInv, [Next]_vars,
                    NEW x \in Seeder, NEW r \in seed'[x].snap
             PROVE  r \in seed'[x].rows \/ r \in seed'[x].pend \/ nameAlias'[r] > 0
  BY DEF SeedLoopInv
<1> DEFINE Goal == r \in seed'[x].rows \/ r \in seed'[x].pend \/ nameAlias'[r] > 0
<1>1. ASSUME UNCHANGED <<nameAlias, seed>> PROVE Goal
  BY <1>1 DEF SeedLoopInv
<1>2. ASSUME NEW s \in Seeder, BeginSeed(s) PROVE Goal
  BY <1>2 DEF TypeOK, SeedLoopInv, BeginSeed, db
<1>3. ASSUME NEW s \in Seeder, SeedSelect(s) PROVE Goal
  <2>1. CASE x # s
    BY <1>3, <2>1 DEF TypeOK, SeedLoopInv, SeedSelect, db
  <2>2. CASE x = s
    <3>1. PICK y \in seed[x].rows :
              IF nameAlias[y] = 0
              THEN seed' = [seed EXCEPT ![x] = [stage |-> "insert", snap |-> seed[x].snap,
                                                rows |-> seed[x].rows \ {y},
                                                pend |-> seed[x].pend \cup {y}]]
              ELSE seed' = [seed EXCEPT ![x] = [stage |-> "loop", snap |-> seed[x].snap,
                                                rows |-> seed[x].rows \ {y},
                                                pend |-> seed[x].pend]]
      BY <1>3, <2>2 DEF SeedSelect
    <3>2. /\ nameAlias' = nameAlias
          /\ seed'[x].snap = seed[x].snap
          /\ seed'[x].rows = seed[x].rows \ {y}
          /\ nameAlias[y] = 0 => seed'[x].pend = seed[x].pend \cup {y}
          /\ nameAlias[y] # 0 => seed'[x].pend = seed[x].pend
      BY <1>3, <3>1 DEF TypeOK, SeedSelect, db
    <3>3. y \in NamePair => nameAlias[y] \in Nat
      BY DEF TypeOK
    <3> QED
      BY <3>2, <3>3, SeedParts DEF SeedLoopInv
  <2> QED
    BY <2>1, <2>2
<1>4. ASSUME NEW s \in Seeder, SeedInsert(s) PROVE Goal
  BY <1>4 DEF TypeOK, SeedLoopInv, SeedInsert, db
<1>5. ASSUME NEW s \in Seeder, SeedCommit(s) \/ SeedAbort(s) PROVE Goal
  <2>1. x # s /\ seed'[x] = seed[x]
    BY <1>5 DEF TypeOK, SeedCommit, SeedAbort, NoSeed
  <2>2. r \in NamePair /\ nameAlias \in [NamePair -> Nat]
    BY <2>1, SeedParts
  <2>3. nameAlias[r] > 0 => nameAlias'[r] > 0
    BY <1>5, <2>2 DEF SeedCommit, SeedAbort, db
  <2> QED
    BY <2>1, <2>3 DEF SeedLoopInv
<1> QED
  BY <1>1, <1>2, <1>3, <1>4, <1>5, WritersLeaveNames DEF Next, vars, SeederStep

(* seed_name_aliases covers every entity it read when it commits, however   *)
(* many seeders and writers run beside it.                                  *)
THEOREM SeedingCovers == Spec => SeedCovers
<1>1. Init => SeedLoopInv
  BY DEF Init, NoSeed, SeedLoopInv
<1>2. ASSUME TypeOK, SeedLoopInv, NEW s \in Seeder, SeedCommit(s),
             NEW r \in seed[s].snap
      PROVE  nameAlias'[r] > 0
  <2>1. r \in NamePair /\ nameAlias \in [NamePair -> Nat]
    BY <1>2, SeedParts
  <2>2. r \in seed[s].pend \/ nameAlias[r] > 0
    BY <1>2 DEF SeedLoopInv, SeedCommit
  <2> QED
    BY <1>2, <2>1, <2>2 DEF SeedCommit
<1>3. TypeOK /\ SeedLoopInv /\ [Next]_vars =>
        [\A s \in Seeder : SeedCommit(s) => \A r \in seed[s].snap : nameAlias'[r] > 0]_vars
  BY <1>2
<1> QED
  BY <1>1, <1>3, SeedLoopNext, TypeCorrect, PTL DEF Spec, SeedCovers

(* With one seeder, nobody else inserts a name between its SELECT and its   *)
(* commit.                                                                  *)
LEMMA SeedAloneNext ==
  ASSUME \A s, x \in Seeder : s = x
  PROVE  TypeOK /\ SeedAloneInv /\ [Next]_vars => SeedAloneInv'
<1> SUFFICES ASSUME TypeOK, SeedAloneInv, [Next]_vars PROVE SeedAloneInv'
  OBVIOUS
<1>1. ASSUME UNCHANGED <<nameAlias, seed>> PROVE SeedAloneInv'
  BY <1>1 DEF SeedAloneInv, UniqueNameAlias
<1>2. ASSUME NEW s \in Seeder,
             \/ BeginSeed(s) \/ SeedSelect(s) \/ SeedInsert(s) \/ SeedAbort(s)
      PROVE  SeedAloneInv'
  <2>1. nameAlias' = nameAlias
    BY <1>2 DEF BeginSeed, SeedSelect, SeedInsert, SeedAbort, db
  <2>2. ASSUME NEW x \in Seeder, NEW r \in seed'[x].pend PROVE nameAlias[r] = 0
    BY <1>2, <2>2 DEF TypeOK, SeedAloneInv, BeginSeed, SeedSelect, SeedInsert,
                      SeedAbort, NoSeed
  <2> QED
    BY <2>1, <2>2 DEF SeedAloneInv, UniqueNameAlias
<1>3. ASSUME NEW s \in Seeder, SeedCommit(s) PROVE SeedAloneInv'
  <2>1. ASSUME NEW x \in Seeder PROVE seed'[x].pend = {}
    BY <1>3 DEF TypeOK, SeedCommit, NoSeed
  <2>2. ASSUME NEW r \in NamePair PROVE nameAlias'[r] <= 1
    BY <1>3 DEF TypeOK, SeedCommit, SeedAloneInv, UniqueNameAlias
  <2> QED
    BY <2>1, <2>2 DEF SeedAloneInv, UniqueNameAlias
<1> QED
  BY <1>1, <1>2, <1>3, WritersLeaveNames DEF Next, vars, SeederStep

(* With one seeder at a time no entity gets the same name alias twice: this *)
(* is what seed_name_aliases relies on instead of a lock.                   *)
THEOREM OneSeederNoDuplicateName ==
  ASSUME \A s, x \in Seeder : s = x
  PROVE  Spec => []UniqueNameAlias
<1>1. Init => SeedAloneInv
  BY DEF Init, NoSeed, SeedAloneInv, UniqueNameAlias
<1>2. SeedAloneInv => UniqueNameAlias
  BY DEF SeedAloneInv
<1> QED
  BY <1>1, <1>2, SeedAloneNext, TypeCorrect, PTL DEF Spec
==============================================================================
