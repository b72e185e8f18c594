------------------------------ MODULE EntityTxn ------------------------------
(***************************************************************************)
(* src/db/entity.py and src/db/seed_name_aliases.py, statement by           *)
(* statement, for any number of processes on one Postgres database (READ    *)
(* COMMITTED). A writer runs upsert_entity: INSERT .. ON CONFLICT DO UPDATE *)
(* on entities, then a SELECT and perhaps an INSERT on entity_aliases, in   *)
(* one transaction. A seeder runs seed_name_aliases. entity_aliases has no  *)
(* unique constraint (tickers are recycled), so only the row lock that the  *)
(* first statement takes keeps two writers from both inserting an alias.    *)
(*                                                                         *)
(* An alias row is counted, not named: tickerAlias[c, t] is the number of   *)
(* committed rows (corp_code c, kind 'ticker', value t, valid_to NULL).     *)
(* No statement of the program sets valid_to, so every row is current.      *)
(***************************************************************************)
EXTENDS Integers

CONSTANTS CorpCode, CompanyName, Ticker, None,
          Call,      \* the arguments upsert_entity is called with
          Writer,    \* processes that call upsert_entity
          Seeder     \* processes that run seed_name_aliases

EntityRow == [name : CompanyName, ticker : Ticker \cup {None}]

ASSUME TxnNoneIsFresh == /\ None \notin Ticker
                         /\ None \notin EntityRow
                         /\ None \notin Writer

ASSUME CallShape == Call \subseteq [corp : CorpCode, name : CompanyName,
                                    ticker : Ticker \cup {None}]

VARIABLES
    entities,      \* committed rows of entities
    tickerAlias,   \* committed 'ticker' rows of entity_aliases, counted
    nameAlias,     \* committed 'name' rows of entity_aliases, counted
    lock,          \* lock[c]: the writer whose transaction holds row c
    stage,         \* stage[w]: the next statement of writer w
    call,          \* call[w]: the arguments of its call
    seed           \* seed[s]: the progress of seeder s

vars == <<entities, tickerAlias, nameAlias, lock, stage, call, seed>>

NamePair == CorpCode \X CompanyName

(* The lock is held from the first statement to the end of the transaction. *)
Holding == {"select", "insert", "commitRow", "commitBoth"}

Known == {c \in CorpCode : entities[c] # None}

TypeOK ==
    /\ entities \in [CorpCode -> EntityRow \cup {None}]
    /\ tickerAlias \in [CorpCode \X Ticker -> Nat]
    /\ nameAlias \in [NamePair -> Nat]
    /\ lock \in [CorpCode -> Writer \cup {None}]
    /\ stage \in [Writer -> Holding \cup {"idle", "row"}]
    /\ call \in [Writer -> Call \cup {None}]
    /\ \A w \in Writer : stage[w] # "idle" => call[w] \in Call
    /\ seed \in [Seeder -> [stage : {"idle", "loop", "insert"},
                            snap : SUBSET NamePair,    \* rows of the first SELECT
                            rows : SUBSET NamePair,    \* of those, not visited yet
                            pend : SUBSET NamePair]]   \* uncommitted inserts

NoSeed == [stage |-> "idle", snap |-> {}, rows |-> {}, pend |-> {}]

Init ==
    /\ entities = [c \in CorpCode |-> None]
    /\ tickerAlias = [p \in CorpCode \X Ticker |-> 0]
    /\ nameAlias = [p \in NamePair |-> 0]
    /\ lock = [c \in CorpCode |-> None]
    /\ stage = [w \in Writer |-> "idle"]
    /\ call = [w \in Writer |-> None]
    /\ seed = [s \in Seeder |-> NoSeed]

------------------------------------------------------------------------------
(* upsert_entity. A malformed corp_code or ticker raises before the         *)
(* transaction and changes nothing, so the arguments are well formed here.  *)

db == <<entities, tickerAlias, nameAlias>>

BeginUpsert(w) ==
    /\ stage[w] = "idle"
    /\ \E a \in Call : call' = [call EXCEPT ![w] = a]
    /\ stage' = [stage EXCEPT ![w] = "row"]
    /\ UNCHANGED <<db, lock, seed>>

(* Faulty variant: the first statement takes no row lock (DO NOTHING).      *)
UpsertRowNoWait(w) ==
    /\ stage[w] = "row"
    /\ lock' = [lock EXCEPT ![call[w].corp] = w]
    /\ stage' = [stage EXCEPT ![w] = IF call[w].ticker = None THEN "commitRow"
                                                              ELSE "select"]
    /\ UNCHANGED <<db, call, seed>>

(* INSERT .. ON CONFLICT DO UPDATE waits for a transaction that has written *)
(* the same key, then locks the row until its own transaction ends.         *)
UpsertRow(w) ==
    /\ stage[w] = "row"
    /\ lock[call[w].corp] = None
    /\ lock' = [lock EXCEPT ![call[w].corp] = w]
    /\ stage' = [stage EXCEPT ![w] = IF call[w].ticker = None THEN "commitRow"
                                                              ELSE "select"]
    /\ UNCHANGED <<db, call, seed>>

(* Faulty variant: the SELECT looks for the value only, not for corp_code.  *)
SelectAliasByValue(w) ==
    /\ stage[w] = "select"
    /\ stage' = [stage EXCEPT ![w] =
                   IF \A c \in CorpCode : tickerAlias[<<c, call[w].ticker>>] = 0
                   THEN "insert" ELSE "commitRow"]
    /\ UNCHANGED <<db, lock, call, seed>>

(* READ COMMITTED: this statement sees what was committed before it starts. *)
SelectAlias(w) ==
    /\ stage[w] = "select"
    /\ stage' = [stage EXCEPT ![w] =
                   IF tickerAlias[<<call[w].corp, call[w].ticker>>] = 0
                   THEN "insert" ELSE "commitRow"]
    /\ UNCHANGED <<db, lock, call, seed>>

InsertAlias(w) ==
    /\ stage[w] = "insert"
    /\ stage' = [stage EXCEPT ![w] = "commitBoth"]
    /\ UNCHANGED <<db, lock, call, seed>>

(* Faulty variant: the transaction ends, the process does not notice.       *)
FinishUnnoticed(w) == UNCHANGED stage /\ call' = [call EXCEPT ![w] = None]

Finish(w) == /\ stage' = [stage EXCEPT ![w] = "idle"]
             /\ call' = [call EXCEPT ![w] = None]

(* Faulty variant: the transaction is left open.                            *)
ReleaseNothing(w) == [lock EXCEPT ![call[w].corp] = w]

Release(w) == [lock EXCEPT ![call[w].corp] = None]

CommitUpsert(w) ==
    LET c == call[w].corp
        t == call[w].ticker
    IN  /\ stage[w] \in {"commitRow", "commitBoth"}
        /\ entities' = [entities EXCEPT ![c] = [name |-> call[w].name, ticker |-> t]]
        /\ tickerAlias' = IF stage[w] = "commitBoth"
                          THEN [tickerAlias EXCEPT ![<<c, t>>] = @ + 1]
                          ELSE tickerAlias
        /\ lock' = Release(w)
        /\ Finish(w)
        /\ UNCHANGED <<nameAlias, seed>>

(* Faulty variant: each statement commits by itself, so an error in the     *)
(* middle leaves the entities row behind.                                   *)
AbortKeepsRow(w) ==
    LET a == call[w]
    IN  /\ stage[w] # "idle"
        /\ lock' = IF stage[w] \in Holding THEN Release(w) ELSE lock
        /\ entities' = IF stage[w] \in Holding
                       THEN [entities EXCEPT ![a.corp] = [name |-> a.name, ticker |-> a.ticker]]
                       ELSE entities
        /\ Finish(w)
        /\ UNCHANGED <<tickerAlias, nameAlias, seed>>

(* An error or the death of the process: the transaction rolls back.        *)
AbortUpsert(w) ==
    /\ stage[w] # "idle"
    /\ lock' = IF stage[w] \in Holding THEN Release(w) ELSE lock
    /\ Finish(w)
    /\ UNCHANGED <<db, seed>>

------------------------------------------------------------------------------
(* seed_name_aliases: one SELECT of all entities, then per row a SELECT of  *)
(* its name alias and, when there is none, an INSERT; one transaction. It   *)
(* locks nothing that a writer or another seeder waits for.                 *)

BeginSeed(s) ==
    LET rows == {<<c, entities[c].name>> : c \in Known}
    IN  /\ seed[s].stage = "idle"
        /\ seed' = [seed EXCEPT ![s] = [stage |-> "loop", snap |-> rows,
                                        rows |-> rows, pend |-> {}]]
        /\ UNCHANGED <<db, lock, stage, call>>

(* Faulty variants: the SELECT looks for any name of the corporation, or    *)
(* its result is ignored.                                                   *)
SeedTake(s, absent) ==
    /\ seed[s].stage = "loop"
    /\ \E r \in seed[s].rows :
          seed' = [seed EXCEPT ![s] =
                     [stage |-> IF r \in absent THEN "insert" ELSE "loop",
                      snap |-> seed[s].snap, rows |-> seed[s].rows \ {r},
                      pend |-> seed[s].pend \cup ({r} \cap absent)]]
    /\ UNCHANGED <<db, lock, stage, call>>

SeedSelectAnyName(s) ==
    SeedTake(s, {r \in NamePair : \A n \in CompanyName : nameAlias[<<r[1], n>>] = 0})

SeedSelectIgnored(s) == SeedTake(s, NamePair)

SeedSelect(s) ==
    /\ seed[s].stage = "loop"
    /\ \E r \in seed[s].rows :
          IF nameAlias[r] = 0
          THEN seed' = [seed EXCEPT ![s] = [stage |-> "insert", snap |-> seed[s].snap,
                                            rows |-> seed[s].rows \ {r},
                                            pend |-> seed[s].pend \cup {r}]]
          ELSE seed' = [seed EXCEPT ![s] = [stage |-> "loop", snap |-> seed[s].snap,
                                            rows |-> seed[s].rows \ {r},
                                            pend |-> seed[s].pend]]
    /\ UNCHANGED <<db, lock, stage, call>>

(* The row SeedSelect found missing is inserted, seen by others on commit.  *)
SeedInsert(s) ==
    /\ seed[s].stage = "insert"
    /\ seed' = [seed EXCEPT ![s] = [stage |-> "loop", snap |-> seed[s].snap,
                                    rows |-> seed[s].rows, pend |-> seed[s].pend]]
    /\ UNCHANGED <<db, lock, stage, call>>

SeedCommit(s) ==
    /\ seed[s].stage = "loop"
    /\ seed[s].rows = {}
    /\ nameAlias' = [r \in NamePair |->
                        IF r \in seed[s].pend THEN nameAlias[r] + 1 ELSE nameAlias[r]]
    /\ seed' = [seed EXCEPT ![s] = NoSeed]
    /\ UNCHANGED <<entities, tickerAlias, lock, stage, call>>

SeedAbort(s) ==
    /\ seed[s].stage # "idle"
    /\ seed' = [seed EXCEPT ![s] = NoSeed]
    /\ UNCHANGED <<db, lock, stage, call>>

------------------------------------------------------------------------------
WriterStep(w) == BeginUpsert(w) \/ UpsertRow(w) \/ SelectAlias(w)
                 \/ InsertAlias(w) \/ CommitUpsert(w) \/ AbortUpsert(w)

SeederStep(s) == BeginSeed(s) \/ SeedSelect(s) \/ SeedInsert(s)
                 \/ SeedCommit(s) \/ SeedAbort(s)

Next == \/ \E w \in Writer : WriterStep(w)
        \/ \E s \in Seeder : SeederStep(s)

Spec == Init /\ [][Next]_vars

(* A process that is running keeps executing its statements. Row-lock       *)
(* waiters queue in Postgres, so one that waits is served when the lock is  *)
(* released again and again: strong fairness for the locking statement.     *)
WriterProgress(w) == /\ SF_vars(UpsertRow(w))
                     /\ WF_vars(SelectAlias(w) \/ InsertAlias(w) \/ CommitUpsert(w))

FairSpec == Spec /\ \A w \in Writer : WriterProgress(w)

------------------------------------------------------------------------------
(* However the transactions interleave and abort, a corporation has at most *)
(* one current alias row per ticker, and per name as long as one seeder     *)
(* runs at a time: the tables have no constraint that would enforce it.     *)
UniqueTickerAlias == \A p \in CorpCode \X Ticker : tickerAlias[p] <= 1

UniqueNameAlias == \A p \in NamePair : nameAlias[p] <= 1

(* The ticker that an entities row shows can be resolved: the row and its   *)
(* alias are never visible without each other.                              *)
CurrentTickerHeld ==
    \A c \in Known : entities[c].ticker # None
                        => tickerAlias[<<c, entities[c].ticker>>] > 0

(* A seeding run that commits leaves a name alias for every entity it read. *)
SeedCovers ==
    [][\A s \in Seeder : SeedCommit(s) => \A r \in seed[s].snap : nameAlias'[r] > 0]_vars

(* A call of upsert_entity ends, also when others write the same row.       *)
WriterReturns == \A w \in Writer : stage[w] # "idle" ~> stage[w] = "idle"

(* EntityTxn implements EntityStore: only a commit is visible.              *)
Store == INSTANCE EntityStore
         WITH holders <- {p \in CorpCode \X Ticker : tickerAlias[p] > 0}

ImplementsStore == Store!StoreSpec

(* README 7.3 and the ticker-recycle test of tests/test_entity_resolve.py:  *)
(* while exactly one corporation carries ticker t, resolving t returns it.  *)
ResolvesToCurrentHolder ==
    \A t \in Ticker, c \in Known :
        (\A d \in Known : entities[d].ticker = t <=> d = c)
            => Store!ResolveTicker(t) = {c}
==============================================================================
