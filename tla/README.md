# TLA+ models and proofs for stock-wiki

stock-wiki collects what is published about Korean listed companies — DART
filings, exchange events, prices, macro series, news — into one Postgres
database, keyed by canonical entities. Its commands are run by cron and by an
operator, they talk to five unreliable services, they are killed half-way and
repeated. The tables have few constraints, so most of what makes the data right
is the order of the statements and the way a later run makes up for an earlier
one. That is what these modules model, check with TLC and prove with TLAPS.

All paths below are relative to `src/`, the repository.

## 1. The system

| Component | State it keeps | Operations | Talks to |
|---|---|---|---|
| Entity tables and resolver (`src/db/entity.py`, `seed_name_aliases.py`) | `entities` (one row per DART corp_code), `entity_aliases` (tickers and names, no unique constraint) | `upsert_entity`, `resolve_entity`, `resolve_entity_by_alias`, `seed_name_aliases` | every collector |
| Portfolio seeding (`src/db/seed_entities.py`) | none | upserts the corporations of portfolio.md | DART corp list, entity tables |
| DART collector (`src/collectors/dart`) | `filings` | list, fetch body with retries, upsert, seed the entity, record the run | DART, entity tables, run log |
| KIND collector (`src/collectors/kind`) | `filings`, `events` | fetch from DART and KIND, scope filter, dedup, paired write, record the run | DART, KIND, entity tables, run log |
| KRX collector (`src/collectors/krx`) | `ohlcv` | per ticker: price, entity, flow, short balance, upsert, record the run | pykrx, entity tables, run log |
| Macro collector (`src/collectors/macro`) | `macro_series` | per series: fetch window, classify, upsert, report revisions, record the run | ECOS, FRED, run log |
| News collector (`src/collectors/news`) | `news` | per feed and article: match aliases, upsert by url hash | RSS feeds, `entity_aliases` |
| Command line (`src/cli`) | none | one command per collector, `collect_all` | collectors |
| Run log (`src/shared/run_log.py`) | `collector_runs` | one best-effort INSERT at the end of a run | database |
| Portfolio scope, content hash, frontmatter, numeric facts, DART financials (`src/shared`, `dart/financials.py`) | none | parsing and text functions | — |
| Schema (`src/db/entity_models.py`, migrations) | the tables and their constraints | upgrade, downgrade | Postgres |

How they interact: there are no callbacks, queues or threads. The collectors are
separate processes that meet only in the database. A collector resolves a
company through the entity tables, and writes rows with foreign keys to them;
the DART collector and the seed script also write the entity tables. Each
`db_writer` call opens and commits a transaction of its own, so a run is a
sequence of transactions with network calls between them. The command line runs
collectors one after the other; a migration is one transaction that locks the
tables it alters, while the collectors go on.

What is hard here, and what has to hold:

* **Entity tables.** `upsert_entity` decides with a SELECT whether an INSERT is
  needed, while other processes do the same. No duplicate alias may appear, and
  the ticker a row shows must resolve. Tickers are recycled by the exchange.
* **DART.** A filing may be amended between listing and write, or pushed out of
  the listing before any run stored it; runs fail in the middle. What a run
  counts as done must be stored, no page older than the run listed it, and no
  stored page may go back to an older one. A body is read page by page, and a
  page that comes back empty is left out without an error.
  The entity is created by the collector, after the first write that needs it.
* **KIND.** One disclosure reaches the collector over two sources, and a write
  is a pair of transactions that a crash may split. Every event must have its
  parents, nothing may be dropped silently, no key inserted twice in a run.
* **KRX.** Runs overlap. The figures a run writes were fetched earlier, in
  separate calls; the short balance appears two days late and an empty answer
  is indistinguishable from an unpublished figure. Collecting a date again has
  to repair all of this.
* **Macro.** Offices revise published values. A revision must be reported with
  the value it replaced (rule R-06 of the code), a fetch window moves on.
* **News.** The aliases are a snapshot, articles are edited and pushed out of
  their feeds, runs overlap on one url. The tags of a row must be those of its
  body; an article within its feed must get stored in the end.
* **Command line.** One source's exception must not stop the others, nor hide in
  an exit code of 0, nor hang the command.
* **Migrations.** Two tables are named `events` in the course of the revisions;
  CHECKs come and go on a table whose rows others write meanwhile. Every path
  must be passable, undo itself, and lose only the rows it says it loses.
* **Numeric facts.** Patterns overlap, so their order decides which span wins. A
  line item occurs in several sheets, with columns in any order, or no value.
* **All runs.** One failing item never hides another one.

`PROJECT.json` lists every hazard at its source line with the properties that
would expose it.

## 2. Modules

| Module | Models | Role |
|---|---|---|
| `EntityStore` | what the entity tables promise: one atomic upsert, a ticker resolves to any of its holders (LIMIT 1 without ORDER BY) | abstract specification |
| `EntityTxn` | `upsert_entity` and `seed_name_aliases`, one action per SQL statement, transactions, row locks, aborts | implements `EntityStore` |
| `DartCollector`, `KindCollector`, `KrxCollector`, `MacroCollector`, `NewsCollector` | one collector each, one action per call between two points where another process may act | all but the macro collector extend `EntityStore` |
| `Scripts` | the six migrations, up and down, as lists of statements, and what each statement does to a catalog of named objects | operators for `Schema` |
| `Database` | what migrations promise to everybody else: one step from a revision to another | abstract specification |
| `Schema` | a migration command: one transaction that runs the scripts on its path, beside other sessions | implements `Database` |
| `CollectAll` | `stock collect <source>` and `stock collect all`: isolation, report, exit code | — |
| `Operations` | the collect commands, the run log and the migrations on one database | composes `Schema` and `CollectAll` |
| `NumericFacts` | two algorithms without I/O: candidate extraction from text, and the walk over a financial statement | — |
| `EntityTxnProofs`, `DartProofs`, `KindProofs`, `KrxProofs`, `MacroProofs`, `NewsProofs`, `NumericProofs` | theorems about the module of that name | — |
| `OperationsProofs` | theorems about `CollectAll`, `Schema` and their composition `Operations` | — |
| `ScriptFacts` | what each block of each script does, as assumptions that TLC evaluates | used by `OperationsProofs` |
| `MC…` | constants for TLC | — |

`EntityStore` is the interface between the collectors. `EntityTxn` shows, statement by
statement, that concurrent transactions look like its single step; the collector
modules then use that step and the resolution operator, so the entity upserts of
other commands are one environment action in each of them.

### State and actions

*EntityTxn.* `entities`, `tickerAlias` and `nameAlias` are committed rows. An
alias row has no identity that anything reads, so rows are counted, and a
duplicate is a count of 2. `lock[c]` is the row lock that
`INSERT … ON CONFLICT DO UPDATE` takes on `entities`; `stage` is the next
statement of a writer. `BeginUpsert`, `UpsertRow`, `SelectAlias`, `InsertAlias`,
`CommitUpsert` are the call; `AbortUpsert` is an error or a death at any of them.
The isolation level is Postgres's default, READ COMMITTED: a SELECT sees what is
committed when it starts. A seeder's `BeginSeed` is its one SELECT of all
entities; `SeedSelect`, `SeedInsert` are the loop.

*DartCollector.* `StartRun` reads the corp list and the listing, which is capped
by `MaxDocs`. `NextFiling` takes a filing; `ReadPage` and `PageEmpty` are one
turn of the loop over its pages, `JoinPages` the rest of `fetch_body` (the
summary of `to_dict` when no page has text, or nothing), `FetchError` an
exception, with `MaxTries` attempts. Then `StoreFiling` (the four outcomes of
`upsert_dart_filing`, the foreign key included), `StoreError`, `EndLoop` (the gate
`inserted + updated > 0`), `SeedEntity`, `RecordRun`. A body is a function from its
parts (pages, and part 0 for the summary) to the version of the filing each was
taken from, 0 for a part it lacks; equal hashes are equal bodies. `draft` is the
body in hand, `page` the place in the loop; `blank` is history: the filings of
this run that met an empty page. `Publish`, `Amend`, `ChangeInfo` are DART, which
may act between two pages; `RunSeedScript` is the operator.

*KindCollector.* `FetchDart`, `FetchKind` and their failures, which are isolated
from each other; `TakeEvent` is the scope filter and the dedup set (the key is
marked before the write, as in the code); `ResolveCorp`, `WriteFiling`,
`WriteEvent` are the paired write; `EventFails` is any exception of the three.
Disclosures enter and leave the window (`MoveDart`, `MoveKind`) while other
commands write entities and names.

*KrxCollector.* All per-run variables are functions of the process `p \in Run`.
`FetchPrice`, `ResolveEntity`, `FetchFlow`, `FetchShort` are the calls in their
order, `SelectRow` and `UpsertRow` the two statements of `upsert_ohlcv`: the
decision is the SELECT's, the merge (`COALESCE` for the short figures only) is
with the row as it is at the UPDATE. A figure is the number of its revision;
`Traded` are the tickers that have any. `alone` is history: a run that started
while no other was running, and since then met no other run, no revision and no
empty answer.

*MacroCollector.* `FetchSeries` answers with the observations in the window,
`UpsertSeries` is the transaction: load, classify, upsert, collect revisions.
`Stored` is NUMERIC(20,6). `keys` is what observations are keyed by: `db_writer`
and its tests take `datetime.date`, the fetchers emit ISO strings, and a string
never finds a date in the dictionary.

*NewsCollector.* All per-run variables are functions of `p \in Run`. `StartRun`
is the guard and `load_scoped_aliases`: for a name that several corporations of
the portfolio hold, the map keeps any one of them. `ReadFeed` takes the first
`MaxPerFeed` items of a feed, `FetchArticle` takes the article as it is now and
matches it, `SelectHash` and `WriteArticle` are the two statements of
`upsert_news_article`, `ItemFails` and `FeedFails` the two handlers. An article
is the number of its version, with the set of names each version mentions; the
longest matched name gives the `corp_code`.

*Scripts and Schema.* A script (`Up0004`, `Down0003`, …) is the list of its
statements, split into blocks after each statement that reads or writes rows,
since nothing else in it depends on when it runs. `Can` says whether a statement succeeds in
PostgreSQL (name taken or missing, a table others refer to, rows a CHECK
rejects), `Effect` what it does to the catalog, `Locks` which tables it keeps
from others; `Run` is a block of them. In *Schema*, `Migrate` is the operator's
command, `RunBlock` a block, `Commit` and `Rollback` the one transaction of `env.py`, `Die` a killed process. `InsertEdge`
and `Insert` are other sessions; a row that an uncommitted DELETE has removed
is in `doomed` until the end. The rows of `edges` are represented by their types
(allowed by 0001, by 0004, by neither), those of another table by whether it has
any.

*CollectAll.* `Invoke` is the parser and the check of the names, `GetEngine` what
runs outside the `try`, `CallSource`, `StoreDoc`, `FailDoc`, `SourceRaises`,
`EndDocs`, `RecordRun` a collector as the command sees it, `Raised` and `Returned`
the two ways out of it, `Report` the exit code. `CallFails` is the `TypeError` of
calling the DART collector without its arguments (`Incomplete`), and `Silent`
the DART command, which returns 0 whatever failed. `lost` is history: the runs
that lost something, to compare the exit code with.

*Operations.* A document is an `Insert` into the table of its source, which waits
while a migration holds it and fails while the committed schema lacks it or has
the `events` of 0001 under that name. The row of the run log is one more insert;
missing table or failing INSERT, the command goes on without it.

*NumericFacts.* An initial state is an input, the run of the algorithm is the
behaviour. A text is a sequence of tokens, a pattern a number followed by words
and perhaps 원; `Claim` is one pass, `Finish` orders the spans it has and cuts
the list. `ReadRow` and
`SkipSheet` are the two loops over the sheets, `Pick` is `_pick_value`. A column is
named `value`, or is a period (a number, in the order of the dates), or has some
other name; a cell is a number, a NaN or no number.

In every collector `Crash` loses the locals and keeps what was committed, and
`RecordRun` is the best-effort row of the run log: nothing reads that table, so
only `Operations`, where it may be missing or locked, writes it.

Operators whose comment starts with "Faulty variant" are not part of the
behaviour. They are alternatives of the definition after them, with a plausible
bug each; putting one in place of the original makes the property named in
`PROJECT.json` ("mutants") fail, which shows that the property depends on the code.

## 3. Model checking

Run `tlc -config X.cfg M` in this directory.

| Run | Configuration | What it shows | Distinct states |
|---|---|---|---|
| `entity_txn` | `MCEntityTxn.cfg` | two writers and one seeder, four calls (rename, delisting, a ticker passed on), aborts anywhere: no duplicate aliases, the shown ticker resolves, a seeding run covers what it read, every call returns, and `ImplementsStore` | 61 843 |
| `dart` | `MCDartCollector.cfg` | repeated runs: every listed filing is accounted for, a counted one is current, pages never go back and are lost only to an empty one, a writing run seeds the entity, and every filing within the listing is eventually current | 1 555 376 |
| `kind` | `MCKindCollector.cfg` | repeated runs over both sources: events have parents, one insertion per key, stored or reported, disclosures eventually covered | 397 854 |
| `krx` | `MCKrxCollector.cfg` | two overlapping runs: rows attributed to a holder of the ticker, tickers accounted for, short figures kept, an undisturbed rerun leaves what the exchange says | 1 892 832 |
| `news` | `MCNewsCollector.cfg` | two overlapping runs: tags belong to the body of their row, every item counted, articles within their feed eventually stored | 872 223 |
| `operations` | `MCOperations.cfg` | commands and migrations together: the catalog is the one of its revision and the rows of `edges` meet its CHECK, commands fail only on rows of `edges`, a migration looks like one step of `Database`, exit codes tell, commands end | 254 007 |
| `facts` | `MCNumericFacts.cfg` | the candidates of every text and the facts of every statement agree with a definition that does not depend on the order of the passes; the assumptions of `ScriptFacts` are evaluated | 4 630 409 |
| `macro` | `MCMacroCollector.cfg` | repeated runs over two series: counted is stored, series accounted for, revisions reported with date keys and never with ISO strings, observations eventually stored | 192 712 |

### Disagreements the models show

Four runs check something a document or a comment states, and TLC refutes it.

* `entity_recycle`, `ResolvesToCurrentHolder`. No statement closes the alias of
  the former holder of a recycled ticker, so `resolve_entity` still may return
  it. `README.md` 7.3 and the recycle test assume the alias is closed; the test's
  fixture closes it by hand.
* `dart_bootstrap`, `RunsSeedTheEntity`. Without the seed script, every filing of
  an unknown corporation fails its foreign key, nothing is counted as written,
  and the gate never lets the collector create the entity, although the command
  is documented to seed it.
* `kind_cross_source`, `OneRowAcrossSources`. The unique constraint of `events`
  includes the source, so two runs that each saw one source store a disclosure
  twice. The docstring of `upsert_kind_event` excludes it.
* `macro_iso_dates`, `OverwritesAlwaysReported`. With the ISO strings of the
  fetchers the lookup of stored values never hits: an overwrite is counted as
  inserted and its revision is not reported.

### Bounds, and why they are enough

* Entities: two corporations that compete for one ticker and swap two names; the
  properties relate at most two writers, and each has its own lock conflict here.
* DART: three filings, listing limit 2, so a filing can be pushed out; one of them
  has two bodies of two pages, so a body can be mixed, partial or empty, while
  the others cannot change; two attempts per fetch; two faults (an empty page is
  one), so a retry can succeed or be used up, both pages can be lost, and a crash
  can follow a failure.
* KIND: two disclosures with one key, filed under two corporations between which
  the ticker moved, and a KIND notice of the same fact: the smallest instance in
  which dedup, cross-source duplicates and a stale corp_code all happen. Two
  faults: a source failure or a split pair, then one more.
* KRX: two runs, two tickers, two corporations; the price of one ticker is revised
  once, its flow and short appear once; the other has no figures, which is enough
  for the failure of one to meet the turn of the other. One fault. The runs are
  interchangeable (symmetry).
* Macro: two series, two days, a window of one day, values 14 and 20 in tenths of
  the last stored digit (14 is stored as 10, 20 is exact); one fault.
* News: two runs, two feeds of one item each. One article is edited from one
  corporation to two, with names of different length; another concerns nobody,
  is in both feeds and pushes the first one out. Names and tickers appear at any
  time, so snapshots are incomplete in all ways. One fault.
* Operations: the database starts at 0, 0003 or 0006, with every choice of rows
  its CHECKs admit, and takes two migration commands to any of the three. Each
  of the twelve scripts is on one of these paths, 0004 is met with and without
  illegal rows, the `events` renamed and renamed back. Two sources with one
  document each: one that collect all calls wrongly, one whose table changes its
  meaning with 0006; requests with one name, two, the same twice, an unknown one.
* Facts: all texts of up to three amounts of thirteen kinds, cut after two
  candidates, so every pair of overlapping patterns meets with a neighbour; two
  sheets of one and two rows, with and without label; two columns: `value` beside
  a period, two periods, a period after another column, two other columns; rows
  that have a value in one cell, in both or in none of those looked at.
* `MaxFaults` bounds crashes and failing calls over a whole behaviour. The
  liveness properties need this as an assumption too (see below); the theorems
  hold for every value of it.

### Fairness, and why the code justifies it

`FairSpec` of each module states no more than this.

* A process that runs keeps running: weak fairness of its statements
  (`RunStep`). It says nothing of failures and crashes, which stay optional.
* The command is repeated: strong fairness of `StartRun`. Cron and the operator
  start it over and over, but it is possible only between two runs. Not so for
  KRX: the command collects today's date unless `--since` names one, so nothing
  collects a date again by itself. `KrxCollector` states no fairness; what it
  says of a rerun is the invariant `RerunAgrees`.
* In `Operations`: a migration that runs goes on (`WF` of `MigrationGoesOn`, stated
  on the place of the command so that it is cheap to check; `RunBlock`, `Commit`
  and `Die` are the steps that change it), a command goes on, and a write that
  waits for a table gets it when it becomes free again and again (strong
  fairness: Postgres queues lock waiters). The migrations in a behaviour are
  finitely many (`MaxCommands`).
* A news run takes its next step and an idle process starts again: weak
  fairness suffices, since once a name exists nothing disables `StartRun`.
* A writer that waits for a row lock gets it when it becomes free again and again
  (strong fairness of `UpsertRow`): Postgres queues lock waiters.
* Nothing of the environment is fair: nobody has to publish, rename or seed.
* Faults stop at some time (`MaxFaults`). A service that always fails stores
  nothing, so eventual storage can only be promised when it recovers.

The liveness properties speak of what stays available: a filing within the
listing, a disclosure in the window whose corporations are known, an observation
in the window, an article within its feed.

Deadlock is checked in every run but `facts`, whose algorithms end; there is none.

## 4. Proofs

Run `tlapm M.tla` on the eight proof modules. Each result holds for every value of
the constants. All of them follow one layout: `IInv` is the inductive invariant,
`IInvInit` and `IInvNext` its two obligations with one lemma per part, and each
theorem follows from `Inductive`.

| Module | Theorem | Says |
|---|---|---|
| `EntityTxnProofs` | `NoDuplicateTickerAlias`, `TickerResolvable` | any number of writers, aborting anywhere, leaves at most one alias per pair and no ticker without one |
| | `TransactionsImplementStore` | the transactions implement `EntityStore` |
| | `SeedingCovers`, `OneSeederNoDuplicateName` | a committed seeding run covers what it read; no duplicates with one seeder |
| `DartProofs` | `NoFilingDropped`, `CountedFilingsCurrent`, `BodiesNeverRegress`, `WritersSeedTheEntity` | the four safety properties of the run `dart` |
| `KindProofs` | `EventRowsHaveParents`, `OneInsertionPerKey`, `EveryEventAnswered` | the safety properties of the run `kind` |
| `NewsProofs` | `RowsCarryTheirTags`, `EveryItemCounted` | the safety properties of `news`, for any number of overlapping runs |
| `OperationsProofs` | `ExitCodesTell` | the exit code tells what was lost, for any list of sources and any number of documents |
| | `OperationsImplementCollect`, `ExitCodesTellBesideMigrations` | the commands beside migrations implement the command line alone, so that result carries over |
| | `MigrationsLeadToTheRevision` | after any sequence of migration commands, aborted anywhere, the committed catalog is that of its revision and the rows of `edges` meet its CHECKs |
| | `MigrationsAreAtomic` | the scripts, run statement by statement beside other sessions, implement `Database`: a migration is one step, that keeps the rows of every table that stays and exactly the edges the revision admits |
| | `MigrationsFailOnEdgesOnly` | no command fails but on the rows of `edges` |
| | `MigrationsKeepRows` | rows go only when a downgrade commits: those of a table with the table, those of `edges` that 0001 does not allow below 0003 |
| `NumericProofs` | `CandidatesAreTheAmounts` | the candidates of a text of any length are the defined ones, in their order, whatever the limit |
| | `FirstValueOfEachItem` | of any statement, whatever its columns, the value of the first row of each item that has one is kept |
| `KrxProofs` | `RowsHaveHolders`, `NoTickerDropped`, `ShortFiguresKept`, `RerunsRepair` | the safety properties of `krx`, for any number of overlapping runs |
| `MacroProofs` | `CountedStaysStored`, `NoSeriesDropped`, `OverwritesReportedByDateOnly` | the safety properties of `macro`; the last says that date keys report every overwrite and ISO strings none |
| each | `TypeCorrect` (`CommandTypeCorrect`) | type correctness |

Why the properties are not inductive by themselves, and what is added:

* *EntityTxn.* That no alias is inserted twice depends on the lock. `LockInv`: a
  writer past its first statement holds the row of its corporation. `AliasInv`:
  therefore what its SELECT returned is still true at the commit. Without the
  lock (`UpsertRowNoWait`) both fail. The seeder holds no lock, which is why
  `OneSeederNoDuplicateName` assumes that one process seeds; two do duplicate.
* *Dart.* `BodyInv`: a page in hand lies between what was listed or stored before
  and what the source serves now (`HandInv`), or is missing because the loop has
  not come to it or it came back empty; between two filings nothing is in hand.
  That is what makes reading page by page, from the first again after an error,
  as good as reading at once. `LoopInv`: a listed filing is on
  the list, in hand or counted. `IdleInv`: nothing is left of an earlier run.
* *Kind.* `HandInv`: the corporation of the event in hand is known, or it comes
  from a filing that is not stored yet, and then the foreign key of `filings`
  stops the pair before its second half. With `AliasInv`, `EventInv` and
  `FiledInv` this gives the parents. `DedupInv`: a counted insertion has its key
  in `seen`. `ReportInv`, for `EveryEventAnswered`: a key in `seen` has an event
  that is stored or failed, or is the key in hand; so an event skipped because
  of its key has such a companion when the loop ends.
* *News.* `TagInv`: an alias map, loaded long ago, maps a name only to a
  corporation that still has that alias, under a ticker it holds or has held,
  because no statement removes an alias; the article in hand therefore carries
  justified tags, and the upsert writes body and tags together. `CountInv`: an
  item of a feed that was read is waiting, in hand or counted.
* *Command line.* `Places`: where the command is determines which variables are used.
  `ReportHonest`: an entry of the report is bad exactly when the last run so far
  of that source lost something. The second run of a name overwrites the entry
  of the first, which is why the property speaks of last runs.
* *Migrations.* `Path`: a running command is between the committed revision and
  its goal, and the catalog it sees is the one in which its next block begins.
  What makes the rows of `edges` meet the CHECKs at the commit is the lock: a new
  CHECK is validated once, and other sessions could insert behind it. `Guarded`:
  the rows that stay meet the CHECKs the transaction has so far, and if one of
  these is not committed yet the transaction holds `edges`. `DoomedBelow`: an
  uncommitted DELETE means a downgrade below 0003. `Committed` is what a
  transaction starts from.
  The refinement needs no mapping, since the variables of `Database` are the
  committed ones of `Schema`: `Commit` is its step, and `CommitLeavesAdmitted`
  says that what a DELETE reached and what a validated CHECK let through
  together make the outcome a function of the revision and the rows.
* *Composition.* An insert of a command may find its table missing or locked; the
  step lemmas under `NextParts` show that each outcome is one `CollectAll` has.
* *Numeric facts.* `ClaimInv`: the claimed spans are matches of the patterns tried
  so far, they do not overlap, and every match of a pattern tried overlaps one
  of them. That alone would allow 5억 to be claimed out of 3조 5억; the rest of the
  invariant is the order of the passes, that compound amounts are claimed before
  anything that begins or ends one is tried. `WalkInv`: what is kept are the
  facts of the rows read so far whose item had no value before.
* *Krx.* `HandInv`: the corporation resolved two calls before the write still
  holds the ticker, because no statement of the program removes an alias.
  `AloneInv`: an undisturbed run is the only one and has in hand what the exchange
  says now. `PastInv`: a short balance that is stored or in hand has been published,
  so an undisturbed run has it too, and COALESCE takes the new one; `IdleInv` as
  above. From these, `RerunsRepair`.
* *Macro.* `StoredInv`: every stored value is a rounded one, so an observation
  that equals it equals its own rounded form. `LoopInv`: only a series without
  an outcome is fetched and written, so a counted one is not disturbed. `SilentInv`:
  with ISO strings the list of revisions stays empty.

Assumptions. Each module states what it needs of its constants (`NoneIsFresh`,
`TxnNoneIsFresh`, `CallShape`, `DartConstants`, `KindConstants`, `KrxConstants`,
`MacroConstants`, `NewsConstants`, `CollectConstants`, `SchemaConstants`,
`TableOfSources`, `NumericConstants`): NULL is none of the values, the calls have
well-formed arguments, the source's events refer to known sets, receipt numbers
are unique, rounding a rounded value changes nothing, a table of a source exists
at some revision. TLC evaluates all of them.

The assumptions of `ScriptFacts` are of another kind. They state what each block
of the twelve scripts computes (`BlocksLead`: the next catalog, or a failure on
`edges`), how many there are and what they delete. They have no parameter to
instantiate, so TLC, which evaluates them in the run `facts`, decides them for
good; the prover cannot, since a script is interpreted by a fold. The theorems
about migrations add what depends on time: every order of commands, crashes and
inserts, any number of them.

Only model-checked: the liveness properties (`WriterReturns`,
`EventuallyCurrent`, `EventuallyCovered`, `EventuallyStored`, `CommandsEnd`), which are out of reach of the prover with their fairness. Every
invariant and action property of the passing runs is a theorem.

## 5. What is not modelled

* Historical resolution (`resolve_entity(…, as_of)`): it only reads, and no
  collector calls it.
* Text and format: HTML and XML parsing, the patterns of the KIND classifier,
  markdown bodies, hash normalisation, sentences and context of a numeric
  candidate. Bodies are versions of pages, names and tickers are model values.
* `shared/frontmatter.py`: since the collectors write to the database, only its
  schemas are used; its file functions have no caller outside the tests.
* `number_sanity.py` and `units.py`: single comparisons and multiplications
  without state and without a caller in the commands.
* `db/engine.py`: reads `DATABASE_URL` and creates an engine.
* Of the migrations: two at once (alembic takes no lock; the second would fail on
  the first name), the offline mode, `CREATE EXTENSION`, the columns a table is
  created with, and the locks of foreign-key checks, which can make two sessions
  wait for each other but no script's outcome differ.
* Time: throttles, backoff delays, timeouts (a timeout is a failing call).
* Overlapping runs of the DART, KIND and macro collectors. DART's client is
  documented for strictly serial use.
* The call of dart_fss for the financial statements, and the flattening of its
  columns; `NumericFacts` starts from the sheets.
* Transactions of the collectors' own tables other than KRX and news: each is a
  single statement or a sequence no other writer of that table can enter here.

Seen while modelling, and left as they are:

* `--sources=krx,krx` reports the second run only (`cli/commands.py:177`). Its exit
  code can be 0 after a run that failed, which contradicts the docstring ("0 when
  every source ran to completion without failures", `:142-143`). `ExitTells` says
  what the docstring says for lists that name each source once, and no more than
  what is true, of the last run of each name, for the others.
* `fetch_body` leaves out pages with empty html, and returns an empty string when
  nothing is left (`fetcher.py:95`, `:110`). `upsert_dart_filing` stores that over a
  longer body and counts it as updated, although its docstring calls `body_md` the
  "WHOLE filing body text" (`db_writer.py:116`). `CountedIsCurrent` and
  `BodiesAdvance` allow exactly this loss and `EventuallyCurrent` says that a later
  run repairs it.
* The DART command returns 0 whatever failed (`cli/commands.py:87`); `--sources=,`
  runs nothing and returns 0; `docs_processed` is read from a key that no
  collector's stats have (`:168`).
* A NaN in the `value` column of a statement is taken as a value
  (`financials.py:118`) and hides later rows of its line item, while a NaN in a
  period column is not. `FirstValueKept` says it as the code does.

## 6. Plan

Done, in this order: entity tables and resolver (they carry every other part),
DART, KIND, KRX, macro; then news, the migrations, the command line, the two
composed, and the numeric facts; with the theorems above.

Left:

1. That every entity step of the collector modules is a step of `EntityStore`,
   as a theorem: they use its action literally, so this adds assurance only if
   one of them gets an entity step of its own.
2. Two seeders of names, and two overlapping runs of the macro collector, should
   the code come to promise anything about them.
