------------------------------- MODULE Scripts -------------------------------
(***************************************************************************)
(* The scripts of the migrations (src/db/migrations): each revision is a     *)
(* script of DDL and data statements. The module interprets the statements   *)
(* on a catalog of named objects, so that what can make one fail in          *)
(* PostgreSQL (a name that is taken or missing, a table that others refer    *)
(* to, a row that a new CHECK rejects) makes it fail here. It has no         *)
(* variables: Schema runs the scripts in transactions.                       *)
(***************************************************************************)
EXTENDS Naturals, Sequences, SequencesExt

CONSTANT NoBlame   \* no statement has failed

(* The rows of edges, by edge_type: one that 0001 allows, one that 0004     *)
(* allows, and one that neither does.                                       *)
EdgeType == {"supersedes", "mentions_ticker", "ad hoc"}

Allowed(check) ==
    IF check = "ck_edge_type_phase2" THEN {"supersedes"} ELSE EdgeType \ {"ad hoc"}

(* The types of edges that a database at revision r is meant to hold: none  *)
(* before there is the table, those of 0001, after 0003 any, those of 0004. *)
Admitted(r) ==
    {e \in EdgeType : r > 0 /\ (r < 3 => e = "supersedes") /\ (r > 3 => e # "ad hoc")}

Stmt(do, k, n, t, refs) == [do |-> do, kind |-> k, name |-> n, on |-> t, refs |-> refs]

CreateTable(t, refs) == <<Stmt("create", "table", t, t, refs)>>
Create(k, n, t) == <<Stmt("create", k, n, t, {})>>
Drop(k, n, t) == <<Stmt("drop", k, n, t, {})>>
DropIfExists(k, n, t) == <<Stmt("drop if exists", k, n, t, {})>>
Rename(k, n, to) == <<Stmt("rename", k, n, to, {})>>
Rows(do, t) == <<Stmt(do, "rows", t, t, {})>>

Indexes(t, names) == FoldLeft(LAMBDA s, n : s \o Create("index", n, t), << >>, names)

DropIndexes(t, names) == FoldLeft(LAMBDA s, n : s \o Drop("index", n, t), << >>, names)

------------------------------------------------------------------------------
(* The scripts. A script is a sequence of blocks: only a statement that     *)
(* reads or writes rows can tell when it runs, so a block ends there.       *)

Up0001 == <<
    CreateTable("entities", {}) \o
    CreateTable("entity_aliases", {"entities"}) \o
    Indexes("entity_aliases", <<"ix_alias_lookup">>) \o
    CreateTable("documents", {}) \o
    Indexes("documents", <<"ix_documents_source", "ix_documents_vault_path">>) \o
    CreateTable("chunks", {"documents"}) \o
    Create("column", "embedding", "chunks") \o
    Indexes("chunks", <<"ix_chunks_document_id">>) \o
    CreateTable("edges", {}) \o
    Create("check", "ck_edge_type_phase2", "edges") \o
    Indexes("edges", <<"ix_edges_src", "ix_edges_dst", "ix_edges_type">>) \o
    CreateTable("events", {"entities", "documents"}) \o
    Indexes("events", <<"ix_events_corp_code_time">>) \o
    CreateTable("ingest_runs", {}) >>

Down0001 == <<FoldLeft(LAMBDA s, t : s \o Drop("table", t, t), << >>,
    <<"ingest_runs", "events", "edges", "chunks", "documents", "entity_aliases", "entities">>)>>

Up0002 == <<
    Create("column", "section_path", "chunks") \o
    Create("column", "section_index", "chunks") \o
    Create("column", "bm25_tokens", "chunks") \o
    Create("column", "corp_code", "documents") \o
    Indexes("documents", <<"ix_documents_corp_code">>) \o
    Indexes("chunks", <<"ix_chunks_embedding_hnsw", "ix_chunks_bm25">>) >>

Down0002 == <<
    DropIfExists("index", "ix_chunks_bm25", "chunks") \o
    DropIfExists("index", "ix_chunks_embedding_hnsw", "chunks") \o
    Drop("index", "ix_documents_corp_code", "documents") \o
    Drop("column", "corp_code", "documents") \o
    Drop("column", "bm25_tokens", "chunks") \o
    Drop("column", "section_index", "chunks") \o
    Drop("column", "section_path", "chunks") >>

Up0003 == <<DropIfExists("check", "ck_edge_type_phase2", "edges")>>

Down0003 == <<Rows("delete", "edges"), Create("check", "ck_edge_type_phase2", "edges")>>

Up0004 == <<Rows("select", "edges"), Create("check", "ck_edge_type_phase7", "edges")>>

(* Faulty variant: the CHECK of 0004 stays behind.                          *)
Down0004KeepsCheck == << << >> >>

Down0004 == <<DropIfExists("check", "ck_edge_type_phase7", "edges")>>

Up0005 == <<
    Create("column", "note_type", "documents") \o
    Indexes("documents", <<"ix_documents_note_type">>) \o
    Rows("backfill", "documents") >>

Down0005 == <<
    Drop("index", "ix_documents_note_type", "documents") \o
    Drop("column", "note_type", "documents") >>

NewTables0006 ==
    CreateTable("filings", {"entities"}) \o
    Create("column", "body_embedding", "filings") \o
    Indexes("filings", <<"ix_filings_corp_filed", "ix_filings_pblntf_ty",
                         "ix_filings_event_type">>) \o
    CreateTable("news", {"entities"}) \o
    Create("column", "body_embedding", "news") \o
    Indexes("news", <<"ix_news_corp_pub", "ix_news_outlet", "ix_news_tickers">>) \o
    CreateTable("ohlcv", {"entities"}) \o
    Indexes("ohlcv", <<"ix_ohlcv_date", "ix_ohlcv_corp">>) \o
    CreateTable("macro_series", {}) \o
    Indexes("macro_series", <<"ix_macro_obs">>) \o
    CreateTable("events", {"entities", "filings"}) \o
    Indexes("events", <<"ix_events_ticker_date", "ix_events_type_date">>) \o
    CreateTable("collector_runs", {}) \o
    Indexes("collector_runs", <<"ix_collector_runs_source_time">>)

(* Faulty variant: the legacy table is dropped, not renamed.                *)
Up0006DropsLegacy == << Drop("table", "events", "events") \o NewTables0006 >>

Up0006 == <<
    Rename("index", "ix_events_corp_code_time", "ix_events_legacy_corp_code_time") \o
    Rename("table", "events", "events_legacy") \o
    NewTables0006 >>

(* Faulty variant: filings is dropped before the events that refer to it.   *)
Down0006WrongOrder == <<
    Drop("table", "collector_runs", "collector_runs") \o
    Drop("table", "macro_series", "macro_series") \o
    Drop("table", "ohlcv", "ohlcv") \o
    Drop("table", "news", "news") \o
    Drop("table", "filings", "filings") \o
    Drop("table", "events", "events") \o
    Rename("table", "events_legacy", "events") \o
    Rename("index", "ix_events_legacy_corp_code_time", "ix_events_corp_code_time") >>

Down0006 == <<
    DropIndexes("collector_runs", <<"ix_collector_runs_source_time">>) \o
    Drop("table", "collector_runs", "collector_runs") \o
    DropIndexes("events", <<"ix_events_type_date", "ix_events_ticker_date">>) \o
    Drop("table", "events", "events") \o
    DropIndexes("macro_series", <<"ix_macro_obs">>) \o
    Drop("table", "macro_series", "macro_series") \o
    DropIndexes("ohlcv", <<"ix_ohlcv_corp", "ix_ohlcv_date">>) \o
    Drop("table", "ohlcv", "ohlcv") \o
    DropIndexes("news", <<"ix_news_tickers", "ix_news_outlet", "ix_news_corp_pub">>) \o
    Drop("table", "news", "news") \o
    DropIndexes("filings", <<"ix_filings_event_type", "ix_filings_pblntf_ty",
                             "ix_filings_corp_filed">>) \o
    Drop("table", "filings", "filings") \o
    Rename("table", "events_legacy", "events") \o
    Rename("index", "ix_events_legacy_corp_code_time", "ix_events_corp_code_time") >>

(* Whether a block deletes rows of edges.                                   *)
Deletes(script) == \E i \in DOMAIN script : script[i].do = "delete"

Up == <<Up0001, Up0002, Up0003, Up0004, Up0005, Up0006>>
Down == <<Down0001, Down0002, Down0003, Down0004, Down0005, Down0006>>

------------------------------------------------------------------------------
(* The statements on a catalog. An object is [kind, name, of, refs]: `of`   *)
(* is the identity of its table, the revision that created it and its first *)
(* name, which a rename leaves alone; refs are the tables that its foreign  *)
(* keys point to. Tables and indexes share one namespace, columns and       *)
(* CHECKs have one for each table.                                          *)
Tables(cat, n) == {o \in cat : o.kind = "table" /\ o.name = n}

Ids(cat, names) == {o.of : o \in {x \in cat : x.kind = "table" /\ x.name \in names}}

Objects(cat, c) == {o \in cat : o.kind = c.kind /\ o.name = c.name /\ o.of \in Ids(cat, {c.on})}

Clash(cat, k, n, t) ==
    IF k \in {"table", "index"}
    THEN \E o \in cat : o.kind \in {"table", "index"} /\ o.name = n
    ELSE \E o \in cat : o.kind = k /\ o.name = n /\ o.of \in Ids(cat, {t})

(* Whether a statement succeeds on a catalog and on the rows it can see.    *)
CanCreate(cat, rows, c) ==
    /\ ~Clash(cat, c.kind, c.name, c.on)
    /\ c.kind = "table" => \A t \in c.refs : Tables(cat, t) # {}
    /\ c.kind # "table" => Tables(cat, c.on) # {}
    /\ c.kind = "check" => rows \subseteq Allowed(c.name)

CanDrop(cat, c) ==
    /\ Objects(cat, c) # {}
    /\ c.kind = "table" =>
        \A o \in cat : o.refs \cap Ids(cat, {c.name}) = {} \/ o.of \in Ids(cat, {c.name})

CanRename(cat, c) ==
    /\ \E o \in cat : o.kind = c.kind /\ o.name = c.name
    /\ ~Clash(cat, c.kind, c.on, c.on)

Can(cat, rows, c) ==
    CASE c.do = "create" -> CanCreate(cat, rows, c)
      [] c.do = "drop" -> CanDrop(cat, c)
      [] c.do = "drop if exists" -> c.kind = "check" => Tables(cat, c.on) # {}
      [] c.do = "rename" -> CanRename(cat, c)
      [] c.do = "select" -> rows \subseteq Allowed("ck_edge_type_phase7")
      [] OTHER -> TRUE

(* What it does to the catalog, in the script of revision r.                *)
Created(cat, c, r) ==
    IF c.kind = "table"
    THEN {[kind |-> "table", name |-> c.name, of |-> <<r, c.name>>, refs |-> Ids(cat, c.refs)]}
    ELSE {[kind |-> c.kind, name |-> c.name, of |-> t, refs |-> {}] : t \in Ids(cat, {c.on})}

Dropped(cat, c) ==
    IF c.kind = "table" THEN {o \in cat : o.of \in Ids(cat, {c.name})} ELSE Objects(cat, c)

Renamed(cat, c) ==
    {IF o.kind = c.kind /\ o.name = c.name THEN [o EXCEPT !.name = c.on] ELSE o : o \in cat}

Effect(cat, c, r) ==
    CASE c.do = "create" -> cat \cup Created(cat, c, r)
      [] c.do \in {"drop", "drop if exists"} -> cat \ Dropped(cat, c)
      [] c.do = "rename" -> Renamed(cat, c)
      [] OTHER -> cat

(* The tables it locks against writers: its own, those its foreign keys     *)
(* refer to; none for a statement on rows and for the renaming of an index. *)
Locks(cat, c) ==
    CASE c.kind = "rows" \/ (c.do = "rename" /\ c.kind = "index") -> {}
      [] c.do = "rename" -> Ids(cat, {c.name})
      [] c.kind = "table" ->
            Ids(cat, {c.name} \cup c.refs) \cup UNION {o.refs : o \in Tables(cat, c.name)}
      [] OTHER -> Ids(cat, {c.on})

(* A block runs statement by statement, up to the first that fails. (The    *)
(* singleton sets make TLC compute an intermediate catalog only once.)      *)
Do(s, rows, c, r) ==
    CASE s.failed # NoBlame -> s
      [] s.failed = NoBlame /\ Can(s.cat, rows, c) ->
            [s EXCEPT !.cat = Effect(@, c, r), !.held = @ \cup Locks(s.cat, c)]
      [] OTHER -> [s EXCEPT !.failed = c]

Run(cat, rows, script, r) ==
    LET f[i \in 0..Len(script)] ==
            IF i = 0 THEN [cat |-> cat, held |-> {}, failed |-> NoBlame]
            ELSE CHOOSE n \in {Do(s, rows, script[i], r) : s \in {f[i - 1]}} : TRUE
    IN f[Len(script)]

(* The catalogs that the upgrades lead to from an empty database: a tuple,  *)
(* which TLC computes once.                                                 *)
Upgraded ==
    FoldLeft(LAMBDA s, r :
                 Append(s, Run(IF s = << >> THEN {} ELSE Last(s), {}, FlattenSeq(Up[r]), r).cat),
             << >>, [r \in 1..6 |-> r])

Expected(r) == IF r = 0 THEN {} ELSE Upgraded[r]
==============================================================================
