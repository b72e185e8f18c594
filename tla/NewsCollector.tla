---------------------------- MODULE NewsCollector ----------------------------
(***************************************************************************)
(* collect_news (src/collectors/news): the items of the RSS feeds whose      *)
(* article mentions a corporation of the portfolio become rows of the news   *)
(* table, tagged with the tickers and the corp_code that were matched. The   *)
(* aliases are read once when a run starts; articles are edited, and pushed  *)
(* out of their feeds, while runs go on; the same article may be in two      *)
(* feeds; runs may overlap; and a row is written by a transaction that reads *)
(* the stored hash first. The entity tables are those of EntityStore.        *)
(***************************************************************************)
EXTENDS EntityStore, Naturals, Sequences

CONSTANTS
    Run,           \* processes that run `collect news`
    Feed, Link,    \* RSS feeds, and article urls (url_hash)
    Carries,       \* Carries[k]: the feeds that list the article k
    Mentions,      \* Mentions[k][v]: the names in version v of the article k;
                   \* the versions, told apart by content_hash, are 1..Len
    Length,        \* Length[n]: characters of the name n
    MaxPerFeed,    \* --max-per-feed
    Scope,         \* tickers of the portfolio, Portfolio.scope_tickers()
    Company,       \* what the other commands upsert: [corp, name, ticker]
    MaxFaults      \* bound: crashes and failing calls in a behaviour

Item == Feed \X Link

(* An entry of the alias map, what a run is about to store, and a news row. *)
Entry == [corp : CorpCode, ticker : Scope]
Row == [version : Nat, tickers : SUBSET Scope, corp : CorpCode]
Article == [item : Item, row : Row]
Outcome == {"inserted", "updated", "skipped", "failed"}    \* of one item
Found == {"missing", "same", "other"}    \* the stored content_hash

ASSUME NewsConstants ==
    /\ MaxPerFeed \in Nat /\ MaxFaults \in Nat
    /\ Carries \in [Link -> SUBSET Feed]
    /\ Mentions \in [Link -> Seq(SUBSET CompanyName)]
    /\ Length \in [CompanyName -> Nat]
    /\ Scope \subseteq Ticker
    /\ Company \subseteq [corp : CorpCode, name : CompanyName,
                          ticker : Ticker \cup {None}]
    /\ None \notin Entry \cup Row \cup Article \cup Feed \cup Found \cup Outcome

VARIABLES
    named,         \* the pairs <<c, n>> with a current 'name' alias
    text,          \* text[k]: the version behind the url, 0 before publication
    rss,           \* rss[f]: the articles of the feed, the newest first
    news,          \* news[k]: the row of the article k, or None
    pc,            \* pc[p]: where the run of p is
    aliasMap,      \* aliasMap[p]: the alias map loaded when the run started
    feeds,         \* feeds[p]: the feeds not read yet
    feed, todo,    \* the feed in hand, and its items not taken yet
    read,          \* read[p]: the items of the feeds read so far
    cur, found,    \* the article in hand, and what the SELECT told of its row
    outcome,       \* outcome[p][i]: how stats counted the item i
    faults         \* faults so far

aliases == <<entities, holders, named>>
web == <<text, rss>>
local == <<pc, aliasMap, feeds, feed, todo, read, cur, found, outcome>>
vars == <<aliases, web, news, local, faults>>

Place == {"idle", "loop", "select", "write", "record"}

TypeOK ==
    /\ StoreTypeOK
    /\ named \subseteq CorpCode \X CompanyName
    /\ text \in [Link -> Nat]
    /\ rss \in [Feed -> Seq(Link)]
    /\ news \in [Link -> Row \cup {None}]
    /\ pc \in [Run -> Place]
    /\ aliasMap \in [Run -> [CompanyName -> Entry \cup {None}]]
    /\ feeds \in [Run -> SUBSET Feed]
    /\ feed \in [Run -> Feed \cup {None}]
    /\ todo \in [Run -> SUBSET Link]
    /\ read \in [Run -> SUBSET Item]
    /\ cur \in [Run -> Article \cup {None}]
    /\ found \in [Run -> Found \cup {None}]
    /\ outcome \in [Run -> [Item -> Outcome \cup {None}]]
    /\ faults \in Nat
    /\ \A p \in Run : /\ todo[p] # {} => feed[p] \in Feed
                      /\ pc[p] \in {"select", "write"} => cur[p] \in Article
                      /\ pc[p] = "write" => found[p] \in Found

Init == /\ StoreInit
        /\ named = {}
        /\ text = [k \in Link |-> 0]
        /\ rss = [f \in Feed |-> << >>]
        /\ news = [k \in Link |-> None]
        /\ pc = [p \in Run |-> "idle"]
        /\ aliasMap = [p \in Run |-> [n \in CompanyName |-> None]]
        /\ feeds = [p \in Run |-> {}]
        /\ feed = [p \in Run |-> None]
        /\ todo = [p \in Run |-> {}]
        /\ read = [p \in Run |-> {}]
        /\ cur = [p \in Run |-> None]
        /\ found = [p \in Run |-> None]
        /\ outcome = [p \in Run |-> [i \in Item |-> None]]
        /\ faults = 0

------------------------------------------------------------------------------
(* The environment: articles appear at the head of their feeds and are      *)
(* edited afterwards, and other commands write the entities.                *)

Publish(k) ==
    /\ text[k] = 0 /\ Len(Mentions[k]) > 0
    /\ text' = [text EXCEPT ![k] = 1]
    /\ rss' = [f \in Feed |-> IF f \in Carries[k] THEN <<k>> \o rss[f] ELSE rss[f]]
    /\ UNCHANGED <<aliases, news, local, faults>>

Edit(k) ==
    /\ text[k] \in 1..(Len(Mentions[k]) - 1)
    /\ text' = [text EXCEPT ![k] = text[k] + 1]
    /\ UNCHANGED <<aliases, rss, news, local, faults>>

SeedEntity(x) == /\ UpsertEntity(x.corp, x.name, x.ticker)
                 /\ UNCHANGED <<named, web, news, local, faults>>

SeedNames ==
    /\ named' = named \cup {<<c, entities[c].name>> : c \in
                               {d \in CorpCode : entities[d] # None}}
    /\ UNCHANGED <<entities, holders, web, news, local, faults>>

------------------------------------------------------------------------------
Fault == faults < MaxFaults /\ faults' = faults + 1

(* load_scoped_aliases: the corporations the alias n may be mapped to.      *)
(* Where several current holders of n are in scope, the dictionary keeps    *)
(* whichever row comes last. A name of one character is no alias.           *)
InScope(c) == entities[c] # None /\ entities[c].ticker \in Scope

Meanings(n) ==
    IF Length[n] < 2 THEN {}
    ELSE {[corp |-> c, ticker |-> entities[c].ticker] :
             c \in {d \in CorpCode : <<d, n>> \in named /\ InScope(d)}}

(* assert_aliases_seeded, then the portfolio and its aliases. A run that    *)
(* finds no name at all raises NoAliasesSeededError and does nothing.       *)
StartRun(p) ==
    /\ pc[p] = "idle"
    /\ named # {}
    /\ \E m \in [CompanyName -> Entry \cup {None}] :
          /\ \A n \in CompanyName : m[n] \in IF Meanings(n) = {} THEN {None}
                                                                 ELSE Meanings(n)
          /\ aliasMap' = [aliasMap EXCEPT ![p] = m]
    /\ feeds' = [feeds EXCEPT ![p] = Feed]
    /\ pc' = [pc EXCEPT ![p] = "loop"]
    /\ UNCHANGED <<aliases, web, news, feed, todo, read, cur, found, outcome, faults>>

(* One feed, cut to its first MaxPerFeed items. The feeds, and the items of *)
(* one, are taken in any order: the code goes by the order of the lists and *)
(* does not rely on it.                                                     *)
Window(f) == {rss[f][j] : j \in DOMAIN rss[f] \cap 1..MaxPerFeed}

ReadFeed(p) ==
    /\ pc[p] = "loop" /\ todo[p] = {}
    /\ \E f \in feeds[p] :
          /\ feeds' = [feeds EXCEPT ![p] = @ \ {f}]
          /\ feed' = [feed EXCEPT ![p] = f]
          /\ todo' = [todo EXCEPT ![p] = Window(f)]
          /\ read' = [read EXCEPT ![p] = @ \cup ({f} \X Window(f))]
    /\ UNCHANGED <<aliases, web, news, pc, aliasMap, cur, found, outcome, faults>>

(* A request that fails is reported in stats["failed"]; an answer without   *)
(* content, or that feedparser finds no entry in, is passed over in silence.*)
FeedFails(p) ==
    /\ pc[p] = "loop" /\ todo[p] = {}
    /\ Fault
    /\ \E f \in feeds[p] : feeds' = [feeds EXCEPT ![p] = @ \ {f}]
    /\ UNCHANGED <<aliases, web, news, pc, aliasMap, feed, todo, read, cur,
                   found, outcome>>

(* match_tickers_in_text: the aliases in the text, the longest first, one   *)
(* entry per corporation; the first gives the row its corp_code.            *)
Hits(m, k, v) == {n \in CompanyName : n \in Mentions[k][v] /\ m[n] # None}

Longest(N) == {n \in N : \A o \in N : Length[o] <= Length[n]}

(* Faulty variant: an item that is done lacks its "continue".               *)
CountFallsThrough(p, i, o) ==
    /\ outcome' = [outcome EXCEPT ![p][i] = o]
    /\ UNCHANGED pc
    /\ cur' = [cur EXCEPT ![p] = None]
    /\ found' = [found EXCEPT ![p] = None]

Count(p, i, o) ==
    /\ outcome' = [outcome EXCEPT ![p][i] = o]
    /\ pc' = [pc EXCEPT ![p] = "loop"]
    /\ cur' = [cur EXCEPT ![p] = None]
    /\ found' = [found EXCEPT ![p] = None]

(* The article as it is now. It is skipped when nothing matches, and also   *)
(* when trafilatura, which keeps most errors to itself, returns no text;    *)
(* the errors it does raise make the item fail.                             *)
FetchArticle(p) ==
    /\ pc[p] = "loop"
    /\ \E k \in todo[p] :
          LET i == <<feed[p], k>>
              hits == Hits(aliasMap[p], k, text[k])
          IN  /\ todo' = [todo EXCEPT ![p] = @ \ {k}]
              /\ \/ /\ hits = {}
                    /\ Count(p, i, "skipped")
                    /\ UNCHANGED faults
                 \/ /\ Fault
                    /\ \E o \in {"skipped", "failed"} : Count(p, i, o)
                 \/ /\ \E n \in Longest(hits) :
                          cur' = [cur EXCEPT ![p] =
                              [item |-> i,
                               row |-> [version |-> text[k],
                                        tickers |-> {aliasMap[p][h].ticker : h \in hits},
                                        corp |-> aliasMap[p][n].corp]]]
                    /\ pc' = [pc EXCEPT ![p] = "select"]
                    /\ UNCHANGED <<found, outcome, faults>>
    /\ UNCHANGED <<aliases, web, news, aliasMap, feeds, feed, read>>

(* upsert_news_article: the first statement of its transaction.             *)
SelectHash(p) ==
    /\ pc[p] = "select"
    /\ LET old == news[cur[p].item[2]]
       IN  found' = [found EXCEPT ![p] =
                        CASE old = None -> "missing"
                          [] old # None /\ old.version = cur[p].row.version -> "same"
                          [] OTHER -> "other"]
    /\ pc' = [pc EXCEPT ![p] = "write"]
    /\ UNCHANGED <<aliases, web, news, aliasMap, feeds, feed, todo, read, cur,
                   outcome, faults>>

(* Faulty variant: the conflict clause leaves the tickers as they are.      *)
KeepTickers(old, new) ==
    IF old = None THEN new ELSE [new EXCEPT !.tickers = old.tickers]

(* Faulty variant: an UPDATE where the upsert is.                           *)
UpdateOnly(old, new) == IF old = None THEN None ELSE new

(* ON CONFLICT (url_hash) DO UPDATE: every one of the columns is replaced.  *)
Merged(old, new) == new

(* Its last statement. With the same hash only last_seen_at moves: the tags *)
(* stay those of the run that stored the body. (A conflicting INSERT waits  *)
(* for the other transaction, then updates its row.)                        *)
WriteArticle(p) ==
    /\ pc[p] = "write"
    /\ LET k == cur[p].item[2]
       IN  \/ /\ found[p] = "same"
              /\ Count(p, cur[p].item, "skipped")
              /\ UNCHANGED news
           \/ /\ found[p] # "same"
              /\ news' = [news EXCEPT ![k] = Merged(@, cur[p].row)]
              /\ Count(p, cur[p].item,
                       IF found[p] = "missing" THEN "inserted" ELSE "updated")
    /\ UNCHANGED <<aliases, web, aliasMap, feeds, feed, todo, read, faults>>

(* Faulty variant: the handler logs the exception and no more.              *)
ItemFailsUncounted(p) ==
    /\ pc[p] \in {"select", "write"}
    /\ Fault
    /\ pc' = [pc EXCEPT ![p] = "loop"]
    /\ cur' = [cur EXCEPT ![p] = None]
    /\ found' = [found EXCEPT ![p] = None]
    /\ UNCHANGED <<aliases, web, news, aliasMap, feeds, feed, todo, read, outcome>>

(* Any exception of an item, which rolls its transaction back: reported,    *)
(* and the loop goes on with the next item.                                 *)
ItemFails(p) ==
    /\ pc[p] \in {"select", "write"}
    /\ Fault
    /\ Count(p, cur[p].item, "failed")
    /\ UNCHANGED <<aliases, web, news, aliasMap, feeds, feed, todo, read>>

EndFeeds(p) ==
    /\ pc[p] = "loop" /\ todo[p] = {} /\ feeds[p] = {}
    /\ pc' = [pc EXCEPT ![p] = "record"]
    /\ UNCHANGED <<aliases, web, news, aliasMap, feeds, feed, todo, read, cur,
                   found, outcome, faults>>

LeaveRun(p) ==
    /\ pc' = [pc EXCEPT ![p] = "idle"]
    /\ aliasMap' = [aliasMap EXCEPT ![p] = [n \in CompanyName |-> None]]
    /\ feeds' = [feeds EXCEPT ![p] = {}]
    /\ feed' = [feed EXCEPT ![p] = None]
    /\ todo' = [todo EXCEPT ![p] = {}]
    /\ read' = [read EXCEPT ![p] = {}]
    /\ cur' = [cur EXCEPT ![p] = None]
    /\ found' = [found EXCEPT ![p] = None]
    /\ outcome' = [outcome EXCEPT ![p] = [i \in Item |-> None]]

RecordRun(p) == /\ pc[p] = "record"
                /\ LeaveRun(p)
                /\ UNCHANGED <<aliases, web, news, faults>>

Crash(p) == /\ pc[p] # "idle"
            /\ Fault
            /\ LeaveRun(p)
            /\ UNCHANGED <<aliases, web, news>>

------------------------------------------------------------------------------
Environment == \/ \E k \in Link : Publish(k) \/ Edit(k)
               \/ \E x \in Company : SeedEntity(x)
               \/ SeedNames

RunStep(p) == \/ ReadFeed(p) \/ FetchArticle(p) \/ SelectHash(p) \/ WriteArticle(p)
              \/ EndFeeds(p) \/ RecordRun(p)

FaultStep(p) == FeedFails(p) \/ ItemFails(p) \/ Crash(p)

Next == \/ Environment
        \/ \E p \in Run : StartRun(p) \/ RunStep(p) \/ FaultStep(p)

Spec == Init /\ [][Next]_vars

(* The command is run again and again: a run that can go on does, and a     *)
(* process that is idle runs once more.                                     *)
FairSpec == Spec /\ \A p \in Run : WF_vars(StartRun(p)) /\ WF_vars(RunStep(p))

------------------------------------------------------------------------------
(* The tags of a row belong to the body it stores: each ticker, and the     *)
(* corp_code, is a corporation that carries a name the stored version       *)
(* mentions and holds, or has held, a ticker of the portfolio. No edit,     *)
(* overlap of runs or change of the entity tables leaves a row with the     *)
(* body of one version and the tags of another.                             *)
Tags(c, t, k, v) ==
    /\ <<c, t>> \in holders
    /\ \E n \in Mentions[k][v] : Length[n] >= 2 /\ <<c, n>> \in named

Justified(k, r) ==
    /\ r.tickers # {}
    /\ \A t \in r.tickers : \E c \in CorpCode : Tags(c, t, k, r.version)
    /\ \E t \in r.tickers : Tags(r.corp, t, k, r.version)

TagsJustified == \A k \in Link : news[k] # None => Justified(k, news[k])

(* An item that fails costs the run that item only: when a run ends, each   *)
(* item of each feed it could read is counted, and those it counts as       *)
(* stored are in the table.                                                 *)
ArticlesAccounted ==
    \A p \in Run : pc[p] = "record" =>
        \A i \in read[p] :
            /\ outcome[p][i] # None
            /\ outcome[p][i] \in {"inserted", "updated"} => news[i[2]] # None

(* An article that stays among the first items of a feed, and mentions an   *)
(* alias of the portfolio, ends up in the table whatever failed: the next   *)
(* run makes good for crashes, failed items and feeds passed over.          *)
Wanted(k) ==
    /\ \E f \in Feed : k \in Window(f)
    /\ \E n \in Mentions[k][text[k]] : Meanings(n) # {}

EventuallyStored ==
    \A k \in Link : Wanted(k) ~> (news[k] # None \/ ~Wanted(k))
==============================================================================
