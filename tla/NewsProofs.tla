----------------------------- MODULE NewsProofs ------------------------------
(***************************************************************************)
(* Theorems about NewsCollector, for any feeds, articles, companies, scope   *)
(* and number of overlapping runs. TagsJustified is not inductive: what a    *)
(* run is about to write was matched against an alias map that may be old,   *)
(* so the map and the article in hand have to be justified as well (TagInv). *)
(* That holds of an old map because names and holders are only ever added.   *)
(***************************************************************************)
EXTENDS NewsCollector, TLAPS

(* A corporation holds the ticker its entities row shows.                   *)
CurrentHeld == \A c \in CorpCode :
    entities[c] # None /\ entities[c].ticker # None
        => <<c, entities[c].ticker>> \in holders

(* The alias map of a run was true once, so it is covered by the aliases.   *)
MapTrue == \A p \in Run, n \in CompanyName : aliasMap[p][n] # None =>
    /\ Length[n] >= 2
    /\ <<aliasMap[p][n].corp, n>> \in named
    /\ <<aliasMap[p][n].corp, aliasMap[p][n].ticker>> \in holders

HandTrue == \A p \in Run : cur[p] # None => Justified(cur[p].item[2], cur[p].row)

TagInv == CurrentHeld /\ MapTrue /\ HandTrue /\ TagsJustified

(* An item that a run has read is counted, in hand, or still to be taken.   *)
Pending(p, i) == \/ i[1] = feed[p] /\ i[2] \in todo[p]
                 \/ cur[p] # None /\ cur[p].item = i

CountInv ==
    /\ \A p \in Run : pc[p] \in {"idle", "loop"} => cur[p] = None
    /\ \A p \in Run : pc[p] = "record" => cur[p] = None /\ todo[p] = {}
    /\ \A p \in Run : \A i \in read[p] : outcome[p][i] # None \/ Pending(p, i)
    /\ \A p \in Run, i \in Item :
          outcome[p][i] \in {"inserted", "updated"} => news[i[2]] # None
------------------------------------------------------------------------------
(* What the constants give the steps.                                       *)
LEMMA Facts ==
  /\ None \notin Entry /\ None \notin Row /\ None \notin Article /\ None \notin Feed
  /\ None \notin Found /\ None \notin Outcome /\ None \notin EntityRow /\ None \notin Ticker
  /\ Carries \in [Link -> SUBSET Feed]
  /\ Length \in [CompanyName -> Nat]
  /\ MaxPerFeed \in Nat /\ MaxFaults \in Nat
  /\ Scope \subseteq Ticker
  /\ \A x \in Company : /\ x.corp \in CorpCode /\ x.name \in CompanyName
                        /\ x.ticker \in Ticker \cup {None}
  BY NewsConstants, NoneIsFresh

(* The first state.                                                         *)
LEMMA InitFacts == Init => TypeOK /\ TagInv /\ CountInv
<1> SUFFICES ASSUME Init PROVE TypeOK /\ TagInv /\ CountInv
  OBVIOUS
<1>1. StoreTypeOK
  BY DEF Init, StoreInit, StoreTypeOK
<1>2. \A f \in Feed : rss[f] \in Seq(Link)
  BY DEF Init
<1>3. TypeOK
  BY <1>1, <1>2 DEF Init, TypeOK, Place
<1>4. TagInv
  BY DEF Init, StoreInit, TagInv, CurrentHeld, MapTrue, HandTrue, TagsJustified
<1>5. CountInv
  BY Facts DEF Init, CountInv, Outcome
<1> QED
  BY <1>3, <1>4, <1>5

(* upsert_entity keeps the types, and only adds holders.                    *)
LEMMA UpsertFacts ==
  ASSUME StoreTypeOK, CurrentHeld, NEW x \in Company, UpsertEntity(x.corp, x.name, x.ticker)
  PROVE  StoreTypeOK' /\ CurrentHeld' /\ holders \subseteq holders'
<1>1. x.corp \in CorpCode /\ x.name \in CompanyName /\ x.ticker \in Ticker \cup {None}
  BY Facts
<1>2. [name |-> x.name, ticker |-> x.ticker] \in EntityRow
  BY <1>1 DEF EntityRow
<1>3. entities' \in [CorpCode -> EntityRow \cup {None}] /\ holders' \subseteq CorpCode \X Ticker
  BY <1>1, <1>2 DEF StoreTypeOK, UpsertEntity
<1>4. /\ entities'[x.corp].ticker = x.ticker
      /\ \A c \in CorpCode \ {x.corp} : entities'[c] = entities[c]
  BY <1>1 DEF StoreTypeOK, UpsertEntity
<1>5. x.ticker # None => <<x.corp, x.ticker>> \in holders'
  BY <1>1 DEF UpsertEntity
<1>6. holders \subseteq holders'
  BY DEF UpsertEntity
<1> QED
  BY <1>3, <1>4, <1>5, <1>6 DEF StoreTypeOK, CurrentHeld

(* seed_name_aliases adds names of known corporations.                      *)
LEMMA SeedNamesFacts ==
  ASSUME TypeOK, SeedNames
  PROVE  named \subseteq named' /\ named' \subseteq CorpCode \X CompanyName
<1>1. \A c \in CorpCode : entities[c] # None => entities[c].name \in CompanyName
  BY DEF TypeOK, StoreTypeOK, EntityRow
<1> QED
  BY <1>1 DEF SeedNames, TypeOK

------------------------------------------------------------------------------
(* Type correctness.                                                        *)

LEMMA CountTypes ==
  ASSUME TypeOK, NEW p \in Run, NEW i \in Item, NEW o \in Outcome, Count(p, i, o)
  PROVE  /\ pc' \in [Run -> Place] /\ outcome' \in [Run -> [Item -> Outcome \cup {None}]]
         /\ cur' \in [Run -> Article \cup {None}] /\ found' \in [Run -> Found \cup {None}]
         /\ pc'[p] = "loop"
         /\ \A q \in Run \ {p} : pc'[q] = pc[q] /\ cur'[q] = cur[q] /\ found'[q] = found[q]
  BY DEF TypeOK, Count, Place

(* What a run with matches holds: an article with the tags of its hits.     *)
Matched(p, k, n) ==
    [item |-> <<feed[p], k>>,
     row |-> [version |-> text[k],
              tickers |-> {aliasMap[p][h].ticker : h \in Hits(aliasMap[p], k, text[k])},
              corp |-> aliasMap[p][n].corp]]

LEMMA MatchedType ==
  ASSUME TypeOK, NEW p \in Run, pc[p] = "loop", NEW k \in todo[p],
         NEW n \in Hits(aliasMap[p], k, text[k])
  PROVE  Matched(p, k, n) \in Article
<1>1. k \in Link /\ feed[p] \in Feed /\ text[k] \in Nat
  BY DEF TypeOK
<1>2. \A h \in Hits(aliasMap[p], k, text[k]) : aliasMap[p][h] \in Entry
  BY DEF TypeOK, Hits
<1>3. \A h \in Hits(aliasMap[p], k, text[k]) :
         aliasMap[p][h].ticker \in Scope /\ aliasMap[p][h].corp \in CorpCode
  BY <1>2 DEF Entry
<1> QED
  BY <1>1, <1>3 DEF Matched, Article, Row, Item

(* The three outcomes of FetchArticle.                                      *)
LEMMA FetchCases ==
  ASSUME NEW p \in Run, FetchArticle(p)
  PROVE  \E k \in todo[p] :
            /\ todo' = [todo EXCEPT ![p] = @ \ {k}]
            /\ UNCHANGED <<aliases, web, news, aliasMap, feeds, feed, read>>
            /\ \/ /\ \E o \in {"skipped", "failed"} : Count(p, <<feed[p], k>>, o)
                  /\ UNCHANGED faults \/ Fault
               \/ /\ \E n \in Hits(aliasMap[p], k, text[k]) :
                        cur' = [cur EXCEPT ![p] = Matched(p, k, n)]
                  /\ pc' = [pc EXCEPT ![p] = "select"]
                  /\ UNCHANGED <<found, outcome, faults>>
  BY DEF FetchArticle, Matched, Longest

LEMMA TypeNext == TypeOK /\ [Next]_vars => TypeOK'
<1> SUFFICES ASSUME TypeOK, [Next]_vars PROVE TypeOK'
  OBVIOUS
<1> USE DEF aliases, web, local
<1>1. CASE UNCHANGED vars
  BY <1>1 DEF TypeOK, StoreTypeOK, vars
<1>2. ASSUME NEW k \in Link, Publish(k) \/ Edit(k) PROVE TypeOK'
  <2>1. text' \in [Link -> Nat]
    BY <1>2 DEF Publish, Edit, TypeOK
  <2>2. \A f \in Feed : <<k>> \o rss[f] \in Seq(Link)
    BY DEF TypeOK
  <2>3. rss' \in [Feed -> Seq(Link)]
    <3>1. CASE Publish(k)
      BY <2>2, <3>1 DEF Publish, TypeOK
    <3>2. CASE Edit(k)
      BY <3>2 DEF Edit, TypeOK
    <3> QED
      BY <1>2, <3>1, <3>2
  <2> QED
    BY <1>2, <2>1, <2>3 DEF Publish, Edit, TypeOK, StoreTypeOK
<1>3. ASSUME NEW x \in Company, SeedEntity(x) PROVE TypeOK'
  <2>1. StoreTypeOK'
    <3>1. x.corp \in CorpCode /\ x.name \in CompanyName /\ x.ticker \in Ticker \cup {None}
      BY Facts
    <3>2. [name |-> x.name, ticker |-> x.ticker] \in EntityRow
      BY <3>1 DEF EntityRow
    <3> QED
      BY <1>3, <3>1, <3>2 DEF SeedEntity, UpsertEntity, TypeOK, StoreTypeOK
  <2> QED
    BY <1>3, <2>1 DEF SeedEntity, TypeOK
<1>4. CASE SeedNames
  BY <1>4, SeedNamesFacts DEF SeedNames, TypeOK, StoreTypeOK
<1>5. ASSUME NEW p \in Run, StartRun(p) PROVE TypeOK'
  <2>1. aliasMap' \in [Run -> [CompanyName -> Entry \cup {None}]]
    BY <1>5 DEF StartRun, TypeOK
  <2>2. /\ pc' \in [Run -> Place] /\ pc'[p] = "loop" /\ feeds' \in [Run -> SUBSET Feed]
        /\ \A q \in Run \ {p} : pc'[q] = pc[q]
    BY <1>5 DEF StartRun, TypeOK, Place
  <2>3. UNCHANGED <<aliases, web, news, feed, todo, read, cur, found, outcome, faults>>
    BY <1>5 DEF StartRun
  <2> QED
    BY <2>1, <2>2, <2>3 DEF TypeOK, StoreTypeOK
<1>6. ASSUME NEW p \in Run, ReadFeed(p) PROVE TypeOK'
  <2>1. PICK f \in feeds[p] :
          /\ feeds' = [feeds EXCEPT ![p] = @ \ {f}]
          /\ feed' = [feed EXCEPT ![p] = f]
          /\ todo' = [todo EXCEPT ![p] = Window(f)]
          /\ read' = [read EXCEPT ![p] = @ \cup ({f} \X Window(f))]
    BY <1>6 DEF ReadFeed
  <2>2. f \in Feed
    BY <2>1 DEF TypeOK
  <2>3. Window(f) \subseteq Link
    BY <2>2 DEF Window, TypeOK
  <2>4. /\ feeds' \in [Run -> SUBSET Feed] /\ feed' \in [Run -> Feed \cup {None}]
        /\ todo' \in [Run -> SUBSET Link] /\ read' \in [Run -> SUBSET Item]
        /\ feed'[p] \in Feed
        /\ \A q \in Run \ {p} : feed'[q] = feed[q] /\ todo'[q] = todo[q]
    BY <2>1, <2>2, <2>3 DEF TypeOK, Item
  <2> QED
    BY <1>6, <2>4 DEF ReadFeed, TypeOK, StoreTypeOK
<1>7. ASSUME NEW p \in Run, FeedFails(p) PROVE TypeOK'
  BY <1>7, Facts DEF FeedFails, Fault, TypeOK, StoreTypeOK
<1>8. ASSUME NEW p \in Run, FetchArticle(p) PROVE TypeOK'
  <2>1. PICK k \in todo[p] :
            /\ todo' = [todo EXCEPT ![p] = @ \ {k}]
            /\ UNCHANGED <<aliases, web, news, aliasMap, feeds, feed, read>>
            /\ \/ /\ \E o \in {"skipped", "failed"} : Count(p, <<feed[p], k>>, o)
                  /\ UNCHANGED faults \/ Fault
               \/ /\ \E n \in Hits(aliasMap[p], k, text[k]) :
                        cur' = [cur EXCEPT ![p] = Matched(p, k, n)]
                  /\ pc' = [pc EXCEPT ![p] = "select"]
                  /\ UNCHANGED <<found, outcome, faults>>
    BY <1>8, FetchCases
  <2>2. pc[p] = "loop" /\ <<feed[p], k>> \in Item
    BY <1>8 DEF FetchArticle, TypeOK, Item
  <2>3. /\ todo' \in [Run -> SUBSET Link] /\ faults' \in Nat
        /\ \A q \in Run : todo'[q] \subseteq todo[q]
    BY <2>1 DEF TypeOK, Fault
  <2>4. ASSUME NEW o \in {"skipped", "failed"}, Count(p, <<feed[p], k>>, o) PROVE TypeOK'
    <3>1. o \in Outcome
      BY DEF Outcome
    <3>2. /\ pc' \in [Run -> Place] /\ outcome' \in [Run -> [Item -> Outcome \cup {None}]]
          /\ cur' \in [Run -> Article \cup {None}] /\ found' \in [Run -> Found \cup {None}]
          /\ pc'[p] = "loop"
          /\ \A q \in Run \ {p} : pc'[q] = pc[q] /\ cur'[q] = cur[q] /\ found'[q] = found[q]
      BY <2>2, <2>4, <3>1, CountTypes
    <3> QED
      BY <2>1, <2>2, <2>3, <3>2 DEF TypeOK, StoreTypeOK
  <2>5. ASSUME NEW n \in Hits(aliasMap[p], k, text[k]),
               cur' = [cur EXCEPT ![p] = Matched(p, k, n)],
               pc' = [pc EXCEPT ![p] = "select"], UNCHANGED <<found, outcome, faults>>
        PROVE  TypeOK'
    <3>1. Matched(p, k, n) \in Article
      BY <2>2, MatchedType
    <3>2. /\ cur' \in [Run -> Article \cup {None}] /\ pc' \in [Run -> Place]
          /\ cur'[p] \in Article /\ pc'[p] = "select"
          /\ \A q \in Run \ {p} : pc'[q] = pc[q] /\ cur'[q] = cur[q]
      BY <2>5, <3>1 DEF TypeOK, Place
    <3> QED
      BY <2>1, <2>3, <2>5, <3>2 DEF TypeOK, StoreTypeOK
  <2> QED
    BY <2>1, <2>4, <2>5
<1>9. ASSUME NEW p \in Run, SelectHash(p) PROVE TypeOK'
  <2>1. PICK x \in Found : found' = [found EXCEPT ![p] = x]
    BY <1>9 DEF SelectHash, Found
  <2>2. /\ found' \in [Run -> Found \cup {None}] /\ pc' \in [Run -> Place]
        /\ pc'[p] = "write" /\ found'[p] \in Found
        /\ \A q \in Run \ {p} : pc'[q] = pc[q] /\ found'[q] = found[q]
    BY <1>9, <2>1 DEF SelectHash, TypeOK, Place
  <2>3. cur[p] \in Article
    BY <1>9 DEF SelectHash, TypeOK
  <2> QED
    BY <1>9, <2>2, <2>3 DEF SelectHash, TypeOK, StoreTypeOK
<1>10. ASSUME NEW p \in Run, WriteArticle(p) \/ ItemFails(p) PROVE TypeOK'
  <2>1. cur[p] \in Article
    BY <1>10 DEF WriteArticle, ItemFails, TypeOK
  <2>2. cur[p].item \in Item /\ cur[p].item[2] \in Link /\ cur[p].row \in Row
    BY <2>1 DEF Article, Item
  <2>3. PICK o \in Outcome : Count(p, cur[p].item, o)
    BY <1>10 DEF WriteArticle, ItemFails, Outcome
  <2>4. /\ pc' \in [Run -> Place] /\ outcome' \in [Run -> [Item -> Outcome \cup {None}]]
        /\ cur' \in [Run -> Article \cup {None}] /\ found' \in [Run -> Found \cup {None}]
        /\ pc'[p] = "loop"
        /\ \A q \in Run \ {p} : pc'[q] = pc[q] /\ cur'[q] = cur[q] /\ found'[q] = found[q]
    BY <2>2, <2>3, CountTypes
  <2>5. news' \in [Link -> Row \cup {None}]
    <3>1. news' = news \/ news' = [news EXCEPT ![cur[p].item[2]] = cur[p].row]
      BY <1>10 DEF WriteArticle, ItemFails, Merged
    <3> QED
      BY <2>2, <3>1 DEF TypeOK
  <2>6. faults' \in Nat
    BY <1>10 DEF WriteArticle, ItemFails, Fault, TypeOK
  <2>7. UNCHANGED <<aliases, web, aliasMap, feeds, feed, todo, read>>
    BY <1>10 DEF WriteArticle, ItemFails
  <2> QED
    BY <2>4, <2>5, <2>6, <2>7 DEF TypeOK, StoreTypeOK
<1>11. ASSUME NEW p \in Run, EndFeeds(p) PROVE TypeOK'
  BY <1>11 DEF EndFeeds, TypeOK, StoreTypeOK, Place
<1>12. ASSUME NEW p \in Run, RecordRun(p) \/ Crash(p) PROVE TypeOK'
  <2>1. LeaveRun(p) /\ UNCHANGED <<aliases, web, news>> /\ faults' \in Nat
    BY <1>12 DEF RecordRun, Crash, Fault, TypeOK
  <2>2. /\ pc' \in [Run -> Place] /\ outcome' \in [Run -> [Item -> Outcome \cup {None}]]
        /\ aliasMap' \in [Run -> [CompanyName -> Entry \cup {None}]]
        /\ pc'[p] = "idle" /\ todo'[p] = {}
    BY <2>1 DEF LeaveRun, TypeOK, Place
  <2>3. /\ feeds' \in [Run -> SUBSET Feed] /\ feed' \in [Run -> Feed \cup {None}]
        /\ todo' \in [Run -> SUBSET Link] /\ read' \in [Run -> SUBSET Item]
        /\ cur' \in [Run -> Article \cup {None}] /\ found' \in [Run -> Found \cup {None}]
    BY <2>1 DEF LeaveRun, TypeOK
  <2>4. \A q \in Run \ {p} : /\ pc'[q] = pc[q] /\ feed'[q] = feed[q] /\ todo'[q] = todo[q]
                             /\ cur'[q] = cur[q] /\ found'[q] = found[q]
    BY <2>1 DEF LeaveRun, TypeOK
  <2> QED
    BY <2>1, <2>2, <2>3, <2>4 DEF TypeOK, StoreTypeOK
<1> QED
  BY <1>1, <1>2, <1>3, <1>4, <1>5, <1>6, <1>7, <1>8, <1>9, <1>10, <1>11, <1>12
     DEF Next, Environment, RunStep, FaultStep

(* Every variable keeps its type, whatever the runs do.                     *)
THEOREM TypeCorrect == Spec => []TypeOK
<1>1. Init => TypeOK
  BY InitFacts
<1> QED
  BY <1>1, TypeNext, PTL DEF Spec

------------------------------------------------------------------------------
(* Tags.                                                                    *)

(* Tags once justified stay so: names and holders are only added.           *)
LEMMA StaysJustified ==
  ASSUME holders \subseteq holders', named \subseteq named'
  PROVE  \A k, r : Justified(k, r) => Justified(k, r)'
  BY DEF Justified, Tags

(* A step of the other commands, or one that leaves alias maps, articles in *)
(* hand and rows as they are.                                               *)
LEMMA FrameTags ==
  ASSUME TypeOK, TagInv, holders \subseteq holders', named \subseteq named',
         UNCHANGED <<news, aliasMap, cur>>, CurrentHeld'
  PROVE  TagInv'
<1>1. MapTrue'
  BY DEF TagInv, MapTrue
<1>2. HandTrue' /\ TagsJustified'
  BY StaysJustified DEF TagInv, HandTrue, TagsJustified
<1> QED
  BY <1>1, <1>2 DEF TagInv

(* The tags that match_tickers_in_text derives are justified.               *)
LEMMA MatchedJustified ==
  ASSUME TypeOK, TagInv, NEW p \in Run, NEW k \in todo[p],
         NEW n \in Hits(aliasMap[p], k, text[k])
  PROVE  Justified(k, Matched(p, k, n).row)
<1>1. \A h \in Hits(aliasMap[p], k, text[k]) :
        Tags(aliasMap[p][h].corp, aliasMap[p][h].ticker, k, text[k])
  BY DEF TagInv, MapTrue, Hits, Tags
<1>2. \A h \in Hits(aliasMap[p], k, text[k]) : aliasMap[p][h].corp \in CorpCode
  BY DEF TypeOK, Hits, Entry
<1> QED
  BY <1>1, <1>2 DEF Justified, Matched

LEMMA TagNext == TypeOK /\ TagInv /\ [Next]_vars => TagInv'
<1> SUFFICES ASSUME TypeOK, TagInv, [Next]_vars PROVE TagInv'
  OBVIOUS
<1> USE DEF aliases, web, local
<1>1. CASE UNCHANGED vars \/ \E k \in Link : Publish(k) \/ Edit(k)
  <2>1. UNCHANGED <<entities, holders, named, news, aliasMap, cur>>
    BY <1>1 DEF vars, Publish, Edit
  <2> QED
    BY <2>1, FrameTags DEF TagInv, CurrentHeld
<1>2. ASSUME NEW x \in Company, SeedEntity(x) PROVE TagInv'
  <2>1. UNCHANGED <<named, news, aliasMap, cur>> /\ UpsertEntity(x.corp, x.name, x.ticker)
    BY <1>2 DEF SeedEntity
  <2> QED
    BY <2>1, UpsertFacts, FrameTags DEF TypeOK, TagInv
<1>3. CASE SeedNames
  <2>1. UNCHANGED <<entities, holders, news, aliasMap, cur>>
    BY <1>3 DEF SeedNames
  <2> QED
    BY <1>3, <2>1, SeedNamesFacts, FrameTags DEF TagInv, CurrentHeld
<1>4. ASSUME NEW p \in Run, StartRun(p) PROVE TagInv'
  <2>1. UNCHANGED <<entities, holders, named, news, cur>>
    BY <1>4 DEF StartRun
  <2>2. PICK m \in [CompanyName -> Entry \cup {None}] :
          /\ \A n \in CompanyName : m[n] \in IF Meanings(n) = {} THEN {None} ELSE Meanings(n)
          /\ aliasMap' = [aliasMap EXCEPT ![p] = m]
    BY <1>4 DEF StartRun
  <2>3. \A n \in CompanyName : m[n] # None => m[n] \in Meanings(n)
    BY <2>2
  <2>4. ASSUME NEW n \in CompanyName, m[n] # None
        PROVE  /\ Length[n] >= 2 /\ <<m[n].corp, n>> \in named
               /\ <<m[n].corp, m[n].ticker>> \in holders
    <3>1. Length[n] >= 2
      BY <2>3, <2>4, Facts DEF Meanings
    <3>2. PICK c \in CorpCode : /\ <<c, n>> \in named /\ InScope(c)
                                /\ m[n] = [corp |-> c, ticker |-> entities[c].ticker]
      BY <2>3, <2>4 DEF Meanings
    <3>3. entities[c] # None /\ entities[c].ticker # None
      BY <3>2, Facts DEF InScope
    <3> QED
      BY <3>1, <3>2, <3>3 DEF TagInv, CurrentHeld
  <2>5. MapTrue'
    BY <2>1, <2>2, <2>4 DEF TagInv, MapTrue, TypeOK
  <2>6. CurrentHeld' /\ HandTrue' /\ TagsJustified'
    BY <2>1 DEF TagInv, CurrentHeld, HandTrue, TagsJustified, Justified, Tags
  <2> QED
    BY <2>5, <2>6 DEF TagInv
<1>5. ASSUME NEW p \in Run, ReadFeed(p) \/ FeedFails(p) \/ SelectHash(p) \/ EndFeeds(p)
      PROVE  TagInv'
  <2>1. UNCHANGED <<entities, holders, named, news, aliasMap, cur>>
    BY <1>5 DEF ReadFeed, FeedFails, SelectHash, EndFeeds
  <2> QED
    BY <2>1, FrameTags DEF TagInv, CurrentHeld
<1>6. ASSUME NEW p \in Run, FetchArticle(p) PROVE TagInv'
  <2>1. PICK k \in todo[p] :
            /\ UNCHANGED <<aliases, web, news, aliasMap, feeds, feed, read>>
            /\ \/ \E o \in {"skipped", "failed"} : Count(p, <<feed[p], k>>, o)
               \/ \E n \in Hits(aliasMap[p], k, text[k]) :
                     cur' = [cur EXCEPT ![p] = Matched(p, k, n)]
    BY <1>6, FetchCases
  <2>2. CASE \E o \in {"skipped", "failed"} : Count(p, <<feed[p], k>>, o)
    <3>1. HandTrue'
      BY <2>1, <2>2 DEF Count, TagInv, HandTrue, TypeOK, Justified, Tags
    <3> QED
      BY <2>1, <3>1 DEF TagInv, CurrentHeld, MapTrue, TagsJustified, Justified, Tags
  <2>3. CASE \E n \in Hits(aliasMap[p], k, text[k]) :
                cur' = [cur EXCEPT ![p] = Matched(p, k, n)]
    <3>1. PICK n \in Hits(aliasMap[p], k, text[k]) :
                cur' = [cur EXCEPT ![p] = Matched(p, k, n)]
      BY <2>3
    <3>2. Justified(k, Matched(p, k, n).row) /\ Matched(p, k, n).item[2] = k
      BY MatchedJustified DEF Matched
    <3>3. cur'[p] = Matched(p, k, n) /\ \A q \in Run \ {p} : cur'[q] = cur[q]
      BY <3>1 DEF TypeOK
    <3>4. \A q \in Run : cur'[q] # None => Justified(cur'[q].item[2], cur'[q].row)
      BY <3>2, <3>3 DEF TagInv, HandTrue
    <3>5. HandTrue'
      BY <2>1, <3>4 DEF HandTrue, Justified, Tags
    <3> QED
      BY <2>1, <3>5 DEF TagInv, CurrentHeld, MapTrue, TagsJustified, Justified, Tags
  <2> QED
    BY <2>1, <2>2, <2>3
<1>7. ASSUME NEW p \in Run, WriteArticle(p) \/ ItemFails(p) PROVE TagInv'
  <2>1. UNCHANGED <<entities, holders, named, aliasMap>>
    BY <1>7 DEF WriteArticle, ItemFails
  <2>2. cur' = [cur EXCEPT ![p] = None]
    BY <1>7 DEF WriteArticle, ItemFails, Count
  <2>3. HandTrue'
    BY <2>1, <2>2 DEF TagInv, HandTrue, TypeOK, Justified, Tags
  <2>4. cur[p] # None /\ cur[p].item[2] \in Link
    BY <1>7, Facts DEF WriteArticle, ItemFails, TypeOK, Article, Item
  <2>5. news' = news \/ news' = [news EXCEPT ![cur[p].item[2]] = cur[p].row]
    BY <1>7 DEF WriteArticle, ItemFails, Merged
  <2>6. \A k \in Link : news'[k] # None => Justified(k, news'[k])
    BY <2>4, <2>5 DEF TagInv, HandTrue, TagsJustified, TypeOK
  <2>7. TagsJustified'
    BY <2>1, <2>6 DEF TagsJustified, Justified, Tags
  <2> QED
    BY <2>1, <2>3, <2>7 DEF TagInv, CurrentHeld, MapTrue
<1>8. ASSUME NEW p \in Run, RecordRun(p) \/ Crash(p) PROVE TagInv'
  <2>1. UNCHANGED <<entities, holders, named, news>> /\ LeaveRun(p)
    BY <1>8 DEF RecordRun, Crash
  <2>2. HandTrue' /\ MapTrue'
    <3>1. \A q \in Run : /\ cur'[q] # None => cur'[q] = cur[q]
                         /\ \A n \in CompanyName : aliasMap'[q][n] # None
                                                  => aliasMap'[q][n] = aliasMap[q][n]
      BY <2>1 DEF LeaveRun, TypeOK
    <3>2. HandTrue'
      BY <2>1, <3>1 DEF TagInv, HandTrue, Justified, Tags
    <3>3. MapTrue'
      BY <2>1, <3>1 DEF TagInv, MapTrue
    <3> QED
      BY <3>2, <3>3
  <2> QED
    BY <2>1, <2>2 DEF TagInv, CurrentHeld, TagsJustified, Justified, Tags
<1> QED
  BY <1>1, <1>2, <1>3, <1>4, <1>5, <1>6, <1>7, <1>8 DEF Next, Environment, RunStep, FaultStep

(* No interleaving of runs, edits and seeding leaves a news row with the    *)
(* tickers or the corp_code of another body than the one it stores.         *)
THEOREM RowsCarryTheirTags == Spec => []TagsJustified
<1>1. Init => TypeOK /\ TagInv
  BY InitFacts
<1>2. TypeOK /\ TagInv /\ [Next]_vars => (TypeOK /\ TagInv)'
  BY TypeNext, TagNext
<1>3. TagInv => TagsJustified
  BY DEF TagInv
<1> QED
  BY <1>1, <1>2, <1>3, PTL DEF Spec

------------------------------------------------------------------------------
(* Accounting.                                                              *)

(* Counting an item of p, with the row in the table when it says so.        *)
LEMMA CountAccounts ==
  ASSUME TypeOK, CountInv, NEW p \in Run, NEW i \in Item, NEW o \in Outcome,
         Count(p, i, o), UNCHANGED <<feed, read>>,
         \A q \in Run \ {p} : todo'[q] = todo[q],
         \A j \in Item : j # i /\ Pending(p, j) => j[1] = feed[p] /\ j[2] \in todo'[p],
         \A k \in Link : news[k] # None => news'[k] # None,
         o \in {"inserted", "updated"} => news'[i[2]] # None
  PROVE  CountInv'
<1>1. /\ outcome'[p][i] = o /\ o # None
      /\ \A j \in Item \ {i} : outcome'[p][j] = outcome[p][j]
      /\ \A q \in Run \ {p} : outcome'[q] = outcome[q]
  BY Facts DEF Count, TypeOK
<1>2. /\ cur'[p] = None /\ pc'[p] = "loop"
      /\ \A q \in Run \ {p} : cur'[q] = cur[q] /\ pc'[q] = pc[q]
  BY DEF Count, TypeOK
<1>3. \A q \in Run : \A j \in read[q] : j \in Item
  BY DEF TypeOK
<1>4. \A q \in Run : \A j \in read'[q] : outcome'[q][j] # None \/ Pending(q, j)'
  BY <1>1, <1>2, <1>3 DEF CountInv, Pending
<1>5. \A q \in Run, j \in Item :
         outcome'[q][j] \in {"inserted", "updated"} => news'[j[2]] # None
  BY <1>1 DEF CountInv, Item
<1> QED
  BY <1>2, <1>4, <1>5 DEF CountInv

LEMMA CountNext == TypeOK /\ CountInv /\ [Next]_vars => CountInv'
<1> SUFFICES ASSUME TypeOK, CountInv, [Next]_vars PROVE CountInv'
  OBVIOUS
<1> USE DEF aliases, web, local
<1>1. CASE UNCHANGED vars \/ Environment
  <2>1. UNCHANGED <<news, pc, feed, todo, read, cur, outcome>>
    BY <1>1 DEF vars, Environment, Publish, Edit, SeedEntity, SeedNames
  <2> QED
    BY <2>1 DEF CountInv, Pending
<1>2. ASSUME NEW p \in Run, StartRun(p) \/ FeedFails(p) \/ SelectHash(p) \/ EndFeeds(p)
      PROVE  CountInv'
  <2>1. UNCHANGED <<news, feed, todo, read, cur, outcome>>
    BY <1>2 DEF StartRun, FeedFails, SelectHash, EndFeeds
  <2>2. \A q \in Run : pc'[q] \in {"idle", "loop"} => cur[q] = None
    BY <1>2 DEF StartRun, FeedFails, SelectHash, EndFeeds, TypeOK, CountInv
  <2>3. \A q \in Run : pc'[q] = "record" => cur[q] = None /\ todo[q] = {}
    BY <1>2 DEF StartRun, FeedFails, SelectHash, EndFeeds, TypeOK, CountInv
  <2> QED
    BY <2>1, <2>2, <2>3 DEF CountInv, Pending
<1>3. ASSUME NEW p \in Run, ReadFeed(p) PROVE CountInv'
  <2>1. PICK f \in feeds[p] :
          /\ feed' = [feed EXCEPT ![p] = f]
          /\ todo' = [todo EXCEPT ![p] = Window(f)]
          /\ read' = [read EXCEPT ![p] = @ \cup ({f} \X Window(f))]
    BY <1>3 DEF ReadFeed
  <2>2. /\ feed'[p] = f /\ todo'[p] = Window(f) /\ read'[p] = read[p] \cup ({f} \X Window(f))
        /\ \A q \in Run \ {p} : feed'[q] = feed[q] /\ todo'[q] = todo[q] /\ read'[q] = read[q]
    BY <2>1 DEF TypeOK
  <2>3. /\ pc[p] = "loop" /\ todo[p] = {} /\ cur[p] = None
        /\ UNCHANGED <<news, pc, cur, outcome>>
    BY <1>3 DEF ReadFeed, CountInv
  <2>4. \A j \in read[p] : outcome[p][j] # None
    BY <2>3 DEF CountInv, Pending
  <2>5. \A q \in Run : \A j \in read'[q] : outcome'[q][j] # None \/ Pending(q, j)'
    BY <2>2, <2>3, <2>4 DEF CountInv, Pending
  <2> QED
    BY <2>2, <2>3, <2>5 DEF CountInv
<1>4. ASSUME NEW p \in Run, FetchArticle(p) PROVE CountInv'
  <2>1. PICK k \in todo[p] :
            /\ todo' = [todo EXCEPT ![p] = @ \ {k}]
            /\ UNCHANGED <<aliases, web, news, aliasMap, feeds, feed, read>>
            /\ \/ \E o \in {"skipped", "failed"} : Count(p, <<feed[p], k>>, o)
               \/ /\ \E n \in Hits(aliasMap[p], k, text[k]) :
                        cur' = [cur EXCEPT ![p] = Matched(p, k, n)]
                  /\ pc' = [pc EXCEPT ![p] = "select"]
                  /\ UNCHANGED outcome
    BY <1>4, FetchCases
  <2>2. pc[p] = "loop" /\ cur[p] = None /\ <<feed[p], k>> \in Item
    BY <1>4 DEF FetchArticle, CountInv, TypeOK, Item
  <2>3. todo'[p] = todo[p] \ {k} /\ \A q \in Run \ {p} : todo'[q] = todo[q]
    BY <2>1 DEF TypeOK
  <2>4. ASSUME NEW o \in {"skipped", "failed"}, Count(p, <<feed[p], k>>, o) PROVE CountInv'
    <3>1. o \in Outcome /\ o \notin {"inserted", "updated"}
      BY DEF Outcome
    <3>2. \A j \in Item : j # <<feed[p], k>> /\ Pending(p, j)
             => j[1] = feed[p] /\ j[2] \in todo'[p]
      BY <2>2, <2>3 DEF Pending, Item
    <3> QED
      BY <2>1, <2>2, <2>3, <2>4, <3>1, <3>2, CountAccounts
  <2>5. CASE /\ \E n \in Hits(aliasMap[p], k, text[k]) :
                   cur' = [cur EXCEPT ![p] = Matched(p, k, n)]
             /\ pc' = [pc EXCEPT ![p] = "select"]
             /\ UNCHANGED outcome
    <3>1. PICK n \in Hits(aliasMap[p], k, text[k]) :
             cur' = [cur EXCEPT ![p] = Matched(p, k, n)]
      BY <2>5
    <3>2. /\ cur'[p] # None /\ cur'[p].item = <<feed[p], k>> /\ pc'[p] = "select"
          /\ \A q \in Run \ {p} : cur'[q] = cur[q] /\ pc'[q] = pc[q]
      <4>1. Matched(p, k, n) \in Article
        BY <2>2, MatchedType
      <4>2. Matched(p, k, n) # None
        BY <4>1, Facts
      <4>3. Matched(p, k, n).item = <<feed[p], k>>
        BY DEF Matched
      <4> QED
        BY <2>5, <3>1, <4>2, <4>3 DEF TypeOK
    <3>3. \A j \in read[p] : outcome[p][j] # None \/ Pending(p, j)'
      <4>1. \A j \in read[p] : j = <<j[1], j[2]>>
        BY DEF TypeOK, Item
      <4>2. \A j \in read[p] : outcome[p][j] # None \/ (j[1] = feed[p] /\ j[2] \in todo[p])
        BY <2>2 DEF CountInv, Pending
      <4> QED
        BY <2>1, <2>3, <3>2, <4>1, <4>2 DEF Pending
    <3>4. \A q \in Run \ {p} : \A j \in read[q] : outcome[q][j] # None \/ Pending(q, j)'
      BY <2>1, <2>3, <3>2 DEF CountInv, Pending
    <3>5. \A q \in Run : \A j \in read'[q] : outcome'[q][j] # None \/ Pending(q, j)'
      BY <2>1, <2>5, <3>3, <3>4
    <3> QED
      BY <2>1, <2>3, <2>5, <3>2, <3>5 DEF CountInv
  <2> QED
    BY <2>1, <2>4, <2>5
<1>5. ASSUME NEW p \in Run, WriteArticle(p) \/ ItemFails(p) PROVE CountInv'
  <2>1. cur[p] \in Article
    BY <1>5 DEF WriteArticle, ItemFails, TypeOK
  <2>2. cur[p].item \in Item /\ cur[p].item[2] \in Link /\ cur[p].row \in Row
    BY <2>1 DEF Article, Item
  <2>3. UNCHANGED <<feed, todo, read>>
    BY <1>5 DEF WriteArticle, ItemFails
  <2>4. \A j \in Item : j # cur[p].item /\ Pending(p, j) => j[1] = feed[p] /\ j[2] \in todo'[p]
    BY <2>3 DEF Pending
  <2>5. \/ news' = news /\ \E o \in {"skipped", "failed"} : Count(p, cur[p].item, o)
        \/ /\ news' = [news EXCEPT ![cur[p].item[2]] = cur[p].row]
           /\ \E o \in {"inserted", "updated"} : Count(p, cur[p].item, o)
    BY <1>5 DEF WriteArticle, ItemFails, Merged
  <2>6. CASE news' = news /\ \E o \in {"skipped", "failed"} : Count(p, cur[p].item, o)
    <3>1. PICK o \in {"skipped", "failed"} : Count(p, cur[p].item, o)
      BY <2>6
    <3>2. o \in Outcome /\ o \notin {"inserted", "updated"}
      BY DEF Outcome
    <3>3. \A q \in Run \ {p} : todo'[q] = todo[q]
      BY <2>3
    <3> QED
      BY <2>2, <2>3, <2>4, <2>6, <3>1, <3>2, <3>3, CountAccounts
  <2>7. CASE /\ news' = [news EXCEPT ![cur[p].item[2]] = cur[p].row]
             /\ \E o \in {"inserted", "updated"} : Count(p, cur[p].item, o)
    <3>1. news'[cur[p].item[2]] # None /\ \A k \in Link : news[k] # None => news'[k] # None
      BY <2>2, <2>7, Facts DEF TypeOK
    <3>2. PICK o \in Outcome : Count(p, cur[p].item, o)
      BY <2>7 DEF Outcome
    <3>3. \A q \in Run \ {p} : todo'[q] = todo[q]
      BY <2>3
    <3> QED
      BY <2>2, <2>3, <2>4, <3>1, <3>2, <3>3, CountAccounts
  <2> QED
    BY <2>5, <2>6, <2>7
<1>6. ASSUME NEW p \in Run, RecordRun(p) \/ Crash(p) PROVE CountInv'
  <2>1. LeaveRun(p) /\ UNCHANGED news
    BY <1>6 DEF RecordRun, Crash
  <2>2. /\ pc'[p] = "idle" /\ cur'[p] = None /\ read'[p] = {} /\ \A i \in Item : outcome'[p][i] = None
        /\ \A q \in Run \ {p} : /\ pc'[q] = pc[q] /\ feed'[q] = feed[q] /\ todo'[q] = todo[q]
                               /\ cur'[q] = cur[q] /\ read'[q] = read[q]
                               /\ outcome'[q] = outcome[q]
    BY <2>1 DEF LeaveRun, TypeOK
  <2> QED
    BY <2>1, <2>2, Facts DEF CountInv, Pending, Outcome
<1> QED
  BY <1>1, <1>2, <1>3, <1>4, <1>5, <1>6 DEF Next, RunStep, FaultStep

(* Whatever fails and however runs overlap, a run that ends has counted     *)
(* each item it read, and what it counts as stored is stored.               *)
THEOREM EveryItemCounted == Spec => []ArticlesAccounted
<1>1. Init => TypeOK /\ CountInv
  BY InitFacts
<1>2. TypeOK /\ CountInv /\ [Next]_vars => (TypeOK /\ CountInv)'
  BY TypeNext, CountNext
<1>3. TypeOK /\ CountInv => ArticlesAccounted
  BY DEF TypeOK, CountInv, ArticlesAccounted, Pending
<1> QED
  BY <1>1, <1>2, <1>3, PTL DEF Spec

==============================================================================
