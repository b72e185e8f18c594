----------------------------- MODULE KindProofs ------------------------------
(***************************************************************************)
(* Theorems about KindCollector, for any sources, companies and scope. The  *)
(* argument for EventsHaveParents: the corporation in hand is known to the  *)
(* entity tables, unless it comes from the filing itself and that filing is *)
(* not stored yet; then the foreign key of filings stops the paired write   *)
(* before its second half (HandInv).                                        *)
(***************************************************************************)
EXTENDS KindCollector, TLAPS

(* An alias points to an entities row, and rows are never deleted.          *)
AliasInv ==
    /\ \A c \in CorpCode, t \in Ticker : <<c, t>> \in holders => entities[c] # None
    /\ \A c \in CorpCode, n \in CompanyName : <<c, n>> \in named => entities[c] # None

(* A DART event is its disclosure; a KIND row either resolved to a known    *)
(* corporation or has no ticker.                                            *)
EventInv ==
    \A e \in events :
        /\ e.source = "dart" => \E d \in Disclosure : /\ d.rcept = e.id
                                                      /\ d.key = e.key
                                                      /\ d.corp = e.corp
        /\ e.source = "kind" => /\ e.id \in Notice
                                /\ e.key.ticker # None => e.corp # None
                                /\ e.corp # None => entities[e.corp] # None

(* Why a later run may rely on the row of an earlier one: a filing was      *)
(* stored under a holder of its ticker, which stays one, or under its own   *)
(* corporation, which was known.                                            *)
FiledInv ==
    \A d \in Disclosure :
        filings[d.rcept] # None
            => ResolveTicker(d.key.ticker) # {} \/ entities[d.corp] # None

(* The event in hand between the three calls.                               *)
HandInv ==
    /\ pc \in {"resolve", "filing", "event"} => InScope(cur)
    /\ pc = "filing" =>
          /\ cur.source = "dart"
          /\ corp = cur.corp \/ ResolveTicker(cur.key.ticker) # {}
          /\ entities[corp] # None \/ filings[cur.id] = None
    /\ pc = "event" =>
          /\ entities[corp] # None
          /\ cur.source = "dart" => filings[cur.id] # None

IInv == TypeOK /\ AliasInv /\ EventInv /\ FiledInv /\ HandInv /\ EventsHaveParents
------------------------------------------------------------------------------
(* Before the first run nothing is known and nothing is stored.             *)
LEMMA IInvInit == Init => IInv
<1> SUFFICES ASSUME Init PROVE IInv
  OBVIOUS
<1>1. TypeOK
  BY DEF Init, StoreInit, TypeOK, StoreTypeOK, Shown
<1>2. \A r \in Rcept : filings[r] = None
  BY DEF Init
<1>3. FiledInv
  BY <1>2 DEF FiledInv, Rcept
<1>4. AliasInv /\ EventInv /\ HandInv /\ EventsHaveParents
  BY DEF Init, StoreInit, AliasInv, EventInv, HandInv, EventsHaveParents
<1> QED
  BY <1>1, <1>3, <1>4 DEF IInv

(* The constants, in the form in which the steps use them.                  *)
LEMMA Facts ==
  /\ \A d \in Disclosure : /\ d.rcept \in Rcept /\ d.key \in Key /\ d.corp \in CorpCode
                           /\ d.key.ticker \in Ticker \cup {None}
  /\ \A n \in Notice : n.name \in CompanyName /\ n.day \in Day
  /\ None \notin Event /\ None \notin CorpCode /\ None \notin Ticker /\ None \notin EntityRow
  /\ \A t \in Scope : t \in Ticker /\ t # None
  BY KindConstants, NoneIsFresh DEF Rcept, Key

(* The environment only adds: rows, holders and names that are known stay   *)
(* known.                                                                   *)
Grows == /\ \A c \in CorpCode : entities[c] # None => entities'[c] # None
         /\ holders \subseteq holders'

(* A corporation that upsert_entity writes becomes known with its ticker.   *)
LEMMA UpsertGrows ==
  ASSUME TypeOK, AliasInv, NEW x \in Company, UpsertEntity(x.corp, x.name, x.ticker)
  PROVE  /\ Grows
         /\ StoreTypeOK'
         /\ \A c \in CorpCode, t \in Ticker : <<c, t>> \in holders' => entities'[c] # None
<1>1. /\ x.corp \in CorpCode /\ x.name \in CompanyName
      /\ x.ticker \in Ticker \cup {None}
  BY KindConstants
<1>2. [name |-> x.name, ticker |-> x.ticker] \in EntityRow
  BY <1>1 DEF EntityRow
<1>3. entities' \in [CorpCode -> EntityRow \cup {None}] /\ holders' \subseteq CorpCode \X Ticker
  BY <1>1, <1>2 DEF TypeOK, StoreTypeOK, UpsertEntity
<1>4. /\ entities'[x.corp] # None
      /\ \A c \in CorpCode \ {x.corp} : entities'[c] = entities[c]
  BY <1>1, <1>2, NoneIsFresh DEF TypeOK, StoreTypeOK, UpsertEntity
<1>5. \A c \in CorpCode, t \in Ticker :
        <<c, t>> \in holders' => <<c, t>> \in holders \/ c = x.corp
  BY DEF UpsertEntity
<1> QED
  BY <1>3, <1>4, <1>5 DEF Grows, StoreTypeOK, AliasInv, UpsertEntity

(* What a growing environment leaves true of a run.                         *)
LEMMA EnvironmentStep ==
  ASSUME IInv, Grows, StoreTypeOK', UNCHANGED <<tables, pc, local, faults>>,
         named' \subseteq CorpCode \X CompanyName,
         dart' \in [Disclosure -> Shown], kind' \in [Notice -> Shown],
         AliasInv'
  PROVE  IInv'
<1> USE DEF tables, local, IInv
<1>1. TypeOK'
  BY DEF TypeOK
<1>2. EventInv'
  BY Facts DEF EventInv, Grows, TypeOK, Event
<1>3. FiledInv'
  BY Facts DEF FiledInv, Grows, ResolveTicker
<1>4. HandInv'
  BY DEF HandInv, Grows, ResolveTicker, InScope, TypeOK
<1>5. EventsHaveParents'
  BY DEF EventsHaveParents, Grows, TypeOK, Event
<1> QED
  BY <1>1, <1>2, <1>3, <1>4, <1>5

(* The four kinds of environment steps.                                     *)
LEMMA EnvironmentNext == IInv /\ Environment => IInv'
<1> SUFFICES ASSUME IInv, Environment PROVE IInv'
  OBVIOUS
<1>1. CASE \E d \in Disclosure : MoveDart(d)
  <2>1. PICK d \in Disclosure : MoveDart(d)
    BY <1>1
  <2>2. dart' \in [Disclosure -> Shown]
    BY <2>1 DEF MoveDart, Move, IInv, TypeOK, Shown
  <2> QED
    BY <2>1, <2>2, EnvironmentStep
       DEF MoveDart, aliases, IInv, TypeOK, StoreTypeOK, AliasInv, Grows
<1>2. CASE \E n \in Notice : MoveKind(n)
  <2>1. PICK n \in Notice : MoveKind(n)
    BY <1>2
  <2>2. kind' \in [Notice -> Shown]
    BY <2>1 DEF MoveKind, Move, IInv, TypeOK, Shown
  <2> QED
    BY <2>1, <2>2, EnvironmentStep
       DEF MoveKind, aliases, IInv, TypeOK, StoreTypeOK, AliasInv, Grows
<1>3. CASE \E x \in Company : SeedEntity(x)
  <2>1. PICK x \in Company : SeedEntity(x)
    BY <1>3
  <2>2. /\ UpsertEntity(x.corp, x.name, x.ticker)
        /\ UNCHANGED <<named, dart, kind>>
        /\ UNCHANGED <<tables, pc, local, faults>>
    BY <2>1 DEF SeedEntity, sources
  <2>3. /\ Grows
        /\ StoreTypeOK'
        /\ \A c \in CorpCode, t \in Ticker : <<c, t>> \in holders' => entities'[c] # None
    BY <2>2, UpsertGrows DEF IInv
  <2>4. AliasInv'
    BY <2>2, <2>3 DEF AliasInv, IInv, Grows
  <2> QED
    BY <2>2, <2>3, <2>4, EnvironmentStep DEF IInv, TypeOK
<1>4. CASE SeedNames
  <2>1. /\ UNCHANGED <<entities, holders, dart, kind>>
        /\ UNCHANGED <<tables, pc, local, faults>>
    BY <1>4 DEF SeedNames, sources
  <2>2. \A p \in named' : p \in named \/ (\E c \in CorpCode : /\ entities[c] # None
                                                            /\ p = <<c, entities[c].name>>)
    BY <1>4 DEF SeedNames
  <2>3. \A c \in CorpCode : entities[c] # None => entities[c].name \in CompanyName
    BY DEF IInv, TypeOK, StoreTypeOK, EntityRow
  <2>4. named' \subseteq CorpCode \X CompanyName
    BY <2>2, <2>3 DEF IInv, TypeOK
  <2>5. AliasInv'
    BY <2>1, <2>2 DEF AliasInv, IInv
  <2> QED
    BY <2>1, <2>4, <2>5, EnvironmentStep DEF IInv, TypeOK, StoreTypeOK, Grows
<1> QED
  BY <1>1, <1>2, <1>3, <1>4 DEF Environment

------------------------------------------------------------------------------
(* A step of the run leaves the entity tables and the sources alone.        *)
LEMMA RunFrame ==
  ASSUME IInv, UNCHANGED <<aliases, sources>>
  PROVE  AliasInv' /\ StoreTypeOK' /\ named' \subseteq CorpCode \X CompanyName
         /\ dart' \in [Disclosure -> Shown] /\ kind' \in [Notice -> Shown]
  BY DEF aliases, sources, IInv, TypeOK, StoreTypeOK, AliasInv

(* The end of a run, or the death of the process, forgets the locals.       *)
LEMMA LeaveStep ==
  ASSUME IInv, LeaveRun, UNCHANGED <<aliases, sources, tables>>, faults' \in Nat
  PROVE  IInv'
<1>1. TypeOK'
  BY RunFrame DEF IInv, TypeOK, LeaveRun, tables, Outcome
<1>2. EventInv' /\ FiledInv' /\ HandInv' /\ EventsHaveParents'
  BY DEF IInv, LeaveRun, tables, aliases, EventInv, FiledInv, HandInv,
         EventsHaveParents, ResolveTicker
<1> QED
  BY <1>1, <1>2, RunFrame DEF IInv

(* Fetching adds well-formed events and writes nothing.                     *)
LEMMA FetchStep ==
  ASSUME IInv, UNCHANGED <<aliases, sources, tables, scrape, seen, cur, corp, filed, outcome>>,
         pc \in {"dart", "kind"}, pc' \in {"kind", "loop"}, broken' \subseteq Source,
         faults' \in Nat, events' \subseteq Event, EventInv'
  PROVE  IInv'
<1>1. TypeOK'
  BY RunFrame DEF IInv, TypeOK, tables
<1>2. FiledInv' /\ HandInv' /\ EventsHaveParents'
  BY DEF IInv, tables, aliases, FiledInv, HandInv, EventsHaveParents, ResolveTicker
<1> QED
  BY <1>1, <1>2, RunFrame DEF IInv

(* An event is counted and dropped.                                         *)
LEMMA CountStep ==
  ASSUME IInv, NEW e \in events, NEW o \in Outcome, Count(e, o),
         UNCHANGED <<aliases, sources, scrape, events, broken>>,
         seen' \subseteq Key, faults' \in Nat,
         filings' \in [Rcept -> CorpCode \cup {None}], eventRows' \subseteq Event,
         FiledInv', EventsHaveParents'
  PROVE  IInv'
<1>1. e.id \in Id
  BY DEF IInv, TypeOK, Event
<1>2. TypeOK'
  BY <1>1, RunFrame DEF IInv, TypeOK, Count
<1>3. EventInv' /\ HandInv'
  BY DEF IInv, Count, aliases, EventInv, HandInv
<1> QED
  BY <1>2, <1>3, RunFrame DEF IInv

(* Both listings, with their failures.                                      *)
LEMMA FetchNext ==
  IInv /\ (FetchDart \/ FetchDartFails \/ FetchKind \/ FetchKindFails) => IInv'
<1> SUFFICES ASSUME IInv, FetchDart \/ FetchDartFails \/ FetchKind \/ FetchKindFails
             PROVE  IInv'
  OBVIOUS
<1>0. "dart" \in Source /\ "kind" \in Source /\ broken \subseteq Source /\ faults \in Nat
      /\ events \subseteq Event
  BY DEF Source, IInv, TypeOK
<1>1. CASE FetchDart
  <2>1. \A e \in events' : \E d \in Disclosure :
           e = [source |-> "dart", id |-> d.rcept, key |-> d.key, corp |-> d.corp]
    BY <1>1 DEF FetchDart
  <2>2. events' \subseteq Event
    BY <2>1, Facts DEF Event, Id, Source
  <2>3. EventInv'
    BY <2>1 DEF EventInv
  <2> QED
    BY <1>0, <1>1, <2>2, <2>3, FetchStep DEF FetchDart
<1>2. CASE FetchDartFails \/ FetchKindFails
  <2>1. EventInv'
    BY <1>2 DEF FetchDartFails, FetchKindFails, EventInv, IInv, aliases
  <2> QED
    BY <1>0, <1>2, <2>1, FetchStep DEF FetchDartFails, FetchKindFails, Fault
<1>3. CASE FetchKind
  <2>1. \A e \in events' :
           e \in events \/ \E n \in Notice : \E c \in Resolved(n) : e = KindEvent(n, c)
    BY <1>3 DEF FetchKind
  <2>2. ASSUME NEW n \in Notice, NEW c \in Resolved(n)
        PROVE  /\ KindEvent(n, c) \in Event
               /\ KindEvent(n, c).source = "kind"
               /\ KindEvent(n, c).id \in Notice
               /\ KindEvent(n, c).key.ticker # None => KindEvent(n, c).corp # None
               /\ KindEvent(n, c).corp # None => entities[KindEvent(n, c).corp] # None
    <3>1. c = None \/ (c \in CorpCode /\ entities[c] # None)
      BY <2>2, Facts DEF Resolved, Named, IInv, AliasInv
    <3>2. c # None => entities[c].ticker \in Ticker \cup {None}
      BY <3>1 DEF IInv, TypeOK, StoreTypeOK, EntityRow
    <3>3. Unfaithful \in EventType
      BY KindConstants
    <3> QED
      BY <3>1, <3>2, <3>3, Facts DEF KindEvent, Event, Key, Id, Source
  <2>3. events' \subseteq Event
    BY <1>0, <2>1, <2>2
  <2>4. EventInv'
    BY <1>3, <2>1, <2>2 DEF EventInv, IInv, FetchKind, aliases
  <2> QED
    BY <1>0, <1>3, <2>3, <2>4, FetchStep DEF FetchKind
<1> QED
  BY <1>1, <1>2, <1>3

(* The loop takes an event, or counts it without looking further.           *)
LEMMA TakeNext == IInv /\ TakeEvent => IInv'
<1> SUFFICES ASSUME IInv, TakeEvent PROVE IInv'
  OBVIOUS
<1>0. FiledInv' /\ EventsHaveParents'
  BY DEF TakeEvent, IInv, FiledInv, EventsHaveParents, ResolveTicker, tables, aliases
<1>1. PICK e \in NextOf(Todo) :
         \/ Count(e, "skipped") /\ UNCHANGED seen
         \/ /\ InScope(e)
            /\ seen' = seen \cup {e.key} /\ cur' = e /\ pc' = "resolve"
            /\ UNCHANGED <<corp, filed, outcome>>
  BY DEF TakeEvent
<1>2. e \in events /\ e \in Event /\ e.key \in Key
  BY <1>1 DEF NextOf, Todo, IInv, TypeOK, Event
<1>3. CASE Count(e, "skipped") /\ UNCHANGED seen
  BY <1>0, <1>2, <1>3, CountStep DEF TakeEvent, tables, IInv, TypeOK, Outcome
<1>4. CASE /\ InScope(e)
           /\ seen' = seen \cup {e.key} /\ cur' = e /\ pc' = "resolve"
           /\ UNCHANGED <<corp, filed, outcome>>
  <2>1. TypeOK'
    BY <1>2, <1>4, RunFrame DEF TakeEvent, IInv, TypeOK, tables
  <2>2. EventInv' /\ HandInv'
    BY <1>4 DEF TakeEvent, IInv, EventInv, HandInv, aliases, InScope
  <2> QED
    BY <1>0, <2>1, <2>2, RunFrame DEF IInv, TakeEvent
<1> QED
  BY <1>1, <1>3, <1>4

(* The event in hand has a ticker, and a corporation unless it came from    *)
(* KIND unresolved, which has none.                                         *)
LEMMA InHand ==
  ASSUME IInv, pc \in {"resolve", "filing", "event"}
  PROVE  /\ cur \in events /\ cur \in Event /\ cur.key.ticker \in Ticker
         /\ cur.corp \in CorpCode
         /\ cur.source = "kind" => entities[cur.corp] # None
         /\ cur.source = "dart" => \E d \in Disclosure : /\ d.rcept = cur.id
                                                        /\ d.key = cur.key
                                                        /\ d.corp = cur.corp
<1>1. cur \in events /\ cur \in Event
  BY DEF IInv, TypeOK
<1>2. cur.key.ticker \in Ticker /\ cur.key.ticker # None
  BY Facts DEF IInv, HandInv, InScope
<1>3. cur.source \in {"dart", "kind"} /\ cur.corp \in CorpCode \cup {None}
  BY <1>1 DEF Event, Source
<1> QED
  BY <1>1, <1>2, <1>3, Facts DEF IInv, EventInv

(* Resolving: a holder is known; the filing's own corporation is known when *)
(* the filing is stored.                                                    *)
LEMMA ResolveNext == IInv /\ ResolveCorp => IInv'
<1> SUFFICES ASSUME IInv, ResolveCorp PROVE IInv'
  OBVIOUS
<1> DEFINE holding == ResolveTicker(cur.key.ticker)
<1>0. pc = "resolve"
  BY DEF ResolveCorp
<1>1. /\ cur \in events /\ cur \in Event /\ cur.key.ticker \in Ticker
      /\ cur.corp \in CorpCode
      /\ cur.source = "kind" => entities[cur.corp] # None
      /\ cur.source = "dart" => \E d \in Disclosure : /\ d.rcept = cur.id
                                                     /\ d.key = cur.key
                                                     /\ d.corp = cur.corp
  BY <1>0, InHand
<1>2. \A c \in holding : c \in CorpCode /\ entities[c] # None
  BY <1>1 DEF ResolveTicker, IInv, AliasInv
<1>3. /\ corp' \in CorpCode
      /\ corp' = cur.corp \/ holding # {}
      /\ holding # {} => entities[corp'] # None
      /\ holding = {} => corp' = cur.corp
  BY <1>1, <1>2 DEF ResolveCorp
<1>4. TypeOK'
  BY <1>1, <1>3, RunFrame DEF ResolveCorp, IInv, TypeOK, tables
<1>5. EventInv' /\ FiledInv' /\ EventsHaveParents'
  BY DEF ResolveCorp, IInv, EventInv, FiledInv, EventsHaveParents, ResolveTicker,
         tables, aliases
<1>6. CASE cur.source = "dart"
  <2>1. PICK d \in Disclosure : d.rcept = cur.id /\ d.key = cur.key /\ d.corp = cur.corp
    BY <1>1, <1>6
  <2>2. entities[corp'] # None \/ filings[cur.id] = None
    BY <1>3, <2>1 DEF IInv, FiledInv
  <2>3. HandInv'
    BY <1>0, <1>3, <1>6, <2>2
       DEF ResolveCorp, IInv, HandInv, InScope, ResolveTicker, tables, aliases
  <2> QED
    BY <1>4, <1>5, <2>3, RunFrame DEF IInv, ResolveCorp
<1>7. CASE cur.source # "dart"
  <2>1. cur.source = "kind"
    BY <1>1, <1>7 DEF Event, Source
  <2>2. entities[corp'] # None
    BY <1>1, <1>3, <2>1
  <2>3. HandInv'
    BY <1>0, <1>7, <2>2 DEF ResolveCorp, IInv, HandInv, InScope, tables, aliases
  <2> QED
    BY <1>4, <1>5, <2>3, RunFrame DEF IInv, ResolveCorp
<1> QED
  BY <1>6, <1>7

(* First half of the paired write: a new row passes the foreign key.        *)
LEMMA FilingNext == IInv /\ WriteFiling => IInv'
<1> SUFFICES ASSUME IInv, WriteFiling PROVE IInv'
  OBVIOUS
<1>0. pc = "filing" /\ UNCHANGED <<aliases, sources, eventRows>>
  BY DEF WriteFiling
<1>1. /\ cur \in events /\ cur \in Event
      /\ cur.source = "dart" => \E d \in Disclosure : /\ d.rcept = cur.id
                                                     /\ d.key = cur.key
                                                     /\ d.corp = cur.corp
  BY <1>0, InHand
<1>2. /\ cur.source = "dart" /\ corp \in CorpCode
      /\ corp = cur.corp \/ ResolveTicker(cur.key.ticker) # {}
      /\ entities[corp] # None \/ filings[cur.id] = None
  BY <1>0 DEF IInv, HandInv, TypeOK
<1>3. PICK d \in Disclosure : d.rcept = cur.id /\ d.key = cur.key /\ d.corp = cur.corp
  BY <1>1, <1>2
<1>4. cur.id \in Rcept
  BY <1>3, Facts
<1>5. CASE filings' = filings /\ filings[cur.id] # None /\ filed' = "skipped" /\ pc' = "event"
           /\ UNCHANGED <<cur, corp, outcome>>
  <2>1. TypeOK'
    BY <1>0, <1>2, <1>5, RunFrame DEF WriteFiling, IInv, TypeOK, Outcome
  <2>2. EventInv' /\ FiledInv' /\ HandInv' /\ EventsHaveParents'
    BY <1>0, <1>2, <1>5 DEF WriteFiling, IInv, EventInv, FiledInv, HandInv, InScope,
       EventsHaveParents, ResolveTicker, aliases
  <2> QED
    BY <1>0, <2>1, <2>2, RunFrame DEF IInv
<1>6. CASE filings' = [filings EXCEPT ![cur.id] = corp] /\ entities[corp] # None
           /\ filed' = "inserted" /\ pc' = "event" /\ UNCHANGED <<cur, corp, outcome>>
  <2>1. filings' \in [Rcept -> CorpCode \cup {None}]
    BY <1>2, <1>6 DEF IInv, TypeOK
  <2>2. /\ filings'[cur.id] = corp /\ corp # None
        /\ \A r \in Rcept : r # cur.id => filings'[r] = filings[r]
    BY <1>2, <1>4, <1>6, Facts DEF IInv, TypeOK
  <2>3. TypeOK'
    BY <1>0, <1>2, <1>6, <2>1, RunFrame DEF WriteFiling, IInv, TypeOK, Outcome
  <2>4. FiledInv'
    <3> SUFFICES ASSUME NEW x \in Disclosure, filings'[x.rcept] # None
                 PROVE  (ResolveTicker(x.key.ticker) # {})' \/ entities'[x.corp] # None
      BY DEF FiledInv
    <3>1. CASE x.rcept = cur.id
      <4>1. x = d
        BY <1>3, <3>1, KindConstants
      <4>2. ResolveTicker(x.key.ticker) # {} \/ entities[x.corp] # None
        BY <1>2, <1>3, <1>6, <4>1
      <4> QED
        BY <1>0, <4>2 DEF aliases, ResolveTicker
    <3>2. CASE x.rcept # cur.id
      BY <1>0, <2>2, <3>2, Facts DEF aliases, IInv, FiledInv, ResolveTicker
    <3> QED
      BY <3>1, <3>2
  <2>5. EventInv' /\ HandInv'
    BY <1>0, <1>2, <1>6, <2>2
       DEF WriteFiling, IInv, EventInv, HandInv, InScope, aliases
  <2>6. EventsHaveParents'
    <3> SUFFICES ASSUME NEW r \in eventRows
                 PROVE  /\ r.corp # None /\ entities[r.corp] # None
                        /\ r.source = "dart" => filings'[r.id] # None
      BY <1>0 DEF EventsHaveParents, aliases
    <3>1. /\ r.corp # None /\ entities[r.corp] # None
          /\ r.source = "dart" => filings[r.id] # None
      BY DEF IInv, EventsHaveParents
    <3> QED
      BY <1>6, <2>2, <3>1 DEF IInv, TypeOK
  <2> QED
    BY <1>0, <2>3, <2>4, <2>5, <2>6, RunFrame DEF IInv
<1>7. CASE Count(cur, "failed") /\ UNCHANGED filings
  <2>1. FiledInv' /\ EventsHaveParents'
    BY <1>0, <1>7 DEF IInv, FiledInv, EventsHaveParents, ResolveTicker, aliases
  <2> QED
    BY <1>0, <1>1, <1>7, <2>1, CountStep DEF WriteFiling, IInv, TypeOK, Outcome
<1> QED
  BY <1>5, <1>6, <1>7 DEF WriteFiling

(* Second half: the parents of the new row are there.                       *)
LEMMA EventNext == IInv /\ WriteEvent => IInv'
<1> SUFFICES ASSUME IInv, WriteEvent PROVE IInv'
  OBVIOUS
<1>0. /\ pc = "event" /\ UNCHANGED <<aliases, sources, filings>>
      /\ corp \in CorpCode /\ entities[corp] # None
      /\ cur.source = "dart" => filings[cur.id] # None
  BY DEF WriteEvent, IInv, HandInv, TypeOK
<1>1. cur \in events /\ cur \in Event
  BY <1>0, InHand
<1> DEFINE row == [source |-> cur.source, id |-> cur.id, key |-> cur.key, corp |-> corp]
<1>2. row \in Event
  BY <1>0, <1>1 DEF Event
<1>3. PICK o \in Outcome : Count(cur, o)
  BY DEF WriteEvent, Outcome
<1>4. \A r \in eventRows' : r \in eventRows \/ r = row
  BY DEF WriteEvent
<1>5. eventRows' \subseteq Event
  BY <1>2, <1>4 DEF IInv, TypeOK
<1>6. FiledInv'
  BY <1>0 DEF IInv, FiledInv, ResolveTicker, aliases
<1>7. EventsHaveParents'
  BY <1>0, <1>4, Facts DEF IInv, EventsHaveParents, aliases
<1> QED
  BY <1>0, <1>1, <1>3, <1>5, <1>6, <1>7, CountStep DEF WriteEvent, IInv, TypeOK

(* Every step of collect_kind and of its environment.                       *)
LEMMA IInvNext == IInv /\ [Next]_vars => IInv'
<1> SUFFICES ASSUME IInv, [Next]_vars PROVE IInv'
  OBVIOUS
<1>1. CASE UNCHANGED vars
  BY <1>1 DEF vars, aliases, sources, tables, local, IInv, TypeOK, StoreTypeOK, AliasInv,
     EventInv, FiledInv, HandInv, EventsHaveParents, ResolveTicker, InScope
<1>2. CASE \E s \in BOOLEAN : StartRun(s)
  <2>1. TypeOK'
    BY <1>2, RunFrame DEF StartRun, IInv, TypeOK, tables
  <2>2. EventInv' /\ FiledInv' /\ HandInv' /\ EventsHaveParents'
    BY <1>2 DEF StartRun, IInv, EventInv, FiledInv, HandInv, EventsHaveParents,
       ResolveTicker, aliases, tables
  <2> QED
    BY <1>2, <2>1, <2>2, RunFrame DEF StartRun, IInv
<1>3. CASE EndLoop
  <2>1. TypeOK'
    BY <1>3, RunFrame DEF EndLoop, IInv, TypeOK, tables, local
  <2>2. EventInv' /\ FiledInv' /\ HandInv' /\ EventsHaveParents'
    BY <1>3 DEF EndLoop, IInv, EventInv, FiledInv, HandInv, EventsHaveParents,
       ResolveTicker, aliases, tables, local
  <2> QED
    BY <1>3, <2>1, <2>2, RunFrame DEF EndLoop, IInv
<1>4. CASE RecordRun \/ Crash
  BY <1>4, LeaveStep DEF RecordRun, Crash, Fault, IInv, TypeOK
<1>5. CASE EventFails
  <2>1. cur \in events
    BY <1>5, InHand DEF EventFails
  <2>2. FiledInv' /\ EventsHaveParents'
    BY <1>5 DEF EventFails, IInv, FiledInv, EventsHaveParents, ResolveTicker, aliases, tables
  <2> QED
    BY <1>5, <2>1, <2>2, CountStep DEF EventFails, Fault, IInv, TypeOK, Outcome, tables
<1> QED
  BY <1>1, <1>2, <1>3, <1>4, <1>5, EnvironmentNext, FetchNext, TakeNext, ResolveNext,
     FilingNext, EventNext DEF Next, RunStep, FaultStep

(* IInv holds in every reachable state.                                     *)
LEMMA Inductive == Spec => []IInv
  BY IInvInit, IInvNext, PTL DEF Spec

(* TypeOK is an invariant of collect_kind: what it fetched, holds in hand   *)
(* and has written is well formed whatever fails or crashes.                *)
THEOREM TypeCorrect == Spec => []TypeOK
<1>1. IInv => TypeOK
  BY DEF IInv
<1> QED
  BY <1>1, Inductive, PTL

(* The two transactions of the paired write (upsert_kind_filing, then       *)
(* upsert_kind_event) are never seen the wrong way round: every events row  *)
(* has its entity, and its filing when it came from DART.                   *)
THEOREM EventRowsHaveParents == Spec => []EventsHaveParents
<1>1. IInv => EventsHaveParents
  BY DEF IInv
<1> QED
  BY <1>1, Inductive, PTL

------------------------------------------------------------------------------
(* Deduplication: an id names one event of the run, a key is seen before    *)
(* its event is written, and the key in hand has not been inserted yet.     *)
Fetching == {"idle", "dart", "kind"}
InHandStage == {"resolve", "filing", "event"}

DedupInv ==
    /\ pc \in {"idle", "dart"} => events = {}
    /\ pc = "kind" => \A e \in events : e.source = "dart"
    /\ pc \in Fetching => \A i \in Id : outcome[i] = None
    /\ \A e, f \in events : e.id = f.id => e = f
    /\ \A e \in events : outcome[e.id] = "inserted" => e.key \in seen
    /\ pc \in InHandStage =>
          /\ cur.key \in seen
          /\ \A e \in events : e.key = cur.key => outcome[e.id] # "inserted"

(* It holds when no run has started.                                        *)
LEMMA DedupInit == Init => DedupInv /\ OneInsertPerKey
  BY DEF Init, DedupInv, OneInsertPerKey, InHandStage

(* The events of one source have different ids: receipt numbers identify    *)
(* disclosures, and each row of the KIND pages is resolved once.            *)
LEMMA FetchDedup ==
  IInv /\ DedupInv /\ OneInsertPerKey /\ (FetchDart \/ FetchKind)
    => DedupInv' /\ OneInsertPerKey'
<1> SUFFICES ASSUME IInv, DedupInv, OneInsertPerKey, FetchDart \/ FetchKind
             PROVE  DedupInv' /\ OneInsertPerKey'
  OBVIOUS
<1>1. /\ pc \in Fetching /\ pc' \in {"kind", "loop"}
      /\ pc' = "kind" => FetchDart
      /\ UNCHANGED <<outcome, seen, cur>>
      /\ \A i \in Id : outcome[i] = None
  BY DEF FetchDart, FetchKind, Fetching, DedupInv
<1>2. \A e, f \in events' : e.id = f.id => e = f
  <2>1. CASE FetchDart
    <3>1. \A e \in events' : \E d \in Disclosure :
             e = [source |-> "dart", id |-> d.rcept, key |-> d.key, corp |-> d.corp]
      BY <2>1 DEF FetchDart
    <3> QED
      BY <3>1, KindConstants
  <2>2. CASE FetchKind
    <3>1. PICK who \in [{n \in Notice : kind[n] = "listed"} -> CorpCode \cup {None}] :
             events' = events \cup {KindEvent(n, who[n]) : n \in DOMAIN who}
      BY <2>2 DEF FetchKind
    <3>2. \A e \in events : e.id \in Rcept
      BY <2>2, Facts DEF FetchKind, DedupInv, IInv, EventInv
    <3>3. \A n \in DOMAIN who : KindEvent(n, who[n]).id = n /\ n \in Notice
      BY DEF KindEvent
    <3>4. Rcept \cap Notice = {}
      BY KindConstants
    <3> QED
      BY <3>1, <3>2, <3>3, <3>4 DEF DedupInv
  <2> QED
    BY <2>1, <2>2
<1>3. pc' = "kind" => \A e \in events' : e.source = "dart"
  BY <1>1 DEF FetchDart
<1>4. events' \subseteq Event
  BY FetchNext DEF IInv, TypeOK
<1>5. \A e \in events' : outcome'[e.id] = None
  BY <1>1, <1>4 DEF Event
<1>6. OneInsertPerKey'
  BY <1>5, KindConstants DEF OneInsertPerKey, Outcome
<1>7. \A i \in Id : outcome'[i] = None
  BY <1>1
<1>8. pc' \notin {"idle", "dart"} \cup InHandStage
  BY <1>1 DEF InHandStage
<1>9. \A e \in events' : outcome'[e.id] # "inserted"
  BY <1>5, KindConstants DEF Outcome
<1> QED
  BY <1>2, <1>3, <1>6, <1>7, <1>8, <1>9 DEF DedupInv

(* Counting an event that is not inserted a second time.                    *)
LEMMA CountDedup ==
  ASSUME IInv, DedupInv, OneInsertPerKey, NEW e \in events, NEW o \in Outcome,
         Count(e, o), UNCHANGED events, seen \subseteq seen',
         o = "inserted" => /\ e.key \in seen
                           /\ \A f \in events : f.key = e.key => outcome[f.id] # "inserted"
  PROVE  DedupInv' /\ OneInsertPerKey'
<1>1. \A f \in events : outcome'[f.id] = IF f.id = e.id THEN o ELSE outcome[f.id]
  BY DEF Count, IInv, TypeOK, Event
<1>2. \A f \in events : outcome'[f.id] = "inserted"
         => (f = e /\ o = "inserted") \/ (f # e /\ outcome[f.id] = "inserted")
  BY <1>1 DEF DedupInv
<1>3. pc' = "loop" /\ events' = events
  BY DEF Count
<1>4. DedupInv'
  BY <1>2, <1>3 DEF DedupInv, Fetching, InHandStage
<1>5. OneInsertPerKey'
  BY <1>2, <1>3 DEF OneInsertPerKey
<1> QED
  BY <1>4, <1>5

(* A step that only moves the event in hand on.                             *)
LEMMA MoveOnDedup ==
  ASSUME DedupInv, OneInsertPerKey, UNCHANGED <<events, seen, outcome, cur>>,
         pc \in InHandStage, pc' \in InHandStage
  PROVE  DedupInv' /\ OneInsertPerKey'
  BY DEF DedupInv, OneInsertPerKey, InHandStage, Fetching

(* Every step of collect_kind and of its environment.                       *)
LEMMA DedupNext ==
  IInv /\ DedupInv /\ OneInsertPerKey /\ [Next]_vars => DedupInv' /\ OneInsertPerKey'
<1> SUFFICES ASSUME IInv, DedupInv, OneInsertPerKey, [Next]_vars
             PROVE  DedupInv' /\ OneInsertPerKey'
  OBVIOUS
<1>1. ASSUME UNCHANGED vars \/ Environment PROVE DedupInv' /\ OneInsertPerKey'
  <2>1. UNCHANGED <<pc, local>>
    BY <1>1 DEF vars, Environment, MoveDart, MoveKind, SeedEntity, SeedNames
  <2> QED
    BY <2>1 DEF local, DedupInv, OneInsertPerKey
<1>2. ASSUME (\E s \in BOOLEAN : StartRun(s)) \/ EndLoop \/ FetchDartFails \/ FetchKindFails
      PROVE  DedupInv' /\ OneInsertPerKey'
  BY <1>2 DEF StartRun, EndLoop, FetchDartFails, FetchKindFails, local, DedupInv,
     OneInsertPerKey, Fetching, InHandStage
<1>3. ASSUME FetchDart \/ FetchKind PROVE DedupInv' /\ OneInsertPerKey'
  BY <1>3, FetchDedup
<1>4. ASSUME TakeEvent PROVE DedupInv' /\ OneInsertPerKey'
  <2>1. PICK e \in NextOf(Todo) :
         \/ Count(e, "skipped") /\ UNCHANGED seen
         \/ /\ e.key \notin seen
            /\ seen' = seen \cup {e.key} /\ cur' = e /\ pc' = "resolve"
            /\ UNCHANGED <<corp, filed, outcome>>
    BY <1>4 DEF TakeEvent
  <2>2. e \in events /\ events' = events
    BY <1>4, <2>1 DEF NextOf, Todo, TakeEvent
  <2>3. CASE Count(e, "skipped") /\ UNCHANGED seen
    BY <2>2, <2>3, CountDedup DEF Outcome
  <2>4. CASE /\ e.key \notin seen
             /\ seen' = seen \cup {e.key} /\ cur' = e /\ pc' = "resolve"
             /\ UNCHANGED <<corp, filed, outcome>>
    BY <2>2, <2>4 DEF DedupInv, OneInsertPerKey, Fetching, InHandStage
  <2> QED
    BY <2>1, <2>3, <2>4
<1>5. ASSUME ResolveCorp PROVE DedupInv' /\ OneInsertPerKey'
  BY <1>5, MoveOnDedup DEF ResolveCorp, InHandStage
<1>6. ASSUME WriteFiling PROVE DedupInv' /\ OneInsertPerKey'
  <2>1. cur \in events /\ pc \in InHandStage /\ UNCHANGED <<events, seen>>
    BY <1>6, InHand DEF WriteFiling, InHandStage
  <2>2. Count(cur, "failed") \/ (pc' = "event" /\ UNCHANGED <<cur, outcome>>)
    BY <1>6 DEF WriteFiling
  <2> QED
    BY <2>1, <2>2, CountDedup, MoveOnDedup DEF Outcome, InHandStage
<1>7. ASSUME WriteEvent \/ EventFails PROVE DedupInv' /\ OneInsertPerKey'
  <2>1. pc \in InHandStage /\ cur \in events /\ UNCHANGED <<events, seen>>
    BY <1>7, InHand DEF WriteEvent, EventFails, InHandStage
  <2>2. PICK o \in Outcome : Count(cur, o)
    BY <1>7 DEF WriteEvent, EventFails, Outcome
  <2> QED
    BY <2>1, <2>2, CountDedup DEF DedupInv
<1>8. ASSUME RecordRun \/ Crash PROVE DedupInv' /\ OneInsertPerKey'
  BY <1>8 DEF RecordRun, Crash, LeaveRun, DedupInv, OneInsertPerKey, InHandStage
<1> QED
  BY <1>1, <1>2, <1>3, <1>4, <1>5, <1>6, <1>7, <1>8 DEF Next, RunStep, FaultStep

(* The deduplication across the two sources works for any listings: a run   *)
(* counts at most one event per (event_type, ticker, event_date) as         *)
(* inserted.                                                                *)
THEOREM OneInsertionPerKey == Spec => []OneInsertPerKey
<1>1. IInv /\ DedupInv /\ OneInsertPerKey /\ [Next]_vars => (DedupInv /\ OneInsertPerKey)'
  BY DedupNext
<1> QED
  BY <1>1, DedupInit, Inductive, PTL DEF Spec

------------------------------------------------------------------------------
(* Nothing is dropped in silence: a key that was seen has an event that is  *)
(* stored or failed, or is the key in hand; an event that was counted is    *)
(* out of scope or its key was seen.                                        *)
Handled(k) == \E f \in events : f.key = k /\ (Stored(f) \/ outcome[f.id] = "failed")

ReportInv ==
    /\ pc \in Fetching => seen = {}
    /\ \A k \in seen : Handled(k) \/ (pc \in InHandStage /\ cur.key = k)
    /\ \A e \in events : InScope(e) /\ outcome[e.id] # None => e.key \in seen
    /\ pc = "record" => Todo = {}

(* Before the first run there is nothing to report.                         *)
LEMMA ReportInit == Init => ReportInv
  BY DEF Init, ReportInv

(* Rows stay: what is stored is stored for good.                            *)
TablesGrow == /\ eventRows \subseteq eventRows'
              /\ \A r \in Rcept : filings[r] # None => filings'[r] # None

LEMMA StoredStays ==
  ASSUME IInv, TablesGrow, NEW f \in events, Stored(f)
  PROVE  Stored(f)'
<1>1. f.source = "dart" => f.id \in Rcept
  BY Facts DEF IInv, EventInv
<1> QED
  BY <1>1 DEF Stored, Recorded, TablesGrow

(* A step that counts nothing and keeps the key in hand.                    *)
LEMMA MoveOnReport ==
  ASSUME IInv, ReportInv, TablesGrow, UNCHANGED <<events, seen, outcome, cur>>,
         pc \in InHandStage => pc' \in InHandStage,
         pc' \in Fetching => pc \in Fetching,
         pc' = "record" => Todo = {}
  PROVE  ReportInv'
<1>1. \A k \in seen : Handled(k) => Handled(k)'
  BY StoredStays DEF Handled
<1>2. \A k \in seen' : Handled(k)' \/ (pc' \in InHandStage /\ cur'.key = k)
  BY <1>1 DEF ReportInv
<1> QED
  BY <1>2 DEF ReportInv, InScope, Todo

(* An event is counted: the loop skips one that needs no attention, and an  *)
(* event in hand leaves it stored or failed.                                *)
LEMMA CountReport ==
  ASSUME IInv, DedupInv, ReportInv, TablesGrow, NEW e \in events, NEW o \in Outcome,
         Count(e, o), UNCHANGED <<events, seen>>,
         pc = "loop" \/ pc \in InHandStage,
         pc = "loop" => outcome[e.id] = None /\ (~InScope(e) \/ e.key \in seen),
         pc \in InHandStage => e = cur /\ (o = "failed" \/ Stored(e)')
  PROVE  ReportInv'
<1>1. \A f \in events : outcome'[f.id] = IF f.id = e.id THEN o ELSE outcome[f.id]
  BY DEF Count, IInv, TypeOK, Event
<1>2. \A f \in events : f.id = e.id => f = e
  BY DEF DedupInv
<1>3. pc' = "loop" /\ events' = events /\ seen' = seen
  BY DEF Count
<1>4. None # "failed"
  BY KindConstants DEF Outcome
<1>5. pc \in InHandStage => Handled(e.key)' /\ e.key \in seen
  BY <1>1, <1>3 DEF Handled, DedupInv
<1>6. ASSUME NEW k \in seen PROVE Handled(k)'
  <2>1. CASE pc \in InHandStage /\ cur.key = k
    BY <1>5, <2>1
  <2>2. CASE ~(pc \in InHandStage /\ cur.key = k)
    <3>1. PICK f \in events : f.key = k /\ (Stored(f) \/ outcome[f.id] = "failed")
      BY <1>6, <2>2 DEF ReportInv, Handled
    <3>2. CASE Stored(f)
      BY <1>3, <3>1, <3>2, StoredStays DEF Handled
    <3>3. CASE outcome[f.id] = "failed"
      <4>1. f.id # e.id
        BY <1>2, <1>4, <2>2, <3>1, <3>3
      <4> QED
        BY <1>1, <1>3, <3>1, <3>3, <4>1 DEF Handled
    <3> QED
      BY <3>1, <3>2, <3>3
  <2> QED
    BY <2>1, <2>2
<1>7. ASSUME NEW f \in events, InScope(f), outcome'[f.id] # None PROVE f.key \in seen
  <2>1. CASE f.id = e.id
    BY <1>2, <1>5, <1>7, <2>1
  <2>2. CASE f.id # e.id
    BY <1>1, <1>7, <2>2 DEF ReportInv
  <2> QED
    BY <2>1, <2>2
<1> QED
  BY <1>3, <1>6, <1>7 DEF ReportInv, Fetching, InScope

(* Every step of collect_kind and of its environment.                       *)
LEMMA ReportNext == IInv /\ DedupInv /\ ReportInv /\ [Next]_vars => ReportInv'
<1> SUFFICES ASSUME IInv, DedupInv, ReportInv, [Next]_vars PROVE ReportInv'
  OBVIOUS
<1>0. Fetching \cap InHandStage = {} /\ {"loop", "record"} \cap (Fetching \cup InHandStage) = {}
  BY DEF Fetching, InHandStage
<1>1. ASSUME UNCHANGED vars \/ Environment PROVE ReportInv'
  <2>1. UNCHANGED <<pc, events, seen, outcome, cur>> /\ TablesGrow
    BY <1>1 DEF vars, Environment, MoveDart, MoveKind, SeedEntity, SeedNames, local, tables,
       TablesGrow
  <2> QED
    BY <2>1, MoveOnReport DEF ReportInv
<1>2. ASSUME (\E s \in BOOLEAN : StartRun(s)) \/ FetchDartFails \/ FetchKindFails
      PROVE  ReportInv'
  <2>1. UNCHANGED <<events, seen, outcome, cur>> /\ TablesGrow /\ pc \in Fetching
        /\ pc' # "record"
    BY <1>2 DEF StartRun, FetchDartFails, FetchKindFails, tables, TablesGrow, Fetching
  <2> QED
    BY <1>0, <2>1, MoveOnReport
<1>3. ASSUME FetchDart \/ FetchKind PROVE ReportInv'
  <2>1. seen' = {} /\ outcome' = outcome /\ pc' \in {"kind", "loop"}
        /\ \A i \in Id : outcome[i] = None
    BY <1>3 DEF FetchDart, FetchKind, ReportInv, DedupInv, Fetching
  <2>2. events' \subseteq Event
    BY <1>3, FetchNext DEF IInv, TypeOK
  <2> QED
    BY <2>1, <2>2 DEF ReportInv, Event
<1>4. ASSUME TakeEvent PROVE ReportInv'
  <2>1. PICK e \in NextOf(Todo) :
         \/ (~InScope(e) \/ e.key \in seen) /\ Count(e, "skipped") /\ UNCHANGED seen
         \/ /\ seen' = seen \cup {e.key} /\ cur' = e /\ pc' = "resolve"
            /\ UNCHANGED <<corp, filed, outcome>>
    BY <1>4 DEF TakeEvent
  <2>2. /\ e \in events /\ outcome[e.id] = None /\ pc = "loop" /\ events' = events
        /\ TablesGrow
    BY <1>4, <2>1 DEF NextOf, Todo, TakeEvent, tables, TablesGrow
  <2>3. CASE (~InScope(e) \/ e.key \in seen) /\ Count(e, "skipped") /\ UNCHANGED seen
    BY <1>0, <2>2, <2>3, CountReport DEF Outcome
  <2>4. CASE /\ seen' = seen \cup {e.key} /\ cur' = e /\ pc' = "resolve"
             /\ UNCHANGED <<corp, filed, outcome>>
    <3>1. \A k \in seen : Handled(k)'
      BY <1>0, <2>2, <2>4, StoredStays DEF ReportInv, Handled
    <3>2. \A f \in events : InScope(f) /\ outcome[f.id] # None => f.key \in seen'
      BY <2>4 DEF ReportInv
    <3> QED
      BY <2>2, <2>4, <3>1, <3>2 DEF ReportInv, InHandStage, Fetching, InScope
  <2> QED
    BY <2>1, <2>3, <2>4
<1>5. ASSUME ResolveCorp PROVE ReportInv'
  <2>1. UNCHANGED <<events, seen, outcome, cur>> /\ TablesGrow /\ pc' \in InHandStage
    BY <1>5 DEF ResolveCorp, tables, TablesGrow, InHandStage
  <2> QED
    BY <1>0, <2>1, MoveOnReport
<1>6. ASSUME WriteFiling PROVE ReportInv'
  <2>1. /\ pc \in InHandStage /\ cur \in events /\ UNCHANGED <<events, seen, eventRows>>
    BY <1>6, InHand DEF WriteFiling, InHandStage
  <2>2. TablesGrow
    BY <1>6, <2>1, Facts DEF WriteFiling, TablesGrow, IInv, TypeOK
  <2>3. Count(cur, "failed") \/ (pc' = "event" /\ UNCHANGED <<cur, outcome>>)
    BY <1>6 DEF WriteFiling
  <2>4. CASE Count(cur, "failed")
    BY <1>0, <2>1, <2>2, <2>4, CountReport DEF Outcome
  <2>5. CASE pc' = "event" /\ UNCHANGED <<cur, outcome>>
    BY <1>0, <2>1, <2>2, <2>5, MoveOnReport DEF InHandStage
  <2> QED
    BY <2>3, <2>4, <2>5
<1>7. ASSUME WriteEvent PROVE ReportInv'
  <2>1. /\ pc \in InHandStage /\ cur \in events /\ UNCHANGED <<events, seen, filings>>
        /\ TablesGrow
    BY <1>7, InHand DEF WriteEvent, InHandStage, TablesGrow
  <2>2. PICK o \in Outcome : Count(cur, o)
    BY <1>7 DEF WriteEvent, Outcome
  <2>3. Recorded(cur) \/ \E r \in eventRows' : r.source = cur.source /\ r.id = cur.id
                                                /\ r.key = cur.key
    <3>1. CASE Recorded(cur)
      BY <3>1
    <3>2. CASE ~Recorded(cur)
      <4>1. [source |-> cur.source, id |-> cur.id, key |-> cur.key, corp |-> corp] \in eventRows'
        BY <1>7, <3>2 DEF WriteEvent
      <4> QED
        BY <4>1
    <3> QED
      BY <3>1, <3>2
  <2>4. cur.source = "dart" => filings[cur.id] # None
    BY <1>7 DEF WriteEvent, IInv, HandInv
  <2>5. \E r \in eventRows' : r.source = cur.source /\ r.id = cur.id /\ r.key = cur.key
    BY <2>1, <2>3 DEF Recorded, TablesGrow
  <2>6. ASSUME NEW e \in events, e = cur PROVE Stored(e)'
    BY <2>1, <2>4, <2>5, <2>6 DEF Stored, Recorded
  <2> QED
    BY <1>0, <2>1, <2>2, <2>6, CountReport
<1>8. ASSUME EventFails PROVE ReportInv'
  <2>1. /\ pc \in InHandStage /\ cur \in events /\ UNCHANGED <<events, seen>>
        /\ TablesGrow /\ Count(cur, "failed")
    BY <1>8, InHand DEF EventFails, InHandStage, tables, TablesGrow
  <2> QED
    BY <1>0, <2>1, CountReport DEF Outcome
<1>9. ASSUME EndLoop PROVE ReportInv'
  <2>1. /\ UNCHANGED <<events, seen, outcome, cur>> /\ TablesGrow
        /\ pc = "loop" /\ pc' = "record" /\ Todo = {}
    BY <1>9 DEF EndLoop, local, tables, TablesGrow
  <2> QED
    BY <1>0, <2>1, MoveOnReport
<1>10. ASSUME RecordRun \/ Crash PROVE ReportInv'
  BY <1>10 DEF RecordRun, Crash, LeaveRun, ReportInv
<1> QED
  BY <1>1, <1>2, <1>3, <1>4, <1>5, <1>6, <1>7, <1>8, <1>9, <1>10 DEF Next, RunStep, FaultStep

(* collect_kind drops nothing in silence, whatever fails: when a run ends,  *)
(* each event in scope that it fetched has, under its key, an event in the  *)
(* tables or one that stats report as failed.                               *)
THEOREM EveryEventAnswered == Spec => []StoredOrReported
<1>1. ReportInv => StoredOrReported
  BY DEF ReportInv, StoredOrReported, Handled, Todo, InHandStage
<1>2. Spec => [](IInv /\ DedupInv)
  <2>1. IInv /\ DedupInv /\ OneInsertPerKey /\ [Next]_vars => (DedupInv /\ OneInsertPerKey)'
    BY DedupNext
  <2> QED
    BY <2>1, DedupInit, Inductive, PTL DEF Spec
<1>3. IInv /\ DedupInv /\ ReportInv /\ [Next]_vars => ReportInv'
  BY ReportNext
<1> QED
  BY <1>1, <1>2, <1>3, ReportInit, PTL DEF Spec

=============================================================================
