------------------------------ MODULE DartProofs -----------------------------
(***************************************************************************)
(* Theorems about DartCollector, for any corporations, filings and listing  *)
(* size. The argument for the bodies: the version at the source only grows, *)
(* and a page in hand lies between what was listed or stored before and     *)
(* what the source serves now, or is missing because it came back empty     *)
(* (BodyInv). The argument for the accounting: a listed filing is on the    *)
(* list, in hand, or counted (LoopInv).                                     *)
(***************************************************************************)
EXTENDS DartCollector, TLAPS

(* The page in hand is no older than what was listed and what is stored.    *)
Fresh(p) == /\ draft[p] >= base[cur]
            /\ filings[cur] # None => draft[p] >= filings[cur].body[p]

HandInv == /\ \A p \in Part : draft[p] <= version[cur]
           /\ \A p \in Page : Fresh(p) \/ (draft[p] = 0 /\ (p >= page \/ cur \in blank))
           /\ draft[0] # 0 => draft[0] >= base[cur]

BodyInv ==
    /\ \A f \in Filing :
          /\ base[f] <= version[f]
          /\ filings[f] # None => \A p \in Part : filings[f].body[p] <= version[f]
    /\ pc \in {"fetch", "store"} => HandInv
    /\ pc \in {"idle", "next"} => draft = NoBody /\ page = 1
    /\ pc = "store" => page = Pages + 1

LoopInv ==
    \A f \in listed : \/ f \in todo /\ pc \notin {"seed", "record"}
                      \/ pc \in {"fetch", "store"} /\ f = cur
                      \/ outcome[f] # None

(* Nothing of an earlier run is left when the next one starts.              *)
IdleInv == pc = "idle" => \A f \in Filing : outcome[f] = None

IInv == /\ TypeOK /\ BodyInv /\ LoopInv /\ IdleInv
        /\ EveryFilingAccounted /\ CountedIsCurrent /\ WriterSeeds

------------------------------------------------------------------------------
(* The parts of a body.                                                     *)
LEMMA EmptyBody == NoBody \in Body /\ 1 \in 1..(Pages + 1) /\ \A p \in Page : p \in Part
  BY DartConstants DEF NoBody, Body, Part, Page

(* Nothing is published, stored or running.                                 *)
LEMMA IInvInit == Init => IInv
<1> SUFFICES ASSUME Init PROVE IInv
  OBVIOUS
<1>1. TypeOK
  <2>0. NoBody \in Body /\ 1 \in 1..(Pages + 1)
    BY EmptyBody
  <2>1. info \in [CorpCode -> EntityRow]
    BY DartConstants DEF Init
  <2>2. published \in [CorpCode -> Seq(Filing)]
    BY DEF Init
  <2> QED
    BY <2>0, <2>1, <2>2 DEF Init, StoreInit, TypeOK, StoreTypeOK
<1>2. BodyInv
  BY DartConstants DEF Init, BodyInv, TypeOK
<1>3. LoopInv /\ IdleInv /\ EveryFilingAccounted /\ CountedIsCurrent /\ WriterSeeds
  BY DEF Init, LoopInv, IdleInv, EveryFilingAccounted, CountedIsCurrent, WriterSeeds
<1> QED
  BY <1>1, <1>2, <1>3 DEF IInv

(* A listing is made of filings.                                            *)
LEMMA ListingType == ASSUME TypeOK, NEW c \in CorpCode PROVE Listing(c) \subseteq Filing
  BY DEF Listing, TypeOK

(* The row that an upsert leaves.                                           *)
LEMMA WrittenType ==
  ASSUME TypeOK, pc = "store", cur \in Filing
  PROVE  Written(cur) \in FilingRow /\ Written(cur).body = draft
<1>1. about.ticker \in Ticker \cup {None} /\ corp \in CorpCode
  BY DEF TypeOK, EntityRow
<1>2. filings[cur] # None => filings[cur] \in FilingRow
  BY DEF TypeOK
<1> QED
  BY <1>1, <1>2 DEF Written, FilingRow, TypeOK

(* An upsert_entity is well typed and loses no holder.                      *)
LEMMA UpsertType ==
  ASSUME TypeOK, NEW c \in CorpCode, NEW r \in EntityRow, UpsertEntity(c, r.name, r.ticker)
  PROVE  StoreTypeOK' /\ holders \subseteq holders'
<1>1. [name |-> r.name, ticker |-> r.ticker] \in EntityRow
  BY DEF EntityRow
<1> QED
  BY <1>1 DEF UpsertEntity, TypeOK, StoreTypeOK

(* What the steps of fetch_body change, and the types of it.                *)
LEMMA FetchType ==
  ASSUME TypeOK, ReadPage \/ PageEmpty \/ JoinPages
  PROVE  /\ draft' \in Body /\ page' \in 1..(Pages + 1) /\ blank' \subseteq Filing
         /\ tries' \in Nat /\ faults' \in Nat /\ cur \in listed /\ cur \in Filing
         /\ pc = "fetch" /\ pc' \in {"fetch", "store"}
         /\ UNCHANGED <<entities, holders, source, filings, progress, todo, cur,
                        outcome, warned>>
<1>0. /\ Pages \in Nat /\ page \in 1..(Pages + 1) /\ draft \in [Part -> Nat]
      /\ blank \subseteq Filing /\ tries \in Nat /\ faults \in Nat
  BY DartConstants DEF TypeOK, Body
<1>1. pc = "fetch" /\ cur \in listed /\ cur \in Filing
  BY DEF ReadPage, PageEmpty, JoinPages, TypeOK
<1>2. version[cur] \in Nat /\ base[cur] \in Nat
  BY <1>1 DEF TypeOK
<1>3. CASE ReadPage
  <2>1. page \in Part /\ page + 1 \in 1..(Pages + 1)
    BY <1>0, <1>3 DEF ReadPage, Part
  <2>2. PICK text \in {version[cur], draft[page]} \ {0} : draft' = [draft EXCEPT ![page] = text]
    BY <1>3 DEF ReadPage
  <2>3. text \in Nat
    BY <1>0, <1>2, <2>1
  <2>4. draft' \in Body
    BY <1>0, <2>2, <2>3 DEF Body
  <2> QED
    BY <1>0, <1>1, <1>3, <2>1, <2>4 DEF ReadPage
<1>4. CASE PageEmpty
  <2>1. page + 1 \in 1..(Pages + 1)
    BY <1>0, <1>4 DEF PageEmpty
  <2>2. draft' \in Body
    BY <1>0, <1>4 DEF PageEmpty, Body
  <2> QED
    BY <1>0, <1>1, <1>4, <2>1, <2>2 DEF PageEmpty, Fault
<1>5. CASE JoinPages
  <2>1. PICK summary \in {0} \cup base[cur]..version[cur] :
          draft' = IF \A p \in Page : draft[p] = 0 THEN [draft EXCEPT ![0] = summary]
                   ELSE draft
    BY <1>5 DEF JoinPages
  <2>2. summary \in Nat
    BY <1>2
  <2>3. draft' \in Body
    BY <1>0, <2>1, <2>2 DEF Body
  <2> QED
    BY <1>0, <1>1, <1>5, <2>3 DEF JoinPages
<1> QED
  BY <1>3, <1>4, <1>5

(* Every step of collect_dart, of DART and of the seed script keeps the     *)
(* types.                                                                   *)
LEMMA TypeNext == TypeOK /\ [Next]_vars => TypeOK'
<1> SUFFICES ASSUME TypeOK, [Next]_vars PROVE TypeOK'
  OBVIOUS
<1> USE DEF source, progress, loop, body
<1>1. CASE UNCHANGED vars
  BY <1>1 DEF vars, TypeOK, StoreTypeOK
<1>2. ASSUME NEW c \in CorpCode, NEW f \in Filing, Publish(c, f) PROVE TypeOK'
  <2>1. published' \in [CorpCode -> Seq(Filing)]
    BY <1>2 DEF Publish, TypeOK
  <2> QED
    BY <1>2, <2>1 DEF Publish, TypeOK, StoreTypeOK
<1>3. ASSUME NEW f \in Filing, Amend(f) PROVE TypeOK'
  BY <1>3 DEF Amend, TypeOK, StoreTypeOK
<1>4. ASSUME NEW c \in CorpCode, ChangeInfo(c) PROVE TypeOK'
  BY <1>4, DartConstants DEF ChangeInfo, TypeOK, StoreTypeOK
<1>5. ASSUME NEW c \in CorpCode, RunSeedScript(c) PROVE TypeOK'
  <2>1. info[c] \in EntityRow
    BY DEF TypeOK
  <2> QED
    BY <1>5, <2>1, UpsertType DEF RunSeedScript, TypeOK
<1>6. ASSUME NEW c \in CorpCode, StartRun(c) PROVE TypeOK'
  BY <1>6, ListingType DEF StartRun, TypeOK, StoreTypeOK
<1>7. CASE NextFiling
  BY <1>7 DEF NextFiling, TypeOK, StoreTypeOK
<1>8. CASE ReadPage \/ PageEmpty \/ JoinPages
  BY <1>8, FetchType DEF TypeOK, StoreTypeOK
<1>9. ASSUME NEW o \in Outcome, Count(o), pc \in {"fetch", "store"},
             UNCHANGED <<entities, holders, source, progress, todo, warned>>,
             faults' \in Nat, filings' \in [Filing -> FilingRow \cup {None}]
      PROVE  TypeOK'
  BY <1>9, EmptyBody DEF Count, TypeOK, StoreTypeOK
<1>10. {"inserted", "updated", "skipped", "failed"} \subseteq Outcome
       /\ faults \in Nat /\ filings \in [Filing -> FilingRow \cup {None}]
  BY DEF Outcome, TypeOK
<1>11. CASE FetchError
  <2>1. CASE Count("failed")
    BY <1>9, <1>10, <1>11, <2>1 DEF FetchError, Fault
  <2>2. CASE tries' = tries + 1 /\ page' = 1 /\ UNCHANGED <<pc, cur, draft, blank, outcome>>
    <3>1. page' \in 1..(Pages + 1) /\ tries' \in Nat
      BY <2>2, DartConstants DEF TypeOK
    <3> QED
      BY <1>11, <2>2, <3>1 DEF FetchError, Fault, TypeOK, StoreTypeOK
  <2> QED
    BY <1>11, <2>1, <2>2 DEF FetchError
<1>12. CASE StoreFiling
  <2>1. cur \in Filing /\ pc = "store"
    BY <1>12 DEF StoreFiling, TypeOK
  <2>2. filings' = filings \/ filings' = [filings EXCEPT ![cur] = Written(cur)]
    BY <1>12 DEF StoreFiling
  <2>3. filings' \in [Filing -> FilingRow \cup {None}]
    BY <1>10, <2>1, <2>2, WrittenType
  <2>4. Count("inserted") \/ Count("updated") \/ Count("skipped") \/ Count("failed")
    BY <1>12 DEF StoreFiling
  <2> QED
    BY <1>9, <1>10, <1>12, <2>1, <2>3, <2>4 DEF StoreFiling
<1>13. CASE StoreError
  BY <1>9, <1>10, <1>13 DEF StoreError, Fault
<1>14. CASE EndLoop
  BY <1>14 DEF EndLoop, TypeOK, StoreTypeOK
<1>15. CASE SeedEntity
  <2>1. about \in EntityRow /\ corp \in CorpCode
    BY <1>15 DEF SeedEntity, TypeOK
  <2> QED
    BY <1>15, <2>1, UpsertType DEF SeedEntity, TypeOK
<1>16. CASE SeedEntityError
  BY <1>16 DEF SeedEntityError, Fault, TypeOK, StoreTypeOK
<1>17. CASE RecordRun \/ Crash
  <2>1. faults' \in Nat /\ UNCHANGED <<entities, holders, source, filings>>
    BY <1>17 DEF RecordRun, Crash, Fault, TypeOK
  <2>2. LeaveRun
    BY <1>17 DEF RecordRun, Crash
  <2>3. base' \in [Filing -> Nat] /\ outcome' \in [Filing -> Outcome \cup {None}]
    BY <2>2 DEF LeaveRun
  <2> QED
    BY <2>1, <2>2, <2>3, EmptyBody DEF LeaveRun, TypeOK, StoreTypeOK
<1> QED
  BY <1>1, <1>2, <1>3, <1>4, <1>5, <1>6, <1>7, <1>8, <1>11, <1>12, <1>13, <1>14, <1>15,
     <1>16, <1>17 DEF Next, Environment, RunStep, FaultStep
------------------------------------------------------------------------------
(* The source only publishes newer bodies.                                  *)
LEMMA VersionGrows ==
  ASSUME TypeOK, [Next]_vars
  PROVE  \A f \in Filing : version'[f] \in Nat /\ version[f] <= version'[f]
<1>0. version \in [Filing -> Nat]
  BY DEF TypeOK
<1>1. ASSUME NEW f \in Filing, NEW c \in CorpCode, Publish(c, f)
      PROVE  \A g \in Filing : version'[g] \in Nat /\ version[g] <= version'[g]
  BY <1>0, <1>1 DEF Publish
<1>2. ASSUME NEW f \in Filing, Amend(f)
      PROVE  \A g \in Filing : version'[g] \in Nat /\ version[g] <= version'[g]
  BY <1>0, <1>2 DEF Amend
<1>3. CASE version' = version
  BY <1>0, <1>3
<1>4. \/ version' = version
      \/ \E f \in Filing, c \in CorpCode : Publish(c, f)
      \/ \E f \in Filing : Amend(f)
  BY DEF vars, source, Next, Environment, RunStep, FaultStep, ChangeInfo, RunSeedScript,
     StartRun, NextFiling, ReadPage, PageEmpty, JoinPages, StoreFiling, EndLoop,
     SeedEntity, RecordRun,
     FetchError, StoreError, SeedEntityError, Crash
<1> QED
  BY <1>1, <1>2, <1>3, <1>4

(* Only StoreFiling writes filings, and only the filing in hand.            *)
LEMMA FilingsStep ==
  ASSUME TypeOK, [Next]_vars
  PROVE  \/ filings' = filings
         \/ /\ pc = "store" /\ cur \in Filing /\ pc' = "next"
            /\ filings'[cur] \in FilingRow /\ filings'[cur].body = draft
            /\ StoreFiling
            /\ \A f \in Filing : f # cur => filings'[f] = filings[f]
<1>1. filings' = filings \/ StoreFiling
  BY DEF vars, Next, Environment, RunStep, FaultStep, Publish, Amend, ChangeInfo,
     RunSeedScript, StartRun, NextFiling, ReadPage, PageEmpty, JoinPages, EndLoop,
     SeedEntity, RecordRun,
     FetchError, StoreError, SeedEntityError, Crash
<1>2. CASE StoreFiling
  <2>1. cur \in Filing /\ pc = "store"
    BY <1>2 DEF StoreFiling, TypeOK
  <2>2. filings' = filings
        \/ (pc' = "next" /\ filings' = [filings EXCEPT ![cur] = Written(cur)])
    BY <1>2 DEF StoreFiling, Count
  <2> QED
    BY <1>2, <2>1, <2>2, WrittenType DEF TypeOK
<1> QED
  BY <1>1, <1>2

(* A write never replaces a page by an older one.                           *)
LEMMA BodiesStep ==
  ASSUME TypeOK, BodyInv, [Next]_vars, NEW f \in Filing, filings[f] # None
  PROVE  /\ filings'[f] # None
         /\ \A p \in Page : \/ filings'[f].body[p] >= filings[f].body[p]
                            \/ filings'[f].body[p] = 0 /\ f \in blank
<1>1. /\ filings[f].body \in [Part -> Nat] /\ None \notin FilingRow
      /\ \A p \in Page : p \in Part /\ filings[f].body[p] \in Nat
  BY EmptyBody, DartConstants DEF TypeOK, FilingRow, Body
<1>2. CASE filings'[f] = filings[f]
  BY <1>1, <1>2
<1>3. ASSUME pc = "store", f = cur, filings'[cur] \in FilingRow, filings'[cur].body = draft
      PROVE  \A p \in Page : \/ filings'[f].body[p] >= filings[f].body[p]
                             \/ filings'[f].body[p] = 0 /\ f \in blank
  <2>1. HandInv /\ page = Pages + 1
    BY <1>3 DEF BodyInv
  <2>2. \A p \in Page : ~(p >= page)
    BY <2>1, DartConstants DEF Page
  <2>3. \A p \in Page : Fresh(p) \/ (draft[p] = 0 /\ cur \in blank)
    BY <2>1, <2>2 DEF HandInv
  <2> QED
    BY <1>3, <2>3 DEF Fresh
<1> QED
  BY <1>1, <1>2, <1>3, FilingsStep

(* The steps of fetch_body keep the pages in hand between what was listed   *)
(* or stored and what the source serves.                                    *)
LEMMA FetchHand ==
  ASSUME TypeOK, BodyInv, ReadPage \/ PageEmpty \/ JoinPages
  PROVE  HandInv' /\ (pc' = "store" => page' = Pages + 1)
<1>a. /\ Pages \in Nat /\ 0 \in Part
      /\ \A p \in Page : p \in Part /\ p # 0 /\ p \in Nat /\ p <= Pages
  BY DartConstants DEF Page, Part
<1>b. cur \in Filing /\ pc = "fetch" /\ UNCHANGED <<filings, version, base, cur>>
  BY FetchType DEF source, progress
<1>c. page \in Nat /\ page >= 1 /\ page <= Pages + 1 /\ draft \in [Part -> Nat]
  BY <1>a DEF TypeOK, Body
<1>d. version[cur] \in Nat /\ base[cur] \in Nat
  BY <1>b DEF TypeOK
<1>0. /\ cur \in Filing /\ pc = "fetch" /\ page \in Nat /\ Pages \in Nat
      /\ page >= 1 /\ page <= Pages + 1 /\ draft \in [Part -> Nat]
      /\ version[cur] \in Nat /\ base[cur] \in Nat
      /\ UNCHANGED <<filings, version, base, cur>>
      /\ \A p \in Page : p \in Part /\ p # 0 /\ p \in Nat /\ p <= Pages /\ draft[p] \in Nat
      /\ 0 \in Part
  BY <1>a, <1>b, <1>c, <1>d
<1>1. HandInv /\ base[cur] <= version[cur]
      /\ (filings[cur] # None => \A p \in Part : filings[cur].body[p] <= version[cur])
  BY <1>0 DEF BodyInv
<1>2. CASE ReadPage
  <2>1. /\ page \in Page /\ page' = page + 1 /\ pc' = "fetch" /\ blank' = blank
    BY <1>0, <1>2 DEF ReadPage, Page
  <2>t. PICK text \in {version[cur], draft[page]} \ {0} : draft' = [draft EXCEPT ![page] = text]
    BY <1>2 DEF ReadPage
  <2>2. /\ draft'[page] # 0 /\ (draft'[page] = version[cur] \/ draft'[page] = draft[page])
        /\ \A p \in Part : p # page => draft'[p] = draft[p]
    BY <1>a, <1>c, <2>1, <2>t
  <2>3. \A p \in Part : draft'[p] <= version'[cur']
    BY <1>0, <1>1, <2>2 DEF HandInv
  <2>4. ASSUME NEW p \in Page
        PROVE  Fresh(p)' \/ (draft'[p] = 0 /\ (p >= page' \/ cur' \in blank'))
    <3>1. CASE p = page /\ draft'[p] = version[cur]
      BY <1>0, <1>1, <3>1 DEF Fresh
    <3>2. CASE p = page /\ draft'[p] = draft[p]
      BY <1>0, <1>1, <2>2, <3>2 DEF HandInv, Fresh
    <3>3. CASE p # page
      <4>1. draft'[p] = draft[p] /\ (p >= page => p >= page')
        <5>1. p \in Nat /\ page \in Nat /\ page' = page + 1 /\ p \in Part
          BY <1>0, <2>1
        <5> QED
          BY <2>2, <3>3, <5>1
      <4> QED
        BY <1>0, <1>1, <2>1, <4>1 DEF HandInv, Fresh
    <3> QED
      BY <2>2, <3>1, <3>2, <3>3
  <2>5. draft'[0] # 0 => draft'[0] >= base'[cur']
    BY <1>0, <1>1, <2>1, <2>2 DEF HandInv
  <2> QED
    BY <2>1, <2>3, <2>4, <2>5 DEF HandInv
<1>3. CASE PageEmpty
  <2>1. /\ page \in Page /\ page' = page + 1 /\ pc' = "fetch"
        /\ draft' = [draft EXCEPT ![page] = 0] /\ blank' = blank \cup {cur}
    BY <1>0, <1>3 DEF PageEmpty, Page
  <2>2. draft'[page] = 0 /\ \A p \in Part : p # page => draft'[p] = draft[p]
    BY <1>a, <1>c, <2>1
  <2>3. \A p \in Part : draft'[p] <= version'[cur']
    BY <1>0, <1>1, <2>2 DEF HandInv
  <2>4. ASSUME NEW p \in Page
        PROVE  Fresh(p)' \/ (draft'[p] = 0 /\ (p >= page' \/ cur' \in blank'))
    BY <1>0, <1>1, <2>1, <2>2 DEF HandInv, Fresh
  <2>5. draft'[0] # 0 => draft'[0] >= base'[cur']
    BY <1>0, <1>1, <2>1, <2>2 DEF HandInv
  <2> QED
    BY <2>1, <2>3, <2>4, <2>5 DEF HandInv
<1>4. CASE JoinPages
  <2>1. page = Pages + 1 /\ page' = page /\ blank' = blank
    BY <1>0, <1>4 DEF JoinPages
  <2>2. PICK summary \in {0} \cup base[cur]..version[cur] :
          draft' = IF \A p \in Page : draft[p] = 0 THEN [draft EXCEPT ![0] = summary]
                   ELSE draft
    BY <1>4 DEF JoinPages
  <2>3. /\ \A p \in Page : draft'[p] = draft[p]
        /\ draft'[0] = draft[0] \/ draft'[0] = summary
        /\ \A p \in Part : p # 0 => draft'[p] = draft[p]
    BY <1>0, <2>2
  <2>4. summary \in Nat /\ summary <= version[cur] /\ (summary # 0 => summary >= base[cur])
    BY <1>0
  <2>5. \A p \in Part : draft'[p] <= version'[cur']
    BY <1>0, <1>1, <2>3, <2>4 DEF HandInv
  <2>6. \A p \in Page : Fresh(p)' \/ (draft'[p] = 0 /\ (p >= page' \/ cur' \in blank'))
    BY <1>0, <1>1, <2>1, <2>3 DEF HandInv, Fresh
  <2>7. draft'[0] # 0 => draft'[0] >= base'[cur']
    BY <1>0, <1>1, <2>3, <2>4 DEF HandInv
  <2> QED
    BY <2>1, <2>5, <2>6, <2>7 DEF HandInv
<1> QED
  BY <1>2, <1>3, <1>4

(* What was listed or stored <= what is in hand <= what the source serves.  *)
LEMMA BodyNext == TypeOK /\ BodyInv /\ [Next]_vars => BodyInv'
<1> SUFFICES ASSUME TypeOK, BodyInv, [Next]_vars PROVE BodyInv'
  OBVIOUS
<1>0. /\ \A f \in Filing : /\ version[f] \in Nat /\ version'[f] \in Nat
                           /\ version[f] <= version'[f]
                           /\ base[f] \in Nat
                           /\ filings[f] # None => \A p \in Part : filings[f].body[p] \in Nat
      /\ \A p \in Part : draft[p] \in Nat
  BY VersionGrows DEF TypeOK, FilingRow, Body
<1>1. \A f \in Filing : base'[f] = base[f] \/ base'[f] = 0 \/ base'[f] = version[f]
  <2>1. CASE base' = base
    BY <2>1
  <2>2. ASSUME NEW c \in CorpCode, StartRun(c)
        PROVE  \A f \in Filing : base'[f] = 0 \/ base'[f] = version[f]
    BY <2>2 DEF StartRun
  <2>3. CASE RecordRun \/ Crash
    BY <2>3 DEF RecordRun, Crash, LeaveRun
  <2>4. base' = base \/ (\E c \in CorpCode : StartRun(c)) \/ RecordRun \/ Crash
    BY DEF vars, progress, Next, Environment, RunStep, FaultStep, Publish, Amend, ChangeInfo,
       RunSeedScript, NextFiling, ReadPage, PageEmpty, JoinPages, StoreFiling, EndLoop,
       SeedEntity, FetchError, StoreError, SeedEntityError
  <2> QED
    BY <2>1, <2>2, <2>3, <2>4
<1>2. ASSUME NEW f \in Filing
      PROVE  /\ base'[f] <= version'[f]
             /\ filings'[f] # None => \A p \in Part : filings'[f].body[p] <= version'[f]
  <2>1. base'[f] <= version'[f]
    BY <1>0, <1>1 DEF BodyInv
  <2>2. CASE filings'[f] = filings[f]
    BY <1>0, <2>1, <2>2 DEF BodyInv
  <2>3. CASE pc = "store" /\ f = cur /\ filings'[f].body = draft
    BY <1>0, <2>1, <2>3 DEF BodyInv, HandInv
  <2> QED
    BY <2>1, <2>2, <2>3, FilingsStep
<1>3. ASSUME pc' \in {"fetch", "store"}
      PROVE  HandInv' /\ (pc' = "store" => page' = Pages + 1)
  <2>0. filings' = filings
    BY <1>3, FilingsStep
  <2>1. CASE ReadPage \/ PageEmpty \/ JoinPages
    BY <2>1, FetchHand
  <2>2. CASE NextFiling
    <3>1. /\ draft' = NoBody /\ page' = 1 /\ pc' = "fetch" /\ cur' \in Filing
          /\ version' = version
      BY <2>2 DEF NextFiling, BodyInv, TypeOK, body, source
    <3>2. \A p \in Page : p >= 1 /\ ~(p < 1) /\ p \in Part
      BY DartConstants, EmptyBody DEF Page
    <3>3. \A p \in Part : NoBody[p] = 0
      BY DEF NoBody
    <3>4. 0 \in Part
      BY DartConstants DEF Part
    <3> QED
      BY <1>0, <3>1, <3>2, <3>3, <3>4 DEF HandInv
  <2>3. CASE /\ pc \in {"fetch", "store"} /\ UNCHANGED <<pc, base, cur, draft, blank>>
             /\ page' = page \/ (page' = 1 /\ pc = "fetch")
    <3>1. HandInv /\ cur \in Filing
      BY <2>3 DEF BodyInv, TypeOK
    <3>2. \A p \in Part : draft'[p] <= version'[cur']
      BY <1>0, <2>3, <3>1 DEF HandInv
    <3>3. \A p \in Page : p >= page => p >= page'
      BY <2>3, DartConstants DEF Page, TypeOK
    <3> QED
      BY <2>0, <2>3, <3>1, <3>2, <3>3 DEF HandInv, Fresh, BodyInv
  <2> QED
    <3>1. \/ ReadPage \/ PageEmpty \/ JoinPages \/ NextFiling
          \/ /\ pc \in {"fetch", "store"} /\ UNCHANGED <<pc, base, cur, draft, blank>>
             /\ page' = page \/ (page' = 1 /\ pc = "fetch")
      BY <1>3 DEF vars, progress, loop, body, Next, Environment, RunStep, FaultStep, Publish,
         Amend, ChangeInfo, RunSeedScript, StartRun, StoreFiling, EndLoop, SeedEntity,
         FetchError, StoreError, SeedEntityError, RecordRun, Crash, Count, LeaveRun
    <3> QED
      BY <2>1, <2>2, <2>3, <3>1
<1>4. pc' \in {"idle", "next"} => draft' = NoBody /\ page' = 1
  <2>1. ASSUME pc' \in {"idle", "next"}
        PROVE  \/ draft' = NoBody /\ page' = 1
               \/ pc \in {"idle", "next"} /\ UNCHANGED <<draft, page>>
    BY <2>1 DEF vars, progress, loop, body, Next, Environment, RunStep, FaultStep, Publish,
       Amend, ChangeInfo, RunSeedScript, StartRun, NextFiling, ReadPage, PageEmpty, JoinPages,
       StoreFiling, EndLoop, SeedEntity, FetchError, StoreError, SeedEntityError, RecordRun,
       Crash, Count, LeaveRun
  <2> QED
    BY <2>1 DEF BodyInv
<1> QED
  BY <1>2, <1>3, <1>4 DEF BodyInv

------------------------------------------------------------------------------
(* How a step changes the outcomes: not at all, it clears them, or it counts *)
(* the filing in hand.                                                      *)
LEMMA OutcomeStep ==
  ASSUME TypeOK, [Next]_vars
  PROVE  \/ UNCHANGED <<listed, base, outcome>> /\ blank \subseteq blank'
         \/ pc' = "idle" /\ listed' = {} /\ \A f \in Filing : outcome'[f] = None
         \/ pc = "idle" /\ pc' = "next" /\ UNCHANGED outcome
         \/ /\ pc \in {"fetch", "store"} /\ pc' = "next" /\ cur \in listed
            /\ UNCHANGED <<listed, base, todo, blank>>
            /\ outcome'[cur] \in Outcome
            /\ outcome'[cur] # "failed" => StoreFiling
            /\ \A f \in Filing : f # cur => outcome'[f] = outcome[f]
<1>1. CASE RecordRun \/ Crash
  BY <1>1 DEF RecordRun, Crash, LeaveRun
<1>2. ASSUME NEW c \in CorpCode, StartRun(c)
      PROVE  pc = "idle" /\ pc' = "next" /\ UNCHANGED outcome
  BY <1>2 DEF StartRun
<1>3. CASE FetchError \/ StoreFiling \/ StoreError
  <2>1. /\ pc \in {"fetch", "store"} /\ cur \in listed /\ cur \in Filing
        /\ UNCHANGED <<listed, base, todo>>
    BY <1>3 DEF FetchError, StoreFiling, StoreError, TypeOK, progress
  <2>2. \/ UNCHANGED <<outcome, blank>>
        \/ Count("failed")
        \/ StoreFiling /\ (Count("inserted") \/ Count("updated") \/ Count("skipped"))
    BY <1>3 DEF FetchError, StoreFiling, StoreError, body
  <2> QED
    BY <2>1, <2>2 DEF Count, TypeOK, Outcome
<1>4. CASE \/ UNCHANGED vars \/ Environment \/ NextFiling \/ ReadPage \/ PageEmpty
           \/ JoinPages \/ EndLoop \/ SeedEntity \/ SeedEntityError
  BY <1>4 DEF vars, progress, loop, body, Environment, Publish, Amend, ChangeInfo,
     RunSeedScript,
     NextFiling, ReadPage, PageEmpty, JoinPages, EndLoop, SeedEntity, SeedEntityError
<1> QED
  BY <1>1, <1>2, <1>3, <1>4 DEF Next, RunStep, FaultStep

(* What StoreFiling counts as done is in the table with the body in hand.   *)
LEMMA StoredBody ==
  ASSUME TypeOK, StoreFiling, outcome'[cur] # "failed"
  PROVE  /\ pc = "store" /\ cur \in Filing
         /\ filings'[cur] # None /\ filings'[cur].body = draft
<1>1. cur \in Filing /\ pc = "store" /\ None \notin FilingRow
  BY DartConstants DEF StoreFiling, TypeOK
<1>2. outcome' = [outcome EXCEPT ![cur] = "failed"] => outcome'[cur] = "failed"
  BY <1>1 DEF TypeOK
<1>3. \/ filings[cur] # None /\ filings[cur].body = draft /\ UNCHANGED filings
      \/ filings' = [filings EXCEPT ![cur] = Written(cur)]
  BY <1>2 DEF StoreFiling, Count
<1> QED
  BY <1>1, <1>3, WrittenType DEF TypeOK

(* The counted filings stay at least as new as they were listed.            *)
LEMMA CountedNext == IInv /\ [Next]_vars => CountedIsCurrent' /\ IdleInv'
<1> SUFFICES ASSUME IInv, [Next]_vars PROVE CountedIsCurrent' /\ IdleInv'
  OBVIOUS
<1>0. TypeOK /\ BodyInv /\ listed \subseteq Filing /\ listed' \subseteq Filing
  BY TypeNext DEF IInv, TypeOK
<1>1. ASSUME NEW f \in listed', outcome'[f] \in Outcome \ {"failed"}
      PROVE  /\ filings'[f] # None
             /\ \A p \in Part : filings'[f].body[p] # 0 => filings'[f].body[p] >= base'[f]
             /\ f \notin blank' => \A p \in Page : filings'[f].body[p] >= base'[f]
  <2>1. CASE /\ filings'[f] = filings[f] /\ f \in listed /\ base' = base
             /\ outcome'[f] = outcome[f] /\ blank \subseteq blank'
    BY <1>1, <2>1 DEF IInv, CountedIsCurrent
  <2>2. CASE f = cur /\ StoreFiling
    <3>1. base' = base /\ blank' = blank
      BY <2>2 DEF StoreFiling, progress, Count
    <3>2. pc = "store" /\ cur \in Filing /\ filings'[cur] # None /\ filings'[cur].body = draft
      BY <1>0, <1>1, <2>2, StoredBody
    <3>3. HandInv /\ page = Pages + 1
      BY <1>0, <3>2 DEF BodyInv
    <3>4. \A p \in Page : Fresh(p) \/ (cur \in blank /\ draft[p] = 0)
      <4>1. \A p \in Page : ~(p >= page)
        BY <3>3, DartConstants DEF Page
      <4> QED
        BY <3>3, <4>1 DEF HandInv
    <3>5. \A p \in Part : draft[p] # 0 => draft[p] >= base[cur]
      <4>1. \A p \in Part : p = 0 \/ p \in Page
        BY DartConstants DEF Part, Page
      <4> QED
        BY <3>3, <3>4, <4>1 DEF HandInv, Fresh
    <3> QED
      BY <2>2, <3>1, <3>2, <3>4, <3>5 DEF Fresh
  <2>3. CASE pc = "idle" /\ UNCHANGED outcome
    BY <1>0, <1>1, <2>3, DartConstants DEF IInv, IdleInv
  <2>4. filings'[f] = filings[f] \/ (f = cur /\ StoreFiling)
    BY <1>0, FilingsStep
  <2>5. \/ f \in listed /\ base' = base /\ outcome'[f] = outcome[f] /\ blank \subseteq blank'
        \/ f = cur /\ StoreFiling
        \/ pc = "idle" /\ UNCHANGED outcome
    <3>1. f \in Filing
      BY <1>0
    <3> QED
      BY <1>0, <1>1, <3>1, OutcomeStep
  <2> QED
    BY <2>1, <2>2, <2>3, <2>4, <2>5
<1>2. IdleInv'
  <2>1. pc' = "idle" => \/ RecordRun \/ Crash
                        \/ pc = "idle" /\ UNCHANGED outcome
    BY DEF vars, progress, loop, body, Next, RunStep, FaultStep, Environment, Publish, Amend,
       ChangeInfo, RunSeedScript, StartRun, NextFiling, ReadPage, PageEmpty, JoinPages,
       StoreFiling, EndLoop,
       SeedEntity, SeedEntityError, FetchError, StoreError, Count
  <2> QED
    BY <2>1 DEF IInv, IdleInv, RecordRun, Crash, LeaveRun
<1> QED
  BY <1>1, <1>2 DEF CountedIsCurrent

(* A listed filing is visited before the loop ends.                         *)
LEMMA LoopNext == IInv /\ [Next]_vars => LoopInv'
<1> SUFFICES ASSUME IInv, [Next]_vars PROVE LoopInv'
  OBVIOUS
<1>0. TypeOK /\ LoopInv /\ None \notin Outcome /\ listed \subseteq Filing
  BY DartConstants DEF IInv, TypeOK
<1>1. ASSUME NEW c \in CorpCode, StartRun(c) PROVE LoopInv'
  BY <1>1 DEF StartRun, LoopInv
<1>2. CASE NextFiling
  BY <1>0, <1>2 DEF NextFiling, LoopInv, progress
<1>3. CASE ReadPage \/ PageEmpty \/ JoinPages \/ EndLoop \/ SeedEntity \/ SeedEntityError
  BY <1>0, <1>3 DEF ReadPage, PageEmpty, JoinPages, EndLoop, SeedEntity, SeedEntityError,
     LoopInv, progress, loop, body
<1>4. CASE StoreFiling \/ StoreError \/ FetchError
  <2>1. CASE UNCHANGED <<outcome, pc, cur, todo, listed>>
    BY <1>0, <2>1 DEF LoopInv
  <2>2. ASSUME NEW o \in Outcome, Count(o), UNCHANGED <<todo, listed>>,
               pc \in {"fetch", "store"}, cur \in Filing
        PROVE  LoopInv'
    BY <1>0, <2>2 DEF Count, LoopInv, TypeOK
  <2>3. pc \in {"fetch", "store"} /\ cur \in Filing /\ UNCHANGED <<todo, listed>>
    BY <1>0, <1>4 DEF StoreFiling, StoreError, FetchError, TypeOK, progress
  <2>4. \/ UNCHANGED <<outcome, pc, cur>>
        \/ Count("inserted") \/ Count("updated") \/ Count("skipped") \/ Count("failed")
    BY <1>4 DEF StoreFiling, StoreError, FetchError
  <2>5. {"inserted", "updated", "skipped", "failed"} \subseteq Outcome
    BY DEF Outcome
  <2> QED
    BY <2>1, <2>2, <2>3, <2>4, <2>5
<1>5. CASE RecordRun \/ Crash
  BY <1>5 DEF RecordRun, Crash, LeaveRun, LoopInv
<1>6. CASE UNCHANGED vars \/ Environment
  <2>1. UNCHANGED <<listed, todo, pc, cur, outcome>>
    BY <1>6 DEF vars, progress, loop, body, Environment, Publish, Amend, ChangeInfo,
       RunSeedScript
  <2> QED
    BY <1>0, <2>1 DEF LoopInv
<1> QED
  BY <1>1, <1>2, <1>3, <1>4, <1>5, <1>6 DEF Next, RunStep, FaultStep

(* Holders stay holders.                                                    *)
LEMMA HoldersGrow == [Next]_vars => holders \subseteq holders'
  BY DEF vars, Next, RunStep, FaultStep, Environment, Publish, Amend, ChangeInfo,
     RunSeedScript, UpsertEntity, StartRun, NextFiling, ReadPage, PageEmpty, JoinPages,
     StoreFiling, EndLoop,
     SeedEntity, SeedEntityError, FetchError, StoreError, RecordRun, Crash

(* A run that wrote something passes through upsert_entity or is warned.    *)
LEMMA SeedsNext == IInv /\ [Next]_vars => WriterSeeds'
<1> SUFFICES ASSUME IInv, [Next]_vars, pc' = "record", ~warned', about'.ticker # None,
                    \E f \in listed' : outcome'[f] \in {"inserted", "updated"}
             PROVE  corp' \in CorpCode /\ <<corp', about'.ticker>> \in holders'
  BY DEF WriterSeeds, ResolveTicker
<1>1. CASE SeedEntity
  <2>1. corp \in CorpCode /\ about.ticker \in Ticker /\ corp' = corp /\ about' = about
    BY <1>1 DEF IInv, TypeOK, EntityRow, SeedEntity, progress
  <2> QED
    BY <1>1, <2>1 DEF SeedEntity, UpsertEntity
<1>2. CASE EndLoop
  BY <1>2 DEF EndLoop, Wrote, progress, loop, body
<1>3. CASE SeedEntityError
  BY <1>3 DEF SeedEntityError
<1>4. CASE pc = "record" /\ UNCHANGED <<corp, about, listed, outcome, warned>>
  BY <1>4, HoldersGrow DEF IInv, WriterSeeds, ResolveTicker
<1>5. \/ SeedEntity \/ EndLoop \/ SeedEntityError
      \/ pc = "record" /\ UNCHANGED <<corp, about, listed, outcome, warned>>
  BY DEF vars, progress, loop, body, Next, RunStep, FaultStep, Environment, Publish, Amend,
     ChangeInfo, RunSeedScript, StartRun, NextFiling, ReadPage, PageEmpty, JoinPages,
     StoreFiling, RecordRun,
     FetchError, StoreError, Count, Crash, LeaveRun
<1> QED
  BY <1>1, <1>2, <1>3, <1>4, <1>5

(* Every step preserves the inductive invariant.                            *)
LEMMA IInvNext == IInv /\ [Next]_vars => IInv'
<1> SUFFICES ASSUME IInv, [Next]_vars PROVE IInv'
  OBVIOUS
<1>1. TypeOK' /\ BodyInv' /\ LoopInv' /\ IdleInv' /\ CountedIsCurrent' /\ WriterSeeds'
  BY TypeNext, BodyNext, LoopNext, CountedNext, SeedsNext DEF IInv
<1>2. EveryFilingAccounted'
  BY <1>1 DEF LoopInv, EveryFilingAccounted
<1> QED
  BY <1>1, <1>2 DEF IInv

(* IInv holds in every reachable state.                                     *)
LEMMA Inductive == Spec => []IInv
  BY IInvInit, IInvNext, PTL DEF Spec

(* TypeOK is an invariant of collect_dart, whatever DART publishes and      *)
(* whatever fails.                                                          *)
THEOREM TypeCorrect == Spec => []TypeOK
<1>1. IInv => TypeOK
  BY DEF IInv
<1> QED
  BY <1>1, Inductive, PTL

(* When the loop of collect_dart is over, every listed filing has an        *)
(* outcome, whichever of them failed.                                       *)
THEOREM NoFilingDropped == Spec => []EveryFilingAccounted
<1>1. IInv => EveryFilingAccounted
  BY DEF IInv
<1> QED
  BY <1>1, Inductive, PTL

(* A filing counted as inserted, updated or skipped is stored, each part of *)
(* its body at least as new as what DART served when it was listed, and no  *)
(* page is missing unless one came back empty, for any number of pages.     *)
THEOREM CountedFilingsCurrent == Spec => []CountedIsCurrent
<1>1. IInv => CountedIsCurrent
  BY DEF IInv
<1> QED
  BY <1>1, Inductive, PTL

(* upsert_dart_filing, fed by fetch_body page by page, with retries, never  *)
(* replaces a page by an older text, and drops one only in a run to which   *)
(* an empty page was served for this filing.                                *)
THEOREM BodiesNeverRegress == Spec => BodiesAdvance
<1> DEFINE Step == \A f \in Filing : filings[f] # None
                      => /\ filings'[f] # None
                         /\ \A p \in Page : \/ filings'[f].body[p] >= filings[f].body[p]
                                            \/ filings'[f].body[p] = 0 /\ f \in blank
<1>1. IInv /\ [Next]_vars => [Step]_vars
  BY BodiesStep DEF IInv
<1> QED
  BY <1>1, Inductive, PTL DEF Spec, BodiesAdvance

(* The Bug C gate of collect_dart: a run that wrote a filing and ends       *)
(* without a warning leaves the stock code of its corporation resolvable.   *)
THEOREM WritersSeedTheEntity == Spec => []WriterSeeds
<1>1. IInv => WriterSeeds
  BY DEF IInv
<1> QED
  BY <1>1, Inductive, PTL

=============================================================================
