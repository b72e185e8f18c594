----------------------------- MODULE NumericProofs -----------------------------
(***************************************************************************)
(* What TLAPS proves about the numeric facts, for texts and statements of    *)
(* any length and any limit on the candidates.                               *)
(***************************************************************************)
EXTENDS NumericFacts, FiniteSetTheorems, WellFoundedInduction, TLAPS

------------------------------------------------------------------------------
(* What _pick_value takes is the value of the row, and it takes 0 only when *)
(* the row has none. The newest period and the first other column exist     *)
(* because the columns are numbers below LastPeriod and their places are    *)
(* numbers.                                                                 *)
IsValue(columns, cells, i) ==
    \/ columns[i] = ValueColumn /\ cells[i] # "text"
    \/ /\ \A j \in DOMAIN columns : columns[j] # ValueColumn
       /\ cells[i] = "number"
       /\ \A j \in DOMAIN columns \ {i} :
             cells[j] = "number" =>
                \/ columns[j] < columns[i]
                \/ columns[j] = columns[i] /\ i < j

LEMMA LeastNumber ==
  ASSUME NEW T, T \subseteq Nat, T # {}
  PROVE  \E x \in T : \A y \in T : x <= y
  <1> DEFINE R == {ss \in Nat \X Nat : ss[1] < ss[2]}
  <1>1. IsWellFoundedOn(R, Nat)
    BY NatLessThanWellFounded DEF OpToRel
  <1>2. PICK x \in T : \A y \in T : ~ (<<y, x>> \in R)
    <2> HIDE DEF R
    <2> QED
      BY <1>1, WFMin, Zenon
  <1>3. \A y \in T : <<y, x>> \in Nat \X Nat /\ <<y, x>>[1] = y /\ <<y, x>>[2] = x
    OBVIOUS
  <1>4. \A y \in T : ~(y < x)
    BY <1>2, <1>3
  <1> QED
    BY <1>4

LEMMA NewestColumn ==
  ASSUME NEW columns \in Seq(Column), NEW T, T \subseteq DOMAIN columns, T # {}
  PROVE  \E i \in T : \A j \in T : columns[j] <= columns[i]
  <1> DEFINE ages == {LastPeriod - columns[i] : i \in T}
  <1>1. \A i \in T : columns[i] \in 0..LastPeriod
    <2>1. \A i \in DOMAIN columns : columns[i] \in Column
      OBVIOUS
    <2> QED
      BY <2>1 DEF Column
  <1>2. ages \subseteq Nat /\ ages # {}
    BY <1>1, NumericConstants
  <1>3. PICK x \in ages : \A y \in ages : x <= y
    <2> HIDE DEF ages
    <2> QED
      BY <1>2, LeastNumber
  <1>4. PICK i \in T : x = LastPeriod - columns[i]
    BY <1>3
  <1>5. \A j \in T : LastPeriod - columns[i] <= LastPeriod - columns[j]
    BY <1>3, <1>4
  <1> QED
    BY <1>1, <1>5, NumericConstants

LEMMA PickIsTheValue ==
  ASSUME NEW columns \in Seq(Column),
         \A i, j \in DOMAIN columns : columns[i] = columns[j] /\ columns[i] # OtherColumn => i = j,
         NEW cells \in [DOMAIN columns -> {"number", "nan", "text"}]
  PROVE  /\ \A i \in DOMAIN columns : IsValue(columns, cells, i) <=> Pick(columns, cells) = i
         /\ Pick(columns, cells) # 0 => Pick(columns, cells) \in DOMAIN columns
  <1> DEFINE valued  == {i \in DOMAIN columns : columns[i] = ValueColumn}
             numbers == {i \in DOMAIN columns : cells[i] = "number"}
             periods == {i \in numbers : columns[i] > OtherColumn}
  <1>1. DOMAIN columns \subseteq Nat \ {0} /\ \A i \in DOMAIN columns : columns[i] \in Nat
    BY NumericConstants DEF Column
  <1>2. CASE valued # {}
    <2>1. PICK v \in valued : v = CHOOSE i \in valued : TRUE
      BY <1>2
    <2>2. Pick(columns, cells) = IF cells[v] = "text" THEN 0 ELSE v
      BY <1>2, <2>1 DEF Pick
    <2>3. \A i \in DOMAIN columns : columns[i] = ValueColumn <=> i = v
      BY DEF ValueColumn, OtherColumn
    <2>4. \A i \in DOMAIN columns : IsValue(columns, cells, i) <=> i = v /\ cells[v] # "text"
      BY <2>3 DEF IsValue
    <2> QED
      BY <1>1, <2>2, <2>4
  <1>3. CASE valued = {} /\ periods # {}
    <2>1. PICK p \in periods : p = CHOOSE i \in periods : \A j \in periods : columns[j] <= columns[i]
      BY <1>3
    <2>2. \A j \in periods : columns[j] <= columns[p]
      BY <1>3, <2>1, NewestColumn
    <2>3. Pick(columns, cells) = p
      BY <1>3, <2>1 DEF Pick
    <2>4. columns[p] > OtherColumn
      OBVIOUS
    <2>5. \A j \in numbers \ {p} : columns[j] < columns[p]
      <3>1. ASSUME NEW j \in numbers \ {p} PROVE columns[j] < columns[p]
        <4>1. CASE j \in periods
          BY <1>1, <2>2, <2>4, <4>1 DEF OtherColumn
        <4>2. CASE j \notin periods
          BY <1>1, <2>4, <4>2 DEF OtherColumn
        <4> QED
          BY <4>1, <4>2
      <3> QED
        BY <3>1
    <2>6. IsValue(columns, cells, p)
      BY <1>3, <2>5 DEF IsValue
    <2>7. ASSUME NEW i \in DOMAIN columns, IsValue(columns, cells, i), i # p PROVE FALSE
      <3>1. i \in numbers \ {p}
        BY <1>3, <2>7 DEF IsValue
      <3>2. columns[p] < columns[i] \/ columns[p] = columns[i]
        BY <1>3, <2>7 DEF IsValue
      <3> QED
        BY <1>1, <2>5, <3>1, <3>2
    <2> QED
      BY <2>3, <2>6, <2>7
  <1>4. CASE valued = {} /\ periods = {} /\ numbers # {}
    <2>1. PICK f \in numbers : f = CHOOSE i \in numbers : \A j \in numbers : i <= j
      BY <1>4
    <2>2. \A j \in numbers : f <= j
      <3>1. numbers \subseteq Nat
        BY <1>1
      <3> QED
        BY <1>4, <2>1, <3>1, LeastNumber
    <2>3. Pick(columns, cells) = f
      BY <1>4, <2>1 DEF Pick
    <2>4. \A j \in numbers : columns[j] = OtherColumn
      BY <1>1, <1>4 DEF OtherColumn, ValueColumn
    <2>5. IsValue(columns, cells, f)
      BY <1>1, <1>4, <2>2, <2>4 DEF IsValue
    <2>6. ASSUME NEW i \in DOMAIN columns, IsValue(columns, cells, i), i # f PROVE FALSE
      <3>1. i \in numbers /\ columns[i] = columns[f] /\ columns[f] \in Nat
        BY <1>1, <1>4, <2>4, <2>6 DEF IsValue
      <3>2. i < f
        BY <1>4, <2>6, <3>1 DEF IsValue
      <3> QED
        BY <1>1, <2>2, <3>1, <3>2
    <2> QED
      BY <2>3, <2>5, <2>6
  <1>5. CASE valued = {} /\ numbers = {}
    <2>1. Pick(columns, cells) = 0
      BY <1>5 DEF Pick
    <2>2. \A i \in DOMAIN columns : ~IsValue(columns, cells, i)
      BY <1>5 DEF IsValue
    <2> QED
      BY <1>1, <2>1, <2>2
  <1> QED
    BY <1>2, <1>3, <1>4, <1>5

------------------------------------------------------------------------------
(* The statement. A row has the place <<sheet, row>>.                       *)
Places ==
    UNION {{s} \X DOMAIN statement[s].rows : s \in {t \in 1..4 : Readable(statement[t])}}

RowAt(p) == statement[p[1]].rows[p[2]]

ItemAt(p) == Item[RowAt(p).label]

ColumnsAt(p) == statement[p[1]].columns

Taken(p) == Pick(ColumnsAt(p), RowAt(p).cells)

Fact(p) == [item |-> ItemAt(p), value |-> <<p[1], p[2], Taken(p)>>]

Usable(p) == ItemAt(p) # None /\ Taken(p) # 0

Ahead(p, q) == p[1] < q[1] \/ (p[1] = q[1] /\ p[2] < q[2])

(* p is the first usable row of its item among those given.                 *)
First(p, among) ==
    Usable(p) /\ \A o \in among : ItemAt(o) = ItemAt(p) /\ Taken(o) # 0 => ~Ahead(o, p)

(* The rows behind the walk.                                                *)
Read == {p \in Places : p[1] < sheet \/ (p[1] = sheet /\ p[2] < row)}

Kept == {facts[i] : i \in DOMAIN facts}

WalkTypes ==
    /\ \A s \in 1..4 : statement[s] = None \/ SheetType(statement[s])
    /\ sheet \in 1..5 /\ row \in Nat \ {0}
    /\ sheet <= 4 /\ Readable(statement[sheet]) => row <= Len(statement[sheet].rows) + 1
    /\ facts \in Seq({Fact(p) : p \in Places})

(* The facts are those of the rows behind, and no item of theirs is missing.*)
FactsOfRead ==
    /\ Kept = {Fact(p) : p \in {q \in Read : First(q, Read)}}
    /\ \A q \in Read : Usable(q) => \E f \in Kept : f.item = ItemAt(q)
    /\ \A k, l \in DOMAIN facts : k < l => Ahead(facts[k].value, facts[l].value)

WalkInv == WalkTypes /\ FactsOfRead

LEMMA PlaceType ==
  ASSUME WalkTypes, NEW p \in Places
  PROVE  /\ p = <<p[1], p[2]>> /\ p[1] \in 1..4 /\ p[2] \in Nat \ {0}
         /\ Readable(statement[p[1]]) /\ p[2] \in 1..Len(statement[p[1]].rows)
  <1>1. PICK s \in 1..4 : Readable(statement[s]) /\ p \in {s} \X DOMAIN statement[s].rows
    BY DEF Places
  <1>2. statement[s].rows \in Seq(RowType(statement[s].columns))
    BY <1>1 DEF WalkTypes, Readable, SheetType
  <1>3. p = <<p[1], p[2]>> /\ p[1] = s /\ p[2] \in DOMAIN statement[s].rows
    BY <1>1
  <1> QED
    BY <1>1, <1>2, <1>3

LEMMA PlaceCells ==
  ASSUME WalkTypes, NEW p \in Places
  PROVE  /\ SheetType(statement[p[1]])
         /\ RowAt(p).cells \in [DOMAIN ColumnsAt(p) -> {"number", "nan", "text"}]
  <1>1. p[1] \in 1..4 /\ Readable(statement[p[1]]) /\ p[2] \in 1..Len(statement[p[1]].rows)
    BY PlaceType
  <1>2. SheetType(statement[p[1]])
    BY <1>1 DEF WalkTypes, Readable
  <1>3. RowAt(p) \in RowType(ColumnsAt(p))
    BY <1>1, <1>2 DEF SheetType, RowAt, ColumnsAt
  <1> QED
    BY <1>2, <1>3 DEF RowType

LEMMA WalkInit == Init => WalkInv
  <1> SUFFICES ASSUME Init PROVE WalkInv
    OBVIOUS
  <1>1. \A s \in 1..4 : statement[s] = None \/ SheetType(statement[s])
    BY NumericConstants DEF Init, None4
  <1>2. WalkTypes
    <2>1. sheet <= 4 /\ Readable(statement[sheet]) => row <= Len(statement[sheet].rows) + 1
      BY <1>1 DEF Init, StatementInit, Readable, SheetType
    <2> QED
      BY <1>1, <2>1 DEF Init, StatementInit, WalkTypes
  <1>3. Read = {}
    BY <1>2, PlaceType DEF Read, Init, StatementInit
  <1>4. Kept = {} /\ DOMAIN facts = {}
    BY DEF Kept, Init, StatementInit
  <1> QED
    BY <1>2, <1>3, <1>4 DEF WalkInv, FactsOfRead

(* The facts depend on the statement, the walk behind and nothing else.     *)
LEMMA WalkUnchanged ==
  ASSUME WalkInv, UNCHANGED statement, Read' = Read, facts' = facts, WalkTypes'
  PROVE  WalkInv'
  <1>1. Kept' = Kept
    BY DEF Kept
  <1>2. \A p : Usable(p)' = Usable(p) /\ ItemAt(p)' = ItemAt(p) /\ Fact(p)' = Fact(p)
    BY DEF Usable, ItemAt, Fact, Taken, RowAt, ColumnsAt
  <1>3. \A p : First(p, Read)' = First(p, Read)
    BY DEF First, Usable, ItemAt, Taken, RowAt, ColumnsAt
  <1> QED
    BY <1>1, <1>2, <1>3 DEF WalkInv, FactsOfRead, Ahead

LEMMA SkipSheetInv ==
  ASSUME WalkInv, SkipSheet
  PROVE  WalkInv'
  <1>1. Places' = Places /\ \A p : Fact(p)' = Fact(p)
    BY DEF SkipSheet, Places, Fact, ItemAt, Taken, RowAt, ColumnsAt
  <1>2. WalkTypes'
    <2>1. sheet' <= 4 /\ Readable(statement'[sheet']) => row' <= Len(statement'[sheet'].rows) + 1
      BY DEF SkipSheet, WalkInv, WalkTypes, Readable, SheetType
    <2> QED
      BY <1>1, <2>1 DEF SkipSheet, WalkInv, WalkTypes
  <1>3. ASSUME NEW p \in Places
        PROVE  (p[1] < sheet' \/ (p[1] = sheet' /\ p[2] < row'))
                 <=> (p[1] < sheet \/ (p[1] = sheet /\ p[2] < row))
    <2>1. p[1] \in 1..4 /\ p[2] \in Nat \ {0} /\ Readable(statement[p[1]])
          /\ p[2] \in 1..Len(statement[p[1]].rows)
      BY PlaceType DEF WalkInv
    <2>2. sheet' = sheet + 1 /\ row' = 1 /\ sheet \in 1..4
      BY DEF SkipSheet, WalkInv, WalkTypes
    <2>3. p[1] = sheet => p[2] < row
      <3>1. CASE p[1] = sheet
        <4>1. statement[sheet].rows \in Seq(RowType(statement[sheet].columns)) /\ row > Len(statement[sheet].rows)
          BY <2>1, <2>2, <3>1 DEF SkipSheet, WalkInv, WalkTypes, Readable, SheetType
        <4> QED
          BY <2>1, <3>1, <4>1 DEF WalkInv, WalkTypes
      <3> QED
        BY <3>1
    <2> QED
      BY <2>1, <2>2, <2>3
  <1>4. Read' = Read
    BY <1>1, <1>3 DEF Read
  <1> QED
    BY <1>2, <1>4, WalkUnchanged DEF SkipSheet

(* A fact more at the end is a fact more in the set.                        *)
LEMMA KeptAppend ==
  ASSUME NEW S, NEW f \in Seq(S), NEW x \in S
  PROVE  /\ f \o <<x>> \in Seq(S)
         /\ {(f \o <<x>>)[i] : i \in DOMAIN (f \o <<x>>)} = {f[i] : i \in DOMAIN f} \cup {x}
         /\ \A i, j \in DOMAIN (f \o <<x>>) : i < j =>
               /\ i \in DOMAIN f /\ (f \o <<x>>)[i] = f[i]
               /\ (f \o <<x>>)[j] = x \/ (j \in DOMAIN f /\ (f \o <<x>>)[j] = f[j])
  <1> DEFINE g == f \o <<x>>
  <1>1. g \in Seq(S) /\ Len(g) = Len(f) + 1 /\ Len(f) \in Nat
    OBVIOUS
  <1>2. \A i \in 1..Len(f) : g[i] = f[i]
    OBVIOUS
  <1>3. g[Len(f) + 1] = x
    OBVIOUS
  <1>4. DOMAIN g = DOMAIN f \cup {Len(f) + 1} /\ DOMAIN f = 1..Len(f)
    BY <1>1
  <1> HIDE DEF g
  <1>5. {g[i] : i \in DOMAIN g} = {f[i] : i \in DOMAIN f} \cup {x}
    BY <1>2, <1>3, <1>4
  <1>6. \A i, j \in DOMAIN g : i < j => /\ i \in DOMAIN f /\ g[i] = f[i]
                                        /\ g[j] = x \/ (j \in DOMAIN f /\ g[j] = f[j])
    BY <1>1, <1>2, <1>3, <1>4
  <1> QED
    BY <1>1, <1>5, <1>6 DEF g

LEMMA ReadRowInv ==
  ASSUME WalkInv, ReadRow
  PROVE  WalkInv'
  <1>0. PICK here : here = <<sheet, row>>
    OBVIOUS
  <1>1. /\ here \in Places /\ sheet \in 1..4 /\ row \in Nat \ {0}
        /\ statement[sheet].rows \in Seq(RowType(statement[sheet].columns)) /\ row <= Len(statement[sheet].rows)
    <2>1. sheet \in 1..4 /\ Readable(statement[sheet]) /\ row \in Nat \ {0}
          /\ row <= Len(statement[sheet].rows)
      BY DEF ReadRow, WalkInv, WalkTypes
    <2>2. statement[sheet].rows \in Seq(RowType(statement[sheet].columns))
      BY <2>1 DEF WalkInv, WalkTypes, Readable, SheetType
    <2> QED
      BY <1>0, <2>1, <2>2 DEF Places
  <1>2. /\ sheet' = sheet /\ row' = row + 1 /\ statement' = statement
        /\ facts' = facts \o (IF ItemAt(here) = None \/ Seen(ItemAt(here)) \/ Taken(here) = 0
                             THEN << >> ELSE <<Fact(here)>>)
    BY <1>0 DEF ReadRow, Yield, ItemAt, Taken, Fact, RowAt, ColumnsAt
  <1>3. /\ Places' = Places
        /\ \A p : Fact(p)' = Fact(p) /\ Usable(p)' = Usable(p) /\ ItemAt(p)' = ItemAt(p)
                 /\ Taken(p)' = Taken(p)
    BY <1>2 DEF Places, Fact, Usable, ItemAt, Taken, RowAt, ColumnsAt
  <1>4. Read' = Read \cup {here} /\ here \notin Read
    <2>1. ASSUME NEW p \in Places
          PROVE  (p[1] < sheet' \/ (p[1] = sheet' /\ p[2] < row'))
                   <=> (p[1] < sheet \/ (p[1] = sheet /\ p[2] < row) \/ p = here)
      <3>1. p = <<p[1], p[2]>> /\ p[1] \in 1..4 /\ p[2] \in Nat
        BY PlaceType DEF WalkInv
      <3>2. p = here <=> p[1] = sheet /\ p[2] = row
        BY <1>0, <3>1
      <3> QED
        BY <1>0, <1>1, <1>2, <3>1, <3>2
    <2> QED
      BY <1>0, <1>1, <1>3, <2>1 DEF Read
  <1>5. \A q \in Read : Ahead(q, here) /\ ~Ahead(here, q)
    <2>1. ASSUME NEW q \in Read PROVE Ahead(q, here) /\ ~Ahead(here, q)
      <3>1. q[1] \in 1..4 /\ q[2] \in Nat /\ (q[1] < sheet \/ (q[1] = sheet /\ q[2] < row))
        BY PlaceType DEF Read, WalkInv
      <3> QED
        BY <1>0, <1>1, <3>1 DEF Ahead
    <2> QED
      BY <2>1
  <1>6. \A q : First(q, Read)' <=> Usable(q) /\ \A o \in Read \cup {here} :
                                    ItemAt(o) = ItemAt(q) /\ Taken(o) # 0 => ~Ahead(o, q)
    BY <1>3, <1>4 DEF First, Ahead
  <1>7. \A q \in Read : First(q, Read)' <=> First(q, Read)
    BY <1>5, <1>6 DEF First
  <1>8. Seen(ItemAt(here)) <=> \E f \in Kept : f.item = ItemAt(here)
    BY DEF Seen, Kept
  <1>9. facts \in Seq({Fact(p) : p \in Places}) /\ Fact(here) \in {Fact(p) : p \in Places}
    BY <1>1 DEF WalkInv, WalkTypes
  <1>a. sheet' \in 1..5 /\ row' \in Nat \ {0}
        /\ row' <= Len(statement'[sheet'].rows) + 1
    BY <1>1, <1>2
  <1>10. CASE ItemAt(here) = None \/ Seen(ItemAt(here)) \/ Taken(here) = 0
    <2>1. facts' = facts
      BY <1>2, <1>9, <1>10
    <2>2. Kept' = Kept
      BY <2>1 DEF Kept
    <2>3. ~First(here, Read)'
      <3>1. ASSUME First(here, Read)' PROVE FALSE
        <4>1. Usable(here) /\ Seen(ItemAt(here))
          BY <1>6, <1>10, <3>1 DEF Usable
        <4>2. PICK q \in Read : First(q, Read) /\ Fact(q).item = ItemAt(here)
          BY <1>8, <4>1 DEF WalkInv, FactsOfRead
        <4>3. ItemAt(q) = ItemAt(here) /\ Taken(q) # 0
          BY <4>2 DEF First, Usable, Fact
        <4> QED
          BY <1>5, <1>6, <3>1, <4>3
      <3> QED
        BY <3>1
    <2>4. {q \in Read' : First(q, Read)'} = {q \in Read : First(q, Read)}
      BY <1>4, <1>7, <2>3
    <2>5. Kept' = {Fact(p)' : p \in {q \in Read' : First(q, Read)'}}
      BY <1>3, <2>2, <2>4 DEF WalkInv, FactsOfRead
    <2>6. \A q \in Read' : Usable(q)' => \E f \in Kept' : f.item = ItemAt(q)'
      BY <1>3, <1>4, <1>8, <1>10, <2>2 DEF WalkInv, FactsOfRead, Usable
    <2>7. WalkTypes'
      BY <1>2, <1>3, <1>9, <1>a, <2>1 DEF WalkInv, WalkTypes
    <2>8. \A k, l \in DOMAIN facts' : k < l => Ahead(facts'[k].value, facts'[l].value)
      BY <2>1 DEF WalkInv, FactsOfRead, Ahead
    <2> QED
      BY <2>5, <2>6, <2>7, <2>8 DEF WalkInv, FactsOfRead, Ahead
  <1>11. CASE ~(ItemAt(here) = None \/ Seen(ItemAt(here)) \/ Taken(here) = 0)
    <2>1. facts' = facts \o <<Fact(here)>>
      BY <1>2, <1>11
    <2>2. facts' \in Seq({Fact(p) : p \in Places}) /\ Kept' = Kept \cup {Fact(here)}
      BY <1>9, <2>1, KeptAppend DEF Kept
    <2>3. First(here, Read)'
      <3>1. Usable(here) /\ ~Ahead(here, here)
        BY <1>0, <1>1, <1>11 DEF Usable, Ahead
      <3>2. ASSUME NEW o \in Read, ItemAt(o) = ItemAt(here), Taken(o) # 0 PROVE FALSE
        BY <1>8, <1>11, <3>2 DEF WalkInv, FactsOfRead, Usable
      <3> QED
        BY <1>6, <3>1, <3>2
    <2>4. {q \in Read' : First(q, Read)'} = {q \in Read : First(q, Read)} \cup {here}
      BY <1>4, <1>7, <2>3
    <2>5. Kept' = {Fact(p)' : p \in {q \in Read' : First(q, Read)'}}
      BY <1>3, <2>2, <2>4 DEF WalkInv, FactsOfRead
    <2>6. \A q \in Read' : Usable(q)' => \E f \in Kept' : f.item = ItemAt(q)'
      <3>1. Fact(here).item = ItemAt(here)
        BY DEF Fact
      <3> QED
        BY <1>3, <1>4, <2>2, <3>1 DEF WalkInv, FactsOfRead
    <2>7. WalkTypes'
      BY <1>2, <1>3, <1>a, <2>2 DEF WalkInv, WalkTypes
    <2>8. ASSUME NEW k \in DOMAIN facts PROVE Ahead(facts[k].value, Fact(here).value)
      <3>1. PICK q \in Read : facts[k] = Fact(q)
        BY DEF WalkInv, FactsOfRead, Kept
      <3>2. Ahead(q, here)
        BY <1>5
      <3> QED
        BY <3>1, <3>2 DEF Ahead, Fact
    <2>9. ASSUME NEW k \in DOMAIN facts', NEW l \in DOMAIN facts', k < l
          PROVE  Ahead(facts'[k].value, facts'[l].value)
      <3>1. /\ k \in DOMAIN facts /\ facts'[k] = facts[k]
            /\ facts'[l] = Fact(here) \/ (l \in DOMAIN facts /\ facts'[l] = facts[l])
        BY <1>9, <2>1, <2>9, KeptAppend
      <3> QED
        BY <2>8, <2>9, <3>1 DEF WalkInv, FactsOfRead
    <2> QED
      BY <2>5, <2>6, <2>7, <2>9 DEF WalkInv, FactsOfRead, Ahead
  <1> QED
    BY <1>10, <1>11

LEMMA WalkNext == WalkInv /\ [Next]_<<textVars, statementVars>> => WalkInv'
  <1> SUFFICES ASSUME WalkInv, [Next]_<<textVars, statementVars>> PROVE WalkInv'
    OBVIOUS
  <1>1. CASE UNCHANGED statementVars
    <2>1. UNCHANGED <<statement, sheet, row, facts>>
      BY <1>1 DEF statementVars
    <2>2. Read' = Read /\ Places' = Places /\ \A p : Fact(p)' = Fact(p)
      BY <2>1 DEF Read, Places, Fact, ItemAt, Taken, RowAt, ColumnsAt
    <2>3. WalkTypes'
      BY <2>1, <2>2 DEF WalkInv, WalkTypes
    <2> QED
      BY <2>1, <2>2, <2>3, WalkUnchanged
  <1>2. Claim \/ Finish => UNCHANGED statementVars
    BY DEF Claim, Finish
  <1> QED
    BY <1>1, <1>2, SkipSheetInv, ReadRowInv DEF Next

(* The walk through the sheets keeps, of each line item, the value of the   *)
(* first row that names it and has one, whatever sheets, rows and columns a *)
(* statement has, and in the order of the sheets.                           *)
THEOREM FirstValueOfEachItem == Spec => []FirstValueKept
  <1>1. WalkInv => FirstValueKept
    <2> DEFINE Val(p, i) == IsValue(ColumnsAt(p), RowAt(p).cells, i)
               Hid(p) == \E q \in Places : /\ Ahead(q, p) /\ ItemAt(q) = ItemAt(p)
                                          /\ \E i \in DOMAIN ColumnsAt(q) : Val(q, i)
               Values(p) == {[item |-> ItemAt(p), value |-> <<p[1], p[2], i>>] :
                                i \in {j \in DOMAIN ColumnsAt(p) : Val(p, j)}}
    <2> SUFFICES ASSUME WalkInv, sheet > 4
                 PROVE  /\ Kept = UNION {Values(p) : p \in {q \in Places : ItemAt(q) # None /\ ~Hid(q)}}
                        /\ \A k, l \in DOMAIN facts : k < l => Ahead(facts[k].value, facts[l].value)
      BY DEF FirstValueKept, Kept, ItemAt, ColumnsAt, RowAt, Places, Ahead, IsValue
    <2>1. Read = Places
      <3>1. ASSUME NEW p \in Places PROVE p[1] < sheet
        <4>1. p[1] \in 1..4
          BY PlaceType DEF WalkInv
        <4>2. sheet = 5
          BY DEF WalkInv, WalkTypes
        <4> QED
          BY <4>1, <4>2
      <3> QED
        BY <3>1 DEF Read
    <2>2. ASSUME NEW p \in Places
          PROVE  /\ \A i \in DOMAIN ColumnsAt(p) : Val(p, i) <=> Taken(p) = i
                 /\ Taken(p) # 0 <=> \E i \in DOMAIN ColumnsAt(p) : Val(p, i)
      <3>1. /\ SheetType(statement[p[1]])
            /\ RowAt(p).cells \in [DOMAIN ColumnsAt(p) -> {"number", "nan", "text"}]
        BY PlaceCells DEF WalkInv
      <3>2. /\ \A i \in DOMAIN ColumnsAt(p) : Val(p, i) <=> Taken(p) = i
            /\ Taken(p) # 0 => Taken(p) \in DOMAIN ColumnsAt(p)
        BY <3>1, PickIsTheValue DEF SheetType, ColumnsAt, Taken
      <3>3. 0 \notin DOMAIN ColumnsAt(p)
        BY <3>1 DEF SheetType, ColumnsAt
      <3> QED
        BY <3>2, <3>3
    <2> HIDE DEF Val
    <2>3. \A p \in Places : ItemAt(p) # None /\ ~Hid(p) /\ Taken(p) # 0 <=> First(p, Places)
      BY <2>2 DEF First, Usable
    <2>4. \A p \in Places : Values(p) = IF Taken(p) = 0 THEN {} ELSE {Fact(p)}
      <3>1. ASSUME NEW p \in Places PROVE Values(p) = IF Taken(p) = 0 THEN {} ELSE {Fact(p)}
        <4>1. CASE Taken(p) = 0
          BY <2>2, <4>1
        <4>2. CASE Taken(p) # 0
          <5>1. {j \in DOMAIN ColumnsAt(p) : Val(p, j)} = {Taken(p)}
            BY <2>2, <4>2
          <5> QED
            BY <4>2, <5>1 DEF Fact
        <4> QED
          BY <4>1, <4>2
      <3> QED
        BY <3>1
    <2>5. Kept = {Fact(p) : p \in {q \in Places : First(q, Places)}}
      BY <2>1 DEF WalkInv, FactsOfRead
    <2> HIDE DEF Values, Hid
    <2>6. \A p \in {q \in Places : ItemAt(q) # None /\ ~Hid(q)} :
             Values(p) = IF First(p, Places) THEN {Fact(p)} ELSE {}
      BY <2>3, <2>4
    <2>7. {Fact(p) : p \in {q \in Places : First(q, Places)}}
             = UNION {Values(p) : p \in {q \in Places : ItemAt(q) # None /\ ~Hid(q)}}
      BY <2>3, <2>6
    <2> QED
      BY <2>5, <2>7 DEF WalkInv, FactsOfRead
  <1> QED
    BY <1>1, WalkInit, WalkNext, PTL DEF Spec

------------------------------------------------------------------------------
(* The text. What matters of the patterns: a match begins with a number, the *)
(* two compound amounts have another at their third token, and the second    *)
(* word tells the pattern, but for a compound amount and its beginning.      *)
Words(k) == Patterns[k].words

Size(k) == Len(Words(k))

M(k) == Matches(Patterns[k])

Alike(k) == IF k \in {1, 3} THEN {1, 3} ELSE IF k \in {2, 5} THEN {2, 5} ELSE {k}

LEMMA PatternCount == DOMAIN Patterns = 1..15 /\ Len(Patterns) = 15
  BY DEF Patterns

LEMMA OneOfFifteen ==
  \A k \in 1..15 :
     k = 1 \/ k = 2 \/ k = 3 \/ k = 4 \/ k = 5 \/ k = 6 \/ k = 7 \/ k = 8
     \/ k = 9 \/ k = 10 \/ k = 11 \/ k = 12 \/ k = 13 \/ k = 14 \/ k = 15
  OBVIOUS

LEMMA EachPattern ==
  /\ Words(1) = <<"n", "jo", "n", "eok">>
  /\ Words(2) = <<"n", "eok", "n", "man">>
  /\ Words(3) = <<"n", "jo">>
  /\ Words(4) = <<"n", "baekman", "won">>
  /\ Words(5) = <<"n", "eok">>
  /\ Words(6) = <<"n", "man", "ju">>
  /\ Words(7) = <<"n", "ju">>
  /\ Words(8) = <<"n", "won">>
  /\ Words(9) = <<"n", "point">>
  /\ Words(10) = <<"n", "dollar">>
  /\ Words(11) = <<"n", "yen">>
  /\ Words(12) = <<"n", "euro">>
  /\ Words(13) = <<"n", "bps">>
  /\ Words(14) = <<"n", "times">>
  /\ Words(15) = <<"n", "%">>
  BY DEF Words, Patterns, P

LEMMA PatternWords ==
  ASSUME NEW k \in 1..15
  PROVE  /\ Size(k) \in 2..4
         /\ Words(k)[1] = "n" /\ Words(k)[2] # "n"
         /\ k \in {1, 2} => Size(k) = 4 /\ Words(k)[3] = "n"
         /\ k = 1 => Words(k)[4] = "eok"
         /\ k = 2 => Words(k)[4] = "man"
         /\ k \notin {1, 2} => Size(k) \in 2..3
         /\ k \in {3, 5} => Size(k) = 2
         /\ k \notin {1, 2} /\ Size(k) = 3 => Words(k)[3] # "n"
         /\ k = 6 => Size(k) = 3 /\ Words(k)[3] = "ju"
  <1>1. /\ k \in {1, 2} => Size(k) = 4
        /\ k \notin {1, 2} => Size(k) \in 2..3
    <2>1. k \in {1, 2} => Size(k) = 4
      BY EachPattern DEF Size
    <2>2. k \in {4, 6} => Size(k) = 3
      BY EachPattern DEF Size
    <2>3. k \in {3, 5, 7, 8, 9} => Size(k) = 2
      BY EachPattern DEF Size
    <2>4. k \in {10, 11, 12, 13, 14, 15} => Size(k) = 2
      BY EachPattern DEF Size
    <2> QED
      BY <2>1, <2>2, <2>3, <2>4, OneOfFifteen
  <1>2. Words(k)[1] = "n" /\ Words(k)[2] # "n"
    BY EachPattern, OneOfFifteen
  <1>3. k \notin {1, 2} /\ Size(k) = 3 => Words(k)[3] # "n"
    BY EachPattern, OneOfFifteen DEF Size
  <1>4. /\ k \in {1, 2} => Size(k) = 4 /\ Words(k)[3] = "n"
        /\ k = 1 => Words(k)[4] = "eok"
        /\ k = 2 => Words(k)[4] = "man"
    BY EachPattern DEF Size
  <1>5. /\ k \in {3, 5} => Size(k) = 2
        /\ k = 6 => Size(k) = 3 /\ Words(k)[3] = "ju"
    BY EachPattern DEF Size
  <1> QED
    BY <1>1, <1>2, <1>3, <1>4, <1>5

LEMMA SecondWord ==
  ASSUME NEW k \in 1..15
  PROVE  /\ Words(k)[2] = "eok" => k \in {2, 5}
         /\ Words(k)[2] = "man" => k = 6
         /\ \A j \in 1..15 : Words(j)[2] = Words(k)[2] => j \in Alike(k)
  <1>1. /\ Words(k)[2] = "eok" => k \in {2, 5}
        /\ Words(k)[2] = "man" => k = 6
    BY EachPattern, OneOfFifteen
  <1>2. ASSUME NEW j \in 1..15, Words(j)[2] = Words(k)[2] PROVE j \in Alike(k)
    BY <1>2, EachPattern, OneOfFifteen DEF Alike
  <1> QED
    BY <1>1, <1>2

TextTypes == body \in Seq(STRING) /\ pattern \in 1..16

(* A span carries the words of its pattern, and a currency word or not.     *)
LEMMA SpanOf ==
  ASSUME TextTypes, NEW k \in 1..15, NEW m \in M(k)
  PROVE  /\ m.from \in Nat \ {0} /\ m.from \in DOMAIN body /\ m.to \in Nat
         /\ \A t \in 1..4 : t <= Size(k) => body[m.from + t - 1] = Words(k)[t]
         /\ \/ m.to = m.from + Size(k)
            \/ m.to = m.from + Size(k) + 1 /\ body[m.from + Size(k)] = "won"
  <1> DEFINE n == Size(k)
  <1>1. n \in 2..4 /\ n = Len(Patterns[k].words)
    BY PatternWords DEF Size, Words
  <1>2. PICK i \in DOMAIN body :
          /\ i + Len(Patterns[k].words) - 1 <= Len(body)
          /\ SubSeq(body, i, i + Len(Patterns[k].words) - 1) = Patterns[k].words
          /\ m.from = i
          /\ \/ m.to = i + Len(Patterns[k].words)
             \/ /\ m.to = i + Len(Patterns[k].words) + 1
                /\ body[i + Len(Patterns[k].words)] = "won"
    BY DEF M, Matches
  <1>3. /\ i + n - 1 <= Len(body) /\ SubSeq(body, i, i + n - 1) = Words(k)
        /\ m.to = i + n \/ (m.to = i + n + 1 /\ body[i + n] = "won")
    BY <1>1, <1>2 DEF Words
  <1> HIDE DEF n
  <1>4. i \in Nat \ {0} /\ i \in 1..Len(body) /\ Len(body) \in Nat
    BY DEF TextTypes
  <1>5. ASSUME NEW t \in 1..4, t <= n PROVE body[i + t - 1] = Words(k)[t]
    <2>1. t \in 1..n
      BY <1>1, <1>5
    <2>2. SubSeq(body, i, i + n - 1)[t] = body[i + t - 1]
      BY <1>1, <1>3, <1>4, <2>1 DEF TextTypes
    <2> QED
      BY <1>3, <2>2
  <1>6. m.from \in Nat \ {0} /\ m.from \in DOMAIN body /\ m.to \in Nat
    BY <1>1, <1>2, <1>3, <1>4
  <1>7. m.to = m.from + n \/ (m.to = m.from + n + 1 /\ body[m.from + n] = "won")
    BY <1>2, <1>3
  <1>8. \A t \in 1..4 : t <= n => body[m.from + t - 1] = Words(k)[t]
    BY <1>2, <1>5
  <1> QED
    BY <1>6, <1>7, <1>8 DEF n

(* No two matches of a pattern begin at one place.                          *)
LEMMA SameFrom ==
  ASSUME NEW k \in 1..15, NEW a \in M(k), NEW b \in M(k), a.from = b.from
  PROVE  a = b
  BY DEF M, Matches

(* Where a match can begin inside another one.                              *)
LEMMA StartsInside ==
  ASSUME TextTypes, NEW j \in 1..15, NEW k \in 1..15, NEW c \in M(j), NEW m \in M(k),
         m.from <= c.from, c.from < m.to
  PROVE  \/ c.from = m.from /\ j \in Alike(k)
         \/ c.from = m.from + 2 /\ k = 1 /\ j \in {2, 5}
         \/ c.from = m.from + 2 /\ k = 2 /\ j = 6
  <1> DEFINE n == Size(k)
  <1>1. n \in 2..4 /\ (k \in {1, 2} => n = 4) /\ (k \notin {1, 2} => n \in 2..3)
    BY PatternWords
  <1>2. Size(j) \in 2..4
    BY PatternWords
  <1>3. /\ c.from \in Nat /\ m.from \in Nat
        /\ body[c.from] = "n" /\ body[c.from + 1] = Words(j)[2]
    <2>1. body[c.from + 1 - 1] = "n" /\ body[c.from + 2 - 1] = Words(j)[2] /\ c.from \in Nat
      BY <1>2, SpanOf, PatternWords
    <2>2. m.from \in Nat
      BY SpanOf
    <2> QED
      BY <2>1, <2>2
  <1>4. \A t \in 1..4 : t <= n => body[m.from + t - 1] = Words(k)[t]
    BY SpanOf
  <1>5. m.to = m.from + n \/ (m.to = m.from + n + 1 /\ body[m.from + n] = "won")
    BY SpanOf
  <1>a. n = 3 /\ k \notin {1, 2} => Words(k)[3] # "n"
    BY PatternWords
  <1> HIDE DEF n
  <1>6. CASE c.from = m.from
    <2>1. body[m.from + 2 - 1] = Words(k)[2]
      BY <1>1, <1>4
    <2>2. Words(j)[2] = Words(k)[2]
      BY <1>3, <1>6, <2>1
    <2> QED
      BY <1>6, <2>2, SecondWord
  <1>7. CASE c.from = m.from + 1
    <2>1. body[m.from + 2 - 1] = Words(k)[2] /\ Words(k)[2] # "n"
      BY <1>1, <1>4, PatternWords
    <2> QED
      BY <1>3, <1>7, <2>1
  <1>8. CASE c.from = m.from + 2 /\ k \in {1, 2}
    <2>1. n = 4
      BY <1>1, <1>8
    <2>2. body[m.from + 4 - 1] = Words(k)[4]
      BY <1>4, <2>1
    <2>3. Words(j)[2] = Words(k)[4]
      BY <1>3, <1>8, <2>2
    <2> QED
      BY <1>8, <2>3, SecondWord, PatternWords
  <1>9. CASE c.from = m.from + 2 /\ k \notin {1, 2}
    <2>1. CASE n = 2
      BY <1>3, <1>5, <1>9, <2>1
    <2>2. CASE n = 3
      <3>1. body[m.from + 3 - 1] = Words(k)[3] /\ Words(k)[3] # "n"
        BY <1>4, <1>9, <1>a, <2>2
      <3> QED
        BY <1>3, <1>9, <3>1
    <2> QED
      BY <1>1, <1>9, <2>1, <2>2
  <1>10. CASE c.from > m.from + 2
    <2>1. CASE k \in {1, 2}
      <3>1. n = 4
        BY <1>1, <2>1
      <3>2. body[m.from + 4 - 1] = Words(k)[4] /\ Words(k)[4] # "n"
        BY <1>4, <2>1, <3>1, PatternWords
      <3>3. c.from = m.from + 3 \/ (c.from = m.from + 4 /\ body[m.from + 4] = "won")
        BY <1>3, <1>5, <1>10, <3>1
      <3> QED
        BY <1>3, <3>2, <3>3
    <2>2. CASE k \notin {1, 2}
      <3>1. n \in 2..3
        BY <1>1, <2>2
      <3>2. c.from = m.from + 3 /\ body[m.from + 3] = "won"
        BY <1>3, <1>5, <1>10, <3>1
      <3> QED
        BY <1>3, <3>2
    <2> QED
      BY <2>1, <2>2
  <1> QED
    BY <1>3, <1>6, <1>7, <1>8, <1>9, <1>10

Inside(c, m) == m.from <= c.from /\ c.to <= m.to /\ m.to - m.from > c.to - c.from

(* Matches of one pattern do not overlap.                                   *)
LEMMA OnePattern ==
  ASSUME TextTypes, NEW k \in 1..15, NEW a \in M(k), NEW b \in M(k), Overlap(a, b)
  PROVE  a = b
  <1>1. a.from \in Nat /\ b.from \in Nat
    BY SpanOf
  <1>2. a.from = b.from
    <2>1. CASE a.from <= b.from
      BY <1>1, <2>1, StartsInside DEF Overlap
    <2>2. CASE b.from <= a.from
      BY <1>1, <2>2, StartsInside DEF Overlap
    <2> QED
      BY <1>1, <2>1, <2>2
  <1> QED
    BY <1>2, SameFrom

(* Only the parts of a compound amount are matches inside a longer one.     *)
LEMMA OnlyParts ==
  ASSUME TextTypes, NEW j \in 1..15, NEW k \in 1..15, NEW c \in M(j), NEW m \in M(k), Inside(c, m)
  PROVE  /\ Overlap(c, m)
         /\ (k = 1 /\ j \in {3, 5}) \/ (k = 2 /\ j = 5 /\ c.from = m.from)
  <1> DEFINE l == Size(j)
             n == Size(k)
  <1>1. l \in 2..4 /\ n \in 2..4
    BY PatternWords
  <1>2. /\ c.from \in Nat /\ m.from \in Nat
        /\ c.to = c.from + l \/ c.to = c.from + l + 1
        /\ m.to = m.from + n \/ (m.to = m.from + n + 1 /\ body[m.from + n] = "won")
    BY SpanOf
  <1>3. j = 6 => l = 3 /\ body[c.from + 2] = "ju"
    <2>1. j = 6 => l = 3 /\ Words(j)[3] = "ju"
      BY PatternWords
    <2>2. j = 6 => body[c.from + 3 - 1] = Words(j)[3]
      BY <2>1, SpanOf
    <2> QED
      BY <1>2, <2>1, <2>2
  <1>4. (k \in {1, 2} => n = 4) /\ (k \in {3, 5} => n = 2) /\ (j \in {1, 2} => l = 4)
    BY PatternWords
  <1> HIDE DEF l, n
  <1>5. m.from <= c.from /\ c.from < m.to /\ Overlap(c, m)
    BY <1>1, <1>2 DEF Inside, Overlap
  <1>6. CASE c.from = m.from /\ j \in Alike(k)
    <2>1. j # k
      <3>1. ASSUME j = k PROVE FALSE
        <4>1. c = m
          BY <1>6, <3>1, SameFrom
        <4>2. m.from \in Nat /\ m.to \in Nat
          BY SpanOf
        <4> QED
          BY <4>1, <4>2 DEF Inside
      <3> QED
        BY <3>1
    <2>2. \/ (k = 1 /\ j = 3) \/ (k = 2 /\ j = 5)
          \/ (k = 3 /\ j = 1) \/ (k = 5 /\ j = 2)
      BY <1>6, <2>1 DEF Alike
    <2>3. ~(k \in {3, 5} /\ j \in {1, 2})
      BY <1>2, <1>4, <1>6 DEF Inside
    <2> QED
      BY <1>5, <1>6, <2>2, <2>3
  <1>7. CASE c.from = m.from + 2 /\ k = 1 /\ j \in {2, 5}
    <2>1. j # 2
      BY <1>2, <1>4, <1>7 DEF Inside
    <2> QED
      BY <1>5, <1>7, <2>1
  <1>8. CASE c.from = m.from + 2 /\ k = 2 /\ j = 6
    <2>1. m.to = m.from + 5 /\ body[m.from + 4] = "won"
      BY <1>2, <1>3, <1>4, <1>8 DEF Inside
    <2>2. body[m.from + 4] = "ju"
      BY <1>2, <1>3, <1>8
    <2> QED
      BY <2>1, <2>2
  <1> QED
    BY <1>5, <1>6, <1>7, <1>8, StartsInside

------------------------------------------------------------------------------
(* The spans claimed by the patterns tried so far. The compound amounts come *)
(* first, so whatever begins or ends one finds its place taken.             *)
ClaimInv ==
    /\ IsFiniteSet(claimed)
    /\ \A a \in claimed : \E k \in 1..15 : k < pattern /\ a \in M(k)
    /\ \A a, b \in claimed : Overlap(a, b) => a = b
    /\ \A k \in 1..15 : k < pattern => \A m \in M(k) : \E a \in claimed : Overlap(a, m)
    /\ \A a \in claimed : \A k \in 1..15 : \A m \in M(k) : ~Inside(a, m)
    /\ pattern > 1 => M(1) \subseteq claimed
    /\ pattern > 2 => \A m \in M(2), c \in M(5) : Inside(c, m) => \E a \in claimed : Overlap(c, a)

LEMMA MatchesFinite ==
  ASSUME TextTypes, NEW k \in 1..15
  PROVE  IsFiniteSet(M(k))
  <1>1. IsFiniteSet(DOMAIN body)
    BY FS_Interval DEF TextTypes
  <1> DEFINE start == [m \in M(k) |-> m.from]
  <1>2. start \in Injection(M(k), DOMAIN body)
    <2>1. start \in [M(k) -> DOMAIN body]
      BY SpanOf
    <2>2. \A a, b \in M(k) : start[a] = start[b] => a = b
      BY SameFrom
    <2> QED
      BY <2>1, <2>2 DEF Injection, IsInjective
  <1> QED
    BY <1>1, <1>2, FS_Injection

LEMMA TextInitInv == Init => TextTypes /\ ClaimInv
  <1> SUFFICES ASSUME Init PROVE TextTypes /\ ClaimInv
    OBVIOUS
  <1>1. TextTypes
    <2>1. body \in Body \/ body = << >>
      BY DEF Init
    <2>2. body \in Seq(STRING)
      <3>1. CASE body \in Body
        BY <3>1, NumericConstants
      <3>2. CASE body = << >>
        BY <3>2
      <3> QED
        BY <2>1, <3>1, <3>2
    <2> QED
      BY <2>2 DEF Init, TextInit, TextTypes
  <1> QED
    BY <1>1, FS_EmptySet DEF Init, TextInit, ClaimInv

LEMMA ClaimStep ==
  ASSUME TextTypes, ClaimInv, Claim
  PROVE  (TextTypes /\ ClaimInv)'
  <1> DEFINE new == {m \in M(pattern) : \A c \in claimed : ~Overlap(m, c)}
  <1>1. /\ pattern \in 1..15 /\ pattern' = pattern + 1 /\ body' = body
        /\ claimed' = claimed \cup new
    BY PatternCount DEF Claim, TextTypes, M
  <1>2. \A k : M(k)' = M(k)
    BY <1>1 DEF M, Matches
  <1>3. TextTypes'
    BY <1>1 DEF TextTypes
  <1>4. IsFiniteSet(claimed')
    <2>1. IsFiniteSet(new)
      BY <1>1, MatchesFinite, FS_Subset
    <2> QED
      BY <1>1, <2>1, FS_Union DEF ClaimInv
  <1>5. \A a \in claimed' : \E k \in 1..15 : k < pattern' /\ a \in M(k)
    <2>1. \A a \in claimed : \E k \in 1..15 : k < pattern' /\ a \in M(k)
      BY <1>1 DEF ClaimInv
    <2>2. pattern < pattern'
      BY <1>1
    <2> QED
      BY <1>1, <2>1, <2>2
  <1>6. \A a, b \in claimed' : Overlap(a, b) => a = b
    <2>1. \A a, b \in new : Overlap(a, b) => a = b
      BY <1>1, OnePattern
    <2>2. \A a \in claimed, b \in new : ~Overlap(a, b) /\ ~Overlap(b, a)
      BY DEF Overlap
    <2> QED
      BY <1>1, <2>1, <2>2 DEF ClaimInv
  <1>7. \A k \in 1..15 : k < pattern' => \A m \in M(k) : \E a \in claimed' : Overlap(a, m)
    <2>1. ASSUME NEW m \in M(pattern) PROVE \E a \in claimed' : Overlap(a, m)
      <3>1. Overlap(m, m)
        <4>1. Size(pattern) \in 2..4
          BY <1>1, PatternWords
        <4>2. m.from \in Nat /\ m.to > m.from
          BY <1>1, <4>1, SpanOf
        <4> QED
          BY <4>2 DEF Overlap
      <3> QED
        BY <1>1, <3>1 DEF Overlap
    <2>2. \A k \in 1..15 : k < pattern' <=> k < pattern \/ k = pattern
      BY <1>1
    <2> QED
      BY <1>1, <2>1, <2>2 DEF ClaimInv
  <1>8. \A a \in claimed' : \A k \in 1..15 : \A m \in M(k) : ~Inside(a, m)
    <2>1. ASSUME NEW a \in new, NEW k \in 1..15, NEW m \in M(k), Inside(a, m) PROVE FALSE
      <3>1. /\ Overlap(a, m)
            /\ (k = 1 /\ pattern \in {3, 5}) \/ (k = 2 /\ pattern = 5)
        BY <1>1, <2>1, OnlyParts
      <3> QED
        BY <2>1, <3>1 DEF ClaimInv
    <2> QED
      BY <1>1, <2>1 DEF ClaimInv
  <1>9. pattern' > 1 => M(1) \subseteq claimed'
    BY <1>1 DEF ClaimInv, TextTypes
  <1>10. ASSUME pattern' > 2, NEW m \in M(2), NEW c \in M(5), Inside(c, m)
         PROVE  \E a \in claimed' : Overlap(c, a)
    <2>1. CASE pattern > 2
      BY <1>1, <1>10, <2>1 DEF ClaimInv
    <2>2. CASE pattern = 2
      <3>1. Overlap(c, m) /\ c.from = m.from
        BY <1>10, OnlyParts
      <3>2. CASE m \in new
        BY <1>1, <3>1, <3>2
      <3>3. CASE m \notin new
        <4>1. PICK b \in claimed : Overlap(m, b)
          BY <2>2, <3>3
        <4>2. b \in M(1)
          BY <2>2 DEF ClaimInv
        <4>3. /\ Size(1) = 4 /\ Size(5) = 2
          BY PatternWords
        <4>4. /\ b.from \in Nat /\ m.from \in Nat /\ c.from \in Nat
              /\ b.to >= b.from + 4 /\ c.to >= c.from + 2
          BY <4>2, <4>3, SpanOf
        <4>5. m.from = b.from + 2
          <5>1. CASE b.from <= m.from
            BY <4>1, <4>2, <5>1, StartsInside DEF Overlap, Alike
          <5>2. CASE m.from <= b.from
            BY <4>1, <4>2, <5>2, StartsInside DEF Overlap, Alike
          <5> QED
            BY <4>4, <5>1, <5>2
        <4>6. b.to \in Nat /\ c.to \in Nat
          BY <4>2, SpanOf
        <4>7. Overlap(c, b)
          BY <3>1, <4>4, <4>5, <4>6 DEF Overlap
        <4> QED
          BY <1>1, <4>7
      <3> QED
        BY <3>2, <3>3
    <2> QED
      BY <1>1, <1>10, <2>1, <2>2
  <1> HIDE DEF new
  <1>11. ClaimInv'
    <2>1. \A a, b : Overlap(a, b)' = Overlap(a, b) /\ Inside(a, b)' = Inside(a, b)
      BY DEF Overlap, Inside
    <2> QED
      BY <1>2, <1>4, <1>5, <1>6, <1>7, <1>8, <1>9, <1>10 DEF ClaimInv, Overlap, Inside
  <1> QED
    BY <1>3, <1>11

------------------------------------------------------------------------------
(* A set without overlaps that is put in order by offset has all its spans  *)
(* in the sequence, each behind the end of the one before.                  *)
LEMMA SortedSpans ==
  ASSUME NEW S, IsFiniteSet(S),
         \A a \in S : a.from \in Nat /\ a.to \in Nat /\ a.from < a.to,
         \A a, b \in S : Overlap(a, b) => a = b,
         NEW sorted \in SetToSeqs(S),
         \A i, j \in DOMAIN sorted : i < j => sorted[i].from < sorted[j].from
  PROVE  /\ sorted \in Seq(S)
         /\ \A a \in S : \E i \in DOMAIN sorted : sorted[i] = a
         /\ \A i, j \in DOMAIN sorted : i < j => sorted[i].to <= sorted[j].from
  <1> DEFINE n == Cardinality(S)
  <1>1. n \in Nat
    BY FS_CardinalityType
  <1>2. sorted \in [1..n -> S] /\ \A i, j \in 1..n : i # j => sorted[i] # sorted[j]
    BY DEF SetToSeqs
  <1>3. sorted \in Surjection(1..n, S)
    <2>1. sorted \in Injection(1..n, S)
      BY <1>2 DEF Injection, IsInjective
    <2>2. Cardinality(1..n) = n
      BY <1>1, FS_Interval
    <2> HIDE DEF n
    <2>3. Cardinality(S) = n
      BY DEF n
    <2> QED
      BY <2>1, <2>2, <2>3, FS_Injection
  <1> HIDE DEF n
  <1>4. sorted \in Seq(S)
    BY <1>1, <1>2
  <1>5. \A a \in S : \E i \in DOMAIN sorted : sorted[i] = a
    BY <1>2, <1>3 DEF Surjection
  <1>6. ASSUME NEW i \in DOMAIN sorted, NEW j \in DOMAIN sorted, i < j
        PROVE  sorted[i].to <= sorted[j].from
    <2>1. sorted[i] \in S /\ sorted[j] \in S /\ sorted[i] # sorted[j]
      BY <1>2, <1>6
    <2>2. sorted[i].from < sorted[j].from /\ ~Overlap(sorted[i], sorted[j])
      BY <1>6, <2>1
    <2> QED
      BY <2>1, <2>2 DEF Overlap
  <1> QED
    BY <1>4, <1>5, <1>6

LEMMA MinOfTwo ==
  ASSUME NEW a \in Nat, NEW b \in Nat
  PROVE  Min({a, b}) = IF a <= b THEN a ELSE b
  <1>1. \A x \in {a, b} : (\A y \in {a, b} : x <= y) => x = IF a <= b THEN a ELSE b
    OBVIOUS
  <1>2. \E x \in {a, b} : \A y \in {a, b} : x <= y
    OBVIOUS
  <1> QED
    BY <1>1, <1>2 DEF Min

LEMMA PrefixOf ==
  ASSUME NEW S, NEW s \in Seq(S), NEW n \in Nat, n = Len(s), NEW cut \in Nat, cut <= n
  PROVE  /\ Len(SubSeq(s, 1, cut)) = cut
         /\ DOMAIN SubSeq(s, 1, cut) = 1..cut
         /\ \A i \in 1..cut : SubSeq(s, 1, cut)[i] = s[i] /\ i \in DOMAIN s
  OBVIOUS

(* The limit cuts the last spans: an amount that touches none of those kept *)
(* is behind them all.                                                      *)
LEMMA FinishStep ==
  ASSUME TextTypes, ClaimInv, Finish
  PROVE  CandidatesComplete'
  <1>1. PICK sorted \in SetToSeqs(claimed) :
          /\ \A i, j \in DOMAIN sorted : i < j => sorted[i].from < sorted[j].from
          /\ candidates' = SubSeq(sorted, 1, Min({Len(sorted), MaxCandidates}))
    BY DEF Finish
  <1>2. ASSUME NEW a \in claimed PROVE a.from \in Nat /\ a.to \in Nat /\ a.from < a.to
    <2>1. PICK k \in 1..15 : a \in M(k)
      BY DEF ClaimInv
    <2>2. Size(k) \in 2..4
      BY PatternWords
    <2> QED
      BY <2>1, <2>2, SpanOf
  <1>3. /\ sorted \in Seq(claimed)
        /\ \A a \in claimed : \E i \in DOMAIN sorted : sorted[i] = a
        /\ \A i, j \in DOMAIN sorted : i < j => sorted[i].to <= sorted[j].from
    BY <1>1, <1>2, SortedSpans DEF ClaimInv
  <1>4. PICK n \in Nat : n = Len(sorted) /\ DOMAIN sorted = 1..n
    BY <1>3
  <1>a. PICK cut \in Nat : cut = Min({n, MaxCandidates})
    BY MinOfTwo, NumericConstants
  <1>5. cut <= n /\ (cut < n => cut = MaxCandidates)
    BY <1>a, MinOfTwo, NumericConstants
  <1>6. /\ Len(candidates') = cut /\ DOMAIN candidates' = 1..cut
        /\ \A i \in 1..cut : candidates'[i] = sorted[i] /\ i \in DOMAIN sorted
    <2>1. candidates' = SubSeq(sorted, 1, cut)
      BY <1>1, <1>4, <1>a
    <2> QED
      BY <1>3, <1>4, <1>5, <2>1, PrefixOf
  <1>7. \A i, j \in 1..cut : i < j => candidates'[i].to <= candidates'[j].from
    BY <1>3, <1>6
  <1>8. \A i \in 1..cut : candidates'[i] \in claimed
    BY <1>3, <1>6
  <1>9. ASSUME NEW k \in 1..15, NEW m \in M(k)
        PROVE  /\ \/ \E i \in 1..cut : Overlap(candidates'[i], m)
                  \/ cut = MaxCandidates /\ \A i \in 1..cut : candidates'[i].to <= m.from
               /\ \A i \in 1..cut : ~Inside(candidates'[i], m)
    <2>1. \A i \in 1..cut : ~Inside(candidates'[i], m)
      BY <1>8 DEF ClaimInv
    <2>2. PICK a \in claimed : Overlap(a, m)
      <3>1. k < pattern
        BY PatternCount DEF Finish, TextTypes
      <3> QED
        BY <3>1 DEF ClaimInv
    <2>3. PICK x \in 1..n : sorted[x] = a
      BY <1>3, <1>4
    <2>4. CASE x <= cut
      BY <1>6, <2>1, <2>2, <2>3, <2>4
    <2>5. CASE x > cut
      <3>1. cut = MaxCandidates
        BY <1>5, <2>3, <2>5
      <3>2. ASSUME NEW i \in 1..cut, ~Overlap(candidates'[i], m) PROVE candidates'[i].to <= m.from
        <4>1. candidates'[i].to <= a.from
          <5>1. i \in DOMAIN sorted /\ x \in DOMAIN sorted /\ i < x
            BY <1>4, <1>6, <2>5
          <5> QED
            BY <1>3, <1>6, <2>3, <5>1
        <4>2. /\ candidates'[i].from \in Nat /\ candidates'[i].to \in Nat
              /\ candidates'[i].from < candidates'[i].to /\ a.from \in Nat
          BY <1>2, <1>8
        <4>3. m.from \in Nat /\ m.to \in Nat
          BY SpanOf
        <4> QED
          BY <2>2, <3>2, <4>1, <4>2, <4>3 DEF Overlap
      <3> QED
        BY <2>1, <3>1, <3>2
    <2> QED
      BY <2>4, <2>5
  <1>10. \A k : Matches(Patterns[k])' = M(k)
    BY DEF M, Matches, Finish
  <1> DEFINE found == {candidates'[i] : i \in DOMAIN candidates'}
             known == UNION {Matches(Patterns[k])' : k \in DOMAIN Patterns}
  <1>11. \A m \in known : /\ \/ \E c \in found : Overlap(c, m)
                             \/ Len(candidates') = MaxCandidates /\ \A c \in found : c.to <= m.from
                          /\ \A c \in found : ~Inside(c, m)
    <2>1. ASSUME NEW m \in known PROVE \E k \in 1..15 : m \in M(k)
      BY <1>10, PatternCount
    <2>2. ASSUME NEW m, NEW k \in 1..15, m \in M(k)
          PROVE  /\ \/ \E c \in found : Overlap(c, m)
                    \/ Len(candidates') = MaxCandidates /\ \A c \in found : c.to <= m.from
                 /\ \A c \in found : ~Inside(c, m)
      BY <1>6, <1>9, <2>2
    <2> HIDE DEF found, known
    <2> QED
      BY <2>1, <2>2
  <1>12. \A i, j \in DOMAIN candidates' : i < j => candidates'[i].to <= candidates'[j].from
    BY <1>6, <1>7
  <1>13. \A c \in found : c \in known
    <2>1. ASSUME NEW i \in 1..cut PROVE candidates'[i] \in known
      <3>1. PICK k \in 1..15 : candidates'[i] \in M(k)
        BY <1>8 DEF ClaimInv
      <3> QED
        BY <1>10, <3>1, PatternCount
    <2> HIDE DEF known
    <2> QED
      BY <1>6, <2>1
  <1> QED
    BY <1>11, <1>12, <1>13 DEF CandidatesComplete, Inside, Overlap

LEMMA TextNext ==
  TextTypes /\ ClaimInv /\ CandidatesComplete /\ [Next]_<<textVars, statementVars>>
    => (TextTypes /\ ClaimInv /\ CandidatesComplete)'
  <1> SUFFICES ASSUME TextTypes, ClaimInv, CandidatesComplete,
                      [Next]_<<textVars, statementVars>>
               PROVE  (TextTypes /\ ClaimInv /\ CandidatesComplete)'
    OBVIOUS
  <1>1. ASSUME UNCHANGED <<body, pattern, claimed>> PROVE (TextTypes /\ ClaimInv)'
    <2>1. \A k : M(k)' = M(k)
      BY <1>1 DEF M, Matches
    <2> QED
      BY <1>1, <2>1 DEF TextTypes, ClaimInv, Overlap, Inside
  <1>2. ASSUME UNCHANGED textVars PROVE CandidatesComplete'
    <2>1. candidates' = candidates /\ \A p : Matches(p)' = Matches(p)
      BY <1>2 DEF textVars, Matches
    <2> QED
      BY <2>1 DEF CandidatesComplete, Overlap
  <1>3. CASE Claim
    BY <1>3, ClaimStep DEF Claim, CandidatesComplete
  <1>4. CASE Finish
    BY <1>1, <1>4, FinishStep DEF Finish
  <1>5. CASE UNCHANGED textVars
    BY <1>1, <1>2, <1>5 DEF textVars
  <1> QED
    BY <1>3, <1>4, <1>5 DEF Next, SkipSheet, ReadRow

(* Of a text of any length, the candidates are in order, do not overlap,    *)
(* touch every amount that a pattern knows unless the limit cut it, and     *)
(* are never a mere part of a longer amount.                                *)
THEOREM CandidatesAreTheAmounts == Spec => []CandidatesComplete
  <1>1. Init => CandidatesComplete
    BY DEF Init, TextInit, CandidatesComplete
  <1> QED
    BY <1>1, TextInitInv, TextNext, PTL DEF Spec
==============================================================================
