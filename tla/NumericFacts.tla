------------------------------ MODULE NumericFacts -----------------------------
(***************************************************************************)
(* Where numeric facts come from without a language model. Two algorithms    *)
(* with no I/O: extract_numeric_candidates finds amounts in a text           *)
(* (src/shared/number_extraction.py), one pattern after the other, each      *)
(* claiming what earlier ones left; and get_structured_financials            *)
(* (src/collectors/dart/financials.py) walks through the sheets of a         *)
(* financial statement, row by row, and keeps one value of each line item.   *)
(* An initial state is an input; the run of the algorithm is the behaviour.  *)
(***************************************************************************)
EXTENDS Naturals, Sequences, SequencesExt, FiniteSetsExt

CONSTANTS
    Body,            \* texts, as sequences of tokens: "n" is a number (_NUM)
    Statement,       \* what _fs_extract returns: the sheets bs, is, cis, cf
    Item,            \* Item[l]: the line item that the label l names, or None
    LastPeriod,      \* the last date that names a column
    MaxCandidates,   \* MAX_CANDIDATES_PER_DOC
    None

(* A sheet has the columns of its frame beside label_ko: "value", periods,  *)
(* which are numbers in the order of their dates, and others. No two are    *)
(* named "value" or of one period. A row has a cell under each.             *)
ValueColumn == 0
OtherColumn == 1
Column == 0..LastPeriod

RowType(columns) ==
    [label : DOMAIN Item, cells : [DOMAIN columns -> {"number", "nan", "text"}]]

SheetType(sh) ==
    /\ sh.columns \in Seq(Column)
    /\ \A i, j \in DOMAIN sh.columns :
          sh.columns[i] = sh.columns[j] /\ sh.columns[i] # OtherColumn => i = j
    /\ sh.rows \in Seq(RowType(sh.columns))

ASSUME NumericConstants ==
    /\ Body \subseteq Seq(STRING)
    /\ LastPeriod \in Nat
    /\ \A st \in Statement : \A s \in 1..4 : st[s] = None \/ SheetType(st[s])
    /\ MaxCandidates \in Nat

VARIABLES
    body,            \* the text
    pattern,         \* the next pattern
    claimed,         \* the spans claimed so far, each with the unit guessed
    candidates,      \* what extract_numeric_candidates returns, None before
    statement,       \* the sheets
    sheet, row,      \* the next row of the statement
    facts            \* the facts kept so far: [item, value]

textVars == <<body, pattern, claimed, candidates>>
statementVars == <<statement, sheet, row, facts>>

------------------------------------------------------------------------------
(* The text. A pattern is a number, the words after it, and a currency word *)
(* that belongs to the match when it is there. (White space, which every    *)
(* pattern skips, the sentence and the context of a match are left out.)    *)
P(words, won, unit) == [words |-> words, won |-> won, unit |-> unit]

(* Faulty variant: the single denominations before the compound amounts.    *)
PatternsShortFirst == <<
    P(<<"n", "jo">>, TRUE, "KRW jo"),
    P(<<"n", "baekman", "won">>, FALSE, "KRW baekman"),
    P(<<"n", "eok">>, TRUE, "KRW eok"),
    P(<<"n", "jo", "n", "eok">>, TRUE, "KRW jo"),
    P(<<"n", "eok", "n", "man">>, TRUE, "KRW eok"),
    P(<<"n", "man", "ju">>, FALSE, "shares"),
    P(<<"n", "ju">>, FALSE, "shares"),
    P(<<"n", "won">>, FALSE, "KRW won") >>

Patterns == <<
    P(<<"n", "jo", "n", "eok">>, TRUE, "KRW jo"),
    P(<<"n", "eok", "n", "man">>, TRUE, "KRW eok"),
    P(<<"n", "jo">>, TRUE, "KRW jo"),
    P(<<"n", "baekman", "won">>, FALSE, "KRW baekman"),
    P(<<"n", "eok">>, TRUE, "KRW eok"),
    P(<<"n", "man", "ju">>, FALSE, "shares"),
    P(<<"n", "ju">>, FALSE, "shares"),
    P(<<"n", "won">>, FALSE, "KRW won"),
    P(<<"n", "point">>, FALSE, "other"),
    P(<<"n", "dollar">>, FALSE, "USD"),
    P(<<"n", "yen">>, FALSE, "JPY"),
    P(<<"n", "euro">>, FALSE, "EUR"),
    P(<<"n", "bps">>, FALSE, "bps"),
    P(<<"n", "times">>, FALSE, "multiplier"),
    P(<<"n", "%">>, FALSE, "pct") >>

(* The matches of a pattern, as finditer yields them: no two occurrences of *)
(* one pattern overlap. A span is [from, to), counted in tokens.            *)
Matches(p) ==
    LET n == Len(p.words)
        Here(i) == i + n - 1 <= Len(body) /\ SubSeq(body, i, i + n - 1) = p.words
        Won(i) == p.won /\ i + n <= Len(body) /\ body[i + n] = "won"
    IN {[from |-> i, to |-> IF Won(i) THEN i + n + 1 ELSE i + n, unit |-> p.unit] :
            i \in {j \in DOMAIN body : Here(j)}}

Overlap(a, b) == a.from < b.to /\ b.from < a.to

TextInit == pattern = 1 /\ claimed = {} /\ candidates = None

Claim ==
    /\ candidates = None
    /\ pattern <= Len(Patterns)
    /\ claimed' = claimed \cup {m \in Matches(Patterns[pattern]) :
                                    \A c \in claimed : ~Overlap(m, c)}
    /\ pattern' = pattern + 1
    /\ UNCHANGED <<body, candidates, statementVars>>

(* Sorted by offset, then cut.                                              *)
Finish ==
    /\ candidates = None
    /\ pattern > Len(Patterns)
    /\ \E sorted \in SetToSeqs(claimed) :
          /\ \A i, j \in DOMAIN sorted : i < j => sorted[i].from < sorted[j].from
          /\ candidates' = SubSeq(sorted, 1, Min({Len(sorted), MaxCandidates}))
    /\ UNCHANGED <<body, pattern, claimed, statementVars>>

------------------------------------------------------------------------------
(* The statement. A sheet may be missing, and its frame has a column        *)
(* label_ko or not.                                                         *)
None4 == <<None, None, None, None>>

(* _pick_value: the place of the cell it takes, or 0. A cell under "value"  *)
(* goes through float() alone, which takes a nan, and no other is looked    *)
(* at. Else the newest period with a number, or the first other column.     *)
Pick(columns, cells) ==
    LET valued  == {i \in DOMAIN columns : columns[i] = ValueColumn}
        numbers == {i \in DOMAIN columns : cells[i] = "number"}
        periods == {i \in numbers : columns[i] > OtherColumn}
    IN IF valued # {} THEN LET i == CHOOSE i \in valued : TRUE
                           IN IF cells[i] = "text" THEN 0 ELSE i
       ELSE IF periods # {} THEN CHOOSE i \in periods : \A j \in periods : columns[j] <= columns[i]
       ELSE IF numbers # {} THEN CHOOSE i \in numbers : \A j \in numbers : i <= j
       ELSE 0

Readable(s) == s # None /\ s.labelled

StatementInit == sheet = 1 /\ row = 1 /\ facts = << >>

Seen(item) == \E i \in DOMAIN facts : facts[i].item = item

SkipSheet ==
    /\ sheet <= 4
    /\ Readable(statement[sheet]) => row > Len(statement[sheet].rows)
    /\ sheet' = sheet + 1
    /\ row' = 1
    /\ UNCHANGED <<statement, facts, textVars>>

(* Faulty variant: the first row of an item is taken, with a value or not.  *)
YieldFirst(s, i, columns, r) ==
    IF Item[r.label] = None \/ Seen(Item[r.label])
    THEN << >>
    ELSE <<[item |-> Item[r.label], value |-> <<s, i, Pick(columns, r.cells)>>]>>

(* The fact that the row in hand yields: none for a label that names no     *)
(* line item, for an item that has its fact, for a row without a value.     *)
Yield(s, i, columns, r) ==
    IF Item[r.label] = None \/ Seen(Item[r.label]) \/ Pick(columns, r.cells) = 0
    THEN << >>
    ELSE <<[item |-> Item[r.label], value |-> <<s, i, Pick(columns, r.cells)>>]>>

ReadRow ==
    /\ sheet <= 4
    /\ Readable(statement[sheet])
    /\ row <= Len(statement[sheet].rows)
    /\ facts' = facts \o Yield(sheet, row, statement[sheet].columns, statement[sheet].rows[row])
    /\ row' = row + 1
    /\ UNCHANGED <<statement, sheet, textVars>>

------------------------------------------------------------------------------
(* An input of one algorithm or of the other.                               *)
Init ==
    /\ \/ body \in Body /\ statement = None4
       \/ body = << >> /\ statement \in Statement
    /\ TextInit
    /\ StatementInit

Next == Claim \/ Finish \/ SkipSheet \/ ReadRow

Spec == Init /\ [][Next]_<<textVars, statementVars>>

------------------------------------------------------------------------------
(* The candidates are what a reader of the text would mark. They are in the *)
(* order of the text and do not overlap; an amount that some pattern knows  *)
(* touches a candidate, unless the limit cut it, and then every candidate   *)
(* is before it; no candidate is a mere part of a longer amount; and its    *)
(* unit is the one that a pattern gives to exactly this amount.             *)
CandidatesComplete ==
    candidates # None =>
        LET found == {candidates[i] : i \in DOMAIN candidates}
            known == UNION {Matches(Patterns[k]) : k \in DOMAIN Patterns}
            Inside(c, m) == m.from <= c.from /\ c.to <= m.to /\ m.to - m.from > c.to - c.from
        IN /\ \A i, j \in DOMAIN candidates : i < j => candidates[i].to <= candidates[j].from
           /\ \A m \in known :
                 \/ \E c \in found : Overlap(c, m)
                 \/ Len(candidates) = MaxCandidates /\ \A c \in found : c.to <= m.from
           /\ \A c \in found, m \in known : ~Inside(c, m)
           /\ found \subseteq known

(* When the sheets are read, a line item has one fact, the value of the     *)
(* first row in the order bs, is, cis, cf that names the item and has one:  *)
(* the facts are in that order. A row that has none hides no later row.     *)
(* The value of a row is the cell under "value" if it is a float, and there *)
(* a nan is one, so an empty cell under "value" does hide later rows; or,   *)
(* in a frame without "value", the number of the newest period, or of the   *)
(* first other column when no period has a number.                          *)
FirstValueKept ==
    sheet > 4 =>
        LET rows == UNION {{s} \X DOMAIN statement[s].rows :
                               s \in {t \in 1..4 : Readable(statement[t])}}
            Row(p) == statement[p[1]].rows[p[2]]
            Columns(p) == statement[p[1]].columns
            Value(p, i) ==
                \/ Columns(p)[i] = ValueColumn /\ Row(p).cells[i] # "text"
                \/ /\ \A j \in DOMAIN Columns(p) : Columns(p)[j] # ValueColumn
                   /\ Row(p).cells[i] = "number"
                   /\ \A j \in DOMAIN Columns(p) \ {i} :
                         Row(p).cells[j] = "number" =>
                            \/ Columns(p)[j] < Columns(p)[i]
                            \/ Columns(p)[j] = Columns(p)[i] /\ i < j
            Before(p, q) == p[1] < q[1] \/ (p[1] = q[1] /\ p[2] < q[2])
            Hidden(p) == \E q \in rows : /\ Before(q, p) /\ Item[Row(q).label] = Item[Row(p).label]
                                         /\ \E i \in DOMAIN Columns(q) : Value(q, i)
        IN /\ {facts[k] : k \in DOMAIN facts} =
                 UNION {{[item |-> Item[Row(p).label], value |-> <<p[1], p[2], i>>] :
                            i \in {j \in DOMAIN Columns(p) : Value(p, j)}} :
                        p \in {q \in rows : Item[Row(q).label] # None /\ ~Hidden(q)}}
           /\ \A k, l \in DOMAIN facts : k < l => Before(facts[k].value, facts[l].value)
==============================================================================
