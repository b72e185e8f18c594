---------------------------- MODULE MCNumericFacts ----------------------------
(* Texts of up to three amounts; statements with a sheet `is` of one row    *)
(* and a sheet `cis` of two. The other algorithm without I/O, the scripts   *)
(* of the migrations, needs no behaviour: TLC evaluates what ScriptFacts    *)
(* says of them before it starts.                                           *)
EXTENDS NumericFacts, ScriptFacts

Amount == {<<"n">>, <<"n", "jo">>, <<"n", "jo", "won">>, <<"n", "eok">>, <<"n", "eok", "won">>,
           <<"n", "man">>, <<"n", "man", "won">>, <<"n", "man", "ju">>, <<"n", "ju">>,
           <<"n", "baekman", "won">>, <<"n", "won">>, <<"n", "dollar">>, <<"and">>}

MCBody == {FlattenSeq(s) : s \in BoundedSeq(Amount, 3)}

MCItem == [l \in {"sales", "revenue", "notes"} |-> IF l = "notes" THEN None ELSE "sales"]

(* "value" beside a period, periods with the newest last, another column    *)
(* before a period, two other columns.                                      *)
MCColumns == {<<0, 3>>, <<2, 3>>, <<1, 2>>, <<1, 1>>}

Row == [label : DOMAIN MCItem,
        cells : {<<"number", "number">>, <<"nan", "number">>, <<"number", "text">>, <<"text", "nan">>}]

Unlabelled == [labelled |-> FALSE, columns |-> <<2, 3>>,
               rows |-> <<[label |-> "sales", cells |-> <<"number", "number">>]>>]

Sheet(n) == {Unlabelled} \cup [labelled : {TRUE}, columns : MCColumns, rows : BoundedSeq(Row, n)]

MCStatement == {<<None, s, t, None>> : s \in Sheet(1), t \in Sheet(2)}
==============================================================================
