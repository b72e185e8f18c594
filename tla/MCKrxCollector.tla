---------------------------- MODULE MCKrxCollector ---------------------------
(* Two overlapping runs over two tickers. The price of one is revised once, *)
(* its flow and short balance come later, and it passes from one            *)
(* corporation to another, which may have been known without it before; for *)
(* the other ticker the exchange has no figures.                            *)
EXTENDS KrxCollector, TLC

CONSTANTS c1, c2, n1, t1, t2, p1, p2

MCCompany == {[corp |-> c1, name |-> n1, ticker |-> t1],
              [corp |-> c2, name |-> n1, ticker |-> None],
              [corp |-> c2, name |-> n1, ticker |-> t1]}

MCRun == {p1, p2}

(* The specification treats the runs alike.                                 *)
MCSymmetry == Permutations(MCRun)
==============================================================================
