--------------------------- MODULE MCNewsCollector ---------------------------
(* The article k1 is edited from one corporation to both, n2 being the      *)
(* longer of their names; k2 concerns nobody, is in both feeds and pushes   *)
(* k1 out of the first.                                                     *)
EXTENDS NewsCollector

CONSTANTS c1, c2, n1, n2, t1, t2, k1, k2, f1, f2

MCCompany == {[corp |-> c1, name |-> n1, ticker |-> t1],
              [corp |-> c2, name |-> n2, ticker |-> t2]}

MCLength == [n \in {n1, n2} |-> IF n = n1 THEN 2 ELSE 3]
MCCarries == [k \in {k1, k2} |-> IF k = k1 THEN {f1} ELSE {f1, f2}]
MCMentions == [k \in {k1, k2} |-> IF k = k1 THEN <<{n1}, {n1, n2}>> ELSE <<{}>>]
==============================================================================
