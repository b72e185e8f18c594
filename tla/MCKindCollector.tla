--------------------------- MODULE MCKindCollector ---------------------------
(* The ticker t1 has passed from c1, which the entity tables know without a *)
(* ticker, to c2. One filing of each on one day, so that both have the same *)
(* key, and the KIND notice of c2. The corporations enter the entity tables *)
(* while runs go on.                                                        *)
EXTENDS KindCollector

CONSTANTS c1, c2, n1, n2, t1, day1, unfaithful, r1, r2

MCCompanyName == {n1, n2}
MCTicker == {t1}
MCCompany == {[corp |-> c1, name |-> n1, ticker |-> None],
              [corp |-> c2, name |-> n2, ticker |-> t1]}

Fact == [type |-> unfaithful, ticker |-> t1, day |-> day1]

MCDisclosure == {[rcept |-> r1, corp |-> c1, key |-> Fact],
                 [rcept |-> r2, corp |-> c2, key |-> Fact]}

MCNotice == {[name |-> n2, day |-> day1]}
==============================================================================
