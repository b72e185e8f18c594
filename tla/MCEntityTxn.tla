----------------------------- MODULE MCEntityTxn -----------------------------
(* Corporation c1 trades as t1, is renamed, and is delisted; the exchange   *)
(* then gives t1 to c2. Two writers carry this out in any order, any number *)
(* of times and concurrently, while a seeder runs.                          *)
EXTENDS EntityTxn

CONSTANTS c1, c2, n1, n2, t1

MCCorpCode == {c1, c2}
MCCompanyName == {n1, n2}
MCTicker == {t1}

MCCall == {[corp |-> c1, name |-> n1, ticker |-> t1],
           [corp |-> c1, name |-> n2, ticker |-> t1],
           [corp |-> c1, name |-> n2, ticker |-> None],
           [corp |-> c2, name |-> n1, ticker |-> t1]}
==============================================================================
