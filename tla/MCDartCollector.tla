--------------------------- MODULE MCDartCollector ---------------------------
(* Two filings per listing, three filings in all, so that a third one can   *)
(* push the oldest out of the listing; two bodies per filing; the company   *)
(* is reported with its stock code or, unlisted, without.                   *)
EXTENDS DartCollector

CONSTANTS t1, n1

MCCompanyName == {n1}
MCTicker == {t1}
MCCorpInfo == {[name |-> n1, ticker |-> t1], [name |-> n1, ticker |-> None]}
==============================================================================
