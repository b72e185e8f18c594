---------------------------- MODULE MCOperations -----------------------------
(* dart takes the TypeError of collect all, kind meets both tables named    *)
(* events and may be given twice, vault is no source.                       *)
EXTENDS Operations

MCTableOf == [s \in Source |-> CASE s = "dart" -> "filings"
                                 [] s = "kind" -> "events"]

MCRequest == {<<"kind", "kind">>, <<"dart", "kind">>, <<"kind", "vault">>, <<"dart">>, <<"kind">>}
==============================================================================
