--------------------------- MODULE MCMacroCollector --------------------------
(* Two series, two days and a window of one: the first day leaves the       *)
(* window. Values are counted in tenths of the smallest NUMERIC(20, 6)      *)
(* unit, so 14 is stored as 10.                                             *)
EXTENDS MacroCollector

MCValue == {14, 20}
MCStored == [v \in MCValue |-> IF v = 14 THEN 10 ELSE v]
==============================================================================
