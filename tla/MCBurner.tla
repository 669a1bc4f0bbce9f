------------------------------ MODULE MCBurner ------------------------------
(***************************************************************************)
(* A small instance of Burner for TLC: two timers, one denom that has bank *)
(* metadata and one that has none.                                         *)
(***************************************************************************)
EXTENDS Burner

MCDuration == [i \in Identifiers |-> IF i = "short" THEN 4 ELSE 7]
MCGenesisStart == [i \in Identifiers |-> IF i = "late" THEN 9 ELSE 0]
=============================================================================
