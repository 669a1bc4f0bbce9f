----------------------------- MODULE MCPerpetual -----------------------------
(***************************************************************************)
(* Small instances of Perpetual for TLC.                                   *)
(***************************************************************************)
EXTENDS Perpetual

MCLiquidity == [d \in Denoms |-> IF d = "base" THEN 40 ELSE 20]
\* Swaps, joins and exits at price 2: one of trading coins out, and two that
\* leave too little of the base currency for the swap of a fee, beside the
\* custody of a short or by itself.
MCFlows == {[d \in Denoms |-> IF d = "base" THEN - 2 * n ELSE n] : n \in {-4, 13, 19}}
=============================================================================
