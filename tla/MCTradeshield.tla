--------------------------- MODULE MCTradeshield ---------------------------
(***************************************************************************)
(* Small instances of Tradeshield over Perpetual for TLC.                  *)
(***************************************************************************)
EXTENDS Tradeshield, MCPerpetual
=============================================================================
