------------------------- MODULE MCLeverageLPSweep -------------------------
(***************************************************************************)
(* A small instance of LeverageLPSweep for TLC: one position per page.     *)
(***************************************************************************)
EXTENDS LeverageLPSweep

MCPool == {[leverageMax |-> 30, maxRatio |-> 6]}

MCParams ==
    {[safetyFactor |-> 11, numberPerBlock |-> 1, epochLength |-> 1,
      maxOpenPositions |-> 3, exitBuffer |-> 1, flags |-> {"fallback", "stopLoss"}]}
=============================================================================
