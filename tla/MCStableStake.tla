--------------------------- MODULE MCStableStake ---------------------------
(***************************************************************************)
(* Small instances of StableStake for TLC.  A year has 10 seconds and      *)
(* rates are in tenths, so that a loan of a few coins accrues a coin or    *)
(* two of interest per block and every rounding case occurs.               *)
(***************************************************************************)
EXTENDS StableStake

MCParams ==
    {[rate |-> 5, rmin |-> 2, rmax |-> 8, rinc |-> 3, rdec |-> 3,
      hgf |-> 10, mlr |-> 9, mwr |-> 9]}

\* Governance may tighten the borrowing limit and move the rate's band.
MCTwoParams ==
    MCParams \cup
    {[rate |-> 5, rmin |-> 4, rmax |-> 4, rinc |-> 1, rdec |-> 1,
      hgf |-> 0, mlr |-> 5, mwr |-> 9]}

MCAmmPoolOf == [b \in Positions |-> IF b = 1 THEN "amm1" ELSE "amm2"]
=============================================================================
