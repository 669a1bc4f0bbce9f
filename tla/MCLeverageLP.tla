---------------------------- MODULE MCLeverageLP ----------------------------
(***************************************************************************)
(* Small instances of LeverageLP for TLC.  Ratios, leverages and the       *)
(* safety factor are in tenths, LP shares are worth a few coins.           *)
(***************************************************************************)
EXTENDS LeverageLP

\* Governance may lower the limit of a pool that is in use.
MCPools == {[leverageMax |-> 30, maxRatio |-> r] : r \in {4, 6}}

MCPool == {[leverageMax |-> 30, maxRatio |-> 6]}

MCParams ==
    {[safetyFactor |-> 11, numberPerBlock |-> 1, epochLength |-> 1,
      maxOpenPositions |-> 3, exitBuffer |-> 1, flags |-> {"fallback", "stopLoss"}]}

\* The sweep runs in every second block.
MCSweepParams == {[prms EXCEPT !.epochLength = 2] : prms \in MCParams}

\* Governance may turn the sweep, the stop losses and the whitelist on and off,
\* and an exit buffer below zero is accepted.
MCTwoParams ==
    MCParams \cup
    {[safetyFactor |-> 12, numberPerBlock |-> 2, epochLength |-> 1,
      maxOpenPositions |-> 1, exitBuffer |-> -1, flags |-> {"whitelisting"}]}
=============================================================================
