---------------------------- MODULE MCMasterchef ----------------------------
(***************************************************************************)
(* Small instances of Masterchef for TLC: an AMM pool (1) and the USDC     *)
(* vault (2); shares and fees so small that shares of rewards round.       *)
(***************************************************************************)
EXTENDS Masterchef

\* An idle block; gas fees and revenue with Eden; the AMM pool without a price.
MCBlockRewards ==
    {[gas |-> 5, revenue |-> [p \in Pools |-> 9], eden |-> 5, tvl |-> [p \in Pools |-> p]],
     [gas |-> 7, revenue |-> [p \in Pools |-> 0], eden |-> 3,
      tvl |-> [p \in Pools |-> IF p = 1 THEN 0 ELSE 1]]}
=============================================================================
