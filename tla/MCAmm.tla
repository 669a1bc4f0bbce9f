------------------------------- MODULE MCAmm -------------------------------
(***************************************************************************)
(* A small instance of Amm for TLC: two pools in a row, the denom at the   *)
(* end with a "/" in its name; swaps in both directions of the first pool, *)
(* by both accounts, and through both pools to another recipient.  The     *)
(* first account has the discount of the highest tier, 30%: its exact      *)
(* amount out asks the first pool for more than the second one takes.      *)
(***************************************************************************)
EXTENDS Amm

MCAssets == <<{1, 2}, {2, 3}>>
MCFeeDenom == <<2, 2>>
MCLiquidity == << <<53, 41, 0>>, <<0, 37, 47>> >>
MCDiscount == <<6, 0>>
MCWallets == << <<30, 12, 5>>, <<21, 23, 0>> >>

Hop(p, d) == [pool |-> p, denom |-> d]

Swap(kind, sender, recipient, denom, hops, amount, limit) ==
    [kind |-> kind, sender |-> sender, recipient |-> recipient, denom |-> denom,
     hops |-> hops, amount |-> amount, limit |-> limit]

MCMessages ==
    {Swap("in", 1, 1, 1, <<Hop(1, 2)>>, 12, 5),
     Swap("in", 2, 1, 1, <<Hop(1, 2)>>, 9, 4),
     Swap("in", 2, 2, 2, <<Hop(1, 1)>>, 11, 8),
     Swap("in", 1, 2, 1, <<Hop(1, 2), Hop(2, 3)>>, 14, 3),
     Swap("out", 2, 2, 1, <<Hop(1, 2)>>, 7, 12),
     Swap("out", 1, 2, 3, <<Hop(1, 1), Hop(2, 2)>>, 6, 13),
     Swap("in", 2, 2, 2, <<Hop(2, 3)>>, 9, 6)}
=============================================================================
