------------------------------ MODULE ElysMath ------------------------------
(***************************************************************************)
(* Arithmetic shared by the models of the Elys keepers.                    *)
(*                                                                         *)
(* Coin amounts are naturals (sdkmath.Int that the keepers never let go    *)
(* negative); a decimal (sdkmath.LegacyDec, osmomath.BigDec) is a natural  *)
(* number of units of its last digit, and a product or quotient of         *)
(* decimals is a fraction n/d that is only brought back to an integer      *)
(* where the code does it: RoundInt, TruncateInt or Ceil.                  *)
(***************************************************************************)
EXTENDS Integers

(***************************************************************************)
(* Dec.RoundInt of n/d: a nearest integer.  At an exact tie both           *)
(* neighbours are allowed: the code rounds the tie to even, but on a       *)
(* 36-digit intermediate result that may already lie on either side of it. *)
(***************************************************************************)
RoundInt(n, d) ==
    {q \in 0 .. (n \div d) + 1 : 2 * (q * d) <= 2 * n + d /\ 2 * n <= 2 * (q * d) + d}

(***************************************************************************)
(* Dec.TruncateInt and Dec.Ceil of n/d.                                    *)
(***************************************************************************)
TruncateInt(n, d) == n \div d
CeilInt(n, d) == (n + d - 1) \div d

\* The part num/den of an amount, truncated.  The quotient has 36 digits, so a
\* product that should be an integer may fall just short of it.
TruncatedPart(amount, num, den) ==
    IF num = den THEN {amount}
    ELSE {q \in {TruncateInt(amount * num - 1, den), TruncateInt(amount * num, den)} : q >= 0}

MinOf(a, b) == IF a <= b THEN a ELSE b
MaxOf(a, b) == IF a >= b THEN a ELSE b

(***************************************************************************)
(* Sum(g, N) is g[1] + ... + g[N], the total of a ledger whose accounts    *)
(* are numbered.                                                           *)
(***************************************************************************)
PrefixSum(g, N) ==
    LET f[i \in 0 .. N] == IF i = 0 THEN 0 ELSE f[i - 1] + g[i] IN f

Sum(g, N) == PrefixSum(g, N)[N]
=============================================================================
