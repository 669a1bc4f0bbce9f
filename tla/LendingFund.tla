----------------------------- MODULE LendingFund -----------------------------
(***************************************************************************)
(* What a lending vault promises to those who deposit in it and to those   *)
(* who borrow from it, without rates, blocks, denoms, governance or the    *)
(* way debts are stored.                                                   *)
(*                                                                         *)
(* Every step concerns one vault and one depositor or borrower.  The book  *)
(* value, from which shares are priced, grows by deposits and by interest  *)
(* only, and falls by withdrawals only: neither a loan, nor a repayment,   *)
(* nor a loss moves it.  A debt falls by what is paid, coin by coin, or is *)
(* lost as a whole and recorded as a loss.                                 *)
(***************************************************************************)
EXTENDS Integers

CONSTANTS
    Vaults, Depositors, Borrowers

VARIABLES
    cash,      \* coins in each vault
    book,      \* what each vault reckons its depositors own
    owed,      \* what each borrower owes each vault
    lost,      \* what borrowers never paid
    supply,    \* shares of each vault
    held       \* shares of each depositor

fund == <<cash, book, owed, lost, supply, held>>

Init ==
    /\ cash = [v \in Vaults |-> 0]
    /\ book = [v \in Vaults |-> 0]
    /\ owed = [v \in Vaults |-> [b \in Borrowers |-> 0]]
    /\ lost = [v \in Vaults |-> 0]
    /\ supply = [v \in Vaults |-> 0]
    /\ held = [v \in Vaults |-> [u \in Depositors |-> 0]]

\* By how much the step moves a figure of a vault.
Gain(figure, figureAfter, v) == figureAfter[v] - figure[v]

\* q is n/d, rounded to a nearest integer.
Nearest(q, n, d) == 2 * (q * d) <= 2 * n + d /\ 2 * n <= 2 * (q * d) + d

SameLoans(v) == owed'[v] = owed[v] /\ lost'[v] = lost[v]
SameShares(v) == supply'[v] = supply[v] /\ held'[v] = held[v]
Same(v) == SameLoans(v) /\ SameShares(v) /\ cash'[v] = cash[v] /\ book'[v] = book[v]

(***************************************************************************)
(* A deposit of a coins for s shares at the going price.                   *)
(***************************************************************************)
Deposit(v, u) ==
    LET a == Gain(cash, cash', v)
        s == Gain(supply, supply', v)
    IN  /\ a > 0 /\ s >= 0
        /\ book'[v] = book[v] + a
        /\ held'[v] = [held[v] EXCEPT ![u] = @ + s]
        /\ IF supply[v] = 0 \/ book[v] = 0 THEN s = a
           ELSE Nearest(s, a * supply[v], book[v])
        /\ SameLoans(v)

(***************************************************************************)
(* A withdrawal of a coins for s shares of one's own, at the going price.  *)
(***************************************************************************)
Withdraw(v, u) ==
    LET a == cash[v] - cash'[v]
        s == supply[v] - supply'[v]
    IN  /\ 0 < a /\ a <= cash[v]
        /\ 0 < s /\ s <= held[v][u]
        /\ book'[v] = book[v] - a
        /\ held'[v] = [held[v] EXCEPT ![u] = @ - s]
        /\ Nearest(a, s * book[v], supply[v])
        /\ SameLoans(v)

(***************************************************************************)
(* Whatever a borrower does, interest may accrue with it, on a debt only;  *)
(* it is what the book value gains.                                        *)
(***************************************************************************)
Interest(v) == Gain(book, book', v)

Accrues(v, b) == Interest(v) >= 0 /\ (Interest(v) > 0 => owed[v][b] > 0)

Lend(v, b) ==
    LET a == cash[v] - cash'[v]
    IN  /\ 0 < a /\ a <= cash[v]
        /\ Accrues(v, b)
        /\ owed'[v] = [owed[v] EXCEPT ![b] = @ + Interest(v) + a]
        /\ lost'[v] = lost[v]
        /\ SameShares(v)

\* With nothing collected, interest accrues and nothing else.
Collect(v, b) ==
    LET a == Gain(cash, cash', v)
    IN  /\ Accrues(v, b)
        /\ 0 <= a /\ a <= owed[v][b] + Interest(v)
        /\ owed'[v] = [owed[v] EXCEPT ![b] = @ + Interest(v) - a]
        /\ lost'[v] = lost[v]
        /\ SameShares(v)

WriteOff(v, b) ==
    /\ Accrues(v, b)
    /\ lost'[v] = lost[v] + owed[v][b] + Interest(v)
    /\ owed'[v] = [owed[v] EXCEPT ![b] = 0]
    /\ cash'[v] = cash[v]
    /\ SameShares(v)

Next ==
    \E v \in Vaults :
        /\ \A w \in Vaults \ {v} : Same(w)
        /\ \/ \E u \in Depositors : Deposit(v, u) \/ Withdraw(v, u)
           \/ \E b \in Borrowers : Lend(v, b) \/ Collect(v, b) \/ WriteOff(v, b)

Spec == Init /\ [][Next]_fund
=============================================================================
