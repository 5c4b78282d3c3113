------------------------------ MODULE Dividends ------------------------------
(***************************************************************************)
(* Dividends.sol: anyone funds a snapshot of the security token with       *)
(* payment tokens, the holders at that snapshot claim their shares, and a  *)
(* contract admin may take back what is unused.                            *)
(***************************************************************************)
EXTENDS LockupToken

CONSTANTS
  PaymentFunds,   \* what each user owns of the payment token to begin with
  Payments,       \* the amounts callers fund
  Precision,      \* tokenPrecisionDivider
  MaxFunded       \* bound: what a snapshot is ever funded with

ASSUME PaymentAssumption ==
  /\ PaymentFunds \in [Users -> Nat] /\ Payments \subseteq Nat /\ Precision \in Nat \ {0}
  /\ MaxFunded \in Nat

VARIABLES
  payments,       \* payment tokens of every account, the contract's included
  funded,         \* tokensFunded[s].total
  unused,         \* tokensFunded[s].unused
  claimed,        \* claimedTokens
  withdrawn       \* history: what withdrawalRemains took of each snapshot

dividendVars == <<payments, funded, unused, claimed, withdrawn>>

InitDividends ==
  /\ payments = [x \in Accounts |-> IF x \in Users THEN PaymentFunds[x] ELSE 0]
  /\ funded = [s \in SnapshotIds |-> 0]
  /\ unused = [s \in SnapshotIds |-> 0]
  /\ claimed = [s \in SnapshotIds |-> [u \in Users |-> 0]]
  /\ withdrawn = [s \in SnapshotIds |-> 0]

\* balanceOfAt and totalSupplyAt: the first value recorded since snapshot s,
\* or what holds now if nothing was.
At(recorded, current, s) ==
  LET later == {k \in s .. snapshotId : recorded[k] # Unset}
  IN IF later = {} THEN current ELSE recorded[CHOOSE k \in later : \A l \in later : k <= l]

BalanceAt(x, s) == At(snapshots[x], BalanceOf(x), s)
SupplyAt(s)     == At(supplySnapshots, totalSupply, s)

\* totalAwardedBalanceAt: the share is rounded down to the divider, then again.
Awarded(u, s) ==
  IF SupplyAt(s) = 0 THEN 0
  ELSE (funded[s] * ((BalanceAt(u, s) * Precision) \div SupplyAt(s))) \div Precision

\* unclaimedBalanceAt, computed unchecked.
Unclaimed(u, s) == (Awarded(u, s) - claimed[s][u]) % Word

MovedPayment(from, to, n) == payments' = Moved(payments, from, to, n)

FundDividend(u, n, s) ==
  /\ payments[u] >= n /\ funded[s] + n <= MaxFunded
  /\ MovedPayment(u, Token, n)
  /\ funded' = [funded EXCEPT ![s] = @ + n]
  /\ unused' = [unused EXCEPT ![s] = @ + n]
  /\ UNCHANGED <<lockupVars, claimed, withdrawn>>

\* Variant: the share is of what was funded when it is asked, claims included.
ClaimTwice(u, s) ==
  /\ s <= snapshotId /\ Awarded(u, s) # 0 /\ payments[Token] >= Awarded(u, s)
  /\ claimed' = [claimed EXCEPT ![s][u] = @ + Awarded(u, s)]
  /\ unused' = [unused EXCEPT ![s] = (@ - Awarded(u, s)) % Word]
  /\ MovedPayment(Token, u, Awarded(u, s))
  /\ UNCHANGED <<lockupVars, funded, withdrawn>>

\* The subtraction from what is unused is unchecked, balanceOf is not.
ClaimDividend(u, s) ==
  /\ s <= snapshotId /\ BalanceAt(u, s) < Word
  /\ Unclaimed(u, s) # 0 /\ payments[Token] >= Unclaimed(u, s)
  /\ claimed' = [claimed EXCEPT ![s][u] = @ + Unclaimed(u, s)]
  /\ unused' = [unused EXCEPT ![s] = (@ - Unclaimed(u, s)) % Word]
  /\ MovedPayment(Token, u, Unclaimed(u, s))
  /\ UNCHANGED <<lockupVars, funded, withdrawn>>

WithdrawalRemains(u, s) ==
  /\ HasRole(u, "contract") /\ payments[Token] >= unused[s]
  /\ unused' = [unused EXCEPT ![s] = 0]
  /\ MovedPayment(Token, u, unused[s])
  /\ withdrawn' = [withdrawn EXCEPT ![s] = @ + unused[s]]
  /\ UNCHANGED <<lockupVars, funded, claimed>>

DividendStep(u) ==
  \E s \in SnapshotIds :
    \/ \E n \in Payments : FundDividend(u, n, s)
    \/ ClaimDividend(u, s) \/ WithdrawalRemains(u, s)

-----------------------------------------------------------------------------
(* What shareholders rely on *)

NoTimelocks == \A x \in Accounts : timelocks[x] = <<>>

\* A snapshot divides the supply of its time among the accounts, whatever moves
\* after it: no token counts twice or not at all, and so the holders together
\* claim no more than was funded for it.  Timelocks break this, since what they
\* hold changes without the hook, so it is promised without them.
SnapshotAddsUp(s) ==
  SumOver([x \in Accounts |-> BalanceAt(x, s)], Accounts) = SupplyAt(s)

ClaimsAreFunded ==
  NoTimelocks =>
    /\ \A s \in 1 .. snapshotId : SnapshotAddsUp(s)
    /\ \A s \in SnapshotIds : SumOver(claimed[s], Users) <= funded[s]
=============================================================================
