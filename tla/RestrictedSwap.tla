--------------------------- MODULE RestrictedSwap ---------------------------
(***************************************************************************)
(* RestrictedSwap.sol, the security token as it is deployed: a holder      *)
(* offers tokens to a named buyer, or a buyer payment to a named holder,   *)
(* one side is held by the contract and the other completes the swap.  The *)
(* payment token is the one of the dividends, a plain ERC-20: the contract *)
(* keeps both, and the timelocks, in one balance each.                     *)
(***************************************************************************)
EXTENDS Dividends

CONSTANTS
  MaxSwaps,       \* bound: swaps ever configured
  Pieces          \* the amounts of tokens callers swap

ASSUME SwapAssumption == MaxSwaps \in Nat /\ Pieces \subseteq Nat

VARIABLES
  swaps,          \* _swap, by number
  crossedTokens,  \* history: tokens, and payments, that completions from the side
  crossedPayments \* that had funded the swap left in the contract or took from it

swapVars == <<swaps, crossedTokens, crossedPayments>>
vars == <<lockupVars, dividendVars, swapVars>>

Swap == [seller : Users, buyer : Users, amount : Nat, price : Nat,
         status : {"sell", "buy", "complete", "canceled"}]

SwapInit == Init /\ InitDividends /\ swaps = <<>>
            /\ crossedTokens = 0 /\ crossedPayments = 0

\* The contract's own changes of ERC-20 balances, past balanceOf and the rules.
Deposit(from, to, n) ==
  /\ tokens[from] >= n
  /\ tokens' = Moved(tokens, from, to, n)
  /\ Recorded(timelocks, {from, to})
  /\ UNCHANGED <<now, roleVars, ruleVars, totalSupply, allowance, lockVars,
                 snapshotId, supplySnapshots>>

Configured(seller, buyer, amount, price, status) ==
  /\ amount # 0 /\ price # 0 /\ Len(swaps) < MaxSwaps
  /\ Permitted(seller, buyer, amount, BalanceOf(buyer))
  /\ swaps' = Append(swaps, [seller |-> seller, buyer |-> buyer, amount |-> amount,
                             price |-> price, status |-> status])
  /\ UNCHANGED <<crossedTokens, crossedPayments>>

ConfigureSell(u, amount, buyer, price) ==
  /\ BalanceOf(u) >= amount
  /\ Configured(u, buyer, amount, price, "sell")
  /\ Deposit(u, Token, amount)
  /\ UNCHANGED dividendVars

ConfigureBuy(u, amount, seller, price) ==
  /\ Configured(seller, u, amount, price, "buy")
  /\ payments[u] >= price
  /\ MovedPayment(u, Token, price)
  /\ UNCHANGED <<lockupVars, funded, unused, claimed, withdrawn>>

\* onlyValidSwap.
Open(n) == n \in DOMAIN swaps /\ swaps[n].status \notin {"complete", "canceled"}

\* Either function completes a swap of either kind; the check that the deposit
\* arrived fails when a user pays himself.  The one meant for the other kind
\* pays out what this swap never put in, and leaves there what it did.
Completed(n, by) ==
  LET swap == swaps[n] IN
  /\ swaps' = [swaps EXCEPT ![n].status = "complete"]
  /\ crossedTokens' = crossedTokens
       + (IF swap.status = by THEN 0 ELSE IF by = "buy" THEN swap.amount ELSE -swap.amount)
  /\ crossedPayments' = crossedPayments
       + (IF swap.status = by THEN 0 ELSE IF by = "buy" THEN -swap.price ELSE swap.price)

CompleteSwapWithPaymentToken(u, n) ==
  LET swap == swaps[n] IN
  /\ Open(n) /\ u = swap.buyer /\ swap.seller # swap.buyer
  /\ payments[u] >= swap.price
  /\ MovedPayment(u, swap.seller, swap.price)
  /\ Deposit(Token, u, swap.amount)
  /\ Completed(n, "sell")
  /\ UNCHANGED <<funded, unused, claimed, withdrawn>>

CompleteSwapWithRestrictedToken(u, n) ==
  LET swap == swaps[n] IN
  /\ Open(n) /\ u = swap.seller
  /\ payments[Token] >= swap.price
  /\ MovedPayment(Token, u, swap.price)
  /\ Deposit(u, swap.buyer, swap.amount)
  /\ Completed(n, "buy")
  /\ UNCHANGED <<funded, unused, claimed, withdrawn>>

\* Variant: a swap is refunded and stays open.
RefundedOnly(n) == UNCHANGED swaps

Canceled(n) == swaps' = [swaps EXCEPT ![n].status = "canceled"]

\* Variant: the buyer's refund goes to the seller.
CancelToSeller(u, n) ==
  LET swap == swaps[n] IN
  /\ Open(n) /\ Canceled(n)
  /\ u = (IF swap.status = "sell" THEN swap.seller ELSE swap.buyer)
  /\ \/ /\ swap.status = "sell" /\ Deposit(Token, u, swap.amount)
        /\ UNCHANGED dividendVars
     \/ /\ swap.status = "buy" /\ payments[Token] >= swap.price
        /\ MovedPayment(Token, swap.seller, swap.price)
        /\ UNCHANGED <<lockupVars, funded, unused, claimed, withdrawn>>
  /\ UNCHANGED <<crossedTokens, crossedPayments>>

\* cancelSell, for swaps of both kinds.
CancelSell(u, n) ==
  LET swap == swaps[n] IN
  /\ Open(n) /\ Canceled(n)
  /\ \/ /\ swap.status = "sell" /\ u = swap.seller
        /\ Deposit(Token, u, swap.amount)
        /\ UNCHANGED dividendVars
     \/ /\ swap.status = "buy" /\ u = swap.buyer /\ payments[Token] >= swap.price
        /\ MovedPayment(Token, u, swap.price)
        /\ UNCHANGED <<lockupVars, funded, unused, claimed, withdrawn>>
  /\ UNCHANGED <<crossedTokens, crossedPayments>>

SwapStep(u) ==
  \/ \E v \in Users, n \in Pieces, p \in Payments :
       ConfigureSell(u, n, v, p) \/ ConfigureBuy(u, n, v, p)
  \/ \E n \in DOMAIN swaps :
       CompleteSwapWithPaymentToken(u, n) \/ CompleteSwapWithRestrictedToken(u, n) \/ CancelSell(u, n)

Next ==
  \/ LockupNext /\ UNCHANGED <<dividendVars, swapVars>>
  \/ \E u \in Users : \/ DividendStep(u) /\ UNCHANGED swapVars
                      \/ SwapStep(u)

Spec == SwapInit /\ [][Next]_vars

-----------------------------------------------------------------------------
(* What both sides of a swap rely on *)

SwapTypeOK ==
  /\ TypeOK
  /\ payments \in [Accounts -> Nat]
  /\ funded \in [SnapshotIds -> Nat] /\ unused \in [SnapshotIds -> Nat]
  /\ claimed \in [SnapshotIds -> [Users -> Nat]] /\ withdrawn \in [SnapshotIds -> Nat]
  /\ swaps \in Seq(Swap) /\ crossedTokens \in Int /\ crossedPayments \in Int

OpenFor(n, status, amount) == IF swaps[n].status = status THEN amount ELSE 0

\* What a snapshot was funded with and has not paid, and what it paid beyond its
\* funds: a claim is still served after the remains were withdrawn.
Owed(s)      == funded[s] - SumOver(claimed[s], Users) - withdrawn[s]
Dues(s)      == Greater(0, Owed(s))
Overdrawn(s) == Greater(0, -Owed(s))

\* The contract's tokens are those of the timelocks, the stray ones and the open
\* sells', and its payments are the open buys' and the dues of the snapshots,
\* but for two things, exactly: what completions crossed over, since the code
\* does not ask which side completes, and what snapshots were overdrawn.  Only
\* these ever spend another swap's escrow, and without them all of it is there.
EscrowIsAccounted ==
  /\ tokens[Token] = SumOver([x \in Accounts |-> InTimelocks(x)], Accounts) + stray
       + SumOver([n \in DOMAIN swaps |-> OpenFor(n, "sell", swaps[n].amount)], DOMAIN swaps)
       + crossedTokens
  /\ payments[Token] + SumOver([s \in SnapshotIds |-> Overdrawn(s)], SnapshotIds) =
       SumOver([n \in DOMAIN swaps |-> OpenFor(n, "buy", swaps[n].price)], DOMAIN swaps)
       + SumOver([s \in SnapshotIds |-> Dues(s)], SnapshotIds)
       + crossedPayments

\* A swap ends once.  When it is completed the seller is paid its price and the
\* buyer gets its tokens in the same transaction, and when it is canceled only
\* who had funded it gets anything back.
SwapsSettle ==
  [][\A n \in DOMAIN swaps :
       LET swap == swaps[n] IN
       swaps'[n].status # swap.status =>
         /\ swap.status \in {"sell", "buy"}
         /\ swaps'[n].status = "complete" =>
              /\ payments'[swap.seller] = payments[swap.seller] + swap.price
              /\ swap.seller # swap.buyer => tokens'[swap.buyer] = tokens[swap.buyer] + swap.amount
         /\ swaps'[n].status = "canceled" =>
              /\ payments'[swap.buyer] - payments[swap.buyer] = OpenFor(n, "buy", swap.price)
              /\ tokens'[swap.seller] - tokens[swap.seller] = OpenFor(n, "sell", swap.amount)]_vars
=============================================================================
