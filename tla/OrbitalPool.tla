----------------------------- MODULE OrbitalPool -----------------------------
(***************************************************************************)
(* A pool of the Orbital market (contracts/orbital): several coins on the  *)
(* curve Sum x^p = K of their normalised reserves, shares of it, swaps at  *)
(* a fee the collector fetches, reserves summed over time for an oracle,   *)
(* and a pause switch.                                                     *)
(*                                                                         *)
(* One action is one transaction that does not revert.  Every function     *)
(* that moves coins is nonReentrant.  The coins transfer what they are     *)
(* told.  A minimum or a deadline a caller passes only makes the call      *)
(* revert, so every call is made without.                                  *)
(***************************************************************************)
EXTENDS Sums, Sequences, FiniteSets

CONSTANTS
  Callers,         \* accounts
  Coins,           \* the pool's tokens
  Nowhere,         \* address(0)
  Concentrations,  \* the powers p of the pools considered
  SwapFee,         \* swapFeeBps
  FeeUnit,         \* FEE_DENOMINATOR
  Wad,             \* WAD
  LockedShares,    \* MINIMUM_LIQUIDITY
  Deposits,        \* the amounts depositors offer, per coin
  SwapAmounts, ShareAmounts, \* the amounts traders pass and holders burn or send
  MaxHops,         \* MAX_HOPS
  LastBlock,       \* bound: the last block timestamp
  MaxCalls         \* bound: transactions

ASSUME OrbitalAssumption ==
  /\ Nowhere \notin Callers /\ IsFiniteSet(Callers)
  /\ IsFiniteSet(Coins) /\ Cardinality(Coins) >= 2
  /\ Concentrations \subseteq {2, 4, 8, 16, 32}
  /\ Wad \in Nat \ {0} /\ LockedShares \in Nat \ {0}
  /\ FeeUnit \in Nat \ {0} /\ SwapFee \in Nat /\ 100 * SwapFee <= FeeUnit
  /\ Deposits \subseteq [Coins -> Nat] /\ SwapAmounts \subseteq Nat /\ ShareAmounts \subseteq Nat
  /\ MaxHops \in Nat

VARIABLES
  concentration,
  block,           \* block.timestamp
  poolPaused,
  reserves,
  accumulatedFees,
  totalSupply, balanceOf,             \* the shares
  twapTimestamp, cumulativeReserves,
  holdings,        \* the coins the pool really holds
  calls

shareVars == <<totalSupply, balanceOf>>
twapVars  == <<twapTimestamp, cumulativeReserves>>
orbitalVars == <<concentration, block, poolPaused, reserves, accumulatedFees, shareVars,
                 twapVars, holdings, calls>>

NoCoins == [c \in Coins |-> 0]

OrbitalInit ==
  /\ concentration \in Concentrations
  /\ block = 0 /\ poolPaused = FALSE
  /\ reserves = NoCoins /\ accumulatedFees = NoCoins
  /\ totalSupply = 0 /\ balanceOf = [u \in Callers \cup {Nowhere} |-> 0]
  /\ twapTimestamp = 0 /\ cumulativeReserves = NoCoins
  /\ holdings = NoCoins
  /\ calls = 0

Call == calls < MaxCalls /\ calls' = calls + 1

-----------------------------------------------------------------------------
(* OrbitalMath: fixed-point numbers with Wad for 1 *)

Square(x) == (x * x) \div Wad

\* sqrt, the Babylonian method from above, until it no longer descends; of what
\* exceeds 3 half and one is less, so the loop is entered.
Root(y) ==
  LET babylon(x) == (y \div x + x) \div 2
      descend[x \in Nat \ {0}] == IF babylon(x) < x THEN descend[babylon(x)] ELSE x
  IN IF y > 3 THEN descend[y \div 2 + 1] ELSE IF y = 0 THEN 0 ELSE 1

WadSqrt(x) == Root(x * Wad)

WadPow(x, p) ==
  CASE p = 2  -> Square(x)
    [] p = 4  -> Square(Square(x))
    [] p = 8  -> Square(Square(Square(x)))
    [] p = 16 -> Square(Square(Square(Square(x))))
    [] p = 32 -> Square(Square(Square(Square(Square(x)))))

WadRoot(x, p) ==
  CASE p = 2  -> WadSqrt(x)
    [] p = 4  -> WadSqrt(WadSqrt(x))
    [] p = 8  -> WadSqrt(WadSqrt(WadSqrt(x)))
    [] p = 16 -> WadSqrt(WadSqrt(WadSqrt(WadSqrt(x))))
    [] p = 32 -> WadSqrt(WadSqrt(WadSqrt(WadSqrt(WadSqrt(x)))))

\* normalizeReserves: each reserve relative to their mean, D \div n.
Base(r) == SumOver(r, Coins)
Normalised(r) == [c \in Coins |-> (Cardinality(Coins) * r[c] * Wad) \div Base(r)]

\* computeInvariant over some of the coins.
PowerSum(x, S, p) == SumOver([c \in Coins |-> WadPow(x[c], p)], S)

Invariant(r) == PowerSum(Normalised(r), Coins, concentration)

\* What the curve leaves in the pool of b once n of a has come in: computeSwapOutput
\* gives b's normalised reserve, or 0 where it reverts.
LeftOf(r, a, b, n) ==
  LET x      == Normalised(r)
      filled == [x EXCEPT ![a] = @ + (Cardinality(Coins) * n * Wad) \div Base(r)]
      others == PowerSum(filled, Coins \ {b}, concentration)
      K      == Invariant(r)
  IN IF others >= K THEN 0 ELSE WadRoot(K - others, concentration)

\* Who brings as much as there is of all coins together is beyond the curve.
Tradable(r, a, b, n) ==
  /\ n < Base(r)
  /\ LET left == LeftOf(r, a, b, n) IN left # 0 /\ left < Normalised(r)[b]

AmountOf(r, a, b, n) ==
  ((Normalised(r)[b] - LeftOf(r, a, b, n)) * Base(r)) \div (Cardinality(Coins) * Wad)

-----------------------------------------------------------------------------
(* The oracle *)

\* _updateTWAP.
UpdateCumulative ==
  /\ cumulativeReserves' =
       [c \in Coins |-> cumulativeReserves[c] + reserves[c] * (block - twapTimestamp)]
  /\ twapTimestamp' = block

NextBlock ==
  /\ block < LastBlock
  /\ block' = block + 1
  /\ UNCHANGED <<concentration, poolPaused, reserves, accumulatedFees, shareVars, twapVars,
                 holdings, calls>>

-----------------------------------------------------------------------------
(* Swaps *)

Fee(n) == (n * SwapFee) \div FeeUnit

\* Variant: the fee stays in the reserve and is put aside as well.
BookedTwice(r, a, b, n, out) == [r EXCEPT ![a] = @ + n, ![b] = @ - out]

Booked(r, a, b, n, out) ==
  [c \in Coins |-> r[c] + (IF c = a THEN n - Fee(n) ELSE 0) - (IF c = b THEN out ELSE 0)]

\* One swap of a route: what was swapped before is s.amount of s.coin.
Hop(s, b) ==
  LET a   == s.coin
      net == s.amount - Fee(s.amount)
      out == AmountOf(s.reserves, a, b, net)
      new == Booked(s.reserves, a, b, s.amount, out)
  IN IF /\ s.passes /\ a # b /\ s.amount # 0
        /\ Tradable(s.reserves, a, b, net)
        /\ Invariant(new) >= Invariant(s.reserves)
     THEN [passes |-> TRUE, coin |-> b, amount |-> out, reserves |-> new,
           fees |-> [s.fees EXCEPT ![a] = @ + Fee(s.amount)]]
     ELSE [s EXCEPT !.passes = FALSE]

\* Where the swaps along a path of coins lead.
Route(path, n) ==
  LET after[k \in 1 .. Len(path)] ==
        IF k = 1 THEN [passes |-> TRUE, coin |-> path[1], amount |-> n,
                       reserves |-> reserves, fees |-> accumulatedFees]
        ELSE Hop(after[k - 1], path[k])
  IN after[Len(path)]

\* swap, called directly or through the router, and swapMultiHop: the router
\* passes on what it gets.
SwapAlong(path, n) ==
  LET s == Route(path, n) IN
  /\ ~ poolPaused /\ totalSupply # 0 /\ Call
  /\ s.passes
  /\ reserves' = s.reserves
  /\ accumulatedFees' = s.fees
  /\ holdings' = [c \in Coins |-> holdings[c] + (IF c = path[1] THEN n ELSE 0)
                                              - (IF c = s.coin THEN s.amount ELSE 0)]
  /\ UpdateCumulative
  /\ UNCHANGED <<concentration, block, poolPaused, shareVars>>

CollectFees ==
  /\ Call
  /\ accumulatedFees' = NoCoins
  /\ holdings' = [c \in Coins |-> holdings[c] - accumulatedFees[c]]
  /\ UNCHANGED <<concentration, block, poolPaused, reserves, shareVars, twapVars>>

-----------------------------------------------------------------------------
(* Liquidity *)

\* Variant: nothing is locked.
NeverLocked(u, n) ==
  [shares |-> [balanceOf EXCEPT ![u] = @ + n], minted |-> n]

\* The first deposit locks the minimum for good.
FirstShares(u, n) ==
  [shares |-> [balanceOf EXCEPT ![u] = @ + n, ![Nowhere] = LockedShares], minted |-> n + LockedShares]

\* addLiquidity on an empty pool.
FirstDeposit(u, offer) ==
  LET radius == WadRoot(Invariant(offer), concentration)
      first  == FirstShares(u, radius - LockedShares)
  IN
  /\ ~ poolPaused /\ totalSupply = 0 /\ Call
  /\ \A c \in Coins : offer[c] # 0
  /\ radius > LockedShares
  /\ reserves' = offer
  /\ holdings' = [c \in Coins |-> holdings[c] + offer[c]]
  /\ totalSupply' = first.minted /\ balanceOf' = first.shares
  /\ UpdateCumulative
  /\ UNCHANGED <<concentration, block, poolPaused, accumulatedFees>>

Ratio(offer, c) == (offer[c] * Wad) \div reserves[c]

MinRatio(offer) ==
  LET c == CHOOSE c \in Coins : \A d \in Coins : Ratio(offer, c) <= Ratio(offer, d)
  IN Ratio(offer, c)

\* What is taken of an offer, and the shares it earns.
Taken(offer) == [c \in Coins |-> (reserves[c] * MinRatio(offer)) \div Wad]

\* Variant: the shares go by the coin most was offered of.
EarnedByMost(offer) ==
  LET c == CHOOSE c \in Coins : \A d \in Coins : Ratio(offer, c) >= Ratio(offer, d)
  IN (totalSupply * Ratio(offer, c)) \div Wad

Earned(offer) == (totalSupply * MinRatio(offer)) \div Wad

Accepts(offer) ==
  /\ totalSupply # 0 /\ \A c \in Coins : offer[c] # 0 /\ Taken(offer)[c] # 0
  /\ Earned(offer) # 0

\* addLiquidity, which takes its part of the offer: from the depositor, or from the
\* router, where the rest of what it had fetched stays.
Deposit(u, offer) ==
  LET taken == Taken(offer) IN
  /\ ~ poolPaused /\ Accepts(offer) /\ Call
  /\ reserves' = [c \in Coins |-> reserves[c] + taken[c]]
  /\ holdings' = [c \in Coins |-> holdings[c] + taken[c]]
  /\ totalSupply' = totalSupply + Earned(offer)
  /\ balanceOf' = [balanceOf EXCEPT ![u] = @ + Earned(offer)]
  /\ UpdateCumulative
  /\ UNCHANGED <<concentration, block, poolPaused, accumulatedFees>>

\* computeLiquidityBurn.
Worth(r, n, supply) == [c \in Coins |-> (r[c] * n) \div supply]

\* removeLiquidity, which does not look at the pause and does not tell the oracle.
Withdraw(u, n) ==
  LET out == Worth(reserves, n, totalSupply) IN
  /\ Call /\ n # 0 /\ balanceOf[u] >= n
  /\ \A c \in Coins : out[c] # 0
  /\ balanceOf' = [balanceOf EXCEPT ![u] = @ - n]
  /\ totalSupply' = totalSupply - n
  /\ reserves' = [c \in Coins |-> reserves[c] - out[c]]
  /\ holdings' = [c \in Coins |-> holdings[c] - out[c]]
  /\ UNCHANGED <<concentration, block, poolPaused, accumulatedFees, twapVars>>

\* transfer.
SendShares(u, v, n) ==
  /\ Call /\ u # v /\ balanceOf[u] >= n
  /\ balanceOf' = [balanceOf EXCEPT ![u] = @ - n, ![v] = @ + n]
  /\ UNCHANGED <<concentration, block, poolPaused, reserves, accumulatedFees, totalSupply,
                 twapVars, holdings>>

\* pausePool and unpausePool of the factory.
SwitchPause ==
  /\ Call
  /\ poolPaused' = ~ poolPaused
  /\ UNCHANGED <<concentration, block, reserves, accumulatedFees, shareVars, twapVars,
                 holdings>>

\* Someone sends coins to the pool without calling it.
SendCoins(c, n) ==
  /\ Call /\ n # 0
  /\ holdings' = [holdings EXCEPT ![c] = @ + n]
  /\ UNCHANGED <<concentration, block, poolPaused, reserves, accumulatedFees, shareVars, twapVars>>

-----------------------------------------------------------------------------
Paths == UNION {[1 .. k -> Coins] : k \in 2 .. MaxHops + 1}

\* People burn and send round amounts, or all they have.
Parts(u) == ShareAmounts \cup {balanceOf[u]}

OrbitalNext ==
  \/ NextBlock
  \/ \E path \in Paths, n \in SwapAmounts : SwapAlong(path, n)
  \/ CollectFees
  \/ \E u \in Callers, offer \in Deposits :
       FirstDeposit(u, offer) \/ Deposit(u, offer)
  \/ \E c \in Coins, n \in SwapAmounts : SendCoins(c, n)
  \/ \E u \in Callers : \E n \in Parts(u) :
       \/ Withdraw(u, n)
       \/ \E v \in Callers : SendShares(u, v, n)
  \/ SwitchPause

OrbitalSpec == OrbitalInit /\ [][OrbitalNext]_orbitalVars

-----------------------------------------------------------------------------
(* Properties *)

\* The pool holds its reserves and, beside them, the fees set aside for the
\* collector, and every share is somebody's: whatever is swapped along whatever
\* route, and whatever is sent to the pool, what the holders are owed is there
\* when the collector has been paid, and the other way round.
OrbitalIsBacked ==
  /\ \A c \in Coins : holdings[c] >= reserves[c] + accumulatedFees[c]
  /\ totalSupply = SumOver(balanceOf, Callers \cup {Nowhere})

\* Once there is liquidity there always is: neither swaps along any route nor the
\* withdrawal of all that anybody holds exhaust a coin, whose empty reserve would
\* end every later deposit and withdrawal ("reserves must remain positive",
\* tests/contracts/forge/OrbitalPoolFuzz.t.sol).
ReservesStayPositive ==
  [][totalSupply > 0 => totalSupply' > 0 /\ \A c \in Coins : reserves'[c] > 0]_orbitalVars

\* Whoever deposits and leaves again at once has gained nothing of any coin,
\* however the ratio, the shares and the payment are rounded.
RoundTripPaysNoMore ==
  \A offer \in Deposits :
    Accepts(offer) =>
      LET taken == Taken(offer)
          after == [c \in Coins |-> reserves[c] + taken[c]]
      IN \A c \in Coins :
           Worth(after, Earned(offer), totalSupply + Earned(offer))[c] <= taken[c]

\* A trade moves the price against the trader: the same amount once more buys
\* no more than it did before, a unit of rounding aside ("Larger trades relative
\* to pool reserves cause greater price impact", src/pages/OrbitalAMMGuidePage.tsx).
TradesMovePriceAgainst ==
  totalSupply > 0 =>
    \A a, b \in Coins, n \in SwapAmounts :
      LET one == Route(<<a, b>>, n)
          two == Hop([one EXCEPT !.coin = a, !.amount = n], b)
      IN one.passes /\ two.passes => two.amount <= one.amount + 1

\* What trades pay stays in the pool for its shareholders ("Fees stay in the pool,
\* increasing the invariant K over time and rewarding all LPs proportionally",
\* src/pages/OrbitalAMMGuidePage.tsx): coins leave it only in a trade, for other
\* coins, or in a withdrawal, for shares.
FeesStayInThePool ==
  [][\A c \in Coins :
       holdings'[c] < holdings[c] =>
         totalSupply' < totalSupply \/ \E d \in Coins : holdings'[d] > holdings[d]]_orbitalVars
=============================================================================
