---------------------------- MODULE LiquidityPool ----------------------------
(***************************************************************************)
(* The constant-product market LiquidityPoolAMM.sol: pools of two assets   *)
(* (ERC-20 tokens or native ETH), shares of them, swaps at a fee, a        *)
(* time-weighted price per pool, pull payments of ETH, a pause switch, a   *)
(* two-step owner and emergency withdrawals behind a timelock.             *)
(*                                                                         *)
(* One action is one transaction that does not revert.  Every function     *)
(* that moves assets is nonReentrant; the others write only the owner, the *)
(* pause flag, the requests and pools nobody has a share of yet, so one    *)
(* called from inside a transfer could as well have run before it.  A      *)
(* token may keep a tax of what is transferred, and users have approved    *)
(* the contract.                                                           *)
(***************************************************************************)
EXTENDS Sums, Sequences, FiniteSets

CONSTANTS
  Users,            \* accounts that call the contract
  Tokens,           \* ERC-20 contracts
  ETH,              \* the ETH_ADDRESS sentinel
  Amm,              \* address(this)
  NoOne,            \* address(0)
  FirstOwner,       \* the constructor's _owner
  Heirs,            \* users an owner may name as its successor or to be paid in an emergency
  RejectsEth,       \* users that are contracts without a payable receive
  Funds,            \* what each user owns of each asset to begin with
  Tax,              \* what a token's contract keeps of each transfer
  Amounts,          \* the amounts callers pass
  Minimums,         \* the least amounts callers agree to
  Gifts,            \* the amounts people send to the contract without calling it
  Pools,            \* the pairs of assets that may get a pool
  MinimumLiquidity, \* MINIMUM_LIQUIDITY, burned by the first deposit
  FeeNumerator,     \* FEE_NUMERATOR
  FeeDenominator,   \* FEE_DENOMINATOR
  Precision,        \* the 1e18 prices are scaled by
  Word,             \* 2^256, where unchecked arithmetic wraps around
  Timelock,         \* EMERGENCY_TIMELOCK
  MaxRequests,      \* bound: emergency requests ever made
  MaxTime           \* bound: the last block timestamp

Assets     == Tokens \cup {ETH}
Holders    == Users \cup {NoOne}
RequestIds == 1 .. MaxRequests

ASSUME AddressAssumption ==
  /\ Amm \notin Users /\ NoOne \notin Users /\ ETH \notin Tokens /\ NoOne \notin Assets
  /\ IsFiniteSet(Users) /\ IsFiniteSet(Tokens)
  /\ FirstOwner \in Users /\ Heirs \subseteq Users /\ RejectsEth \subseteq Users
  /\ Pools \subseteq {{a, b} : a, b \in Assets}
  /\ \A p \in Pools, a \in Assets : p # {a}

ASSUME NumberAssumption ==
  /\ Funds \in [Assets -> [Users -> Nat]]
  /\ Tax \in [Assets -> Nat] /\ Tax[ETH] = 0
  /\ Amounts \subseteq Nat /\ Minimums \subseteq Nat /\ Gifts \subseteq Nat
  /\ MinimumLiquidity \in Nat \ {0} /\ Precision \in Nat /\ Word \in Nat \ {0}
  /\ FeeNumerator \in Nat /\ FeeDenominator \in Nat /\ FeeNumerator < FeeDenominator
  /\ Timelock \in Nat /\ MaxRequests \in Nat /\ MaxTime \in Nat

VARIABLES
  now,               \* block.timestamp
  owner, pendingOwner, paused,
  emergencyRequests, \* every request made, by its id
  created,           \* the pools that exist
  reserve,           \* reserve0 and reserve1 of each pool, by asset
  totalLiquidity,
  liquidityBalances,
  observation,       \* priceObservations
  ethBalances,       \* ETH credited to users and not yet withdrawn
  balances,          \* what every account holds of every asset
  swept,             \* history: what emergency withdrawals have taken
  integral           \* history: the price of every asset, summed over time, until it is Lost

roleVars  == <<owner, pendingOwner, paused>>
poolVars  == <<created, reserve, totalLiquidity, liquidityBalances, observation>>
assetVars == <<ethBalances, balances>>
vars == <<now, roleVars, emergencyRequests, poolVars, assetVars, swept, integral>>

EmergencyRequest == [token : Assets, amount : Nat, recipient : Users,
                     executeAfter : Nat, executed : BOOLEAN]

None == [a \in Assets |-> 0]

\* There is no price to sum up: its product did not fit a word.
Lost == -1

Init ==
  /\ now = 0
  /\ owner = FirstOwner /\ pendingOwner = NoOne /\ paused = FALSE
  /\ emergencyRequests = <<>>
  /\ created = {}
  /\ reserve = [p \in Pools |-> None]
  /\ totalLiquidity = [p \in Pools |-> 0]
  /\ liquidityBalances = [p \in Pools |-> [u \in Holders |-> 0]]
  /\ observation = [p \in Pools |-> [timestamp |-> 0, cumulative |-> None]]
  /\ ethBalances = [u \in Users |-> 0]
  /\ balances = [a \in Assets |->
                   [x \in Users \cup {Amm} |-> IF x = Amm THEN 0 ELSE Funds[a][x]]]
  /\ swept = None
  /\ integral = [p \in Pools |-> None]

-----------------------------------------------------------------------------
(* Assets *)

CanPay(x, a, n) == balances[a][x] >= n

\* What arrives of n.
Received(a, n) == IF n > Tax[a] THEN n - Tax[a] ELSE 0

\* The holdings b after account `from` sent n of asset a.
Moved(b, a, from, to, n) ==
  LET taken == [b EXCEPT ![a][from] = @ - n]
  IN [taken EXCEPT ![a][to] = @ + Received(a, n)]

Donate(u, t, n) ==
  /\ n # 0 /\ CanPay(u, t, n)
  /\ balances' = Moved(balances, t, u, Amm, n)
  /\ UNCHANGED <<now, roleVars, emergencyRequests, poolVars, ethBalances, swept, integral>>

-----------------------------------------------------------------------------
(* The price oracle *)

Other(p, a) == CHOOSE b \in p : b # a

Product(p, a) == reserve[p][Other(p, a)] * Precision

\* The price of a in terms of the other asset of the pool, unchecked: the
\* product wraps before it is divided.
Price(p, a) ==
  IF a \in p /\ \A b \in p : reserve[p][b] > 0
  THEN (Product(p, a) % Word) \div reserve[p][a]
  ELSE 0

\* Variant: the time of the observation is not renewed.
ObservedFrozen(p) ==
  [observation[p] EXCEPT
     !.cumulative = [a \in Assets |-> (@[a] + Price(p, a) * (now - observation[p].timestamp)) % Word]]

\* _updateTWAP, with the reserves as they were since the last observation.
Observed(p) ==
  [timestamp |-> now,
   cumulative |-> [a \in Assets |->
     (observation[p].cumulative[a] + Price(p, a) * (now - observation[p].timestamp)) % Word]]

UpdateTWAP(p) == observation' = [observation EXCEPT ![p] = Observed(p)]

\* The price it stands for.
TruePrice(p, a) ==
  IF a \in p /\ \A b \in p : reserve[p][b] > 0 THEN Product(p, a) \div reserve[p][a] ELSE 0

\* A block passes.
Tick ==
  /\ now < MaxTime
  /\ now' = now + 1
  /\ integral' = [p \in Pools |-> [a \in Assets |->
       IF integral[p][a] = Lost \/ Product(p, a) >= Word THEN Lost
       ELSE integral[p][a] + TruePrice(p, a)]]
  /\ UNCHANGED <<roleVars, emergencyRequests, poolVars, assetVars, swept>>

-----------------------------------------------------------------------------
(* Owner *)

TransferOwnership(u, newOwner) ==
  /\ u = owner
  /\ pendingOwner' = newOwner
  /\ UNCHANGED <<now, owner, paused, emergencyRequests, poolVars, assetVars, swept, integral>>

AcceptOwnership(u) ==
  /\ u = pendingOwner
  /\ owner' = u /\ pendingOwner' = NoOne
  /\ UNCHANGED <<now, paused, emergencyRequests, poolVars, assetVars, swept, integral>>

Pause(u) ==
  /\ u = owner /\ ~ paused
  /\ paused' = TRUE
  /\ UNCHANGED <<now, owner, pendingOwner, emergencyRequests, poolVars, assetVars, swept, integral>>

Unpause(u) ==
  /\ u = owner /\ paused
  /\ paused' = FALSE
  /\ UNCHANGED <<now, owner, pendingOwner, emergencyRequests, poolVars, assetVars, swept, integral>>

RequestEmergencyWithdraw(u, a, n, recipient) ==
  /\ u = owner /\ n # 0
  /\ Len(emergencyRequests) < MaxRequests
  /\ emergencyRequests' = Append(emergencyRequests,
       [token |-> a, amount |-> n, recipient |-> recipient,
        executeAfter |-> now + Timelock, executed |-> FALSE])
  /\ UNCHANGED <<now, roleVars, poolVars, assetVars, swept, integral>>

Pending(r) == ~ emergencyRequests[r].executed

ExecuteEmergencyWithdraw(u, r) ==
  LET req == emergencyRequests[r] IN
  /\ u = owner /\ Pending(r) /\ now >= req.executeAfter
  /\ CanPay(Amm, req.token, req.amount)
  /\ req.token = ETH => req.recipient \notin RejectsEth
  /\ emergencyRequests' = [emergencyRequests EXCEPT ![r].executed = TRUE]
  /\ balances' = Moved(balances, req.token, Amm, req.recipient, req.amount)
  /\ swept' = [swept EXCEPT ![req.token] = @ + req.amount]
  /\ UNCHANGED <<now, roleVars, poolVars, ethBalances, integral>>

CancelEmergencyWithdraw(u, r) ==
  /\ u = owner /\ Pending(r)
  /\ emergencyRequests' = [emergencyRequests EXCEPT ![r].executed = TRUE]
  /\ UNCHANGED <<now, roleVars, poolVars, assetVars, swept, integral>>

-----------------------------------------------------------------------------
(* Liquidity *)

CreatePool(p) ==
  /\ ~ paused /\ p \notin created
  /\ created' = created \cup {p}
  /\ observation' = [observation EXCEPT ![p] = [timestamp |-> now, cumulative |-> None]]
  /\ UNCHANGED <<now, roleVars, emergencyRequests, reserve, totalLiquidity,
                 liquidityBalances, assetVars, swept, integral>>

\* Variant: twice the root.
SqrtHigh(y) == y \div 2 + 1

\* _sqrt: Newton's iteration from above, until it no longer descends; of what
\* exceeds 3 half and one is less, so the loop is entered.
Sqrt(y) ==
  LET newton(x) == (y \div x + x) \div 2
      descend[x \in Nat \ {0}] == IF newton(x) < x THEN descend[newton(x)] ELSE x
  IN IF y > 3 THEN descend[y \div 2 + 1] ELSE IF y = 0 THEN 0 ELSE 1

Lesser(m, n) == IF m < n THEN m ELSE n

\* The deposit of a and b that keeps the pool's ratio, tried from a first.
Optimal(p, a, b, aDesired, bDesired) ==
  LET bOptimal == (aDesired * reserve[p][b]) \div reserve[p][a]
      aOptimal == (bDesired * reserve[p][a]) \div reserve[p][b]
  IN IF totalLiquidity[p] = 0 THEN <<aDesired, bDesired>>
     ELSE IF bOptimal <= bDesired THEN <<aDesired, bOptimal>> ELSE <<aOptimal, bDesired>>

\* The caller's minimum of the asset whose amount the pool's ratio sets.
WithinLimits(p, deposit, aDesired, aMin, bMin) ==
  totalLiquidity[p] # 0 =>
    IF deposit[1] = aDesired THEN deposit[2] >= bMin
    ELSE deposit[1] <= aDesired /\ deposit[1] >= aMin

\* Variant: the larger of the two shares.
MintedGenerously(p, a, b, amountA, amountB) ==
  IF totalLiquidity[p] = 0 THEN Sqrt(amountA * amountB) - MinimumLiquidity
  ELSE LET la == (amountA * totalLiquidity[p]) \div reserve[p][a]
           lb == (amountB * totalLiquidity[p]) \div reserve[p][b]
       IN la + lb - Lesser(la, lb)

\* The shares a deposit is worth.
Minted(p, a, b, amountA, amountB) ==
  IF totalLiquidity[p] = 0 THEN Sqrt(amountA * amountB) - MinimumLiquidity
  ELSE Lesser((amountA * totalLiquidity[p]) \div reserve[p][a],
              (amountB * totalLiquidity[p]) \div reserve[p][b])

MintLiquidity(p, u, a, b, amountA, amountB) ==
  LET liquidity == Minted(p, a, b, amountA, amountB)
      burned    == IF totalLiquidity[p] = 0 THEN MinimumLiquidity ELSE 0
  IN /\ liquidity > 0
     /\ liquidityBalances' = [liquidityBalances EXCEPT ![p][NoOne] = @ + burned,
                                                       ![p][u] = @ + liquidity]
     /\ totalLiquidity' = [totalLiquidity EXCEPT ![p] = @ + burned + liquidity]
     /\ reserve' = [reserve EXCEPT ![p][a] = @ + amountA, ![p][b] = @ + amountB]

\* addLiquidity, and addLiquidityETH where a is ETH: the value of the call is
\* what is desired of it, and the part the pool does not take is credited.
AddLiquidity(u, a, b, aDesired, bDesired, aMin, bMin) ==
  LET p       == {a, b}
      deposit == Optimal(p, a, b, aDesired, bDesired)
      sent    == IF a = ETH THEN aDesired ELSE deposit[1]
      inA     == Received(a, deposit[1])
      inB     == Received(b, deposit[2])
  IN
  /\ ~ paused /\ p \in created
  /\ aDesired # 0 /\ bDesired # 0
  /\ WithinLimits(p, deposit, aDesired, aMin, bMin)
  /\ CanPay(u, a, sent) /\ CanPay(u, b, deposit[2])
  /\ inB # 0 /\ (a # ETH => inA # 0)
  /\ UpdateTWAP(p)
  /\ MintLiquidity(p, u, a, b, inA, inB)
  /\ balances' = Moved(Moved(balances, a, u, Amm, sent), b, u, Amm, deposit[2])
  /\ ethBalances' = [ethBalances EXCEPT ![u] = @ + (sent - deposit[1])]
  /\ UNCHANGED <<now, roleVars, emergencyRequests, created, swept, integral>>

\* What `liquidity` shares are worth.
Burned(p, liquidity) ==
  [a \in Assets |-> (liquidity * reserve[p][a]) \div totalLiquidity[p]]

\* What a user gets: tokens are sent, ETH is credited.
TokensOut(b, u, out) ==
  [a \in Assets |-> IF a = ETH THEN b[a] ELSE Moved(b, a, Amm, u, out[a])[a]]

RemoveLiquidity(u, p, liquidity, minimum) ==
  LET out == Burned(p, liquidity) IN
  /\ p \in created /\ liquidity # 0
  /\ liquidityBalances[p][u] >= liquidity
  /\ \A a \in p : /\ out[a] # 0 /\ out[a] >= minimum[a]
                  /\ a # ETH => CanPay(Amm, a, out[a])
  /\ UpdateTWAP(p)
  /\ liquidityBalances' = [liquidityBalances EXCEPT ![p][u] = @ - liquidity]
  /\ totalLiquidity' = [totalLiquidity EXCEPT ![p] = @ - liquidity]
  /\ reserve' = [reserve EXCEPT ![p] = [a \in Assets |-> @[a] - out[a]]]
  /\ balances' = TokensOut(balances, u, out)
  /\ ethBalances' = [ethBalances EXCEPT ![u] = @ + out[ETH]]
  /\ UNCHANGED <<now, roleVars, emergencyRequests, created, swept, integral>>

-----------------------------------------------------------------------------
(* Swaps *)

\* getAmountOut.
AmountOut(amountIn, reserveIn, reserveOut) ==
  LET withFee == amountIn * (FeeDenominator - FeeNumerator)
  IN (withFee * reserveOut) \div (reserveIn * FeeDenominator + withFee)

\* Variant: the pool books what was sent, not what arrived.
ReservesGross(p, a, b, in, out) ==
  [reserve EXCEPT ![p][a] = @ + in + Tax[a], ![p][b] = @ - out]

ReservesAfter(p, a, b, in, out) == [reserve EXCEPT ![p][a] = @ + in, ![p][b] = @ - out]

\* swap, swapETHForToken (a is ETH) and swapTokenForETH (b is).
Swap(u, a, b, amountIn, minimum) ==
  LET p     == {a, b}
      in    == Received(a, amountIn)
      out   == AmountOut(in, reserve[p][a], reserve[p][b])
      after == ReservesAfter(p, a, b, in, out)
      paid  == Moved(balances, a, u, Amm, amountIn)
  IN
  /\ ~ paused /\ p \in created
  /\ in # 0 /\ CanPay(u, a, amountIn)
  /\ reserve[p][a] # 0 /\ reserve[p][b] # 0
  /\ out # 0 /\ out < reserve[p][b] /\ out >= minimum
  /\ after[p][a] * after[p][b] >= reserve[p][a] * reserve[p][b]
  /\ UpdateTWAP(p)
  /\ reserve' = after
  /\ \/ /\ b = ETH
        /\ ethBalances' = [ethBalances EXCEPT ![u] = @ + out]
        /\ balances' = paid
     \/ /\ b # ETH /\ paid[b][Amm] >= out
        /\ balances' = Moved(paid, b, Amm, u, out)
        /\ UNCHANGED ethBalances
  /\ UNCHANGED <<now, roleVars, emergencyRequests, created, totalLiquidity,
                 liquidityBalances, swept, integral>>

WithdrawEth(u) ==
  /\ ethBalances[u] # 0
  /\ CanPay(Amm, ETH, ethBalances[u]) /\ u \notin RejectsEth
  /\ ethBalances' = [ethBalances EXCEPT ![u] = 0]
  /\ balances' = Moved(balances, ETH, Amm, u, ethBalances[u])
  /\ UNCHANGED <<now, roleVars, emergencyRequests, poolVars, swept, integral>>

-----------------------------------------------------------------------------
OwnerStep(u) ==
  \/ \E v \in Heirs : TransferOwnership(u, v)
  \/ AcceptOwnership(u) \/ Pause(u) \/ Unpause(u)
  \/ \E a \in Assets, n \in Amounts, v \in Heirs : RequestEmergencyWithdraw(u, a, n, v)
  \/ \E r \in DOMAIN emergencyRequests :
       ExecuteEmergencyWithdraw(u, r) \/ CancelEmergencyWithdraw(u, r)

\* A caller names one minimum for both assets: of a deposit the contract looks
\* at one of the two anyway.
PoolStep(u) ==
  \/ \E p \in Pools : CreatePool(p)
  \/ \E p \in Pools, n \in Amounts, min \in Minimums :
       \/ \E a \in p, m \in Amounts :
            Other(p, a) # ETH /\ AddLiquidity(u, a, Other(p, a), n, m, min, min)
       \/ RemoveLiquidity(u, p, n, [a \in p |-> min])
       \/ \E a \in p : Swap(u, a, Other(p, a), n, min)
  \/ WithdrawEth(u)

Next ==
  \/ Tick
  \/ \E u \in Users :
       \/ OwnerStep(u) \/ PoolStep(u)
       \/ \E t \in Tokens, n \in Gifts : Donate(u, t, n)

Spec == Init /\ [][Next]_vars

-----------------------------------------------------------------------------
(* What a liquidity provider relies on *)

TypeOK ==
  /\ now \in Nat
  /\ owner \in Users /\ pendingOwner \in Holders /\ paused \in BOOLEAN
  /\ emergencyRequests \in Seq(EmergencyRequest)
  /\ created \subseteq Pools
  /\ reserve \in [Pools -> [Assets -> Nat]]
  /\ totalLiquidity \in [Pools -> Nat]
  /\ liquidityBalances \in [Pools -> [Holders -> Nat]]
  /\ observation \in [Pools -> [timestamp : Nat, cumulative : [Assets -> Nat]]]
  /\ ethBalances \in [Users -> Nat]
  /\ balances \in [Assets -> [Users \cup {Amm} -> Nat]]
  /\ swept \in [Assets -> Nat]
  /\ integral \in [Pools -> [Assets -> Nat \cup {Lost}]]

\* All that the contract owes in asset a: the pools share one balance of it.
Owed(a) ==
  SumOver([p \in Pools |-> reserve[p][a]], Pools)
    + (IF a = ETH THEN SumOver(ethBalances, Users) ELSE 0)

\* The contract's one balance of an asset covers the reserves of all its pools
\* and the credits, gifts and taxed tokens notwithstanding; of ETH, which only
\* the payable functions take, it is exactly that.
Backed ==
  \A a \in Assets :
    /\ balances[a][Amm] + swept[a] >= Owed(a)
    /\ a = ETH => balances[a][Amm] + swept[a] = Owed(a)

\* A share never stands for less than a unit of each reserve's geometric mean,
\* so a pool that has shares never runs out of an asset, and the first depositor
\* cannot take the minimum back.  (Who holds too few of the shares for a unit of
\* either asset cannot leave: amounts that round to 0 are refused.)
SharesAreBacked ==
  \A p \in Pools :
    totalLiquidity[p] > 0 =>
      /\ liquidityBalances[p][NoOne] = MinimumLiquidity
      /\ \A a \in p : totalLiquidity[p] * totalLiquidity[p]
                        <= reserve[p][a] * reserve[p][Other(p, a)]

\* No deposit, withdrawal or swap makes the shares of those who did nothing
\* worth less: the product of the reserves per squared share never falls,
\* whatever is rounded and however a token taxes its transfers.
ShareNeverLoses ==
  [][\A p \in Pools : \A a \in p :
       LET b == Other(p, a) IN
       totalLiquidity[p] > 0 =>
         reserve'[p][a] * reserve'[p][b] * totalLiquidity[p] * totalLiquidity[p]
           >= reserve[p][a] * reserve[p][b] * totalLiquidity'[p] * totalLiquidity'[p]]_vars

\* The price the oracle answers with, brought up to date as its readers do, is
\* the sum over all blocks of the price at the end of each, modulo the wrap of
\* its accumulator: no trade is averaged over blocks before it.  That is so as
\* long as no block ended with a reserve whose scaled product overflows, of 2^256
\* by 10^18 and more; from then on the accumulator stands for nothing.
TwapIsIntegral ==
  \A p \in created, a \in Assets : integral[p][a] # Lost =>
    (observation[p].cumulative[a] + Price(p, a) * (now - observation[p].timestamp)) % Word
      = integral[p][a] % Word
=============================================================================
