------------------------------ MODULE Exchange ------------------------------
(***************************************************************************)
(* The order book AssetBackedExchange.sol: limit orders between ERC-20     *)
(* tokens and native ETH, held in escrow by the contract, filled in parts, *)
(* cancelled by their makers, with pull payments of ETH, a pause switch, a *)
(* two-step owner and emergency withdrawals behind a timelock.             *)
(*                                                                         *)
(* One action is one transaction that does not revert; a revert leaves no  *)
(* trace and is the absence of a step.  Every function that moves assets   *)
(* is nonReentrant, and the functions that are not write only the owner,   *)
(* the pause flag and the requests, so a transaction started from inside   *)
(* another one's external call has the effect of one that ran before it or *)
(* after it.  Tokens are ERC-20 contracts that move exactly what they are  *)
(* asked to, and users have approved the contract.                         *)
(***************************************************************************)
EXTENDS Sums, Sequences, FiniteSets

CONSTANTS
  Users,          \* accounts that call the contract
  Tokens,         \* ERC-20 contracts
  ETH,            \* the ETH_ADDRESS sentinel
  Exchange,       \* address(this)
  NoOne,          \* address(0)
  FirstOwner,     \* the constructor's _owner
  Heirs,          \* users an owner may transfer the ownership to
  RejectsEth,     \* users that are contracts without a payable receive
  Funds,          \* what each user owns of each asset to begin with
  Amounts,        \* the amounts callers pass
  Gifts,          \* the amounts people send to the contract without calling it
  Deadlines,      \* the deadlines callers pass, 0 for no expiry
  Timelock,       \* EMERGENCY_TIMELOCK
  MaxUint,        \* the largest uint256: products above it revert
  MaxOrders,      \* bound: orders ever created
  MaxRequests,    \* bound: emergency requests ever made
  MaxTime         \* bound: the last block timestamp

Assets     == Tokens \cup {ETH}
Accounts   == Users \cup {Exchange}
OrderIds   == 0 .. MaxOrders - 1
RequestIds == 0 .. MaxRequests - 1

ASSUME AddressAssumption ==
  /\ Exchange \notin Users /\ NoOne \notin Users
  /\ ETH \notin Tokens /\ NoOne \notin Assets
  /\ IsFiniteSet(Users) /\ FirstOwner \in Users /\ Heirs \subseteq Users /\ RejectsEth \subseteq Users

ASSUME NumberAssumption ==
  /\ Amounts \subseteq Nat /\ Gifts \subseteq Nat /\ Deadlines \subseteq Nat
  /\ Timelock \in Nat /\ MaxUint \in Nat /\ MaxTime \in Nat
  /\ MaxOrders \in Nat /\ MaxRequests \in Nat
  /\ Funds \in [Assets -> [Users -> Nat]]

VARIABLES
  now,             \* block.timestamp
  owner, pendingOwner, paused,
  emergencyRequests, nextEmergencyId,
  orders, nextOrderId, userOrderIds,
  ethBalances,     \* ETH credited to users and not yet withdrawn
  balances,        \* what every account holds of every asset
  swept            \* history: what emergency withdrawals have taken

roleVars    == <<owner, pendingOwner, paused>>
requestVars == <<emergencyRequests, nextEmergencyId>>
bookVars    == <<orders, nextOrderId, userOrderIds>>
assetVars   == <<ethBalances, balances>>
vars == <<now, roleVars, requestVars, bookVars, assetVars, swept>>

Order == [maker : Users \cup {NoOne},
          tokenSell : Assets \cup {NoOne}, tokenBuy : Assets \cup {NoOne},
          amountSell : Nat, amountBuy : Nat, filledSell : Nat, filledBuy : Nat,
          cancelled : BOOLEAN, deadline : Nat]

\* What the mapping holds for an id that no order has.
NoOrder == [maker |-> NoOne, tokenSell |-> NoOne, tokenBuy |-> NoOne,
            amountSell |-> 0, amountBuy |-> 0, filledSell |-> 0, filledBuy |-> 0,
            cancelled |-> FALSE, deadline |-> 0]

EmergencyRequest == [token : Assets \cup {NoOne}, amount : Nat,
                     recipient : Users \cup {NoOne}, executeAfter : Nat,
                     executed : BOOLEAN]

NoRequest == [token |-> NoOne, amount |-> 0, recipient |-> NoOne,
              executeAfter |-> 0, executed |-> FALSE]

Init ==
  /\ now = 1
  /\ owner = FirstOwner /\ pendingOwner = NoOne /\ paused = FALSE
  /\ emergencyRequests = [r \in RequestIds |-> NoRequest] /\ nextEmergencyId = 0
  /\ orders = [i \in OrderIds |-> NoOrder] /\ nextOrderId = 0
  /\ userOrderIds = [u \in Users |-> <<>>]
  /\ ethBalances = [u \in Users |-> 0]
  /\ balances = [a \in Assets |->
                   [x \in Accounts |-> IF x \in Users THEN Funds[a][x] ELSE 0]]
  /\ swept = [a \in Assets |-> 0]

-----------------------------------------------------------------------------
(* Assets *)

\* Variant: a transfer that fails goes unnoticed.
UncheckedTransfer(x, a, n) == TRUE

CanPay(x, a, n) == balances[a][x] >= n

\* The holdings b after n of asset a went from one account to another.
Moved(b, a, from, to, n) ==
  LET taken == [b EXCEPT ![a][from] = @ - n]
  IN [taken EXCEPT ![a][to] = @ + n]

\* Variant: a credit replaces the one before.
CreditReplaced(credit, u, n) == [credit EXCEPT ![u] = n]

Credited(credit, u, n) == [credit EXCEPT ![u] = @ + n]

\* Someone sends tokens to the contract without calling it.
Donate(u, t, n) ==
  /\ n # 0 /\ CanPay(u, t, n)
  /\ balances' = Moved(balances, t, u, Exchange, n)
  /\ UNCHANGED <<now, roleVars, requestVars, bookVars, ethBalances, swept>>

Tick ==
  /\ now < MaxTime
  /\ now' = now + 1
  /\ UNCHANGED <<roleVars, requestVars, bookVars, assetVars, swept>>

-----------------------------------------------------------------------------
(* Owner *)

TransferOwnership(u, newOwner) ==
  /\ u = owner
  /\ pendingOwner' = newOwner
  /\ UNCHANGED <<now, owner, paused, requestVars, bookVars, assetVars, swept>>

AcceptOwnership(u) ==
  /\ u = pendingOwner
  /\ owner' = u /\ pendingOwner' = NoOne
  /\ UNCHANGED <<now, paused, requestVars, bookVars, assetVars, swept>>

Pause(u) ==
  /\ u = owner /\ ~ paused
  /\ paused' = TRUE
  /\ UNCHANGED <<now, owner, pendingOwner, requestVars, bookVars, assetVars, swept>>

Unpause(u) ==
  /\ u = owner /\ paused
  /\ paused' = FALSE
  /\ UNCHANGED <<now, owner, pendingOwner, requestVars, bookVars, assetVars, swept>>

RequestEmergencyWithdraw(u, a, n, recipient) ==
  /\ u = owner /\ n # 0
  /\ nextEmergencyId < MaxRequests
  /\ emergencyRequests' = [emergencyRequests EXCEPT ![nextEmergencyId] =
       [token |-> a, amount |-> n, recipient |-> recipient,
        executeAfter |-> now + Timelock, executed |-> FALSE]]
  /\ nextEmergencyId' = nextEmergencyId + 1
  /\ UNCHANGED <<now, roleVars, bookVars, assetVars, swept>>

\* Variant: an executed request is still pending.
PendingForever(r) == emergencyRequests[r].amount # 0

\* A request that exists and was neither executed nor cancelled.
Pending(r) == ~ emergencyRequests[r].executed /\ emergencyRequests[r].amount # 0

ExecuteEmergencyWithdraw(u, r) ==
  LET req == emergencyRequests[r] IN
  /\ u = owner /\ Pending(r)
  /\ now >= req.executeAfter
  /\ CanPay(Exchange, req.token, req.amount)
  /\ req.token = ETH => req.recipient \notin RejectsEth
  /\ emergencyRequests' = [emergencyRequests EXCEPT ![r].executed = TRUE]
  /\ balances' = Moved(balances, req.token, Exchange, req.recipient, req.amount)
  /\ swept' = [swept EXCEPT ![req.token] = @ + req.amount]
  /\ UNCHANGED <<now, roleVars, nextEmergencyId, bookVars, ethBalances>>

CancelEmergencyWithdraw(u, r) ==
  /\ u = owner /\ Pending(r)
  /\ emergencyRequests' = [emergencyRequests EXCEPT ![r].executed = TRUE]
  /\ UNCHANGED <<now, roleVars, nextEmergencyId, bookVars, assetVars, swept>>

-----------------------------------------------------------------------------
(* Orders *)

Accepts(amountSell, amountBuy, deadline) ==
  /\ amountSell # 0 /\ amountBuy # 0
  /\ deadline # 0 => deadline > now

PushOrder(u, sell, buy, amountSell, amountBuy, deadline) ==
  /\ nextOrderId < MaxOrders
  /\ orders' = [orders EXCEPT ![nextOrderId] =
       [NoOrder EXCEPT !.maker = u, !.tokenSell = sell, !.tokenBuy = buy,
                       !.amountSell = amountSell, !.amountBuy = amountBuy,
                       !.deadline = deadline]]
  /\ nextOrderId' = nextOrderId + 1
  /\ userOrderIds' = [userOrderIds EXCEPT ![u] = Append(@, nextOrderId)]

\* createOrder and createOrderSellETH: what is sold moves into escrow, by a
\* transferFrom or as the value of the call.  Only one of the two assets may
\* be ETH, because they differ.
CreateOrder(u, sell, buy, amountSell, amountBuy, deadline) ==
  /\ ~ paused
  /\ sell # buy
  /\ Accepts(amountSell, amountBuy, deadline)
  /\ CanPay(u, sell, amountSell)
  /\ balances' = Moved(balances, sell, u, Exchange, amountSell)
  /\ PushOrder(u, sell, buy, amountSell, amountBuy, deadline)
  /\ UNCHANGED <<now, roleVars, requestVars, ethBalances, swept>>

Exists(o) == o.amountSell # 0
\* Variant: a cancelled order is still open.
OpenOnceCancelled(o) == Exists(o) /\ o.filledSell < o.amountSell

Open(o) == Exists(o) /\ ~ o.cancelled /\ o.filledSell < o.amountSell
Active(o) == Open(o) /\ (o.deadline # 0 => now <= o.deadline)

MinOf(m, n) == IF m <= n THEN m ELSE n
FillBuy(o, offered) == MinOf(offered, o.amountBuy - o.filledBuy)
\* Variant: rounds up, in the taker's favour.
FillSellUp(o, fillBuy) == (fillBuy * o.amountSell + o.amountBuy - 1) \div o.amountBuy

FillSell(o, fillBuy) == (fillBuy * o.amountSell) \div o.amountBuy

\* The arithmetic both fills share: what the taker gets, unless it overflows
\* or rounds to nothing.
Priced(o, fillBuy) ==
  /\ fillBuy * o.amountSell <= MaxUint
  /\ FillSell(o, fillBuy) # 0

Filled(i, fillBuy, fillSell) ==
  orders' = [orders EXCEPT ![i].filledBuy = @ + fillBuy, ![i].filledSell = @ + fillSell]

FillOrder(u, i, offered) ==
  LET o        == orders[i]
      fillBuy  == FillBuy(o, offered)
      fillSell == FillSell(o, fillBuy)
      paid     == Moved(balances, o.tokenBuy, u, o.maker, fillBuy)
  IN
  /\ ~ paused /\ Active(o)
  /\ offered # 0 /\ o.tokenBuy # ETH
  /\ Priced(o, fillBuy)
  /\ CanPay(u, o.tokenBuy, fillBuy)
  /\ Filled(i, fillBuy, fillSell)
  /\ \/ /\ o.tokenSell = ETH
        /\ ethBalances' = Credited(ethBalances, u, fillSell)
        /\ balances' = paid
     \/ /\ o.tokenSell # ETH
        /\ CanPay(Exchange, o.tokenSell, fillSell)
        /\ balances' = Moved(paid, o.tokenSell, Exchange, u, fillSell)
        /\ UNCHANGED ethBalances
  /\ UNCHANGED <<now, roleVars, requestVars, nextOrderId, userOrderIds, swept>>

\* The maker's ETH and the excess of the taker's are credited, not sent.
FillOrderWithETH(u, i, value) ==
  LET o        == orders[i]
      fillBuy  == FillBuy(o, value)
      fillSell == FillSell(o, fillBuy)
      paid     == Moved(balances, ETH, u, Exchange, value)
  IN
  /\ ~ paused /\ Active(o)
  /\ value # 0 /\ o.tokenBuy = ETH
  /\ Priced(o, fillBuy)
  /\ CanPay(u, ETH, value) /\ CanPay(Exchange, o.tokenSell, fillSell)
  /\ Filled(i, fillBuy, fillSell)
  /\ ethBalances' = Credited(Credited(ethBalances, o.maker, fillBuy), u, value - fillBuy)
  /\ balances' = Moved(paid, o.tokenSell, Exchange, u, fillSell)
  /\ UNCHANGED <<now, roleVars, requestVars, nextOrderId, userOrderIds, swept>>

CancelOrder(u, i) ==
  LET o         == orders[i]
      remaining == o.amountSell - o.filledSell
  IN
  /\ Open(o) /\ u = o.maker
  /\ orders' = [orders EXCEPT ![i].cancelled = TRUE]
  /\ \/ /\ o.tokenSell = ETH
        /\ ethBalances' = Credited(ethBalances, u, remaining)
        /\ UNCHANGED balances
     \/ /\ o.tokenSell # ETH
        /\ CanPay(Exchange, o.tokenSell, remaining)
        /\ balances' = Moved(balances, o.tokenSell, Exchange, u, remaining)
        /\ UNCHANGED ethBalances
  /\ UNCHANGED <<now, roleVars, requestVars, nextOrderId, userOrderIds, swept>>

\* Variant: withdrawals are whenNotPaused too.
WithdrawEthUnpaused(u) ==
  /\ ~ paused /\ ethBalances[u] # 0
  /\ CanPay(Exchange, ETH, ethBalances[u]) /\ u \notin RejectsEth
  /\ ethBalances' = [ethBalances EXCEPT ![u] = 0]
  /\ balances' = Moved(balances, ETH, Exchange, u, ethBalances[u])
  /\ UNCHANGED <<now, roleVars, requestVars, bookVars, swept>>

WithdrawEth(u) ==
  /\ ethBalances[u] # 0
  /\ CanPay(Exchange, ETH, ethBalances[u]) /\ u \notin RejectsEth
  /\ ethBalances' = [ethBalances EXCEPT ![u] = 0]
  /\ balances' = Moved(balances, ETH, Exchange, u, ethBalances[u])
  /\ UNCHANGED <<now, roleVars, requestVars, bookVars, swept>>

-----------------------------------------------------------------------------
OwnerStep(u) ==
  \/ \E v \in Heirs : TransferOwnership(u, v)
  \/ AcceptOwnership(u) \/ Pause(u) \/ Unpause(u)

EmergencyStep(u) ==
  \/ \E a \in Assets, n \in Amounts, v \in Users : RequestEmergencyWithdraw(u, a, n, v)
  \/ \E r \in RequestIds : ExecuteEmergencyWithdraw(u, r) \/ CancelEmergencyWithdraw(u, r)

TradeStep(u) ==
  \/ \E sell, buy \in Assets, m, n \in Amounts, d \in Deadlines :
       CreateOrder(u, sell, buy, m, n, d)
  \/ \E i \in OrderIds, n \in Amounts : FillOrder(u, i, n) \/ FillOrderWithETH(u, i, n)
  \/ \E i \in OrderIds : CancelOrder(u, i)
  \/ WithdrawEth(u)

Next ==
  \/ Tick
  \/ \E u \in Users :
       \/ OwnerStep(u) \/ EmergencyStep(u) \/ TradeStep(u)
       \/ \E t \in Tokens, n \in Gifts : Donate(u, t, n)

Spec == Init /\ [][Next]_vars

-----------------------------------------------------------------------------
(* What the contract holds for others *)

\* What order o still keeps in escrow of asset a.
Unfilled(o, a) ==
  IF o.tokenSell = a /\ ~ o.cancelled THEN o.amountSell - o.filledSell ELSE 0

Escrow(book, a) == SumOver([i \in OrderIds |-> Unfilled(book[i], a)], OrderIds)

\* All that the contract owes in asset a.
Owed(a) == Escrow(orders, a) + (IF a = ETH THEN SumOver(ethBalances, Users) ELSE 0)

\* Everything a user has of an asset, credited ETH included.
Wealth(u, a) == balances[a][u] + (IF a = ETH THEN ethBalances[u] ELSE 0)

TypeOK ==
  /\ now \in Nat
  /\ owner \in Users /\ pendingOwner \in Users \cup {NoOne} /\ paused \in BOOLEAN
  /\ emergencyRequests \in [RequestIds -> EmergencyRequest] /\ nextEmergencyId \in Nat
  /\ orders \in [OrderIds -> Order] /\ nextOrderId \in Nat
  /\ userOrderIds \in [Users -> Seq(OrderIds)]
  /\ ethBalances \in [Users -> Nat]
  /\ balances \in [Assets -> [Accounts -> Nat]]
  /\ swept \in [Assets -> Nat]

\* Partial fills round down, each on its own.  However an order is cut into
\* fills, neither side is filled beyond its amount and the maker has received
\* at least the order's price for what left the escrow (fillOrder and
\* fillOrderWithETH, which have no final check of either).
MakerPrice ==
  \A i \in OrderIds :
    LET o == orders[i] IN
    /\ o.filledSell <= o.amountSell /\ o.filledBuy <= o.amountBuy
    /\ o.filledSell * o.amountBuy <= o.filledBuy * o.amountSell

\* The assets the contract holds, with what emergency withdrawals took, cover
\* every unfilled order and every credit of ETH: no sequence of creations,
\* fills, cancellations and withdrawals pays one user out of another's escrow.
Covered == \A a \in Assets : balances[a][Exchange] + swept[a] >= Owed(a)

\* ETH cannot be sent to the contract other than by its payable functions
\* (receive reverts), and each of them books all of the value it is sent: no
\* wei is stranded, in particular not the excess of fillOrderWithETH.
EthAccounted == balances[ETH][Exchange] + swept[ETH] = Owed(ETH)

\* What the contract holds is enough for all it owes, and of ETH exactly that.
Solvent == Covered /\ EthAccounted

\* As long as no emergency withdrawal took the asset, whoever has an open order
\* can cancel it and whoever has credited ETH and can receive it can withdraw
\* it, paused or not, expired or not (pause: "Cancellations and ETH withdrawals
\* remain available").
ExitAlwaysOpen ==
  /\ \A i \in OrderIds :
       Open(orders[i]) /\ swept[orders[i].tokenSell] = 0
         => ENABLED CancelOrder(orders[i].maker, i)
  /\ \A u \in Users \ RejectsEth :
       ethBalances[u] # 0 /\ swept[ETH] = 0 => ENABLED WithdrawEth(u)

\* What an emergency withdrawal took was announced at least a timelock before,
\* by a request that was used once only, whatever the owner cancelled and
\* whoever owned the contract meanwhile.
Announced(a) ==
  SumOver([r \in RequestIds |->
             IF /\ emergencyRequests[r].token = a /\ emergencyRequests[r].executed
                /\ emergencyRequests[r].executeAfter <= now
             THEN emergencyRequests[r].amount ELSE 0], RequestIds)

SweptWasAnnounced == \A a \in Assets : swept[a] <= Announced(a)

\* A step that fills an order trades, and does nothing else: some taker pays
\* fillBuy and gets fillSell, the maker gets fillBuy, nobody else's wealth
\* changes (the refund of excess ETH included), the exchange is not paused and
\* the order's deadline has not passed.
TradesFor(u, i) ==
  LET o    == orders[i]
      buy  == orders'[i].filledBuy - o.filledBuy
      sell == orders'[i].filledSell - o.filledSell
      Gain(v, a) == (IF v = o.maker /\ a = o.tokenBuy THEN buy ELSE 0)
                  + (IF v = u /\ a = o.tokenSell THEN sell ELSE 0)
                  - (IF v = u /\ a = o.tokenBuy THEN buy ELSE 0)
  IN \A v \in Users, a \in Assets : Wealth(v, a)' = Wealth(v, a) + Gain(v, a)

FairExchange ==
  [][\A i \in OrderIds :
       orders[i].filledSell # orders'[i].filledSell =>
         /\ ~ paused /\ Active(orders[i])
         /\ \E u \in Users : TradesFor(u, i)]_vars
=============================================================================
