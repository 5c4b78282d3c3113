--------------------------- MODULE ExchangeProofs ---------------------------
(***************************************************************************)
(* For every set of users and tokens, every number of orders and all       *)
(* amounts: the exchange keeps its types, its makers' prices, and enough   *)
(* of every asset for every open order and every credit.                   *)
(* An order keeps its terms and ends for good, only its maker cancels it,  *)
(* and nobody gets poorer by what another does.                            *)
(***************************************************************************)
EXTENDS ExchangeViews, SumsProofs

(***************************************************************************)
(* Orders are numbered in the order of creation, and an order or a request *)
(* that exists names real accounts and assets.                             *)
(***************************************************************************)
OrderOK(o) ==
  Exists(o) => /\ o.maker \in Users
               /\ o.tokenSell \in Assets /\ o.tokenBuy \in Assets
               /\ o.tokenSell # o.tokenBuy /\ o.amountBuy # 0

BookOK ==
  \A i \in OrderIds :
    OrderOK(orders[i]) /\ (i >= nextOrderId => orders[i] = NoOrder)

RequestsOK ==
  \A r \in RequestIds :
    emergencyRequests[r].amount # 0 =>
      emergencyRequests[r].token \in Assets /\ emergencyRequests[r].recipient \in Users

IInv == TypeOK /\ BookOK /\ RequestsOK /\ MakerPrice

-----------------------------------------------------------------------------
(* Arithmetic of a fill *)

LEMMA DivIsFloor ==
  ASSUME NEW m \in Nat, NEW n \in Nat, n # 0
  PROVE  m \div n \in Nat /\ (m \div n) * n <= m
BY Z3

LEMMA ProductIsNat == ASSUME NEW m \in Nat, NEW n \in Nat PROVE m * n \in Nat
BY Z3

LEMMA PriceAddsUp ==
  ASSUME NEW s \in Nat, NEW b \in Nat, NEW ds \in Nat, NEW db \in Nat,
         NEW A \in Nat, NEW B \in Nat,
         s * B <= b * A, ds * B <= db * A
  PROVE  (s + ds) * B <= (b + db) * A
<1>1. (s + ds) * B = s * B + ds * B /\ (b + db) * A = b * A + db * A
  BY Z3
<1>2. s * B \in Nat /\ ds * B \in Nat /\ b * A \in Nat /\ db * A \in Nat
  BY ProductIsNat
<1>3. QED BY <1>1, <1>2

LEMMA PriceBoundsSell ==
  ASSUME NEW s \in Nat, NEW b \in Nat, NEW A \in Nat, NEW B \in Nat,
         B # 0, b <= B, s * B <= b * A
  PROVE  s <= A
<1>1. b * A <= B * A
  BY Z3
<1>2. s > A => s * B >= (A + 1) * B
  BY Z3
<1>3. (A + 1) * B = B * A + B
  BY Z3
<1>4. s * B \in Nat /\ b * A \in Nat /\ B * A \in Nat /\ (A + 1) * B \in Nat
  BY ProductIsNat
<1>5. QED BY <1>1, <1>2, <1>3, <1>4

(***************************************************************************)
(* What a fill takes and gives, from the two clamps and the floor of       *)
(* fillOrder: the order stays within its amounts and its price.            *)
(***************************************************************************)
LEMMA FillKeepsPrice ==
  ASSUME NEW o \in Order, NEW n \in Nat, o.amountBuy # 0,
         o.filledBuy <= o.amountBuy, o.filledSell * o.amountBuy <= o.filledBuy * o.amountSell
  PROVE  LET db == FillBuy(o, n)
             ds == FillSell(o, db)
         IN /\ db \in Nat /\ ds \in Nat /\ db <= n
            /\ o.filledBuy + db <= o.amountBuy
            /\ o.filledSell + ds <= o.amountSell
            /\ (o.filledSell + ds) * o.amountBuy <= (o.filledBuy + db) * o.amountSell
<1> DEFINE db == FillBuy(o, n)
           ds == FillSell(o, db)
<1>1. /\ o.amountSell \in Nat /\ o.amountBuy \in Nat
      /\ o.filledSell \in Nat /\ o.filledBuy \in Nat
  BY DEF Order
<1>2. db \in Nat /\ db <= n /\ o.filledBuy + db <= o.amountBuy
  BY <1>1 DEF FillBuy, MinOf
<1> HIDE DEF db
<1>3. ds \in Nat /\ ds * o.amountBuy <= db * o.amountSell
  <2>1. db * o.amountSell \in Nat
    BY <1>1, <1>2, ProductIsNat
  <2>2. QED BY <1>1, <2>1, DivIsFloor DEF FillSell
<1> HIDE DEF ds
<1>4. (o.filledSell + ds) * o.amountBuy <= (o.filledBuy + db) * o.amountSell
  BY <1>1, <1>2, <1>3, PriceAddsUp
<1>5. o.filledSell + ds <= o.amountSell
  <2>1. o.filledSell + ds \in Nat /\ o.filledBuy + db \in Nat
    BY <1>1, <1>2, <1>3
  <2>2. QED BY <1>1, <1>2, <1>4, <2>1, PriceBoundsSell
<1>6. QED BY <1>2, <1>3, <1>4, <1>5 DEF db, ds

-----------------------------------------------------------------------------
(* Transfers *)

Holdings == [Assets -> [Accounts -> Nat]]

LEMMA MovedIs ==
  ASSUME NEW b \in Holdings, NEW a \in Assets,
         NEW from \in Accounts, NEW to \in Accounts, NEW n \in Nat, b[a][from] >= n
  PROVE  /\ Moved(b, a, from, to, n) \in Holdings
         /\ \A c \in Assets, x \in Accounts :
              Moved(b, a, from, to, n)[c][x] =
                IF c = a /\ from # to
                THEN IF x = from THEN b[c][x] - n ELSE IF x = to THEN b[c][x] + n ELSE b[c][x]
                ELSE b[c][x]
<1> DEFINE m1 == [b EXCEPT ![a][from] = @ - n]
           m2 == [m1 EXCEPT ![a][to] = @ + n]
<1>1. Moved(b, a, from, to, n) = m2
  BY DEF Moved
<1>2. /\ m1 \in Holdings
      /\ \A c \in Assets, x \in Accounts :
           m1[c][x] = IF c = a /\ x = from THEN b[c][x] - n ELSE b[c][x]
  BY DEF Holdings
<1> HIDE DEF m1
<1>3. /\ m2 \in Holdings
      /\ \A c \in Assets, x \in Accounts :
           m2[c][x] = IF c = a /\ x = to THEN m1[c][x] + n ELSE m1[c][x]
  BY <1>2 DEF Holdings
<1> HIDE DEF m2
<1>4. \A c \in Assets, x \in Accounts : b[c][x] \in Nat
  BY DEF Holdings
<1>5. QED BY <1>1, <1>2, <1>3, <1>4

LEMMA CreditedIs ==
  ASSUME NEW credit \in [Users -> Nat], NEW u \in Users, NEW n \in Nat
  PROVE  /\ Credited(credit, u, n) \in [Users -> Nat]
         /\ SumOver(Credited(credit, u, n), Users) = SumOver(credit, Users) + n
<1> DEFINE new == Credited(credit, u, n)
<1>1. new \in [Users -> Nat]
  BY DEF Credited
<1>2. /\ \A x \in Users : credit[x] \in Int /\ new[x] \in Int
      /\ \A x \in Users : x # u => new[x] = credit[x]
      /\ new[u] - credit[u] = n /\ credit[u] \in Nat
  BY DEF Credited
<1> HIDE DEF new
<1>3. SumOver(new, Users) = SumOver(credit, Users) + (new[u] - credit[u])
  BY <1>2, SumUpdate, AddressAssumption
<1>4. QED BY <1>1, <1>2, <1>3 DEF new

(***************************************************************************)
(* Writing one order changes what is in escrow by what that order keeps.   *)
(***************************************************************************)
LEMMA EscrowIs ==
  ASSUME NEW book \in [OrderIds -> Order], NEW i \in OrderIds, NEW p \in Order, NEW a
  PROVE  /\ Escrow(book, a) \in Int
         /\ Escrow([book EXCEPT ![i] = p], a)
              = Escrow(book, a) + (Unfilled(p, a) - Unfilled(book[i], a))
<1> DEFINE f == [j \in OrderIds |-> Unfilled(book[j], a)]
           g == [j \in OrderIds |-> Unfilled([book EXCEPT ![i] = p][j], a)]
<1>1. IsFiniteSet(OrderIds)
  BY FS_Interval, NumberAssumption DEF OrderIds
<1>2. /\ \A j \in OrderIds : f[j] \in Int /\ g[j] \in Int
      /\ \A j \in OrderIds : j # i => g[j] = f[j]
  <2>1. \A o \in Order : Unfilled(o, a) \in Int
    BY DEF Unfilled, Order
  <2>2. QED BY <2>1
<1>3. f[i] = Unfilled(book[i], a) /\ g[i] = Unfilled(p, a)
  OBVIOUS
<1>4. Escrow(book, a) = SumOver(f, OrderIds) /\ Escrow([book EXCEPT ![i] = p], a) = SumOver(g, OrderIds)
  BY DEF Escrow
<1> HIDE DEF f, g
<1>5. SumOver(f, OrderIds) \in Int
  BY <1>1, <1>2, SumInt
<1>6. SumOver(g, OrderIds) = SumOver(f, OrderIds) + (g[i] - f[i])
  BY <1>1, <1>2, SumUpdate
<1>7. QED BY <1>2, <1>3, <1>4, <1>5, <1>6

-----------------------------------------------------------------------------
(* The invariant, one lemma for each kind of step *)

LEMMA InitIInv == Init => IInv
<1> SUFFICES ASSUME Init PROVE IInv
  OBVIOUS
<1>1. NoOrder \in Order /\ NoRequest \in EmergencyRequest
  BY DEF NoOrder, Order, NoRequest, EmergencyRequest
<1>2. balances \in [Assets -> [Accounts -> Nat]]
  <2>1. \A a \in Assets, x \in Accounts : (IF x \in Users THEN Funds[a][x] ELSE 0) \in Nat
    BY NumberAssumption
  <2>2. QED BY <2>1 DEF Init
<1>3. TypeOK
  <2>1. userOrderIds \in [Users -> Seq(OrderIds)]
    BY DEF Init
  <2>2. emergencyRequests \in [RequestIds -> EmergencyRequest]
    BY <1>1 DEF Init
  <2>3. orders \in [OrderIds -> Order]
    BY <1>1 DEF Init
  <2>4. ethBalances \in [Users -> Nat] /\ swept \in [Assets -> Nat]
    BY DEF Init
  <2>5. /\ now \in Nat /\ nextEmergencyId \in Nat /\ nextOrderId \in Nat
        /\ owner \in Users /\ pendingOwner \in Users \cup {NoOne} /\ paused \in BOOLEAN
    BY AddressAssumption DEF Init
  <2>6. QED BY <1>2, <2>1, <2>2, <2>3, <2>4, <2>5 DEF TypeOK
<1>4. BookOK /\ RequestsOK /\ MakerPrice
  BY DEF Init, BookOK, OrderOK, RequestsOK, MakerPrice, NoOrder, NoRequest, Exists
<1>5. QED BY <1>3, <1>4 DEF IInv

(***************************************************************************)
(* Writing one order that is sound, and no other.                          *)
(***************************************************************************)
LEMMA BookStep ==
  ASSUME IInv, NEW i \in OrderIds, NEW p \in Order,
         orders' = [orders EXCEPT ![i] = p],
         OrderOK(p), p.filledSell <= p.amountSell, p.filledBuy <= p.amountBuy,
         p.filledSell * p.amountBuy <= p.filledBuy * p.amountSell,
         nextOrderId' >= nextOrderId, nextOrderId' \in Nat, i < nextOrderId'
  PROVE  orders' \in [OrderIds -> Order] /\ BookOK' /\ MakerPrice'
<1>1. orders \in [OrderIds -> Order] /\ nextOrderId \in Nat
  BY DEF IInv, TypeOK
<1>2. \A j \in OrderIds : orders'[j] = IF j = i THEN p ELSE orders[j]
  BY <1>1
<1>3. BookOK'
  BY <1>1, <1>2, NumberAssumption DEF IInv, BookOK, OrderOK, Exists, OrderIds
<1>4. MakerPrice'
  BY <1>1, <1>2 DEF IInv, MakerPrice
<1>5. QED BY <1>1, <1>3, <1>4

(***************************************************************************)
(* Steps that touch neither the book nor the requests nor the assets.      *)
(***************************************************************************)
LEMMA OwnerStepIInv ==
  ASSUME IInv, NEW u \in Users, OwnerStep(u)
  PROVE  IInv'
<1>1. UNCHANGED <<now, requestVars, bookVars, assetVars, swept>>
  BY DEF OwnerStep, TransferOwnership, AcceptOwnership, Pause, Unpause
<1>2. owner' \in Users /\ pendingOwner' \in Users \cup {NoOne} /\ paused' \in BOOLEAN
  BY AddressAssumption
     DEF IInv, TypeOK, OwnerStep, TransferOwnership, AcceptOwnership, Pause, Unpause
<1>3. TypeOK'
  BY <1>1, <1>2 DEF IInv, TypeOK, requestVars, bookVars, assetVars
<1>4. BookOK' /\ RequestsOK' /\ MakerPrice'
  BY <1>1 DEF IInv, BookOK, OrderOK, Exists, RequestsOK, MakerPrice, requestVars, bookVars
<1>5. QED BY <1>3, <1>4 DEF IInv

LEMMA QuietStepIInv ==
  ASSUME IInv, Tick \/ UNCHANGED vars
  PROVE  IInv'
<1>1. UNCHANGED <<roleVars, requestVars, bookVars, assetVars, swept>> /\ now' \in Nat
  BY DEF IInv, TypeOK, Tick, vars
<1>2. TypeOK'
  BY <1>1 DEF IInv, TypeOK, roleVars, requestVars, bookVars, assetVars
<1>3. BookOK' /\ RequestsOK' /\ MakerPrice'
  BY <1>1 DEF IInv, BookOK, OrderOK, Exists, RequestsOK, MakerPrice, requestVars, bookVars
<1>4. QED BY <1>2, <1>3 DEF IInv

LEMMA EmergencyStepIInv ==
  ASSUME IInv, NEW u \in Users, EmergencyStep(u)
  PROVE  IInv'
<1>1. UNCHANGED <<now, roleVars, bookVars, ethBalances>>
  BY DEF EmergencyStep, RequestEmergencyWithdraw, ExecuteEmergencyWithdraw,
         CancelEmergencyWithdraw, assetVars
<1>2. BookOK' /\ MakerPrice'
  BY <1>1 DEF IInv, BookOK, OrderOK, Exists, MakerPrice, bookVars
<1>3. SUFFICES /\ emergencyRequests' \in [RequestIds -> EmergencyRequest]
               /\ nextEmergencyId' \in Nat /\ RequestsOK'
               /\ balances' \in Holdings /\ swept' \in [Assets -> Nat]
  BY <1>1, <1>2 DEF IInv, TypeOK, Holdings, roleVars, bookVars
<1>4. /\ emergencyRequests \in [RequestIds -> EmergencyRequest] /\ nextEmergencyId \in Nat
      /\ now \in Nat /\ balances \in Holdings /\ swept \in [Assets -> Nat]
  BY DEF IInv, TypeOK, Holdings
<1>5. ASSUME NEW a \in Assets, NEW n \in Amounts, NEW v \in Users,
             RequestEmergencyWithdraw(u, a, n, v)
      PROVE  /\ emergencyRequests' \in [RequestIds -> EmergencyRequest]
             /\ nextEmergencyId' \in Nat /\ RequestsOK'
             /\ balances' \in Holdings /\ swept' \in [Assets -> Nat]
  <2> DEFINE new == [token |-> a, amount |-> n, recipient |-> v,
                     executeAfter |-> now + Timelock, executed |-> FALSE]
  <2>1. new.token \in Assets /\ new.recipient \in Users
    OBVIOUS
  <2>2. new \in EmergencyRequest
    BY <1>4, NumberAssumption DEF EmergencyRequest
  <2>3. /\ emergencyRequests' = [emergencyRequests EXCEPT ![nextEmergencyId] = new]
        /\ nextEmergencyId' = nextEmergencyId + 1
        /\ UNCHANGED <<balances, swept>>
    BY <1>5 DEF RequestEmergencyWithdraw, assetVars
  <2> HIDE DEF new
  <2>4. RequestsOK'
    BY <1>4, <2>1, <2>3 DEF IInv, RequestsOK
  <2>5. emergencyRequests' \in [RequestIds -> EmergencyRequest]
    BY <1>4, <2>2, <2>3
  <2>6. nextEmergencyId' \in Nat /\ balances' \in Holdings /\ swept' \in [Assets -> Nat]
    BY <1>4, <2>3
  <2>7. QED BY <2>4, <2>5, <2>6
<1>6. ASSUME NEW r \in RequestIds, ExecuteEmergencyWithdraw(u, r)
      PROVE  /\ emergencyRequests' \in [RequestIds -> EmergencyRequest]
             /\ nextEmergencyId' \in Nat /\ RequestsOK'
             /\ balances' \in Holdings /\ swept' \in [Assets -> Nat]
  <2> DEFINE req == emergencyRequests[r]
  <2>1. req.token \in Assets /\ req.recipient \in Users /\ req.amount \in Nat
    BY <1>4, <1>6 DEF IInv, RequestsOK, ExecuteEmergencyWithdraw, Pending, EmergencyRequest
  <2>2. balances' \in Holdings
    <3>1. /\ balances' = Moved(balances, req.token, Exchange, req.recipient, req.amount)
          /\ balances[req.token][Exchange] >= req.amount
      BY <1>6 DEF ExecuteEmergencyWithdraw, CanPay
    <3>2. Exchange \in Accounts /\ req.recipient \in Accounts
      BY <2>1 DEF Accounts
    <3> HIDE DEF req
    <3>3. QED BY <1>4, <2>1, <3>1, <3>2, MovedIs
  <2>3. swept' \in [Assets -> Nat]
    BY <1>4, <1>6, <2>1 DEF ExecuteEmergencyWithdraw
  <2>4. /\ emergencyRequests' = [emergencyRequests EXCEPT ![r].executed = TRUE]
        /\ nextEmergencyId' = nextEmergencyId
    BY <1>6 DEF ExecuteEmergencyWithdraw
  <2>5. emergencyRequests' \in [RequestIds -> EmergencyRequest] /\ RequestsOK'
    BY <1>4, <2>4 DEF IInv, RequestsOK, EmergencyRequest
  <2>6. QED BY <1>4, <2>2, <2>3, <2>4, <2>5
<1>7. ASSUME NEW r \in RequestIds, CancelEmergencyWithdraw(u, r)
      PROVE  /\ emergencyRequests' \in [RequestIds -> EmergencyRequest]
             /\ nextEmergencyId' \in Nat /\ RequestsOK'
             /\ balances' \in Holdings /\ swept' \in [Assets -> Nat]
  <2>1. /\ emergencyRequests' = [emergencyRequests EXCEPT ![r].executed = TRUE]
        /\ UNCHANGED <<nextEmergencyId, balances, swept>>
    BY <1>7 DEF CancelEmergencyWithdraw, assetVars
  <2>2. QED BY <1>4, <2>1 DEF IInv, RequestsOK, EmergencyRequest
<1>8. QED BY <1>5, <1>6, <1>7 DEF EmergencyStep

(***************************************************************************)
(* Donations and the five operations on orders and credits.  What they do  *)
(* not change keeps its part of the invariant.                             *)
(***************************************************************************)
LEMMA TradeFrame ==
  ASSUME IInv, UNCHANGED <<now, roleVars, requestVars, swept>>,
         orders' \in [OrderIds -> Order], BookOK', MakerPrice',
         nextOrderId' \in Nat, userOrderIds' \in [Users -> Seq(OrderIds)],
         ethBalances' \in [Users -> Nat], balances' \in Holdings
  PROVE  IInv'
<1>1. TypeOK'
  BY DEF IInv, TypeOK, roleVars, requestVars, Holdings
<1>2. RequestsOK'
  BY DEF IInv, RequestsOK, requestVars
<1>3. QED BY <1>1, <1>2 DEF IInv

LEMMA BookUnchanged ==
  ASSUME IInv, UNCHANGED bookVars
  PROVE  /\ orders' \in [OrderIds -> Order] /\ BookOK' /\ MakerPrice'
         /\ nextOrderId' \in Nat /\ userOrderIds' \in [Users -> Seq(OrderIds)]
BY DEF IInv, TypeOK, BookOK, OrderOK, Exists, MakerPrice, bookVars

LEMMA DonateIInv ==
  ASSUME IInv, NEW u \in Users, NEW t \in Tokens, NEW n \in Gifts, Donate(u, t, n)
  PROVE  IInv'
<1>1. balances \in Holdings /\ t \in Assets /\ u \in Accounts /\ Exchange \in Accounts
      /\ n \in Nat /\ balances[t][u] >= n /\ balances' = Moved(balances, t, u, Exchange, n)
  BY NumberAssumption DEF IInv, TypeOK, Holdings, Assets, Accounts, Donate, CanPay
<1>2. balances' \in Holdings
  BY <1>1, MovedIs
<1>3. /\ UNCHANGED <<now, roleVars, requestVars, swept>> /\ UNCHANGED bookVars
      /\ ethBalances' \in [Users -> Nat]
  BY DEF Donate, IInv, TypeOK
<1>4. QED BY <1>2, <1>3, BookUnchanged, TradeFrame

LEMMA WithdrawEthIInv ==
  ASSUME IInv, NEW u \in Users, WithdrawEth(u)
  PROVE  IInv'
<1>1. /\ balances \in Holdings /\ ETH \in Assets /\ u \in Accounts /\ Exchange \in Accounts
      /\ ethBalances \in [Users -> Nat] /\ ethBalances[u] \in Nat
      /\ balances[ETH][Exchange] >= ethBalances[u]
      /\ balances' = Moved(balances, ETH, Exchange, u, ethBalances[u])
  BY DEF IInv, TypeOK, Holdings, Assets, Accounts, WithdrawEth, CanPay
<1>2. balances' \in Holdings
  BY <1>1, MovedIs
<1>3. /\ UNCHANGED <<now, roleVars, requestVars, swept>> /\ UNCHANGED bookVars
      /\ ethBalances' \in [Users -> Nat]
  BY <1>1 DEF WithdrawEth
<1>4. QED BY <1>2, <1>3, BookUnchanged, TradeFrame

LEMMA CreateOrderIInv ==
  ASSUME IInv, NEW u \in Users, NEW sell \in Assets, NEW buy \in Assets,
         NEW m \in Amounts, NEW n \in Amounts, NEW d \in Deadlines,
         CreateOrder(u, sell, buy, m, n, d)
  PROVE  IInv'
<1> DEFINE p == [NoOrder EXCEPT !.maker = u, !.tokenSell = sell, !.tokenBuy = buy,
                                !.amountSell = m, !.amountBuy = n, !.deadline = d]
<1>1. /\ balances \in Holdings /\ orders \in [OrderIds -> Order] /\ nextOrderId \in Nat
      /\ userOrderIds \in [Users -> Seq(OrderIds)] /\ ethBalances \in [Users -> Nat]
      /\ m \in Nat /\ n \in Nat /\ d \in Nat
  BY NumberAssumption DEF IInv, TypeOK, Holdings
<1>2. /\ UNCHANGED <<now, roleVars, requestVars, swept>> /\ ethBalances' = ethBalances
      /\ balances' = Moved(balances, sell, u, Exchange, m) /\ balances[sell][u] >= m
      /\ sell # buy /\ n # 0
  BY DEF CreateOrder, CanPay, Accepts
<1>3. /\ nextOrderId < MaxOrders /\ nextOrderId' = nextOrderId + 1
      /\ orders' = [orders EXCEPT ![nextOrderId] = p]
      /\ userOrderIds' = [userOrderIds EXCEPT ![u] = Append(@, nextOrderId)]
  BY DEF CreateOrder, PushOrder
<1>4. nextOrderId \in OrderIds
  BY <1>1, <1>3, NumberAssumption DEF OrderIds
<1>5. /\ p \in Order /\ OrderOK(p) /\ p.filledSell = 0 /\ p.filledBuy = 0
      /\ p.amountBuy = n /\ p.amountSell = m
  BY <1>1, <1>2 DEF NoOrder, Order, OrderOK, Exists
<1> HIDE DEF p
<1>6. orders' \in [OrderIds -> Order] /\ BookOK' /\ MakerPrice'
  <2>1. /\ nextOrderId' >= nextOrderId /\ nextOrderId' \in Nat /\ nextOrderId < nextOrderId'
        /\ p.filledSell <= p.amountSell /\ p.filledBuy <= p.amountBuy
        /\ p.filledSell * p.amountBuy <= p.filledBuy * p.amountSell
    BY <1>1, <1>3, <1>5
  <2>2. QED BY <1>3, <1>4, <1>5, <2>1, BookStep
<1>7. balances' \in Holdings
  <2>1. u \in Accounts /\ Exchange \in Accounts
    BY DEF Accounts
  <2>2. QED BY <1>1, <1>2, <2>1, MovedIs
<1>8. userOrderIds' \in [Users -> Seq(OrderIds)] /\ nextOrderId' \in Nat
  BY <1>1, <1>3, <1>4
<1>9. QED BY <1>1, <1>2, <1>6, <1>7, <1>8, TradeFrame

(***************************************************************************)
(* What both fills have in common: the order they may fill, and what the   *)
(* fill leaves of it.                                                      *)
(***************************************************************************)
Refilled(o, db, ds) == [o EXCEPT !.filledBuy = @ + db, !.filledSell = @ + ds]

LEMMA FillFacts ==
  ASSUME IInv, NEW i \in OrderIds, NEW n \in Amounts, Active(orders[i]),
         Filled(i, FillBuy(orders[i], n), FillSell(orders[i], FillBuy(orders[i], n))),
         UNCHANGED <<nextOrderId, userOrderIds>>
  PROVE  LET o  == orders[i]
             db == FillBuy(o, n)
             ds == FillSell(o, db)
         IN /\ o \in Order /\ ~ o.cancelled
            /\ o.maker \in Users /\ o.tokenSell \in Assets /\ o.tokenBuy \in Assets
            /\ o.tokenSell # o.tokenBuy
            /\ n \in Nat /\ db \in Nat /\ ds \in Nat /\ db <= n
            /\ Refilled(o, db, ds) \in Order
            /\ orders' = [orders EXCEPT ![i] = Refilled(o, db, ds)]
            /\ orders' \in [OrderIds -> Order] /\ BookOK' /\ MakerPrice'
            /\ nextOrderId' \in Nat /\ userOrderIds' \in [Users -> Seq(OrderIds)]
<1> DEFINE o  == orders[i]
           db == FillBuy(o, n)
           ds == FillSell(o, db)
           p  == Refilled(o, db, ds)
<1>1. /\ orders \in [OrderIds -> Order] /\ nextOrderId \in Nat /\ n \in Nat
      /\ userOrderIds \in [Users -> Seq(OrderIds)]
  BY NumberAssumption DEF IInv, TypeOK
<1>2. o \in Order
  BY <1>1
<1>3. Exists(o) /\ ~ o.cancelled
  BY DEF Active, Open
<1>4. OrderOK(o)
  BY DEF IInv, BookOK
<1>5. /\ o.maker \in Users /\ o.tokenSell \in Assets /\ o.tokenBuy \in Assets
      /\ o.tokenSell # o.tokenBuy /\ o.amountBuy # 0
  BY <1>3, <1>4 DEF OrderOK
<1>6. o.filledBuy <= o.amountBuy /\ o.filledSell * o.amountBuy <= o.filledBuy * o.amountSell
  BY DEF IInv, MakerPrice
<1>7. i < nextOrderId
  <2>1. i \in Int
    BY DEF OrderIds
  <2>2. i >= nextOrderId => o = NoOrder
    BY DEF IInv, BookOK
  <2>3. ~ Exists(NoOrder)
    BY DEF Exists, NoOrder
  <2>4. QED BY <1>1, <1>3, <2>1, <2>2, <2>3
<1>8. orders' = [orders EXCEPT ![i] = p]
  <2> DEFINE x == FillBuy(o, n)
             y == FillSell(o, x)
  <2>1. orders' = [orders EXCEPT ![i].filledBuy = @ + x, ![i].filledSell = @ + y]
    BY DEF Filled
  <2> HIDE DEF x, y
  <2>2. orders' = [orders EXCEPT ![i] = Refilled(o, x, y)]
    BY <1>1, <1>2, <2>1 DEF Refilled, Order
  <2>3. QED BY <2>2 DEF x, y
<1> HIDE DEF o
<1>9. /\ db \in Nat /\ ds \in Nat /\ db <= n
      /\ o.filledBuy + db <= o.amountBuy
      /\ o.filledSell + ds <= o.amountSell
      /\ (o.filledSell + ds) * o.amountBuy <= (o.filledBuy + db) * o.amountSell
  BY <1>1, <1>2, <1>5, <1>6, FillKeepsPrice
<1> HIDE DEF db, ds
<1>10. /\ p \in Order /\ OrderOK(p)
       /\ p.filledSell <= p.amountSell /\ p.filledBuy <= p.amountBuy
       /\ p.filledSell * p.amountBuy <= p.filledBuy * p.amountSell
  <2>1. /\ p.filledSell = o.filledSell + ds /\ p.filledBuy = o.filledBuy + db
        /\ p.amountSell = o.amountSell /\ p.amountBuy = o.amountBuy
        /\ p.maker = o.maker /\ p.tokenSell = o.tokenSell /\ p.tokenBuy = o.tokenBuy
    BY <1>2 DEF Refilled, Order
  <2>2. p \in Order
    <3> DEFINE fb == o.filledBuy + db
               fs == o.filledSell + ds
    <3>1. fb \in Nat /\ fs \in Nat
      BY <1>2, <1>9 DEF Order
    <3>2. p = [o EXCEPT !.filledBuy = fb, !.filledSell = fs]
      BY DEF Refilled
    <3> HIDE DEF fb, fs, p
    <3>3. QED BY <1>2, <3>1, <3>2 DEF Order
  <2> HIDE DEF p
  <2>3. OrderOK(p)
    BY <1>5, <2>1 DEF OrderOK
  <2>4. QED BY <1>9, <2>1, <2>2, <2>3
<1>11. nextOrderId' >= nextOrderId /\ nextOrderId' \in Nat /\ i < nextOrderId'
  BY <1>1, <1>7
<1>12. orders' \in [OrderIds -> Order] /\ BookOK' /\ MakerPrice'
  <2> HIDE DEF p
  <2>1. QED BY <1>8, <1>10, <1>11, BookStep
<1>13. QED BY <1>1, <1>2, <1>3, <1>5, <1>8, <1>9, <1>10, <1>11, <1>12 DEF o, db, ds

LEMMA FillOrderIInv ==
  ASSUME IInv, NEW u \in Users, NEW i \in OrderIds, NEW n \in Amounts, FillOrder(u, i, n)
  PROVE  IInv'
<1> DEFINE o    == orders[i]
           db   == FillBuy(o, n)
           ds   == FillSell(o, db)
           paid == Moved(balances, o.tokenBuy, u, o.maker, db)
<1>1. /\ UNCHANGED <<now, roleVars, requestVars, swept>>
      /\ UNCHANGED <<nextOrderId, userOrderIds>>
      /\ Active(o) /\ Filled(i, db, ds) /\ balances[o.tokenBuy][u] >= db
      /\ \/ ethBalances' = Credited(ethBalances, u, ds) /\ balances' = paid
         \/ /\ paid = paid /\ balances[o.tokenSell][Exchange] >= ds
            /\ balances' = Moved(paid, o.tokenSell, Exchange, u, ds)
            /\ ethBalances' = ethBalances
  BY DEF FillOrder, CanPay
<1>2. /\ o.maker \in Users /\ o.tokenSell \in Assets /\ o.tokenBuy \in Assets
      /\ o.tokenSell # o.tokenBuy /\ db \in Nat /\ ds \in Nat
      /\ orders' \in [OrderIds -> Order] /\ BookOK' /\ MakerPrice'
      /\ nextOrderId' \in Nat /\ userOrderIds' \in [Users -> Seq(OrderIds)]
  BY <1>1, FillFacts
<1>3. /\ balances \in Holdings /\ ethBalances \in [Users -> Nat]
      /\ u \in Accounts /\ Exchange \in Accounts /\ o.maker \in Accounts
  BY <1>2 DEF IInv, TypeOK, Holdings, Accounts
<1> HIDE DEF o, db, ds
<1>4. /\ paid \in Holdings
      /\ paid[o.tokenSell][Exchange] = balances[o.tokenSell][Exchange]
  BY <1>1, <1>2, <1>3, MovedIs
<1> HIDE DEF paid
<1>5. balances' \in Holdings /\ ethBalances' \in [Users -> Nat]
  <2>1. balances' \in Holdings
    BY <1>1, <1>2, <1>3, <1>4, MovedIs
  <2>2. Credited(ethBalances, u, ds) \in [Users -> Nat]
    BY <1>2, <1>3, CreditedIs
  <2>3. ethBalances' \in [Users -> Nat]
    BY <1>1, <1>3, <2>2
  <2>4. QED BY <2>1, <2>3
<1>6. QED BY <1>1, <1>2, <1>5, TradeFrame

LEMMA FillOrderWithETHIInv ==
  ASSUME IInv, NEW u \in Users, NEW i \in OrderIds, NEW n \in Amounts, FillOrderWithETH(u, i, n)
  PROVE  IInv'
<1> DEFINE o    == orders[i]
           db   == FillBuy(o, n)
           ds   == FillSell(o, db)
           paid == Moved(balances, ETH, u, Exchange, n)
           made == Credited(ethBalances, o.maker, db)
<1>1. /\ UNCHANGED <<now, roleVars, requestVars, swept>>
      /\ UNCHANGED <<nextOrderId, userOrderIds>>
      /\ Active(o) /\ Filled(i, db, ds) /\ balances[ETH][u] >= n
      /\ balances[o.tokenSell][Exchange] >= ds /\ o.tokenBuy = ETH
      /\ balances' = Moved(paid, o.tokenSell, Exchange, u, ds)
      /\ ethBalances' = Credited(made, u, n - db)
  BY DEF FillOrderWithETH, CanPay
<1>2. /\ o.maker \in Users /\ o.tokenSell \in Assets /\ o.tokenBuy \in Assets
      /\ o.tokenSell # o.tokenBuy /\ db \in Nat /\ ds \in Nat /\ n \in Nat /\ db <= n
      /\ orders' \in [OrderIds -> Order] /\ BookOK' /\ MakerPrice'
      /\ nextOrderId' \in Nat /\ userOrderIds' \in [Users -> Seq(OrderIds)]
  BY <1>1, FillFacts
<1>3. /\ balances \in Holdings /\ ethBalances \in [Users -> Nat] /\ ETH \in Assets
      /\ u \in Accounts /\ Exchange \in Accounts
  BY DEF IInv, TypeOK, Holdings, Accounts, Assets
<1> HIDE DEF o, db, ds
<1>4. /\ paid \in Holdings
      /\ paid[o.tokenSell][Exchange] = balances[o.tokenSell][Exchange]
  BY <1>1, <1>2, <1>3, MovedIs
<1>5. made \in [Users -> Nat] /\ n - db \in Nat
  <2>1. made \in [Users -> Nat]
    BY <1>2, <1>3, CreditedIs
  <2>2. n - db \in Nat
    BY <1>2
  <2>3. QED BY <2>1, <2>2
<1> HIDE DEF paid, made
<1>6. balances' \in Holdings /\ ethBalances' \in [Users -> Nat]
  BY <1>1, <1>2, <1>3, <1>4, <1>5, MovedIs, CreditedIs
<1>7. QED BY <1>1, <1>2, <1>6, TradeFrame

LEMMA CancelFacts ==
  ASSUME IInv, NEW u \in Users, NEW i \in OrderIds, CancelOrder(u, i)
  PROVE  LET o == orders[i]
             p == [o EXCEPT !.cancelled = TRUE]
         IN /\ o \in Order /\ p \in Order /\ ~ o.cancelled
            /\ o.tokenSell \in Assets /\ o.amountSell - o.filledSell \in Nat
            /\ orders' = [orders EXCEPT ![i] = p]
            /\ orders' \in [OrderIds -> Order] /\ BookOK' /\ MakerPrice'
            /\ nextOrderId' \in Nat /\ userOrderIds' \in [Users -> Seq(OrderIds)]
<1> DEFINE o == orders[i]
           p == [o EXCEPT !.cancelled = TRUE]
<1>1. /\ orders \in [OrderIds -> Order] /\ nextOrderId \in Nat
      /\ userOrderIds \in [Users -> Seq(OrderIds)] /\ o \in Order
  BY DEF IInv, TypeOK
<1>2. /\ Exists(o) /\ ~ o.cancelled /\ o.filledSell < o.amountSell
      /\ UNCHANGED <<nextOrderId, userOrderIds>>
      /\ orders' = [orders EXCEPT ![i].cancelled = TRUE]
  BY DEF CancelOrder, Open
<1>3. OrderOK(o) /\ (i >= nextOrderId => o = NoOrder)
  BY DEF IInv, BookOK
<1>4. /\ o.filledSell <= o.amountSell /\ o.filledBuy <= o.amountBuy
      /\ o.filledSell * o.amountBuy <= o.filledBuy * o.amountSell
  BY DEF IInv, MakerPrice
<1>5. orders' = [orders EXCEPT ![i] = p]
  BY <1>1, <1>2
<1>6. i < nextOrderId
  <2>1. i \in Int /\ ~ Exists(NoOrder)
    BY DEF OrderIds, Exists, NoOrder
  <2>2. QED BY <1>1, <1>2, <1>3, <2>1
<1> HIDE DEF o
<1>7. o.tokenSell \in Assets /\ o.amountSell - o.filledSell \in Nat
  BY <1>1, <1>2, <1>3 DEF OrderOK, Order
<1>8. /\ p.filledSell = o.filledSell /\ p.filledBuy = o.filledBuy
      /\ p.amountSell = o.amountSell /\ p.amountBuy = o.amountBuy
      /\ p.maker = o.maker /\ p.tokenSell = o.tokenSell /\ p.tokenBuy = o.tokenBuy
  BY <1>1 DEF Order
<1>9. p \in Order
  BY <1>1 DEF Order
<1> HIDE DEF p
<1>10. OrderOK(p)
  BY <1>3, <1>8 DEF OrderOK, Exists
<1>11. orders' \in [OrderIds -> Order] /\ BookOK' /\ MakerPrice'
  <2>1. nextOrderId' >= nextOrderId /\ nextOrderId' \in Nat /\ i < nextOrderId'
    BY <1>1, <1>2, <1>6
  <2>2. /\ p.filledSell <= p.amountSell /\ p.filledBuy <= p.amountBuy
        /\ p.filledSell * p.amountBuy <= p.filledBuy * p.amountSell
    BY <1>4, <1>8
  <2>3. QED BY <1>5, <1>9, <1>10, <2>1, <2>2, BookStep
<1>12. QED BY <1>1, <1>2, <1>5, <1>7, <1>9, <1>11 DEF o, p

LEMMA CancelOrderIInv ==
  ASSUME IInv, NEW u \in Users, NEW i \in OrderIds, CancelOrder(u, i)
  PROVE  IInv'
<1> DEFINE o == orders[i]
           n == o.amountSell - o.filledSell
<1>1. /\ UNCHANGED <<now, roleVars, requestVars, swept>>
      /\ \/ ethBalances' = Credited(ethBalances, u, n) /\ balances' = balances
         \/ /\ balances[o.tokenSell][Exchange] >= n
            /\ balances' = Moved(balances, o.tokenSell, Exchange, u, n)
            /\ ethBalances' = ethBalances
  BY DEF CancelOrder, CanPay
<1>2. /\ o.tokenSell \in Assets /\ n \in Nat
      /\ orders' \in [OrderIds -> Order] /\ BookOK' /\ MakerPrice'
      /\ nextOrderId' \in Nat /\ userOrderIds' \in [Users -> Seq(OrderIds)]
  BY CancelFacts
<1>3. /\ balances \in Holdings /\ ethBalances \in [Users -> Nat]
      /\ u \in Accounts /\ Exchange \in Accounts
  BY DEF IInv, TypeOK, Holdings, Accounts
<1> HIDE DEF o, n
<1>4. balances' \in Holdings /\ ethBalances' \in [Users -> Nat]
  <2>1. balances' \in Holdings
    BY <1>1, <1>2, <1>3, MovedIs
  <2>2. Credited(ethBalances, u, n) \in [Users -> Nat]
    BY <1>2, <1>3, CreditedIs
  <2>3. ethBalances' \in [Users -> Nat]
    BY <1>1, <1>3, <2>2
  <2>4. QED BY <2>1, <2>3
<1>5. QED BY <1>1, <1>2, <1>4, TradeFrame

LEMMA StepIInv == IInv /\ [Next]_vars => IInv'
<1> SUFFICES ASSUME IInv, [Next]_vars PROVE IInv'
  OBVIOUS
<1>1. ASSUME NEW u \in Users, TradeStep(u) PROVE IInv'
  BY <1>1, CreateOrderIInv, FillOrderIInv, FillOrderWithETHIInv, CancelOrderIInv, WithdrawEthIInv
     DEF TradeStep
<1>2. QED BY <1>1, QuietStepIInv, OwnerStepIInv, EmergencyStepIInv, DonateIInv DEF Next

(***************************************************************************)
(* The invariant holds in every reachable state.                           *)
(***************************************************************************)
THEOREM Invariance == Spec => []IInv
BY InitIInv, StepIInv, PTL DEF Spec

(***************************************************************************)
(* Every variable of the contract keeps its type: in particular no         *)
(* balance, credit or remaining amount ever goes below zero.               *)
(***************************************************************************)
THEOREM Typing == Spec => []TypeOK
<1>1. IInv => TypeOK
  BY DEF IInv
<1>2. QED BY <1>1, Invariance, PTL

(***************************************************************************)
(* However an order is cut into fills, the maker gets its price, and       *)
(* neither side is filled beyond its amount.                               *)
(***************************************************************************)
THEOREM MakersGetTheirPrice == Spec => []MakerPrice
<1>1. IInv => MakerPrice
  BY DEF IInv
<1>2. QED BY <1>1, Invariance, PTL

-----------------------------------------------------------------------------
(* What the contract holds over what it owes *)

Credits(c) == SumOver(c, Users)

Slack(a) == balances[a][Exchange] + swept[a] - Owed(a)

\* A step never lowers the slack of an asset, and leaves that of ETH alone.
SlackKept(a) == Slack(a)' >= Slack(a) /\ (a = ETH => Slack(a)' = Slack(a))

LEMMA TotalsAreInt ==
  ASSUME IInv, NEW a \in Assets
  PROVE  /\ Escrow(orders, a) \in Int /\ Credits(ethBalances) \in Int
         /\ balances[a][Exchange] \in Int /\ swept[a] \in Int
<1>1. Credits(ethBalances) \in Int
  <2>1. \A u \in Users : ethBalances[u] \in Nat
    BY DEF IInv, TypeOK
  <2>2. QED BY <2>1, SumNat, AddressAssumption DEF Credits
<1>2. Escrow(orders, a) \in Int
  <2>1. orders \in [OrderIds -> Order]
    BY DEF IInv, TypeOK
  <2> DEFINE f == [i \in OrderIds |-> Unfilled(orders[i], a)]
  <2>2. \A i \in OrderIds : f[i] \in Int
    BY <2>1 DEF Unfilled, Order
  <2>3. IsFiniteSet(OrderIds)
    BY FS_Interval, NumberAssumption DEF OrderIds
  <2>4. Escrow(orders, a) = SumOver(f, OrderIds)
    BY DEF Escrow
  <2> HIDE DEF f
  <2>5. QED BY <2>2, <2>3, <2>4, SumInt
<1>3. balances[a][Exchange] \in Int /\ swept[a] \in Int
  BY DEF IInv, TypeOK, Accounts
<1>4. QED BY <1>1, <1>2, <1>3

(***************************************************************************)
(* The slack changes by what enters, less what more is owed.               *)
(***************************************************************************)
LEMMA SlackChange ==
  ASSUME IInv, NEW a \in Assets, NEW in \in Int, NEW out \in Int,
         NEW esc \in Int, NEW cred \in Int,
         balances'[a][Exchange] = balances[a][Exchange] + in,
         swept'[a] = swept[a] + out,
         Escrow(orders', a) = Escrow(orders, a) + esc,
         a = ETH => Credits(ethBalances') = Credits(ethBalances) + cred
  PROVE  Slack(a)' = Slack(a) + in + out - esc - (IF a = ETH THEN cred ELSE 0)
<1>1. /\ Escrow(orders, a) \in Int /\ Credits(ethBalances) \in Int
      /\ balances[a][Exchange] \in Int /\ swept[a] \in Int
  BY TotalsAreInt
<1>2. /\ Slack(a) = balances[a][Exchange] + swept[a]
                     - (Escrow(orders, a) + (IF a = ETH THEN Credits(ethBalances) ELSE 0))
      /\ Slack(a)' = balances'[a][Exchange] + swept'[a]
                      - (Escrow(orders', a) + (IF a = ETH THEN Credits(ethBalances') ELSE 0))
  BY DEF Slack, Owed, Credits
<1>3. QED BY <1>1, <1>2

LEMMA SlackIsInt == ASSUME IInv, NEW a \in Assets PROVE Slack(a) \in Int
<1>1. /\ Escrow(orders, a) \in Int /\ Credits(ethBalances) \in Int
      /\ balances[a][Exchange] \in Int /\ swept[a] \in Int
  BY TotalsAreInt
<1>2. QED BY <1>1 DEF Slack, Owed, Credits

(***************************************************************************)
(* The owner's steps, the clock, and the requests made or withdrawn.       *)
(***************************************************************************)
LEMMA QuietSlack ==
  ASSUME IInv, UNCHANGED <<orders, assetVars, swept>>, NEW a \in Assets
  PROVE  SlackKept(a)
<1>1. Slack(a)' = Slack(a)
  BY DEF Slack, Owed, Escrow, Unfilled, assetVars
<1>2. QED BY <1>1, SlackIsInt DEF SlackKept

LEMMA ExecuteSlack ==
  ASSUME IInv, NEW u \in Users, NEW r \in RequestIds, ExecuteEmergencyWithdraw(u, r),
         NEW a \in Assets
  PROVE  SlackKept(a)
<1> DEFINE req == emergencyRequests[r]
           n   == IF req.token = a THEN req.amount ELSE 0
<1>1. req.token \in Assets /\ req.recipient \in Users /\ req.amount \in Nat
  BY DEF IInv, TypeOK, RequestsOK, ExecuteEmergencyWithdraw, Pending, EmergencyRequest
<1>2. /\ balances' = Moved(balances, req.token, Exchange, req.recipient, req.amount)
      /\ balances[req.token][Exchange] >= req.amount
      /\ swept' = [swept EXCEPT ![req.token] = @ + req.amount]
      /\ orders' = orders /\ ethBalances' = ethBalances
  BY DEF ExecuteEmergencyWithdraw, CanPay, bookVars
<1>3. /\ balances \in Holdings /\ swept \in [Assets -> Nat]
      /\ Exchange \in Accounts /\ req.recipient \in Accounts /\ req.recipient # Exchange
  BY <1>1, AddressAssumption DEF IInv, TypeOK, Holdings, Accounts
<1> HIDE DEF req
<1>4. balances'[a][Exchange] = balances[a][Exchange] + (0 - n)
  <2>1. balances[a][Exchange] \in Nat
    BY <1>3 DEF Holdings
  <2>2. balances'[a][Exchange] = IF a = req.token THEN balances[a][Exchange] - req.amount
                                 ELSE balances[a][Exchange]
    BY <1>1, <1>2, <1>3, MovedIs
  <2>3. QED BY <1>1, <2>1, <2>2
<1>5. swept'[a] = swept[a] + n
  BY <1>1, <1>2, <1>3
<1>6. /\ Escrow(orders', a) = Escrow(orders, a) + 0
      /\ Credits(ethBalances') = Credits(ethBalances) + 0
  BY <1>2, TotalsAreInt
<1>7. n \in Int /\ 0 - n \in Int /\ 0 \in Int
  BY <1>1
<1> HIDE DEF n
<1>8. Slack(a)' = Slack(a) + (0 - n) + n - 0 - (IF a = ETH THEN 0 ELSE 0)
  BY <1>4, <1>5, <1>6, <1>7, SlackChange
<1>9. QED BY <1>7, <1>8, SlackIsInt DEF SlackKept

LEMMA DonateSlack ==
  ASSUME IInv, NEW u \in Users, NEW t \in Tokens, NEW n \in Gifts, Donate(u, t, n),
         NEW a \in Assets
  PROVE  SlackKept(a)
<1> DEFINE m == IF a = t THEN n ELSE 0
<1>1. /\ balances \in Holdings /\ t \in Assets /\ u \in Accounts /\ Exchange \in Accounts
      /\ u # Exchange /\ t # ETH /\ n \in Nat /\ balances[t][u] >= n
      /\ balances' = Moved(balances, t, u, Exchange, n)
      /\ UNCHANGED <<orders, ethBalances, swept>>
  BY NumberAssumption, AddressAssumption
     DEF IInv, TypeOK, Holdings, Assets, Accounts, Donate, CanPay, bookVars
<1>2. balances'[a][Exchange] = balances[a][Exchange] + m
  <2>1. balances[a][Exchange] \in Nat
    BY <1>1 DEF Holdings
  <2>2. balances'[a][Exchange] = IF a = t THEN balances[a][Exchange] + n
                                 ELSE balances[a][Exchange]
    BY <1>1, MovedIs
  <2>3. QED BY <1>1, <2>1, <2>2
<1>3. /\ swept'[a] = swept[a] + 0
      /\ Escrow(orders', a) = Escrow(orders, a) + 0
      /\ Credits(ethBalances') = Credits(ethBalances) + 0
  BY <1>1, TotalsAreInt
<1>4. m \in Int /\ 0 \in Int /\ m >= 0 /\ (a = ETH => m = 0)
  BY <1>1
<1> HIDE DEF m
<1>5. Slack(a)' = Slack(a) + m + 0 - 0 - (IF a = ETH THEN 0 ELSE 0)
  BY <1>2, <1>3, <1>4, SlackChange
<1>6. QED BY <1>4, <1>5, SlackIsInt DEF SlackKept

LEMMA WithdrawEthSlack ==
  ASSUME IInv, NEW u \in Users, WithdrawEth(u), NEW a \in Assets
  PROVE  SlackKept(a)
<1> DEFINE n == ethBalances[u]
           m == IF a = ETH THEN n ELSE 0
<1>1. /\ balances \in Holdings /\ ETH \in Assets /\ u \in Accounts /\ Exchange \in Accounts
      /\ u # Exchange /\ n \in Nat /\ balances[ETH][Exchange] >= n
      /\ balances' = Moved(balances, ETH, Exchange, u, n)
      /\ UNCHANGED <<orders, swept>>
  BY AddressAssumption DEF IInv, TypeOK, Holdings, Assets, Accounts, WithdrawEth, CanPay, bookVars
<1>2. balances'[a][Exchange] = balances[a][Exchange] + (0 - m)
  <2>1. balances[a][Exchange] \in Nat
    BY <1>1 DEF Holdings
  <2>2. balances'[a][Exchange] = IF a = ETH THEN balances[a][Exchange] - n
                                 ELSE balances[a][Exchange]
    BY <1>1, MovedIs
  <2>3. QED BY <1>1, <2>1, <2>2
<1>3. Credits(ethBalances') = Credits(ethBalances) + (0 - n)
  <2>1. /\ ethBalances \in [Users -> Nat]
        /\ ethBalances' = [ethBalances EXCEPT ![u] = 0]
    BY DEF IInv, TypeOK, WithdrawEth
  <2>2. /\ \A x \in Users : ethBalances[x] \in Int /\ ethBalances'[x] \in Int
        /\ \A x \in Users : x # u => ethBalances'[x] = ethBalances[x]
        /\ ethBalances'[u] - ethBalances[u] = 0 - n
    BY <2>1
  <2>3. SumOver(ethBalances', Users)
          = SumOver(ethBalances, Users) + (ethBalances'[u] - ethBalances[u])
    BY <2>2, SumUpdate, AddressAssumption
  <2>4. QED BY <2>2, <2>3 DEF Credits
<1>4. swept'[a] = swept[a] + 0 /\ Escrow(orders', a) = Escrow(orders, a) + 0
  BY <1>1, TotalsAreInt
<1>5. m \in Int /\ n \in Int /\ 0 - m \in Int /\ 0 - n \in Int /\ 0 \in Int
      /\ m = IF a = ETH THEN n ELSE 0
  BY <1>1
<1> HIDE DEF m, n
<1>6. Slack(a)' = Slack(a) + (0 - m) + 0 - 0 - (IF a = ETH THEN 0 - n ELSE 0)
  BY <1>2, <1>3, <1>4, <1>5, SlackChange
<1>7. QED BY <1>5, <1>6, SlackIsInt DEF SlackKept

LEMMA CreateOrderSlack ==
  ASSUME IInv, NEW u \in Users, NEW sell \in Assets, NEW buy \in Assets,
         NEW m \in Amounts, NEW n \in Amounts, NEW d \in Deadlines,
         CreateOrder(u, sell, buy, m, n, d), NEW a \in Assets
  PROVE  SlackKept(a)
<1> DEFINE p == [NoOrder EXCEPT !.maker = u, !.tokenSell = sell, !.tokenBuy = buy,
                                !.amountSell = m, !.amountBuy = n, !.deadline = d]
           e == IF a = sell THEN m ELSE 0
<1>1. /\ balances \in Holdings /\ orders \in [OrderIds -> Order] /\ nextOrderId \in Nat
      /\ m \in Nat /\ n \in Nat /\ d \in Nat /\ u \in Accounts /\ Exchange \in Accounts
      /\ u # Exchange
  BY NumberAssumption, AddressAssumption DEF IInv, TypeOK, Holdings, Accounts
<1>2. /\ balances' = Moved(balances, sell, u, Exchange, m) /\ balances[sell][u] >= m
      /\ ethBalances' = ethBalances /\ swept' = swept
      /\ nextOrderId < MaxOrders /\ orders' = [orders EXCEPT ![nextOrderId] = p]
  BY DEF CreateOrder, CanPay, PushOrder
<1>3. nextOrderId \in OrderIds
  BY <1>1, <1>2, NumberAssumption DEF OrderIds
<1>4. orders[nextOrderId] = NoOrder
  BY <1>1, <1>3 DEF IInv, BookOK
<1>5. p \in Order /\ Unfilled(p, a) = e
  <2>1. p \in Order
    BY <1>1 DEF NoOrder, Order
  <2>2. p.tokenSell = sell /\ ~ p.cancelled /\ p.amountSell = m /\ p.filledSell = 0
    BY DEF NoOrder
  <2> HIDE DEF p
  <2>3. Unfilled(p, a) = IF a = sell THEN m - 0 ELSE 0
    BY <2>2 DEF Unfilled
  <2>4. QED BY <1>1, <2>1, <2>3
<1>6. Unfilled(NoOrder, a) = 0
  BY DEF NoOrder, Unfilled
<1> HIDE DEF p
<1>7. Escrow(orders', a) = Escrow(orders, a) + e
  <2>1. e \in Int /\ Escrow(orders, a) \in Int
    BY <1>1, TotalsAreInt
  <2>2. Escrow([orders EXCEPT ![nextOrderId] = p], a)
          = Escrow(orders, a) + (Unfilled(p, a) - Unfilled(orders[nextOrderId], a))
    BY <1>1, <1>3, <1>5, EscrowIs
  <2> HIDE DEF e
  <2>3. QED BY <1>2, <1>4, <1>5, <1>6, <2>1, <2>2
<1>8. balances'[a][Exchange] = balances[a][Exchange] + e
  <2>1. balances[a][Exchange] \in Nat
    BY <1>1 DEF Holdings
  <2>2. balances'[a][Exchange] = IF a = sell THEN balances[a][Exchange] + m
                                 ELSE balances[a][Exchange]
    BY <1>1, <1>2, MovedIs
  <2>3. QED BY <1>1, <2>1, <2>2
<1>9. swept'[a] = swept[a] + 0 /\ Credits(ethBalances') = Credits(ethBalances) + 0
  BY <1>2, TotalsAreInt
<1>10. e \in Int /\ 0 \in Int
  BY <1>1
<1> HIDE DEF e
<1>11. Slack(a)' = Slack(a) + e + 0 - e - (IF a = ETH THEN 0 ELSE 0)
  BY <1>7, <1>8, <1>9, <1>10, SlackChange
<1>12. QED BY <1>10, <1>11, SlackIsInt DEF SlackKept

LEMMA CancelOrderSlack ==
  ASSUME IInv, NEW u \in Users, NEW i \in OrderIds, CancelOrder(u, i), NEW a \in Assets
  PROVE  SlackKept(a)
<1> DEFINE o == orders[i]
           p == [o EXCEPT !.cancelled = TRUE]
           n == o.amountSell - o.filledSell
           e == IF a = o.tokenSell THEN n ELSE 0
<1>1. /\ o \in Order /\ p \in Order /\ ~ o.cancelled
      /\ o.tokenSell \in Assets /\ n \in Nat
      /\ orders' = [orders EXCEPT ![i] = p]
  BY CancelFacts
<1>2. /\ swept' = swept
      /\ \/ /\ o.tokenSell = ETH
            /\ ethBalances' = Credited(ethBalances, u, n) /\ balances' = balances
         \/ /\ o.tokenSell # ETH /\ balances[o.tokenSell][Exchange] >= n
            /\ balances' = Moved(balances, o.tokenSell, Exchange, u, n)
            /\ ethBalances' = ethBalances
  BY DEF CancelOrder, CanPay
<1>3. /\ balances \in Holdings /\ orders \in [OrderIds -> Order]
      /\ ethBalances \in [Users -> Nat]
      /\ u \in Accounts /\ Exchange \in Accounts /\ u # Exchange
      /\ balances[a][Exchange] \in Nat
  <2>1. u \in Accounts /\ Exchange \in Accounts /\ u # Exchange
    BY AddressAssumption DEF Accounts
  <2>2. /\ balances \in Holdings /\ orders \in [OrderIds -> Order]
        /\ ethBalances \in [Users -> Nat]
    BY DEF IInv, TypeOK, Holdings
  <2>3. balances[a][Exchange] \in Nat
    BY <2>1, <2>2 DEF Holdings
  <2>4. QED BY <2>1, <2>2, <2>3
<1>4. Unfilled(p, a) = 0 /\ Unfilled(o, a) = e
  <2>1. p.cancelled
    BY <1>1 DEF Order
  <2>2. QED BY <1>1, <2>1 DEF Unfilled
<1>5. Escrow([orders EXCEPT ![i] = p], a) = Escrow(orders, a) + (Unfilled(p, a) - Unfilled(o, a))
  <2> HIDE DEF p
  <2>1. QED BY <1>1, <1>3, EscrowIs
<1> HIDE DEF o, p, n
<1>6. e \in Int /\ n \in Int /\ 0 \in Int /\ 0 - e \in Int
  BY <1>1
<1>7. Escrow(orders', a) = Escrow(orders, a) + (0 - e)
  <2>1. Escrow(orders, a) \in Int
    BY TotalsAreInt
  <2> HIDE DEF e
  <2>2. QED BY <1>1, <1>4, <1>5, <1>6, <2>1
<1>8. swept'[a] = swept[a] + 0
  BY <1>2, TotalsAreInt
<1>9. CASE o.tokenSell = ETH
  <2>1. balances'[a][Exchange] = balances[a][Exchange] + 0
    BY <1>2, <1>3, <1>9
  <2>2. Credits(ethBalances') = Credits(ethBalances) + n
    BY <1>1, <1>2, <1>3, <1>9, CreditedIs DEF Credits
  <2>3. a = ETH => e = n
    BY <1>9
  <2>4. a # ETH => e = 0
    BY <1>9
  <2> HIDE DEF e
  <2>5. Slack(a)' = Slack(a) + 0 + 0 - (0 - e) - (IF a = ETH THEN n ELSE 0)
    BY <1>6, <1>7, <1>8, <2>1, <2>2, SlackChange
  <2>6. QED BY <1>6, <2>3, <2>4, <2>5, SlackIsInt DEF SlackKept
<1>10. CASE o.tokenSell # ETH
  <2>1. balances'[a][Exchange] = balances[a][Exchange] + (0 - e)
    <3>1. balances'[a][Exchange] = IF a = o.tokenSell THEN balances[a][Exchange] - n
                                   ELSE balances[a][Exchange]
      BY <1>1, <1>2, <1>3, <1>10, MovedIs
    <3>2. QED BY <1>3, <1>6, <3>1
  <2>2. Credits(ethBalances') = Credits(ethBalances) + 0
    BY <1>2, <1>10, TotalsAreInt
  <2> HIDE DEF e
  <2>3. Slack(a)' = Slack(a) + (0 - e) + 0 - (0 - e) - (IF a = ETH THEN 0 ELSE 0)
    BY <1>6, <1>7, <1>8, <2>1, <2>2, SlackChange
  <2>4. QED BY <1>6, <2>3, SlackIsInt DEF SlackKept
<1>11. QED BY <1>9, <1>10

(***************************************************************************)
(* A fill takes out of escrow what it takes off the order.                 *)
(***************************************************************************)
LEMMA RefilledEscrow ==
  ASSUME IInv, NEW i \in OrderIds, NEW db \in Nat, NEW ds \in Nat, NEW a \in Assets,
         orders[i] \in Order, ~ orders[i].cancelled, Refilled(orders[i], db, ds) \in Order,
         orders' = [orders EXCEPT ![i] = Refilled(orders[i], db, ds)]
  PROVE  Escrow(orders', a)
           = Escrow(orders, a) + (0 - (IF a = orders[i].tokenSell THEN ds ELSE 0))
<1> DEFINE o == orders[i]
           p == Refilled(o, db, ds)
           e == IF a = o.tokenSell THEN ds ELSE 0
<1>1. orders \in [OrderIds -> Order]
  BY DEF IInv, TypeOK
<1>2. /\ p.tokenSell = o.tokenSell /\ p.cancelled = o.cancelled
      /\ p.amountSell = o.amountSell /\ p.filledSell = o.filledSell + ds
      /\ o.amountSell \in Nat /\ o.filledSell \in Nat
  BY DEF Refilled, Order
<1>3. Escrow([orders EXCEPT ![i] = p], a) = Escrow(orders, a) + (Unfilled(p, a) - Unfilled(o, a))
  <2>1. p \in Order
    OBVIOUS
  <2> HIDE DEF p
  <2>2. QED BY <1>1, <2>1, EscrowIs
<1>4. Escrow(orders, a) \in Int /\ ~ o.cancelled /\ orders' = [orders EXCEPT ![i] = p]
  BY TotalsAreInt
<1> HIDE DEF o, p
<1>5. Unfilled(p, a) - Unfilled(o, a) = 0 - e
  BY <1>2, <1>4 DEF Unfilled
<1>6. Escrow(orders', a) = Escrow(orders, a) + (0 - e)
  <2> HIDE DEF e
  <2>1. QED BY <1>3, <1>4, <1>5
<1>7. QED BY <1>6 DEF o

LEMMA FillOrderSlack ==
  ASSUME IInv, NEW u \in Users, NEW i \in OrderIds, NEW n \in Amounts, FillOrder(u, i, n),
         NEW a \in Assets
  PROVE  SlackKept(a)
<1> DEFINE o    == orders[i]
           db   == FillBuy(o, n)
           ds   == FillSell(o, db)
           paid == Moved(balances, o.tokenBuy, u, o.maker, db)
           e    == IF a = o.tokenSell THEN ds ELSE 0
<1>1. /\ UNCHANGED <<nextOrderId, userOrderIds>> /\ swept' = swept
      /\ Active(o) /\ Filled(i, db, ds) /\ balances[o.tokenBuy][u] >= db
      /\ \/ /\ o.tokenSell = ETH
            /\ ethBalances' = Credited(ethBalances, u, ds) /\ balances' = paid
         \/ /\ o.tokenSell # ETH /\ balances[o.tokenSell][Exchange] >= ds
            /\ balances' = Moved(paid, o.tokenSell, Exchange, u, ds)
            /\ ethBalances' = ethBalances
  BY DEF FillOrder, CanPay
<1>2. /\ o \in Order /\ ~ o.cancelled
      /\ o.maker \in Users /\ o.tokenSell \in Assets /\ o.tokenBuy \in Assets
      /\ o.tokenSell # o.tokenBuy /\ db \in Nat /\ ds \in Nat
      /\ Refilled(o, db, ds) \in Order
      /\ orders' = [orders EXCEPT ![i] = Refilled(o, db, ds)]
  BY <1>1, FillFacts
<1>3. Escrow(orders', a) = Escrow(orders, a) + (0 - e)
  <2> HIDE DEF db, ds
  <2>1. QED BY <1>2, RefilledEscrow
<1>4. /\ u \in Accounts /\ Exchange \in Accounts /\ u # Exchange
      /\ o.maker \in Accounts /\ o.maker # Exchange
  BY <1>2, AddressAssumption DEF Accounts
<1>5. balances \in Holdings /\ ethBalances \in [Users -> Nat]
  BY DEF IInv, TypeOK, Holdings
<1>6. balances[a][Exchange] \in Nat
  BY <1>4, <1>5 DEF Holdings
<1> HIDE DEF o, db, ds
<1>7. /\ paid \in Holdings
      /\ \A c \in Assets : paid[c][Exchange] = balances[c][Exchange]
  BY <1>1, <1>2, <1>4, <1>5, MovedIs
<1> HIDE DEF paid
<1>8. e \in Int /\ ds \in Int /\ 0 \in Int /\ 0 - e \in Int
  BY <1>2
<1>9. swept'[a] = swept[a] + 0
  BY <1>1, TotalsAreInt
<1>10. CASE o.tokenSell = ETH
  <2>1. balances'[a][Exchange] = balances[a][Exchange] + 0
    BY <1>1, <1>6, <1>7, <1>10
  <2>2. Credits(ethBalances') = Credits(ethBalances) + ds
    BY <1>1, <1>2, <1>5, <1>10, CreditedIs DEF Credits
  <2>3. (a = ETH => e = ds) /\ (a # ETH => e = 0)
    BY <1>10
  <2> HIDE DEF e
  <2>4. Slack(a)' = Slack(a) + 0 + 0 - (0 - e) - (IF a = ETH THEN ds ELSE 0)
    BY <1>3, <1>8, <1>9, <2>1, <2>2, SlackChange
  <2>5. QED BY <1>8, <2>3, <2>4, SlackIsInt DEF SlackKept
<1>11. CASE o.tokenSell # ETH
  <2>1. balances'[a][Exchange] = balances[a][Exchange] + (0 - e)
    <3>1. balances'[a][Exchange] = IF a = o.tokenSell THEN paid[a][Exchange] - ds
                                   ELSE paid[a][Exchange]
      BY <1>1, <1>2, <1>4, <1>7, <1>11, MovedIs
    <3>2. QED BY <1>6, <1>7, <1>8, <3>1
  <2>2. Credits(ethBalances') = Credits(ethBalances) + 0
    BY <1>1, <1>11, TotalsAreInt
  <2> HIDE DEF e
  <2>3. Slack(a)' = Slack(a) + (0 - e) + 0 - (0 - e) - (IF a = ETH THEN 0 ELSE 0)
    BY <1>3, <1>8, <1>9, <2>1, <2>2, SlackChange
  <2>4. QED BY <1>8, <2>3, SlackIsInt DEF SlackKept
<1>12. QED BY <1>10, <1>11

LEMMA FillOrderWithETHSlack ==
  ASSUME IInv, NEW u \in Users, NEW i \in OrderIds, NEW n \in Amounts,
         FillOrderWithETH(u, i, n), NEW a \in Assets
  PROVE  SlackKept(a)
<1> DEFINE o    == orders[i]
           db   == FillBuy(o, n)
           ds   == FillSell(o, db)
           paid == Moved(balances, ETH, u, Exchange, n)
           made == Credited(ethBalances, o.maker, db)
           e    == IF a = o.tokenSell THEN ds ELSE 0
           m    == IF a = ETH THEN n ELSE 0
<1>1. /\ UNCHANGED <<nextOrderId, userOrderIds>> /\ swept' = swept
      /\ Active(o) /\ Filled(i, db, ds) /\ balances[ETH][u] >= n /\ o.tokenBuy = ETH
      /\ balances[o.tokenSell][Exchange] >= ds
      /\ balances' = Moved(paid, o.tokenSell, Exchange, u, ds)
      /\ ethBalances' = Credited(made, u, n - db)
  BY DEF FillOrderWithETH, CanPay
<1>2. /\ o \in Order /\ ~ o.cancelled
      /\ o.maker \in Users /\ o.tokenSell \in Assets /\ o.tokenBuy \in Assets
      /\ o.tokenSell # o.tokenBuy /\ n \in Nat /\ db \in Nat /\ ds \in Nat /\ db <= n
      /\ Refilled(o, db, ds) \in Order
      /\ orders' = [orders EXCEPT ![i] = Refilled(o, db, ds)]
  BY <1>1, FillFacts
<1>3. Escrow(orders', a) = Escrow(orders, a) + (0 - e)
  <2> HIDE DEF db, ds
  <2>1. QED BY <1>2, RefilledEscrow
<1>4. u \in Accounts /\ Exchange \in Accounts /\ u # Exchange /\ ETH \in Assets
  BY AddressAssumption DEF Accounts, Assets
<1>5. balances \in Holdings /\ ethBalances \in [Users -> Nat]
  BY DEF IInv, TypeOK, Holdings
<1>6. balances[a][Exchange] \in Nat
  BY <1>4, <1>5 DEF Holdings
<1> HIDE DEF o, db, ds
<1>7. /\ paid \in Holdings
      /\ \A c \in Assets : paid[c][Exchange] = IF c = ETH THEN balances[c][Exchange] + n
                                               ELSE balances[c][Exchange]
  BY <1>1, <1>2, <1>4, <1>5, MovedIs
<1>8. Credits(ethBalances') = Credits(ethBalances) + n
  <2>1. made \in [Users -> Nat] /\ SumOver(made, Users) = SumOver(ethBalances, Users) + db
    BY <1>2, <1>5, CreditedIs
  <2> HIDE DEF made
  <2>2. n - db \in Nat
    BY <1>2
  <2>3. SumOver(ethBalances', Users) = SumOver(made, Users) + (n - db)
    BY <1>1, <2>1, <2>2, CreditedIs
  <2>4. SumOver(ethBalances, Users) \in Int
    BY TotalsAreInt DEF Credits
  <2>5. QED BY <1>2, <2>1, <2>3, <2>4 DEF Credits
<1> HIDE DEF paid
<1>9. balances'[a][Exchange] = balances[a][Exchange] + (m - e)
  <2>1. balances'[a][Exchange] = IF a = o.tokenSell THEN paid[a][Exchange] - ds
                                 ELSE paid[a][Exchange]
    <3>1. paid[o.tokenSell][Exchange] >= ds
      BY <1>1, <1>2, <1>7
    <3>2. QED BY <1>1, <1>2, <1>4, <1>7, <3>1, MovedIs
  <2>2. paid[a][Exchange] = balances[a][Exchange] + m
    BY <1>6, <1>7
  <2>3. QED BY <1>2, <1>6, <2>1, <2>2
<1>10. /\ e \in Int /\ m \in Int /\ n \in Int /\ 0 \in Int /\ 0 - e \in Int /\ m - e \in Int
       /\ m = IF a = ETH THEN n ELSE 0
  BY <1>2
<1>11. swept'[a] = swept[a] + 0
  BY <1>1, TotalsAreInt
<1> HIDE DEF e, m
<1>12. Slack(a)' = Slack(a) + (m - e) + 0 - (0 - e) - (IF a = ETH THEN n ELSE 0)
  BY <1>3, <1>8, <1>9, <1>10, <1>11, SlackChange
<1>13. QED BY <1>10, <1>12, SlackIsInt DEF SlackKept

LEMMA StepSlack ==
  ASSUME IInv, [Next]_vars, NEW a \in Assets
  PROVE  SlackKept(a)
<1>1. CASE Tick \/ UNCHANGED vars
  <2>1. UNCHANGED <<orders, assetVars, swept>>
    BY <1>1 DEF Tick, vars, bookVars
  <2>2. QED BY <2>1, QuietSlack
<1>2. ASSUME NEW u \in Users, OwnerStep(u) PROVE SlackKept(a)
  <2>1. UNCHANGED <<orders, assetVars, swept>>
    BY <1>2 DEF OwnerStep, TransferOwnership, AcceptOwnership, Pause, Unpause, bookVars
  <2>2. QED BY <2>1, QuietSlack
<1>3. ASSUME NEW u \in Users, EmergencyStep(u) PROVE SlackKept(a)
  <2>1. ASSUME \/ \E b \in Assets, n \in Amounts, v \in Users : RequestEmergencyWithdraw(u, b, n, v)
               \/ \E r \in RequestIds : CancelEmergencyWithdraw(u, r)
        PROVE  SlackKept(a)
    <3>1. UNCHANGED <<orders, assetVars, swept>>
      BY <2>1 DEF RequestEmergencyWithdraw, CancelEmergencyWithdraw, bookVars
    <3>2. QED BY <3>1, QuietSlack
  <2>2. QED BY <1>3, <2>1, ExecuteSlack DEF EmergencyStep
<1>4. ASSUME NEW u \in Users, TradeStep(u) PROVE SlackKept(a)
  BY <1>4, CreateOrderSlack, FillOrderSlack, FillOrderWithETHSlack, CancelOrderSlack,
     WithdrawEthSlack DEF TradeStep
<1>5. QED BY <1>1, <1>2, <1>3, <1>4, DonateSlack DEF Next

SlackInv == \A a \in Assets : Slack(a) >= 0 /\ (a = ETH => Slack(a) = 0)

LEMMA InitSlack == Init => SlackInv
<1> SUFFICES ASSUME Init, NEW a \in Assets PROVE Slack(a) = 0
  BY DEF SlackInv
<1>1. balances[a][Exchange] = 0 /\ swept[a] = 0
  BY AddressAssumption DEF Init, Accounts
<1>2. Escrow(orders, a) = 0
  <2> DEFINE f == [i \in OrderIds |-> Unfilled(orders[i], a)]
  <2>1. \A i \in OrderIds : f[i] = 0
    <3>1. Unfilled(NoOrder, a) = 0
      BY DEF Unfilled, NoOrder
    <3>2. \A i \in OrderIds : orders[i] = NoOrder
      BY DEF Init
    <3>3. QED BY <3>1, <3>2
  <2>2. IsFiniteSet(OrderIds)
    BY FS_Interval, NumberAssumption DEF OrderIds
  <2>3. Escrow(orders, a) = SumOver(f, OrderIds)
    BY DEF Escrow
  <2> HIDE DEF f
  <2>4. QED BY <2>1, <2>2, <2>3, SumZero
<1>3. SumOver(ethBalances, Users) = 0
  <2>1. \A u \in Users : ethBalances[u] = 0
    BY DEF Init
  <2>2. QED BY <2>1, SumZero, AddressAssumption
<1>4. QED BY <1>1, <1>2, <1>3 DEF Slack, Owed

SlackTyped == \A a \in Assets : Slack(a) \in Int

LEMMA SlackHasType == IInv => SlackTyped
BY SlackIsInt DEF SlackTyped

LEMMA StepSlackInv == IInv /\ SlackInv /\ [Next]_vars => SlackInv'
<1> SUFFICES ASSUME IInv, SlackInv, [Next]_vars, NEW a \in Assets
             PROVE  Slack(a)' >= 0 /\ (a = ETH => Slack(a)' = 0)
  BY DEF SlackInv
<1>1. SlackKept(a) /\ Slack(a) \in Int /\ Slack(a)' \in Int
  <2>1. IInv'
    BY StepIInv
  <2>2. SlackTyped'
    BY <2>1, SlackHasType, PTL
  <2>3. QED BY <2>2, StepSlack, SlackIsInt DEF SlackTyped
<1>2. QED BY <1>1 DEF SlackInv, SlackKept

LEMMA SlackInvariance == Spec => []SlackInv
<1>1. Spec => [](IInv /\ SlackInv)
  BY InitIInv, StepIInv, InitSlack, StepSlackInv, PTL DEF Spec
<1>2. QED BY <1>1, PTL

(***************************************************************************)
(* The contract can always pay what it owes, but for what emergency        *)
(* withdrawals took.                                                       *)
(***************************************************************************)
THEOREM EscrowIsCovered == Spec => []Covered
<1>1. IInv /\ SlackInv => Covered
  <2> SUFFICES ASSUME IInv, SlackInv, NEW a \in Assets
               PROVE  balances[a][Exchange] + swept[a] >= Owed(a)
    BY DEF Covered
  <2>1. /\ Escrow(orders, a) \in Int /\ Credits(ethBalances) \in Int
        /\ balances[a][Exchange] \in Int /\ swept[a] \in Int
    BY TotalsAreInt
  <2>2. Owed(a) \in Int
    BY <2>1 DEF Owed, Credits
  <2>3. balances[a][Exchange] + swept[a] - Owed(a) >= 0
    BY DEF SlackInv, Slack
  <2>4. QED BY <2>1, <2>2, <2>3
<1>2. QED BY <1>1, Invariance, SlackInvariance, PTL

(***************************************************************************)
(* No wei is stranded: the ETH the contract holds is exactly what it owes, *)
(* but for what emergency withdrawals took.                                *)
(***************************************************************************)
THEOREM EthIsAccounted == Spec => []EthAccounted
<1>1. IInv /\ SlackInv => EthAccounted
  <2> SUFFICES ASSUME IInv, SlackInv PROVE EthAccounted
    OBVIOUS
  <2>1. ETH \in Assets
    BY DEF Assets
  <2>2. /\ Escrow(orders, ETH) \in Int /\ Credits(ethBalances) \in Int
        /\ balances[ETH][Exchange] \in Int /\ swept[ETH] \in Int
    BY <2>1, TotalsAreInt
  <2>3. Owed(ETH) \in Int
    BY <2>2 DEF Owed, Credits
  <2>4. balances[ETH][Exchange] + swept[ETH] - Owed(ETH) = 0
    BY <2>1 DEF SlackInv, Slack
  <2>5. QED BY <2>2, <2>3, <2>4 DEF EthAccounted
<1>2. QED BY <1>1, Invariance, SlackInvariance, PTL

(***************************************************************************)
(* The two together: what the contract holds is enough for all it owes.    *)
(***************************************************************************)
THEOREM ContractIsSolvent == Spec => []Solvent
BY EscrowIsCovered, EthIsAccounted, PTL DEF Solvent

-----------------------------------------------------------------------------
(* Emergency withdrawals *)

\* What request q has announced of asset a, t being the time.
Due(q, t, a) ==
  IF q.token = a /\ q.executed /\ q.executeAfter <= t THEN q.amount ELSE 0

DueInAll(requests, t, a) == SumOver([r \in RequestIds |-> Due(requests[r], t, a)], RequestIds)

(***************************************************************************)
(* Announced amounts are natural, and no announcement is ever taken back.  *)
(***************************************************************************)
LEMMA DueGrows ==
  ASSUME NEW p \in [RequestIds -> EmergencyRequest], NEW q \in [RequestIds -> EmergencyRequest],
         NEW t, NEW s, NEW a,
         \A r \in RequestIds : Due(p[r], t, a) <= Due(q[r], s, a)
  PROVE  /\ DueInAll(p, t, a) \in Nat /\ DueInAll(q, s, a) \in Nat
         /\ DueInAll(p, t, a) <= DueInAll(q, s, a)
<1> DEFINE f == [r \in RequestIds |-> Due(p[r], t, a)]
           g == [r \in RequestIds |-> Due(q[r], s, a)]
<1>1. IsFiniteSet(RequestIds)
  BY FS_Interval, NumberAssumption DEF RequestIds
<1>2. \A r \in RequestIds : Due(p[r], t, a) \in Nat /\ Due(q[r], s, a) \in Nat
  BY DEF Due, EmergencyRequest
<1>3. DueInAll(p, t, a) = SumOver(f, RequestIds) /\ DueInAll(q, s, a) = SumOver(g, RequestIds)
  BY DEF DueInAll
<1>4. /\ \A r \in RequestIds : f[r] \in Nat /\ g[r] \in Nat /\ f[r] <= g[r]
      /\ \A r \in RequestIds : f[r] \in Int /\ g[r] \in Int /\ f[r] <= g[r]
  BY <1>2
<1> HIDE DEF f, g
<1>5. SumOver(f, RequestIds) \in Nat /\ SumOver(g, RequestIds) \in Nat
  BY <1>1, <1>4, SumNat
<1>6. SumOver(f, RequestIds) <= SumOver(g, RequestIds)
  BY <1>1, <1>4, SumMonotone
<1>7. QED BY <1>3, <1>5, <1>6

LEMMA DueOfOne ==
  ASSUME NEW p \in [RequestIds -> EmergencyRequest], NEW r \in RequestIds,
         NEW q \in [RequestIds -> EmergencyRequest], \A s \in RequestIds : s # r => q[s] = p[s],
         NEW t, NEW a
  PROVE  DueInAll(q, t, a)
           = DueInAll(p, t, a) + (Due(q[r], t, a) - Due(p[r], t, a))
<1> DEFINE f == [s \in RequestIds |-> Due(p[s], t, a)]
           g == [s \in RequestIds |-> Due(q[s], t, a)]
<1>1. IsFiniteSet(RequestIds)
  BY FS_Interval, NumberAssumption DEF RequestIds
<1>2. \A x \in EmergencyRequest : Due(x, t, a) \in Int
  BY DEF Due, EmergencyRequest
<1>3. /\ \A s \in RequestIds : f[s] \in Int /\ g[s] \in Int
      /\ \A s \in RequestIds : s # r => g[s] = f[s]
  BY <1>2
<1>4. f[r] = Due(p[r], t, a) /\ g[r] = Due(q[r], t, a)
  OBVIOUS
<1>5. /\ DueInAll(p, t, a) = SumOver(f, RequestIds)
      /\ DueInAll(q, t, a) = SumOver(g, RequestIds)
  BY DEF DueInAll
<1> HIDE DEF f, g
<1>6. SumOver(g, RequestIds) = SumOver(f, RequestIds) + (g[r] - f[r])
  <2>1. r \in RequestIds
    OBVIOUS
  <2>2. QED BY ONLY <1>1, <1>3, <2>1, SumUpdate
<1>7. QED BY <1>4, <1>5, <1>6

\* Ids are handed out in order, so a new request takes the place of none.
RequestsInOrder ==
  \A r \in RequestIds : r >= nextEmergencyId => emergencyRequests[r] = NoRequest

EmergencyInv == RequestsInOrder /\ SweptWasAnnounced

LEMMA InitEmergency == Init => EmergencyInv
<1> SUFFICES ASSUME Init PROVE EmergencyInv
  OBVIOUS
<1>1. RequestsInOrder
  BY DEF Init, RequestsInOrder
<1>2. ASSUME NEW a \in Assets PROVE swept[a] <= Announced(a)
  <2>1. emergencyRequests \in [RequestIds -> EmergencyRequest]
    BY InitIInv DEF IInv, TypeOK
  <2>2. \A r \in RequestIds :
          Due(emergencyRequests[r], now, a) <= Due(emergencyRequests[r], now, a)
    BY <2>1 DEF Due, EmergencyRequest
  <2>3. DueInAll(emergencyRequests, now, a) \in Nat
    BY <2>1, <2>2, DueGrows
  <2>4. QED BY <2>3 DEF Init, Announced, DueInAll, Due
<1>3. QED BY <1>1, <1>2 DEF EmergencyInv, SweptWasAnnounced

(***************************************************************************)
(* The steps that neither make, execute nor cancel a request: time passes, *)
(* or not even that, and what was announced stays announced.               *)
(***************************************************************************)
LEMMA QuietEmergency ==
  ASSUME IInv, EmergencyInv, UNCHANGED <<requestVars, swept>>, now' \in Nat, now' >= now
  PROVE  EmergencyInv'
<1>1. /\ emergencyRequests \in [RequestIds -> EmergencyRequest] /\ now \in Nat
      /\ swept \in [Assets -> Nat]
      /\ emergencyRequests' = emergencyRequests /\ nextEmergencyId' = nextEmergencyId
      /\ swept' = swept
  BY DEF IInv, TypeOK, requestVars
<1>2. RequestsInOrder'
  BY <1>1 DEF EmergencyInv, RequestsInOrder
<1>3. ASSUME NEW a \in Assets PROVE swept'[a] <= Announced(a)'
  <2>1. \A r \in RequestIds :
          Due(emergencyRequests[r], now, a) <= Due(emergencyRequests[r], now', a)
    BY <1>1 DEF Due, EmergencyRequest
  <2>2. /\ DueInAll(emergencyRequests, now, a) \in Nat
        /\ DueInAll(emergencyRequests, now', a) \in Nat
        /\ DueInAll(emergencyRequests, now, a) <= DueInAll(emergencyRequests, now', a)
    BY <1>1, <2>1, DueGrows
  <2>3. swept[a] <= DueInAll(emergencyRequests, now, a)
    BY DEF EmergencyInv, SweptWasAnnounced, Announced, DueInAll, Due
  <2>4. Announced(a)' = DueInAll(emergencyRequests, now', a)
    BY <1>1 DEF Announced, DueInAll, Due
  <2>5. QED BY <1>1, <2>2, <2>3, <2>4
<1>4. QED BY <1>2, <1>3 DEF EmergencyInv, SweptWasAnnounced

(***************************************************************************)
(* A step that writes request r and takes n of asset b.                    *)
(***************************************************************************)
LEMMA RequestWritten ==
  ASSUME IInv, EmergencyInv, NEW r \in RequestIds, NEW q \in EmergencyRequest,
         NEW b, NEW n \in Nat,
         emergencyRequests' = [emergencyRequests EXCEPT ![r] = q],
         nextEmergencyId' \in Nat, nextEmergencyId' >= nextEmergencyId, r < nextEmergencyId',
         now' = now, swept' = [swept EXCEPT ![b] = @ + n],
         \A a \in Assets : Due(q, now, a)
                             >= Due(emergencyRequests[r], now, a) + (IF a = b THEN n ELSE 0)
  PROVE  EmergencyInv'
<1>1. /\ emergencyRequests \in [RequestIds -> EmergencyRequest] /\ now \in Nat
      /\ swept \in [Assets -> Nat] /\ nextEmergencyId \in Nat
  BY DEF IInv, TypeOK
<1>2. RequestsInOrder'
  BY <1>1, NumberAssumption DEF EmergencyInv, RequestsInOrder, RequestIds
<1>3. ASSUME NEW a \in Assets PROVE swept'[a] <= Announced(a)'
  <2> DEFINE old == emergencyRequests
             m   == IF a = b THEN n ELSE 0
  <2>1. /\ Due(old[r], now, a) \in Nat /\ Due(q, now, a) \in Nat
        /\ \A s \in RequestIds : Due(old[s], now, a) <= Due(old[s], now, a)
    BY <1>1 DEF Due, EmergencyRequest
  <2>2. DueInAll(old, now, a) \in Nat
    BY <1>1, <2>1, DueGrows
  <2>3. DueInAll(emergencyRequests', now, a)
          = DueInAll(old, now, a) + (Due(q, now, a) - Due(old[r], now, a))
    <3> DEFINE new == emergencyRequests'
    <3>1. /\ new \in [RequestIds -> EmergencyRequest] /\ new[r] = q
          /\ \A s \in RequestIds : s # r => new[s] = old[s]
      BY <1>1
    <3> HIDE DEF new
    <3> HIDE DEF old
    <3>2. old \in [RequestIds -> EmergencyRequest]
      BY <1>1 DEF old
    <3>3. DueInAll(new, now, a) = DueInAll(old, now, a) + (Due(new[r], now, a) - Due(old[r], now, a))
      BY <3>1, <3>2, DueOfOne
    <3>4. QED BY <3>1, <3>3 DEF new, old
  <2>4. swept[a] <= DueInAll(old, now, a)
    BY DEF EmergencyInv, SweptWasAnnounced, Announced, DueInAll, Due
  <2>5. Announced(a)' = DueInAll(emergencyRequests', now, a)
    <3>1. Announced(a)' = DueInAll(emergencyRequests', now', a)
      BY DEF Announced, DueInAll, Due
    <3>2. QED BY <3>1
  <2>6. swept'[a] = swept[a] + m /\ m \in Nat /\ swept[a] \in Nat
    BY <1>1
  <2>7. Due(q, now, a) >= Due(old[r], now, a) + m
    OBVIOUS
  <2> HIDE DEF m, old
  <2>8. QED BY <2>1, <2>2, <2>3, <2>4, <2>5, <2>6, <2>7
<1>4. QED BY <1>2, <1>3 DEF EmergencyInv, SweptWasAnnounced

LEMMA RequestEmergency ==
  ASSUME IInv, EmergencyInv, NEW u \in Users, NEW a \in Assets, NEW n \in Amounts,
         NEW v \in Users, RequestEmergencyWithdraw(u, a, n, v)
  PROVE  EmergencyInv'
<1> DEFINE q == [token |-> a, amount |-> n, recipient |-> v,
                 executeAfter |-> now + Timelock, executed |-> FALSE]
           r == nextEmergencyId
<1>1. /\ now \in Nat /\ nextEmergencyId \in Nat /\ swept \in [Assets -> Nat] /\ n \in Nat
  BY NumberAssumption DEF IInv, TypeOK
<1>2. q \in EmergencyRequest
  BY <1>1, NumberAssumption DEF EmergencyRequest
<1>3. /\ emergencyRequests' = [emergencyRequests EXCEPT ![r] = q]
      /\ nextEmergencyId' = nextEmergencyId + 1 /\ nextEmergencyId < MaxRequests
      /\ now' = now /\ swept' = swept
  BY DEF RequestEmergencyWithdraw
<1>4. r \in RequestIds /\ r < nextEmergencyId' /\ nextEmergencyId' \in Nat
      /\ nextEmergencyId' >= nextEmergencyId
  BY <1>1, <1>3, NumberAssumption DEF RequestIds
<1>5. emergencyRequests[r] = NoRequest
  BY <1>1, <1>4 DEF EmergencyInv, RequestsInOrder
<1>6. swept' = [swept EXCEPT ![a] = @ + 0]
  BY <1>1, <1>3
<1>7. \A c \in Assets : Due(q, now, c) = 0 /\ Due(NoRequest, now, c) = 0
  BY DEF Due, NoRequest
<1> HIDE DEF q
<1>8. \A c \in Assets :
        Due(q, now, c) >= Due(emergencyRequests[r], now, c) + (IF c = a THEN 0 ELSE 0)
  BY <1>5, <1>7
<1> HIDE DEF r
<1>9. QED BY <1>2, <1>3, <1>4, <1>6, <1>8, RequestWritten

(***************************************************************************)
(* Only a pending request is executed, and only when its time has come, so *)
(* what is taken is announced by it and by none before.                    *)
(***************************************************************************)
LEMMA ExecuteEmergency ==
  ASSUME IInv, EmergencyInv, NEW u \in Users, NEW r \in RequestIds,
         ExecuteEmergencyWithdraw(u, r) \/ CancelEmergencyWithdraw(u, r)
  PROVE  EmergencyInv'
<1> DEFINE o == emergencyRequests[r]
           q == [o EXCEPT !.executed = TRUE]
<1>1. /\ emergencyRequests \in [RequestIds -> EmergencyRequest] /\ o \in EmergencyRequest
      /\ now \in Nat /\ nextEmergencyId \in Nat /\ swept \in [Assets -> Nat]
  BY DEF IInv, TypeOK
<1>2. /\ ~ o.executed /\ o.amount # 0 /\ now' = now /\ nextEmergencyId' = nextEmergencyId
      /\ emergencyRequests' = [emergencyRequests EXCEPT ![r].executed = TRUE]
  BY DEF ExecuteEmergencyWithdraw, CancelEmergencyWithdraw, Pending
<1>3. emergencyRequests' = [emergencyRequests EXCEPT ![r] = q]
  BY <1>1, <1>2
<1>4. r < nextEmergencyId
  <2>1. r \in Int /\ NoRequest.amount = 0
    BY DEF RequestIds, NoRequest
  <2>2. r >= nextEmergencyId => o = NoRequest
    BY DEF EmergencyInv, RequestsInOrder
  <2>3. QED BY <1>1, <1>2, <2>1, <2>2
<1> HIDE DEF o
<1>5. /\ q \in EmergencyRequest /\ q.token = o.token /\ q.amount = o.amount
      /\ q.executeAfter = o.executeAfter /\ q.executed = TRUE /\ o.amount \in Nat
  BY <1>1 DEF EmergencyRequest
<1> HIDE DEF q
<1>6. \A c \in Assets : Due(o, now, c) = 0
  BY <1>2 DEF Due
<1>7. \A c \in Assets : Due(q, now, c) \in Nat
                        /\ (q.executeAfter <= now /\ c = o.token => Due(q, now, c) = o.amount)
  BY <1>5 DEF Due
<1>8. CASE ExecuteEmergencyWithdraw(u, r)
  <2>1. swept' = [swept EXCEPT ![o.token] = @ + o.amount] /\ now >= o.executeAfter
    BY <1>8 DEF ExecuteEmergencyWithdraw, o
  <2>2. \A c \in Assets :
          Due(q, now, c) >= Due(o, now, c) + (IF c = o.token THEN o.amount ELSE 0)
    <3>1. q.executeAfter <= now
      BY <1>1, <1>5, <2>1 DEF EmergencyRequest
    <3>2. QED BY <1>5, <1>6, <1>7, <3>1
  <2>3. nextEmergencyId' \in Nat /\ nextEmergencyId' >= nextEmergencyId /\ r < nextEmergencyId'
    BY <1>1, <1>2, <1>4
  <2>4. QED BY <1>2, <1>3, <1>5, <2>1, <2>2, <2>3, RequestWritten DEF o
<1>9. CASE CancelEmergencyWithdraw(u, r)
  <2>1. swept' = [swept EXCEPT ![o.token] = @ + 0]
    <3>1. swept' = swept
      BY <1>9 DEF CancelEmergencyWithdraw
    <3>2. QED BY <1>1, <3>1
  <2>2. \A c \in Assets : Due(q, now, c) >= Due(o, now, c) + (IF c = o.token THEN 0 ELSE 0)
    BY <1>6, <1>7
  <2>3. nextEmergencyId' \in Nat /\ nextEmergencyId' >= nextEmergencyId /\ r < nextEmergencyId'
    BY <1>1, <1>2, <1>4
  <2>4. QED BY <1>2, <1>3, <1>5, <2>1, <2>2, <2>3, RequestWritten DEF o
<1>10. QED BY <1>8, <1>9

LEMMA StepEmergency == IInv /\ EmergencyInv /\ [Next]_vars => EmergencyInv'
<1> SUFFICES ASSUME IInv, EmergencyInv, [Next]_vars PROVE EmergencyInv'
  OBVIOUS
<1>1. now \in Nat
  BY DEF IInv, TypeOK
<1>2. CASE Tick \/ UNCHANGED vars
  <2>1. UNCHANGED <<requestVars, swept>> /\ now' \in Nat /\ now' >= now
    BY <1>1, <1>2 DEF Tick, vars
  <2>2. QED BY <2>1, QuietEmergency
<1>3. ASSUME NEW u \in Users, EmergencyStep(u) PROVE EmergencyInv'
  BY <1>3, RequestEmergency, ExecuteEmergency DEF EmergencyStep
<1>4. ASSUME NEW u \in Users,
             OwnerStep(u) \/ TradeStep(u) \/ \E t \in Tokens, n \in Gifts : Donate(u, t, n)
      PROVE  EmergencyInv'
  <2>1. UNCHANGED <<requestVars, swept, now>>
    BY <1>4 DEF OwnerStep, TransferOwnership, AcceptOwnership, Pause, Unpause, TradeStep,
                CreateOrder, FillOrder, FillOrderWithETH, CancelOrder, WithdrawEth, Donate
  <2>2. now' \in Nat /\ now' >= now
    BY <1>1, <2>1
  <2>3. QED BY <2>1, <2>2, QuietEmergency
<1>5. QED BY <1>2, <1>3, <1>4 DEF Next

(***************************************************************************)
(* Whoever owns the contract, and whatever is cancelled meanwhile: what    *)
(* emergency withdrawals took of an asset was announced, by requests that  *)
(* had waited out the timelock and were used once.                         *)
(***************************************************************************)
THEOREM WithdrawalsAreAnnounced == Spec => []SweptWasAnnounced
<1>1. Spec => [](IInv /\ EmergencyInv)
  BY InitIInv, StepIInv, InitEmergency, StepEmergency, PTL DEF Spec
<1>2. IInv /\ EmergencyInv => SweptWasAnnounced
  BY DEF EmergencyInv
<1>3. QED BY <1>1, <1>2, PTL

\* Whatever the exchange owes and does not hold was announced: of the contract
\* alone, without the history of what was swept.
ShortfallWasAnnounced == \A a \in Assets : balances[a][Exchange] + Announced(a) >= Owed(a)

(***************************************************************************)
(* Nobody is owed what is missing but for withdrawals that were requested, *)
(* waited out the timelock and were executed, each once.                   *)
(***************************************************************************)
THEOREM ShortfallIsAnnounced == Spec => []ShortfallWasAnnounced
<1>1. Spec => [](IInv /\ EmergencyInv)
  BY InitIInv, StepIInv, InitEmergency, StepEmergency, PTL DEF Spec
<1>2. IInv /\ EmergencyInv /\ Covered => ShortfallWasAnnounced
  <2> SUFFICES ASSUME IInv, EmergencyInv, Covered, NEW a \in Assets
               PROVE  balances[a][Exchange] + Announced(a) >= Owed(a)
    BY DEF ShortfallWasAnnounced
  <2>1. /\ Escrow(orders, a) \in Int /\ Credits(ethBalances) \in Int
        /\ balances[a][Exchange] \in Int /\ swept[a] \in Int
    BY TotalsAreInt
  <2>2. Owed(a) \in Int
    BY <2>1 DEF Owed, Credits
  <2>3. Announced(a) \in Nat
    <3>1. /\ emergencyRequests \in [RequestIds -> EmergencyRequest]
          /\ \A r \in RequestIds :
               Due(emergencyRequests[r], now, a) <= Due(emergencyRequests[r], now, a)
      BY DEF IInv, TypeOK, Due, EmergencyRequest
    <3>2. DueInAll(emergencyRequests, now, a) \in Nat
      BY <3>1, DueGrows
    <3>3. QED BY <3>2 DEF Announced, DueInAll, Due
  <2>4. swept[a] <= Announced(a) /\ balances[a][Exchange] + swept[a] >= Owed(a)
    BY DEF EmergencyInv, SweptWasAnnounced, Covered
  <2>5. QED BY <2>1, <2>2, <2>3, <2>4
<1>3. QED BY <1>1, <1>2, EscrowIsCovered, PTL

-----------------------------------------------------------------------------
(* Fills *)

LEMMA CreditedAt ==
  ASSUME NEW c \in [Users -> Nat], NEW u \in Users, NEW n \in Nat, NEW v \in Users
  PROVE  Credited(c, u, n)[v] = c[v] + (IF v = u THEN n ELSE 0)
BY DEF Credited

(***************************************************************************)
(* What a fill writes of its order, and that it writes no other.           *)
(***************************************************************************)
LEMMA RefilledIs ==
  ASSUME NEW book \in [OrderIds -> Order], NEW j \in OrderIds, NEW b \in Nat, NEW s \in Nat,
         NEW new, new = [book EXCEPT ![j] = Refilled(book[j], b, s)]
  PROVE  /\ \A i \in OrderIds : i # j => new[i] = book[i]
         /\ new[j].filledBuy - book[j].filledBuy = b
         /\ new[j].filledSell - book[j].filledSell = s
<1>1. new[j] = Refilled(book[j], b, s) /\ \A i \in OrderIds : i # j => new[i] = book[i]
  OBVIOUS
<1>2. book[j] \in Order
  OBVIOUS
<1> DEFINE o == book[j]
<1> HIDE DEF o
<1>3. o \in Order => /\ Refilled(o, b, s).filledBuy = o.filledBuy + b
                     /\ Refilled(o, b, s).filledSell = o.filledSell + s
                     /\ o.filledBuy \in Nat /\ o.filledSell \in Nat
  BY DEF Refilled, Order
<1>4. /\ new[j].filledBuy = o.filledBuy + b /\ new[j].filledSell = o.filledSell + s
      /\ o.filledBuy \in Nat /\ o.filledSell \in Nat
  BY <1>1, <1>2, <1>3 DEF o
<1>5. o.filledBuy + b - o.filledBuy = b /\ o.filledSell + s - o.filledSell = s
  BY <1>4
<1>6. QED BY <1>1, <1>4, <1>5 DEF o

LEMMA FillOrderTrades ==
  ASSUME IInv, NEW u \in Users, NEW i \in OrderIds, NEW n \in Amounts, FillOrder(u, i, n)
  PROVE  TradesFor(u, i) /\ \A j \in OrderIds : j # i => orders'[j] = orders[j]
<1> DEFINE o    == orders[i]
           db   == FillBuy(o, n)
           ds   == FillSell(o, db)
           paid == Moved(balances, o.tokenBuy, u, o.maker, db)
<1>1. /\ UNCHANGED <<nextOrderId, userOrderIds>>
      /\ Active(o) /\ Filled(i, db, ds) /\ balances[o.tokenBuy][u] >= db /\ o.tokenBuy # ETH
      /\ \/ /\ o.tokenSell = ETH
            /\ ethBalances' = Credited(ethBalances, u, ds) /\ balances' = paid
         \/ /\ o.tokenSell # ETH
            /\ balances[o.tokenSell][Exchange] >= ds
            /\ balances' = Moved(paid, o.tokenSell, Exchange, u, ds)
            /\ ethBalances' = ethBalances
  BY DEF FillOrder, CanPay
<1>2. /\ o.maker \in Users /\ o.tokenSell \in Assets /\ o.tokenBuy \in Assets
      /\ o.tokenSell # o.tokenBuy /\ db \in Nat /\ ds \in Nat
      /\ orders' = [orders EXCEPT ![i] = Refilled(o, db, ds)]
  BY <1>1, FillFacts
<1>3. /\ balances \in Holdings /\ ethBalances \in [Users -> Nat]
      /\ u \in Accounts /\ Exchange \in Accounts /\ o.maker \in Accounts
      /\ Users \subseteq Accounts /\ Exchange \notin Users
  BY <1>2, AddressAssumption DEF IInv, TypeOK, Holdings, Accounts
<1>4. /\ \A j \in OrderIds : j # i => orders'[j] = orders[j]
      /\ orders'[i].filledBuy - o.filledBuy = db
      /\ orders'[i].filledSell - o.filledSell = ds
  <2> DEFINE x == db
             y == ds
  <2>1. orders \in [OrderIds -> Order] /\ x \in Nat /\ y \in Nat
        /\ orders' = [orders EXCEPT ![i] = Refilled(orders[i], x, y)]
    BY <1>2 DEF IInv, TypeOK
  <2> HIDE DEF x, y
  <2>2. /\ \A j \in OrderIds : j # i => orders'[j] = orders[j]
        /\ orders'[i].filledBuy - orders[i].filledBuy = x
        /\ orders'[i].filledSell - orders[i].filledSell = y
    BY <2>1, RefilledIs
  <2>3. QED BY <2>2 DEF x, y
<1> HIDE DEF db, ds
<1>5. ASSUME NEW v \in Users, NEW a \in Assets
      PROVE  Wealth(v, a)' = Wealth(v, a)
               + ((IF v = o.maker /\ a = o.tokenBuy THEN db ELSE 0)
                  + (IF v = u /\ a = o.tokenSell THEN ds ELSE 0)
                  - (IF v = u /\ a = o.tokenBuy THEN db ELSE 0))
  <2> HIDE DEF o
  <2>1. v \in Accounts /\ v # Exchange /\ balances[a][v] \in Nat /\ ethBalances[v] \in Nat
    BY <1>3 DEF Holdings
  <2>2. /\ paid \in Holdings
        /\ paid[a][v] = balances[a][v] + (IF v = o.maker /\ a = o.tokenBuy THEN db ELSE 0)
                                       - (IF v = u /\ a = o.tokenBuy THEN db ELSE 0)
        /\ paid[o.tokenSell][Exchange] = balances[o.tokenSell][Exchange]
    <3>1. /\ paid \in Holdings
          /\ paid[o.tokenSell][Exchange] = balances[o.tokenSell][Exchange]
          /\ paid[a][v] = IF a = o.tokenBuy /\ u # o.maker
                          THEN IF v = u THEN balances[a][v] - db
                               ELSE IF v = o.maker THEN balances[a][v] + db ELSE balances[a][v]
                          ELSE balances[a][v]
      BY <1>1, <1>2, <1>3, <2>1, MovedIs
    <3> HIDE DEF paid
    <3>2. QED BY <1>2, <2>1, <3>1
  <2> HIDE DEF paid
  <2>6. /\ Wealth(v, a) = balances[a][v] + (IF a = ETH THEN ethBalances[v] ELSE 0)
        /\ Wealth(v, a)' = balances'[a][v] + (IF a = ETH THEN ethBalances'[v] ELSE 0)
    BY DEF Wealth
  <2>3. CASE o.tokenSell = ETH
    <3>1. balances'[a][v] = paid[a][v]
      BY <1>1, <2>3
    <3>2. ethBalances'[v] = ethBalances[v] + (IF v = u THEN ds ELSE 0)
      BY <1>1, <1>2, <1>3, <2>3, CreditedAt
    <3>3. ds \in Nat /\ db \in Nat
      BY <1>2
    <3>4. /\ a = o.tokenSell => a # o.tokenBuy /\ a = ETH
          /\ a = ETH => a = o.tokenSell
      BY <1>2, <2>3
    <3>5. QED BY <2>1, <2>2, <2>6, <3>1, <3>2, <3>3, <3>4
  <2>4. CASE o.tokenSell # ETH
    <3>1. balances'[a][v] = paid[a][v] + (IF v = u /\ a = o.tokenSell THEN ds ELSE 0)
      <4>1. balances' = Moved(paid, o.tokenSell, Exchange, u, ds)
            /\ paid[o.tokenSell][Exchange] >= ds
        BY <1>1, <2>2, <2>4
      <4>2. balances'[a][v] = IF a = o.tokenSell /\ v = u THEN paid[a][v] + ds ELSE paid[a][v]
        BY <1>2, <1>3, <2>1, <2>2, <4>1, MovedIs
      <4>3. paid[a][v] \in Nat
        BY <2>1, <2>2 DEF Holdings
      <4>4. ds \in Nat
        BY <1>2
      <4>5. QED BY ONLY <4>2, <4>3, <4>4
    <3>2. ethBalances'[v] = ethBalances[v]
      BY <1>1, <2>4
    <3>3. ds \in Nat /\ db \in Nat
      BY <1>2
    <3>4. QED BY ONLY <2>1, <2>2, <2>6, <3>1, <3>2, <3>3
  <2>5. QED BY <2>3, <2>4
<1>6. TradesFor(u, i)
  BY <1>4, <1>5 DEF TradesFor
<1>7. QED BY <1>4, <1>6

LEMMA FillOrderWithETHTrades ==
  ASSUME IInv, NEW u \in Users, NEW i \in OrderIds, NEW n \in Amounts, FillOrderWithETH(u, i, n)
  PROVE  TradesFor(u, i) /\ \A j \in OrderIds : j # i => orders'[j] = orders[j]
<1> DEFINE o    == orders[i]
           db   == FillBuy(o, n)
           ds   == FillSell(o, db)
           paid == Moved(balances, ETH, u, Exchange, n)
           made == Credited(ethBalances, o.maker, db)
<1>1. /\ UNCHANGED <<nextOrderId, userOrderIds>>
      /\ Active(o) /\ Filled(i, db, ds) /\ balances[ETH][u] >= n
      /\ balances[o.tokenSell][Exchange] >= ds /\ o.tokenBuy = ETH
      /\ balances' = Moved(paid, o.tokenSell, Exchange, u, ds)
      /\ ethBalances' = Credited(made, u, n - db)
  BY DEF FillOrderWithETH, CanPay
<1>2. /\ o.maker \in Users /\ o.tokenSell \in Assets /\ o.tokenBuy \in Assets
      /\ o.tokenSell # o.tokenBuy /\ db \in Nat /\ ds \in Nat /\ n \in Nat /\ db <= n
      /\ orders' = [orders EXCEPT ![i] = Refilled(o, db, ds)]
  BY <1>1, FillFacts
<1>3. /\ balances \in Holdings /\ ethBalances \in [Users -> Nat] /\ ETH \in Assets
      /\ u \in Accounts /\ Exchange \in Accounts
      /\ Users \subseteq Accounts /\ Exchange \notin Users
  BY AddressAssumption DEF IInv, TypeOK, Holdings, Accounts, Assets
<1>4. /\ \A j \in OrderIds : j # i => orders'[j] = orders[j]
      /\ orders'[i].filledBuy - o.filledBuy = db
      /\ orders'[i].filledSell - o.filledSell = ds
  <2> DEFINE x == db
             y == ds
  <2>1. orders \in [OrderIds -> Order] /\ x \in Nat /\ y \in Nat
        /\ orders' = [orders EXCEPT ![i] = Refilled(orders[i], x, y)]
    BY <1>2 DEF IInv, TypeOK
  <2> HIDE DEF x, y
  <2>2. /\ \A j \in OrderIds : j # i => orders'[j] = orders[j]
        /\ orders'[i].filledBuy - orders[i].filledBuy = x
        /\ orders'[i].filledSell - orders[i].filledSell = y
    BY <2>1, RefilledIs
  <2>3. QED BY <2>2 DEF x, y
<1> HIDE DEF db, ds
<1>5. ASSUME NEW v \in Users, NEW a \in Assets
      PROVE  Wealth(v, a)' = Wealth(v, a)
               + ((IF v = o.maker /\ a = o.tokenBuy THEN db ELSE 0)
                  + (IF v = u /\ a = o.tokenSell THEN ds ELSE 0)
                  - (IF v = u /\ a = o.tokenBuy THEN db ELSE 0))
  <2> HIDE DEF o
  <2>1. v \in Accounts /\ v # Exchange /\ balances[a][v] \in Nat /\ ethBalances[v] \in Nat
    BY <1>3 DEF Holdings
  <2>2. /\ paid \in Holdings
        /\ paid[o.tokenSell][Exchange] = balances[o.tokenSell][Exchange]
        /\ paid[a][v] = balances[a][v] - (IF v = u /\ a = ETH THEN n ELSE 0)
    <3>1. /\ paid \in Holdings
          /\ paid[o.tokenSell][Exchange] = balances[o.tokenSell][Exchange]
          /\ paid[a][v] = IF a = ETH /\ v = u THEN balances[a][v] - n ELSE balances[a][v]
      BY <1>1, <1>2, <1>3, <2>1, MovedIs
    <3> HIDE DEF paid
    <3>2. QED BY <1>2, <2>1, <3>1
  <2>3. made \in [Users -> Nat] /\ made[v] = ethBalances[v] + (IF v = o.maker THEN db ELSE 0)
    <3> DEFINE k == o.maker
    <3>1. k \in Users /\ db \in Nat /\ ethBalances \in [Users -> Nat]
      BY <1>2, <1>3
    <3>2. made = Credited(ethBalances, k, db)
      OBVIOUS
    <3> HIDE DEF k, made
    <3>3. made \in [Users -> Nat]
      BY <3>1, <3>2, CreditedIs
    <3>4. made[v] = ethBalances[v] + (IF v = k THEN db ELSE 0)
      BY <3>1, <3>2, CreditedAt
    <3>5. QED BY <3>3, <3>4 DEF k
  <2>4. n - db \in Nat /\ n \in Nat /\ db \in Nat /\ ds \in Nat
    BY <1>2
  <2> HIDE DEF paid, made
  <2>5. ethBalances'[v] = made[v] + (IF v = u THEN n - db ELSE 0)
    BY <1>1, <2>3, <2>4, CreditedAt
  <2>6. balances'[a][v] = paid[a][v] + (IF v = u /\ a = o.tokenSell THEN ds ELSE 0)
    <3>1. balances' = Moved(paid, o.tokenSell, Exchange, u, ds)
          /\ paid[o.tokenSell][Exchange] >= ds
      BY <1>1, <2>2
    <3>2. balances'[a][v] = IF a = o.tokenSell /\ v = u THEN paid[a][v] + ds ELSE paid[a][v]
      BY <1>2, <1>3, <2>1, <2>2, <3>1, MovedIs
    <3>3. paid[a][v] \in Nat
      BY <2>1, <2>2 DEF Holdings
    <3>4. QED BY ONLY <2>4, <3>2, <3>3
  <2>7. /\ Wealth(v, a) = balances[a][v] + (IF a = ETH THEN ethBalances[v] ELSE 0)
        /\ Wealth(v, a)' = balances'[a][v] + (IF a = ETH THEN ethBalances'[v] ELSE 0)
    BY DEF Wealth
  <2>8. a = ETH => a # o.tokenSell
    BY <1>1, <1>2
  <2>9. o.tokenBuy = ETH
    BY <1>1
  <2>10. QED BY ONLY <2>1, <2>2, <2>3, <2>4, <2>5, <2>6, <2>7, <2>8, <2>9
<1>6. TradesFor(u, i)
  BY <1>4, <1>5 DEF TradesFor
<1>7. QED BY <1>4, <1>6

(***************************************************************************)
(* Every other step leaves what orders have sold as it was: a new order    *)
(* takes a slot that held none.                                            *)
(***************************************************************************)
LEMMA OthersFillNothing ==
  ASSUME IInv, NEW u \in Users,
         \/ OwnerStep(u) \/ EmergencyStep(u) \/ WithdrawEth(u)
         \/ \E t \in Tokens, n \in Gifts : Donate(u, t, n)
         \/ \E sell, buy \in Assets, m, n \in Amounts, d \in Deadlines :
              CreateOrder(u, sell, buy, m, n, d)
         \/ \E i \in OrderIds : CancelOrder(u, i),
         NEW j \in OrderIds
  PROVE  orders'[j].filledSell = orders[j].filledSell
<1>1. orders \in [OrderIds -> Order] /\ nextOrderId \in Nat
  BY DEF IInv, TypeOK
<1>2. CASE \/ OwnerStep(u) \/ EmergencyStep(u) \/ WithdrawEth(u)
           \/ \E t \in Tokens, n \in Gifts : Donate(u, t, n)
  <2>1. orders' = orders
    BY <1>2 DEF OwnerStep, TransferOwnership, AcceptOwnership, Pause, Unpause, EmergencyStep,
                RequestEmergencyWithdraw, ExecuteEmergencyWithdraw, CancelEmergencyWithdraw,
                WithdrawEth, Donate, bookVars
  <2>2. QED BY <2>1
<1>3. ASSUME NEW sell \in Assets, NEW buy \in Assets, NEW m \in Amounts, NEW n \in Amounts,
             NEW d \in Deadlines, CreateOrder(u, sell, buy, m, n, d)
      PROVE  orders'[j].filledSell = orders[j].filledSell
  <2> DEFINE p == [NoOrder EXCEPT !.maker = u, !.tokenSell = sell, !.tokenBuy = buy,
                                  !.amountSell = m, !.amountBuy = n, !.deadline = d]
  <2>1. orders' = [orders EXCEPT ![nextOrderId] = p] /\ nextOrderId < MaxOrders
    BY <1>3 DEF CreateOrder, PushOrder
  <2>2. p.filledSell = 0 /\ NoOrder.filledSell = 0
    BY DEF NoOrder
  <2> HIDE DEF p
  <2>3. j = nextOrderId => orders[j] = NoOrder
    BY <1>1 DEF IInv, BookOK
  <2>4. QED BY <1>1, <2>1, <2>2, <2>3
<1>4. ASSUME NEW i \in OrderIds, CancelOrder(u, i)
      PROVE  orders'[j].filledSell = orders[j].filledSell
  <2>1. orders' = [orders EXCEPT ![i].cancelled = TRUE]
    BY <1>4 DEF CancelOrder
  <2>2. orders[i] \in Order /\ orders[j] \in Order
    BY <1>1
  <2>3. QED BY <1>1, <2>1, <2>2 DEF Order
<1>5. QED BY <1>2, <1>3, <1>4

(***************************************************************************)
(* A fill is a trade and nothing else: taker and maker exchange what the   *)
(* order moved on by, excess ETH comes back, nobody else's wealth changes, *)
(* and no order is filled while the exchange is paused or past its         *)
(* deadline.                                                               *)
(***************************************************************************)
THEOREM FillsAreTrades == Spec => FairExchange
<1> DEFINE Fair(i) == orders[i].filledSell # orders'[i].filledSell =>
                        /\ ~ paused /\ Active(orders[i])
                        /\ \E u \in Users : TradesFor(u, i)
<1>1. ASSUME IInv, [Next]_vars, NEW j \in OrderIds PROVE Fair(j)
  <2>1. ASSUME NEW u \in Users, NEW i \in OrderIds, NEW n \in Amounts,
               FillOrder(u, i, n) \/ FillOrderWithETH(u, i, n)
        PROVE  Fair(j)
    <3>1. TradesFor(u, i) /\ \A k \in OrderIds : k # i => orders'[k] = orders[k]
      BY <1>1, <2>1, FillOrderTrades, FillOrderWithETHTrades
    <3>2. ~ paused /\ Active(orders[i])
      BY <2>1 DEF FillOrder, FillOrderWithETH
    <3>3. CASE j = i
      BY <3>1, <3>2, <3>3
    <3>4. CASE j # i
      BY <3>1, <3>4
    <3>5. QED BY <3>3, <3>4
  <2>2. ASSUME NEW u \in Users, TradeStep(u) PROVE Fair(j)
    <3>1. CASE \E i \in OrderIds, n \in Amounts : FillOrder(u, i, n) \/ FillOrderWithETH(u, i, n)
      BY <2>1, <3>1
    <3>2. CASE ~ \E i \in OrderIds, n \in Amounts : FillOrder(u, i, n) \/ FillOrderWithETH(u, i, n)
      BY <1>1, <2>2, <3>2, OthersFillNothing DEF TradeStep
    <3>3. QED BY <3>1, <3>2
  <2>3. CASE Tick \/ UNCHANGED vars
    <3>1. orders' = orders
      BY <2>3 DEF Tick, vars, bookVars
    <3>2. QED BY <3>1
  <2>4. ASSUME NEW u \in Users,
               OwnerStep(u) \/ EmergencyStep(u) \/ \E t \in Tokens, n \in Gifts : Donate(u, t, n)
        PROVE  Fair(j)
    BY <1>1, <2>4, OthersFillNothing
  <2>5. QED BY <1>1, <2>2, <2>3, <2>4 DEF Next
<1>2. IInv /\ [Next]_vars => [\A i \in OrderIds : Fair(i)]_vars
  BY <1>1
<1>3. QED BY <1>2, Invariance, PTL DEF Spec, FairExchange

-----------------------------------------------------------------------------
(* Exits *)

\* What the exits need of the contract: the two calls of ExitAlwaysOpen check
\* nothing else that is not said of the order or of the credit.
ExitsAreFunded ==
  /\ \A i \in OrderIds :
       Open(orders[i]) /\ swept[orders[i].tokenSell] = 0 =>
         CanPay(Exchange, orders[i].tokenSell, orders[i].amountSell - orders[i].filledSell)
  /\ \A u \in Users :
       swept[ETH] = 0 => CanPay(Exchange, ETH, ethBalances[u])

LEMMA UnfilledIsNat ==
  ASSUME IInv, NEW i \in OrderIds, NEW a
  PROVE  Unfilled(orders[i], a) \in Nat
<1>1. /\ orders[i].amountSell \in Nat /\ orders[i].filledSell \in Nat
      /\ orders[i].filledSell <= orders[i].amountSell
  BY DEF IInv, TypeOK, Order, MakerPrice
<1>2. QED BY <1>1 DEF Unfilled

(***************************************************************************)
(* Whatever an open order has in escrow, and whatever ETH is credited, is  *)
(* there, as long as no emergency withdrawal took the asset: no cancelling *)
(* maker and no withdrawing user comes too late.                           *)
(***************************************************************************)
THEOREM EveryExitIsFunded == Spec => []ExitsAreFunded
<1>1. ASSUME IInv, Covered PROVE ExitsAreFunded
  <2>1. IsFiniteSet(OrderIds) /\ IsFiniteSet(Users)
    BY FS_Interval, NumberAssumption, AddressAssumption DEF OrderIds
  <2>2. ASSUME NEW i \in OrderIds, Open(orders[i]), swept[orders[i].tokenSell] = 0
        PROVE  CanPay(Exchange, orders[i].tokenSell, orders[i].amountSell - orders[i].filledSell)
    <3> DEFINE a == orders[i].tokenSell
               f == [j \in OrderIds |-> Unfilled(orders[j], a)]
    <3>1. a \in Assets
      BY <1>1, <2>2 DEF IInv, BookOK, OrderOK, Open
    <3>2. \A j \in OrderIds : f[j] \in Nat
      BY <1>1, UnfilledIsNat
    <3>3. f[i] = orders[i].amountSell - orders[i].filledSell
      BY <2>2 DEF Unfilled, Open
    <3>4. Escrow(orders, a) = SumOver(f, OrderIds)
      BY DEF Escrow
    <3>5. /\ Escrow(orders, a) \in Int /\ Credits(ethBalances) \in Int
          /\ balances[a][Exchange] \in Int
      BY <1>1, <3>1, TotalsAreInt
    <3>6. Credits(ethBalances) >= 0
      BY <1>1, <2>1, SumNat DEF IInv, TypeOK, Credits
    <3>7. balances[a][Exchange] + swept[a] >= Owed(a) /\ swept[a] = 0
      BY <1>1, <2>2, <3>1 DEF Covered
    <3> HIDE DEF f
    <3>8. f[i] <= Escrow(orders, a) /\ f[i] \in Nat
      BY <2>1, <2>2, <3>2, <3>4, SumMember
    <3>9. Owed(a) >= Escrow(orders, a)
      BY <3>5, <3>6 DEF Owed, Credits
    <3> HIDE DEF a
    <3>10. balances[a][Exchange] >= f[i]
      <4>1. Owed(a) \in Int
        BY <3>5 DEF Owed, Credits
      <4>2. balances[a][Exchange] >= Owed(a)
        BY <3>5, <3>7, <4>1
      <4>3. QED BY <3>5, <3>8, <3>9, <4>1, <4>2
    <3>11. QED BY <3>3, <3>10 DEF CanPay, a
  <2>3. ASSUME NEW u \in Users, swept[ETH] = 0
        PROVE  CanPay(Exchange, ETH, ethBalances[u])
    <3>1. ETH \in Assets
      BY DEF Assets
    <3>2. \A v \in Users : ethBalances[v] \in Nat
      BY <1>1 DEF IInv, TypeOK
    <3>3. /\ Escrow(orders, ETH) \in Int /\ Credits(ethBalances) \in Int
          /\ balances[ETH][Exchange] \in Int
      BY <1>1, <3>1, TotalsAreInt
    <3>4. ethBalances[u] <= Credits(ethBalances)
      BY <2>1, <3>2, SumMember DEF Credits
    <3>5. Escrow(orders, ETH) >= 0
      <4> DEFINE f == [j \in OrderIds |-> Unfilled(orders[j], ETH)]
      <4>1. \A j \in OrderIds : f[j] \in Nat
        BY <1>1, UnfilledIsNat
      <4>2. Escrow(orders, ETH) = SumOver(f, OrderIds)
        BY DEF Escrow
      <4> HIDE DEF f
      <4>3. QED BY <2>1, <4>1, <4>2, SumNat
    <3>6. balances[ETH][Exchange] + swept[ETH] >= Owed(ETH)
      BY <1>1, <3>1 DEF Covered
    <3>7. QED BY <2>3, <3>2, <3>3, <3>4, <3>5, <3>6 DEF CanPay, Owed, Credits
  <2>4. QED BY <2>2, <2>3 DEF ExitsAreFunded
<1>2. QED BY <1>1, Invariance, EscrowIsCovered, PTL

-----------------------------------------------------------------------------
(* The pages of getActiveOrders *)

\* The states of the loop up to the m-th order.
Scans(after, m, sell, buy, offset, size) ==
  after = [n \in 0 .. m |->
             IF n = 0 THEN [scanned |-> 0, matched |-> 0, page |-> <<>>]
             ELSE ScanStep(after[n - 1], n - 1, sell, buy, offset, size)]

LEMMA ScanIsFollowed ==
  ASSUME NEW sell, NEW buy, NEW offset, NEW size, NEW l \in Nat
  PROVE  \E after : Scans(after, l, sell, buy, offset, size)
<1> DEFINE start == [scanned |-> 0, matched |-> 0, page |-> <<>>]
           Bad == {m \in Nat : ~ \E after : Scans(after, m, sell, buy, offset, size)}
<1>1. SUFFICES ASSUME Bad # {} PROVE FALSE
  OBVIOUS
<1>2. PICK m \in Bad : \A i \in Bad : m <= i
  <2>1. Bad \subseteq Nat
    OBVIOUS
  <2> HIDE DEF Bad
  <2>2. QED BY <1>1, <2>1, LeastNatural
<1>3. CASE m = 0
  <2>1. Scans([n \in 0 .. 0 |-> start], 0, sell, buy, offset, size)
    BY DEF Scans
  <2>2. QED BY <1>2, <1>3, <2>1
<1>4. CASE m # 0
  <2>1. m \in Nat /\ m - 1 \in Nat /\ m - 1 \notin Bad
    BY <1>2, <1>4
  <2>2. PICK f : Scans(f, m - 1, sell, buy, offset, size)
    BY <2>1
  <2> DEFINE g == [n \in 0 .. m |-> IF n = m THEN ScanStep(f[m - 1], m - 1, sell, buy, offset, size)
                                    ELSE f[n]]
  <2>3. ASSUME NEW n \in 0 .. m
        PROVE  g[n] = IF n = 0 THEN start ELSE ScanStep(g[n - 1], n - 1, sell, buy, offset, size)
    <3>1. CASE n = m
      <4>1. m - 1 \in 0 .. m /\ m - 1 # m /\ n # 0
        BY <1>4, <2>1, <3>1
      <4>2. g[n - 1] = f[m - 1] /\ g[n] = ScanStep(f[m - 1], m - 1, sell, buy, offset, size)
        BY <3>1, <4>1
      <4>3. QED BY <3>1, <4>1, <4>2
    <3>2. CASE n # m
      <4>1. n \in 0 .. m - 1 /\ g[n] = f[n]
        BY <2>1, <3>2
      <4>2. f[n] = IF n = 0 THEN start ELSE ScanStep(f[n - 1], n - 1, sell, buy, offset, size)
        BY <2>2, <4>1 DEF Scans
      <4>3. n # 0 => n - 1 \in 0 .. m /\ n - 1 # m /\ g[n - 1] = f[n - 1]
        BY <2>1, <4>1
      <4>4. QED BY <4>1, <4>2, <4>3
    <3>3. QED BY <3>1, <3>2
  <2>4. g = [n \in 0 .. m |-> g[n]]
    OBVIOUS
  <2> HIDE DEF g
  <2>5. g = [n \in 0 .. m |-> IF n = 0 THEN start
                              ELSE ScanStep(g[n - 1], n - 1, sell, buy, offset, size)]
    BY <2>3, <2>4
  <2>6. Scans(g, m, sell, buy, offset, size)
    BY <2>5 DEF Scans
  <2>7. QED BY <1>2, <2>6
<1>5. QED BY <1>3, <1>4

\* Those of ids that are below n: what the loop has seen after n orders.
Below(ids, n) == {i \in ids : i < n}

LEMMA BelowGrows ==
  ASSUME NEW ids, ids \subseteq Nat, NEW n \in Nat
  PROVE  /\ Below(ids, 0) = {} /\ Cardinality(Below(ids, 0)) = 0
         /\ Cardinality(Below(ids, n)) \in Nat
         /\ n \in ids => /\ Below(ids, n + 1) = Below(ids, n) \cup {n}
                         /\ Cardinality(Below(ids, n + 1)) = Cardinality(Below(ids, n)) + 1
         /\ n \notin ids => Below(ids, n + 1) = Below(ids, n)
<1>0. \A i \in ids : i \in Nat
  OBVIOUS
<1>1. Below(ids, 0) = {}
  <2>1. \A i \in ids : ~ (i < 0)
    BY <1>0
  <2>2. QED BY <2>1 DEF Below
<1>2. IsFiniteSet(Below(ids, n)) /\ n \notin Below(ids, n)
  <2>1. Below(ids, n) \in SUBSET (0 .. n) /\ n \notin Below(ids, n)
    <3>1. \A i \in ids : (i < n => i \in 0 .. n) /\ ~ (n < n)
      BY <1>0
    <3>2. QED BY <3>1 DEF Below
  <2>2. IsFiniteSet(0 .. n)
    BY FS_Interval
  <2>3. QED BY <2>1, <2>2, FS_Subset
<1>3. \A i \in ids : i < n + 1 <=> i < n \/ i = n
  BY <1>0
<1>4. /\ n \in ids => Below(ids, n + 1) = Below(ids, n) \cup {n}
      /\ n \notin ids => Below(ids, n + 1) = Below(ids, n)
  BY <1>3 DEF Below
<1>5. QED BY <1>1, <1>2, <1>4, FS_EmptySet, FS_AddElement, FS_CardinalityType

(***************************************************************************)
(* The state s of the loop after n orders: the page ascends and holds      *)
(* exactly those seen whose number is on the page; while it is not full,   *)
(* all that matched were counted; and once it is, the rest of the list     *)
(* lies behind it.                                                         *)
(***************************************************************************)
Onto(ids, n, offset, size) ==
  {i \in Below(ids, n) : Before(ids, i) \in offset .. offset + size - 1}

ScanIsRight(s, ids, n, offset, size) ==
  /\ s \in [scanned : Nat, matched : Nat, page : Seq(Nat)]
  /\ Len(s.page) <= size
  /\ \A k, l \in 1 .. Len(s.page) : k < l => s.page[k] < s.page[l]
  /\ {s.page[k] : k \in 1 .. Len(s.page)} = Onto(ids, n, offset, size)
  /\ Len(s.page) # size =>
       /\ s.matched = Cardinality(Below(ids, n))
       /\ Len(s.page) = IF s.matched <= offset THEN 0 ELSE s.matched - offset
  /\ Len(s.page) = size => Cardinality(Below(ids, n)) >= offset + size

LEMMA PageGrows ==
  ASSUME NEW p \in Seq(Nat), NEW n \in Nat, \A k \in 1 .. Len(p) : p[k] < n,
         \A k, l \in 1 .. Len(p) : k < l => p[k] < p[l]
  PROVE  LET q == Append(p, n) IN
         /\ q \in Seq(Nat) /\ Len(q) = Len(p) + 1
         /\ \A k, l \in 1 .. Len(q) : k < l => q[k] < q[l]
         /\ {q[k] : k \in 1 .. Len(q)} = {p[k] : k \in 1 .. Len(p)} \cup {n}
<1> DEFINE q == Append(p, n)
<1>1. q \in Seq(Nat) /\ Len(q) = Len(p) + 1 /\ Len(p) \in Nat
  OBVIOUS
<1>2. q[Len(p) + 1] = n /\ \A k \in 1 .. Len(p) : q[k] = p[k] /\ p[k] \in Nat
  OBVIOUS
<1> HIDE DEF q
<1>3. ASSUME NEW k \in 1 .. Len(q), NEW l \in 1 .. Len(q), k < l
      PROVE  q[k] < q[l]
  <2>1. k \in 1 .. Len(p)
    BY <1>1, <1>3
  <2>2. CASE l = Len(p) + 1
    BY <1>2, <2>1, <2>2
  <2>3. CASE l # Len(p) + 1
    <3>1. l \in 1 .. Len(p)
      BY <1>1, <2>3
    <3>2. QED BY <1>2, <1>3, <2>1, <3>1
  <2>4. QED BY <2>2, <2>3
<1>4. {q[k] : k \in 1 .. Len(q)} = {p[k] : k \in 1 .. Len(p)} \cup {n}
  <2>1. 1 .. Len(q) = (1 .. Len(p)) \cup {Len(p) + 1}
    BY <1>1
  <2>2. QED BY <1>2, <2>1
<1>5. QED BY <1>1, <1>3, <1>4 DEF q

LEMMA ScanStepIsRight ==
  ASSUME NEW sell, NEW buy, NEW ids, ids \subseteq Nat, NEW n \in Nat,
         Listed(orders[n], sell, buy) <=> n \in ids,
         NEW offset \in Nat, NEW size \in Nat, NEW s, ScanIsRight(s, ids, n, offset, size)
  PROVE  ScanIsRight(ScanStep(s, n, sell, buy, offset, size), ids, n + 1, offset, size)
<1> DEFINE seen == Below(ids, n)
           next == Below(ids, n + 1)
           t    == ScanStep(s, n, sell, buy, offset, size)
<1>1. /\ s.scanned \in Nat /\ s.matched \in Nat /\ s.page \in Seq(Nat) /\ Len(s.page) \in Nat
      /\ Len(s.page) <= size
      /\ \A k, l \in 1 .. Len(s.page) : k < l => s.page[k] < s.page[l]
      /\ {s.page[k] : k \in 1 .. Len(s.page)} = Onto(ids, n, offset, size)
  BY DEF ScanIsRight
<1>2. /\ Cardinality(seen) \in Nat
      /\ n \in ids => next = seen \cup {n} /\ Cardinality(next) = Cardinality(seen) + 1
      /\ n \notin ids => next = seen
  BY BelowGrows
<1>3. Before(ids, n) = Cardinality(seen)
  BY DEF Before, Below
<1>4. CASE Len(s.page) = size
  <2>1. t = s
    BY <1>4 DEF ScanStep
  <2>2. Cardinality(seen) >= offset + size
    BY <1>4 DEF ScanIsRight
  <2>3. Onto(ids, n + 1, offset, size) = Onto(ids, n, offset, size)
    <3>1. Before(ids, n) \notin offset .. offset + size - 1
      BY <1>2, <1>3, <2>2
    <3>2. next = seen \/ next = seen \cup {n}
      BY <1>2
    <3>3. QED BY <3>1, <3>2 DEF Onto
  <2>4. Cardinality(next) >= offset + size
    BY <1>2, <2>2
  <2>5. s \in [scanned : Nat, matched : Nat, page : Seq(Nat)]
    BY DEF ScanIsRight
  <2>6. QED BY <1>1, <1>4, <2>1, <2>3, <2>4, <2>5 DEF ScanIsRight
<1>5. CASE Len(s.page) # size /\ n \notin ids
  <2>1. /\ t = [scanned |-> s.scanned + 1, matched |-> s.matched, page |-> s.page]
    BY <1>5 DEF ScanStep
  <2>2. /\ t \in [scanned : Nat, matched : Nat, page : Seq(Nat)]
        /\ t.matched = s.matched /\ t.page = s.page
    BY <1>1, <2>1
  <2>3. Onto(ids, n + 1, offset, size) = Onto(ids, n, offset, size) /\ next = seen
    BY <1>2, <1>5 DEF Onto
  <2>4. QED BY <1>5, <2>2, <2>3 DEF ScanIsRight
<1>6. CASE Len(s.page) # size /\ n \in ids
  <2>1. /\ s.matched = Cardinality(seen)
        /\ Len(s.page) = IF s.matched <= offset THEN 0 ELSE s.matched - offset
    BY <1>6 DEF ScanIsRight
  <2>2. next = seen \cup {n} /\ Cardinality(next) = s.matched + 1 /\ Before(ids, n) = s.matched
    BY <1>2, <1>3, <1>6, <2>1
  <2>3. t = [scanned |-> s.scanned + 1, matched |-> s.matched + 1,
             page |-> IF s.matched >= offset THEN Append(s.page, n) ELSE s.page]
    BY <1>6 DEF ScanStep
  <2>4. CASE s.matched >= offset
    <3> DEFINE q == Append(s.page, n)
    <3>1. \A k \in 1 .. Len(s.page) : s.page[k] < n
      <4>1. Onto(ids, n, offset, size) \subseteq seen
        BY DEF Onto
      <4>2. \A i \in seen : i < n
        BY DEF Below
      <4>3. QED BY <1>1, <4>1, <4>2
    <3>2. /\ q \in Seq(Nat) /\ Len(q) = Len(s.page) + 1
          /\ \A k, l \in 1 .. Len(q) : k < l => q[k] < q[l]
          /\ {q[k] : k \in 1 .. Len(q)} = {s.page[k] : k \in 1 .. Len(s.page)} \cup {n}
      BY <1>1, <3>1, PageGrows
    <3> HIDE DEF q
    <3>3. /\ t \in [scanned : Nat, matched : Nat, page : Seq(Nat)]
          /\ t.matched = s.matched + 1 /\ t.page = q
      BY <1>1, <2>3, <2>4, <3>2 DEF q
    <3>4. Len(s.page) = s.matched - offset /\ Len(s.page) < size
      BY <1>1, <1>6, <2>1, <2>4
    <3>5. Before(ids, n) \in offset .. offset + size - 1
      BY <1>1, <2>2, <2>4, <3>4
    <3>6. Onto(ids, n + 1, offset, size) = Onto(ids, n, offset, size) \cup {n}
      BY <2>2, <3>5 DEF Onto
    <3>7. Len(q) <= size /\ Len(q) = (s.matched + 1) - offset /\ s.matched + 1 > offset
      BY <1>1, <2>4, <3>2, <3>4
    <3>8. Len(q) = size => Cardinality(next) >= offset + size
      BY <1>1, <2>2, <3>7
    <3>9. {q[k] : k \in 1 .. Len(q)} = Onto(ids, n + 1, offset, size)
      BY <1>1, <3>2, <3>6
    <3>10. Len(q) = IF s.matched + 1 <= offset THEN 0 ELSE (s.matched + 1) - offset
      BY <1>1, <3>7
    <3> HIDE DEF t, next
    <3>11. Cardinality(Below(ids, n + 1)) = s.matched + 1
      BY <2>2 DEF next
    <3>12. ScanIsRight(t, ids, n + 1, offset, size)
      BY <3>2, <3>3, <3>7, <3>8, <3>9, <3>10, <3>11 DEF ScanIsRight, next
    <3>13. QED BY <3>12 DEF t
  <2>5. CASE ~ (s.matched >= offset)
    <3>1. /\ t \in [scanned : Nat, matched : Nat, page : Seq(Nat)]
          /\ t.matched = s.matched + 1 /\ t.page = s.page
      BY <1>1, <2>3, <2>5
    <3>2. Before(ids, n) \notin offset .. offset + size - 1
      BY <1>1, <2>2, <2>5
    <3>3. Onto(ids, n + 1, offset, size) = Onto(ids, n, offset, size)
      BY <2>2, <3>2 DEF Onto
    <3>4. Len(s.page) = 0 /\ s.matched + 1 <= offset
      BY <1>1, <2>1, <2>5
    <3>5. QED BY <1>1, <1>6, <2>2, <3>1, <3>3, <3>4 DEF ScanIsRight
  <2>6. QED BY <2>4, <2>5
<1>7. QED BY <1>4, <1>5, <1>6

\* The loop leaves with the slice of ids that the page is asked for.
LEMMA ScanEndsRight ==
  ASSUME NEW sell, NEW buy, NEW offset \in Nat, NEW size \in Nat, size > 0, NEW m \in Nat,
         NEW ids, ids = {i \in 0 .. m - 1 : Listed(orders[i], sell, buy)},
         NEW after, Scans(after, m, sell, buy, offset, size)
  PROVE  ScanIsRight(after[m], ids, m, offset, size)
<1> DEFINE Bad == {n \in 0 .. m : ~ ScanIsRight(after[n], ids, n, offset, size)}
<1>1. SUFFICES ASSUME Bad # {} PROVE FALSE
  <2>1. m \in 0 .. m
    OBVIOUS
  <2>2. QED BY <2>1
<1>2. PICK n \in Bad : \A i \in Bad : n <= i
  <2>1. Bad \subseteq Nat
    OBVIOUS
  <2> HIDE DEF Bad
  <2>2. QED BY <1>1, <2>1, LeastNatural
<1>3. n \in 0 .. m /\ n \in Nat /\ ids \subseteq Nat
  BY <1>2
<1>4. after[n] = IF n = 0 THEN [scanned |-> 0, matched |-> 0, page |-> <<>>]
                 ELSE ScanStep(after[n - 1], n - 1, sell, buy, offset, size)
  BY <1>3 DEF Scans
<1>5. CASE n = 0
  <2> DEFINE s == [scanned |-> 0, matched |-> 0, page |-> <<>>]
  <2>1. /\ s \in [scanned : Nat, matched : Nat, page : Seq(Nat)]
        /\ s.matched = 0 /\ s.page = <<>> /\ Len(s.page) = 0
    OBVIOUS
  <2>2. Below(ids, 0) = {} /\ Cardinality(Below(ids, 0)) = 0
    BY <1>3, BelowGrows
  <2>3. Onto(ids, 0, offset, size) = {}
    BY <2>2 DEF Onto
  <2>4. after[n] = s
    BY <1>4, <1>5
  <2> HIDE DEF s
  <2>5. ScanIsRight(s, ids, 0, offset, size)
    BY <2>1, <2>2, <2>3 DEF ScanIsRight
  <2>6. QED BY <1>2, <1>5, <2>4, <2>5
<1>6. CASE n # 0
  <2>1. n - 1 \in Nat /\ n - 1 \in 0 .. m /\ n - 1 \in 0 .. m - 1 /\ ~ (n <= n - 1) /\ (n - 1) + 1 = n
    BY <1>3, <1>6
  <2>2. ScanIsRight(after[n - 1], ids, n - 1, offset, size)
    BY <1>2, <2>1
  <2>3. Listed(orders[n - 1], sell, buy) <=> n - 1 \in ids
    BY <2>1
  <2>4. ScanIsRight(after[n], ids, (n - 1) + 1, offset, size)
    BY <1>3, <1>4, <1>6, <2>1, <2>2, <2>3, ScanStepIsRight
  <2>5. QED BY <1>2, <2>1, <2>4
<1>7. QED BY <1>5, <1>6

LEMMA PagesHaveSizes ==
  ASSUME NEW limit \in Limits
  PROVE  PageSize(limit) \in Nat /\ PageSize(limit) > 0
<1>1. limit \in 0 .. MaxScanLimit /\ DefaultLimit \in 1 .. MaxScanLimit /\ MaxScanLimit \in Nat
  BY PageAssumption
<1>2. QED BY <1>1 DEF PageSize

LEMMA ScanIs ==
  ASSUME nextOrderId \in Nat, NEW sell, NEW buy, NEW offset \in Offsets, NEW limit \in Limits
  PROVE  ScanIsRight(Scan(sell, buy, offset, limit), ListedIds(sell, buy), nextOrderId, offset,
                     PageSize(limit))
<1> DEFINE after == CHOOSE f : Scans(f, nextOrderId, sell, buy, offset, PageSize(limit))
<1>1. Scan(sell, buy, offset, limit) = after[nextOrderId]
  BY DEF Scan, Scans
<1>2. Scans(after, nextOrderId, sell, buy, offset, PageSize(limit))
  BY ScanIsFollowed
<1> HIDE DEF after
<1>3. offset \in Nat
  BY PageAssumption
<1>4. ScanIsRight(after[nextOrderId], ListedIds(sell, buy), nextOrderId, offset, PageSize(limit))
  BY <1>2, <1>3, PagesHaveSizes, ScanEndsRight DEF ListedIds
<1>5. QED BY <1>1, <1>4

\* Ids are given out one by one and end with the bound.
LEMMA IdsAreBounded == Spec => [](nextOrderId <= MaxOrders)
<1>1. Init => nextOrderId <= MaxOrders
  BY NumberAssumption DEF Init
<1>2. IInv /\ nextOrderId <= MaxOrders /\ [Next]_vars => (nextOrderId <= MaxOrders)'
  <2> SUFFICES ASSUME IInv, nextOrderId <= MaxOrders, [Next]_vars
               PROVE  nextOrderId' <= MaxOrders
    OBVIOUS
  <2>1. nextOrderId \in Nat /\ MaxOrders \in Nat
    BY NumberAssumption DEF IInv, TypeOK
  <2>2. nextOrderId' = nextOrderId \/ (nextOrderId < MaxOrders /\ nextOrderId' = nextOrderId + 1)
    <3>1. CASE UNCHANGED vars
      BY <3>1 DEF vars, bookVars
    <3>2. CASE Tick
      BY <3>2 DEF Tick, bookVars
    <3>3. ASSUME NEW u \in Users, OwnerStep(u) PROVE nextOrderId' = nextOrderId
      BY <3>3 DEF OwnerStep, TransferOwnership, AcceptOwnership, Pause, Unpause, bookVars
    <3>4. ASSUME NEW u \in Users, EmergencyStep(u) PROVE nextOrderId' = nextOrderId
      BY <3>4 DEF EmergencyStep, RequestEmergencyWithdraw, ExecuteEmergencyWithdraw,
         CancelEmergencyWithdraw, bookVars
    <3>5. ASSUME NEW u \in Users, TradeStep(u)
          PROVE  nextOrderId' = nextOrderId
                 \/ (nextOrderId < MaxOrders /\ nextOrderId' = nextOrderId + 1)
      <4>1. CASE WithdrawEth(u)
        BY <4>1 DEF WithdrawEth, bookVars
      <4>2. CASE \E sell, buy \in Assets, m, n \in Amounts, d \in Deadlines :
                   CreateOrder(u, sell, buy, m, n, d)
        BY <4>2 DEF CreateOrder, PushOrder
      <4>3. CASE \E i \in OrderIds, n \in Amounts : FillOrder(u, i, n) \/ FillOrderWithETH(u, i, n)
        BY <4>3 DEF FillOrder, FillOrderWithETH
      <4>4. CASE \E i \in OrderIds : CancelOrder(u, i)
        BY <4>4 DEF CancelOrder
      <4>5. QED BY <3>5, <4>1, <4>2, <4>3, <4>4 DEF TradeStep
    <3>6. ASSUME NEW u \in Users, NEW t \in Tokens, NEW n \in Gifts, Donate(u, t, n)
          PROVE  nextOrderId' = nextOrderId
      BY <3>6 DEF Donate, bookVars
    <3>7. QED BY <3>1, <3>2, <3>3, <3>4, <3>5, <3>6 DEF Next
  <2>3. QED BY <2>1, <2>2
<1>3. QED BY <1>1, <1>2, Invariance, PTL DEF Spec

(***************************************************************************)
(* Every page of every size of every pair is the slice of the listed       *)
(* orders it is asked for, however the book came to be, though the loop    *)
(* stops as soon as the page is full; and what it offers can be filled.    *)
(***************************************************************************)
THEOREM PagesTileTheBook == Spec => []PagesAreFaithful
<1>1. ASSUME IInv, nextOrderId <= MaxOrders PROVE PagesAreFaithful
  <2>1. nextOrderId \in Nat /\ MaxOrders \in Nat /\ now \in Nat
    BY <1>1, NumberAssumption DEF IInv, TypeOK
  <2>2. ASSUME NEW sell \in Assets, NEW buy \in Assets, NEW offset \in Offsets, NEW limit \in Limits
        PROVE  LET ids  == ListedIds(sell, buy)
                   page == GetActiveOrders(sell, buy, offset, limit)
               IN /\ \A k, l \in 1 .. Len(page) : k < l => page[k] < page[l]
                  /\ {page[k] : k \in 1 .. Len(page)} =
                       {i \in ids : Before(ids, i) \in offset .. offset + PageSize(limit) - 1}
    <3> DEFINE ids == ListedIds(sell, buy)
               s   == Scan(sell, buy, offset, limit)
    <3>1. ScanIsRight(s, ids, nextOrderId, offset, PageSize(limit))
      BY <2>1, <2>2, ScanIs
    <3>2. Below(ids, nextOrderId) = ids
      BY <2>1 DEF Below, ListedIds
    <3> HIDE DEF s
    <3>3. s.page \in Seq(Nat) /\ GetActiveOrders(sell, buy, offset, limit) = s.page
      BY <3>1 DEF ScanIsRight, GetActiveOrders, s
    <3> HIDE DEF ids
    <3>4. QED BY <3>1, <3>2, <3>3 DEF ScanIsRight, Onto, ids
  <2>3. PageIsSlice
    BY ONLY <2>2 DEF PageIsSlice
  <2>4. ASSUME NEW sell \in Assets, NEW buy \in Assets, NEW offset \in Offsets, NEW limit \in Limits,
               NEW k \in 1 .. Len(GetActiveOrders(sell, buy, offset, limit))
        PROVE  Active(orders[GetActiveOrders(sell, buy, offset, limit)[k]])
    <3> DEFINE i == GetActiveOrders(sell, buy, offset, limit)[k]
    <3>1. i \in ListedIds(sell, buy)
      BY <2>2
    <3> HIDE DEF i
    <3>2. i \in 0 .. nextOrderId - 1 /\ Listed(orders[i], sell, buy)
      BY <3>1 DEF ListedIds
    <3>3. i \in OrderIds
      BY <1>1, <2>1, <3>2 DEF OrderIds
    <3>4. orders[i].deadline \in Nat
      BY <1>1, <3>3 DEF IInv, TypeOK, Order
    <3>5. Active(orders[i])
      BY <2>1, <3>2, <3>4 DEF Listed, Active
    <3>6. QED BY <3>5 DEF i
  <2>5. OfferedIsActive
    BY <2>4 DEF OfferedIsActive
  <2>6. QED BY <2>3, <2>5 DEF PagesAreFaithful
<1>2. QED BY <1>1, Invariance, IdsAreBounded, PTL

-----------------------------------------------------------------------------
(* Who pays, and what becomes of an order *)

\* What an order was created with.
Terms(o) == <<o.maker, o.tokenSell, o.tokenBuy, o.amountSell, o.amountBuy, o.deadline>>

\* How order i is allowed to go on, if there is one.
RunsItsCourse(i) ==
  Exists(orders[i]) =>
    /\ Terms(orders'[i]) = Terms(orders[i])
    /\ orders'[i].filledSell >= orders[i].filledSell
    /\ orders'[i].filledBuy >= orders[i].filledBuy
    /\ ~ Open(orders[i]) => orders'[i] = orders[i]
    /\ orders'[i].cancelled /\ ~ orders[i].cancelled =>
         CancelOrder(orders[i].maker, i)

\* The steps by which a user parts with something: an order of theirs, a fill
\* they call, tokens they send.
PaysBy(v) ==
  \/ \E sell, buy \in Assets, m, n \in Amounts, d \in Deadlines :
       CreateOrder(v, sell, buy, m, n, d)
  \/ \E i \in OrderIds, n \in Amounts : FillOrder(v, i, n) \/ FillOrderWithETH(v, i, n)
  \/ \E t \in Tokens, n \in Gifts : Donate(v, t, n)

\* User v has no less than before of asset a, or paid for it.
KeepsOrPays(v, a) == Wealth(v, a)' < Wealth(v, a) => PaysBy(v)

OrdersRunTheirCourse == [][\A i \in OrderIds : RunsItsCourse(i)]_vars
OnlyOwnStepsCost == [][\A v \in Users, a \in Assets : KeepsOrPays(v, a)]_vars

LEMMA FillMovesOn ==
  ASSUME IInv, NEW u \in Users, NEW i \in OrderIds, NEW n \in Amounts,
         FillOrder(u, i, n) \/ FillOrderWithETH(u, i, n)
  PROVE  /\ orders'[i].filledBuy - orders[i].filledBuy \in Nat
         /\ orders'[i].filledSell - orders[i].filledSell \in Nat
         /\ orders'[i].filledBuy >= orders[i].filledBuy
         /\ orders'[i].filledSell >= orders[i].filledSell
         /\ Terms(orders'[i]) = Terms(orders[i])
         /\ orders'[i].cancelled = orders[i].cancelled
         /\ Open(orders[i])
<1> DEFINE o  == orders[i]
           db == FillBuy(o, n)
           ds == FillSell(o, db)
<1>1. /\ UNCHANGED <<nextOrderId, userOrderIds>> /\ Active(o) /\ Filled(i, db, ds)
  BY DEF FillOrder, FillOrderWithETH
<1>2. /\ o \in Order /\ db \in Nat /\ ds \in Nat
      /\ orders' = [orders EXCEPT ![i] = Refilled(o, db, ds)]
  BY <1>1, FillFacts
<1>3. orders \in [OrderIds -> Order]
  BY DEF IInv, TypeOK
<1>4. orders'[i] = Refilled(o, db, ds)
  BY <1>2, <1>3
<1>5. Open(o)
  BY <1>1 DEF Active
<1> HIDE DEF o, db, ds
<1>6. /\ orders'[i].filledBuy = o.filledBuy + db /\ orders'[i].filledSell = o.filledSell + ds
      /\ Terms(orders'[i]) = Terms(o) /\ orders'[i].cancelled = o.cancelled
      /\ o.filledBuy \in Nat /\ o.filledSell \in Nat
  <2> DEFINE fb == o.filledBuy + db
             fs == o.filledSell + ds
  <2>1. orders'[i] = [o EXCEPT !.filledBuy = fb, !.filledSell = fs]
    BY <1>4 DEF Refilled
  <2> HIDE DEF fb, fs
  <2>2. /\ orders'[i].filledBuy = fb /\ orders'[i].filledSell = fs
        /\ orders'[i].maker = o.maker /\ orders'[i].deadline = o.deadline
        /\ orders'[i].tokenSell = o.tokenSell /\ orders'[i].tokenBuy = o.tokenBuy
        /\ orders'[i].amountSell = o.amountSell /\ orders'[i].amountBuy = o.amountBuy
        /\ orders'[i].cancelled = o.cancelled
    <3> DEFINE p == orders'[i]
    <3>1. o \in Order /\ p = [o EXCEPT !.filledBuy = fb, !.filledSell = fs]
      BY <1>2, <2>1
    <3> HIDE DEF p
    <3>2. /\ p.filledBuy = fb /\ p.filledSell = fs /\ p.maker = o.maker
          /\ p.deadline = o.deadline /\ p.tokenSell = o.tokenSell /\ p.tokenBuy = o.tokenBuy
          /\ p.amountSell = o.amountSell /\ p.amountBuy = o.amountBuy
          /\ p.cancelled = o.cancelled
      BY ONLY <3>1 DEF Order
    <3>3. QED BY <3>2 DEF p
  <2>3. o.filledBuy \in Nat /\ o.filledSell \in Nat
    BY <1>2 DEF Order
  <2>4. QED BY <2>2, <2>3 DEF Terms, fb, fs
<1>7. /\ orders'[i].filledBuy - o.filledBuy = db /\ orders'[i].filledBuy >= o.filledBuy
      /\ orders'[i].filledSell - o.filledSell = ds /\ orders'[i].filledSell >= o.filledSell
  BY <1>2, <1>6
<1>8. QED BY ONLY <1>2, <1>5, <1>6, <1>7 DEF o

(***************************************************************************)
(* An order keeps the terms it was created with, its fills only grow, and  *)
(* once filled or cancelled it is as it is for good; nobody but its maker  *)
(* cancels it (createOrder, the fills and cancelOrder write one mapping;   *)
(* neither the owner nor an emergency withdrawal touches it).              *)
(***************************************************************************)
THEOREM OrdersAreFinal == Spec => OrdersRunTheirCourse
<1>1. ASSUME IInv, [Next]_vars, NEW j \in OrderIds PROVE RunsItsCourse(j)
  <2>1. orders \in [OrderIds -> Order] /\ nextOrderId \in Nat /\ orders[j] \in Order
    BY <1>1 DEF IInv, TypeOK
  <2>2. ASSUME orders'[j] = orders[j] PROVE RunsItsCourse(j)
    BY <2>1, <2>2 DEF RunsItsCourse, Order
  <2>3. ASSUME NEW u \in Users, NEW i \in OrderIds, NEW n \in Amounts,
               FillOrder(u, i, n) \/ FillOrderWithETH(u, i, n)
        PROVE  RunsItsCourse(j)
    <3>1. CASE j = i
      BY <1>1, <2>3, <3>1, FillMovesOn DEF RunsItsCourse
    <3>2. CASE j # i
      BY <1>1, <2>2, <2>3, <3>2, FillOrderTrades, FillOrderWithETHTrades
    <3>3. QED BY <3>1, <3>2
  <2>4. ASSUME NEW u \in Users, NEW i \in OrderIds, CancelOrder(u, i)
        PROVE  RunsItsCourse(j)
    <3>1. Open(orders[i]) /\ u = orders[i].maker
          /\ orders' = [orders EXCEPT ![i] = [orders[i] EXCEPT !.cancelled = TRUE]]
      BY <1>1, <2>4, CancelFacts DEF CancelOrder
    <3>2. CASE j # i
      BY <2>1, <2>2, <3>1, <3>2
    <3>3. CASE j = i
      <4>1. orders'[j] = [orders[j] EXCEPT !.cancelled = TRUE]
        BY <2>1, <3>1, <3>3
      <4>2. CancelOrder(orders[j].maker, j) /\ Open(orders[j])
        BY <2>4, <3>1, <3>3
      <4>3. QED BY <2>1, <4>1, <4>2 DEF RunsItsCourse, Order, Terms
    <3>4. QED BY <3>2, <3>3
  <2>5. ASSUME NEW u \in Users, NEW sell \in Assets, NEW buy \in Assets,
               NEW m \in Amounts, NEW n \in Amounts, NEW d \in Deadlines,
               CreateOrder(u, sell, buy, m, n, d)
        PROVE  RunsItsCourse(j)
    <3>1. \E p : orders' = [orders EXCEPT ![nextOrderId] = p]
      BY <2>5 DEF CreateOrder, PushOrder
    <3>2. j = nextOrderId => ~ Exists(orders[j])
      BY <1>1, <2>1 DEF IInv, BookOK, Exists, NoOrder
    <3>3. CASE j # nextOrderId
      BY <2>1, <2>2, <3>1, <3>3
    <3>4. QED BY <3>2, <3>3 DEF RunsItsCourse
  <2>6. ASSUME NEW u \in Users,
               \/ OwnerStep(u) \/ EmergencyStep(u) \/ WithdrawEth(u)
               \/ \E t \in Tokens, n \in Gifts : Donate(u, t, n)
        PROVE  RunsItsCourse(j)
    <3>1. orders' = orders
      BY <2>6 DEF OwnerStep, TransferOwnership, AcceptOwnership, Pause, Unpause, EmergencyStep,
                  RequestEmergencyWithdraw, ExecuteEmergencyWithdraw, CancelEmergencyWithdraw,
                  WithdrawEth, Donate, bookVars
    <3>2. QED BY <2>2, <3>1
  <2>7. CASE Tick \/ UNCHANGED vars
    <3>1. orders' = orders
      BY <2>7 DEF Tick, vars, bookVars
    <3>2. QED BY <2>2, <3>1
  <2>8. QED BY <1>1, <2>3, <2>4, <2>5, <2>6, <2>7 DEF Next, TradeStep
<1>2. IInv /\ [Next]_vars => [\A i \in OrderIds : RunsItsCourse(i)]_vars
  BY <1>1
<1>3. QED BY <1>2, Invariance, PTL DEF Spec, OrdersRunTheirCourse

LEMMA WealthIs ==
  ASSUME IInv, NEW v \in Users, NEW a \in Assets
  PROVE  /\ balances \in Holdings /\ ethBalances \in [Users -> Nat]
         /\ balances[a][v] \in Nat /\ ethBalances[v] \in Nat /\ Wealth(v, a) \in Nat
         /\ Users \subseteq Accounts /\ Exchange \in Accounts /\ v # Exchange
<1>1. /\ balances \in Holdings /\ ethBalances \in [Users -> Nat]
      /\ Users \subseteq Accounts /\ Exchange \in Accounts /\ v # Exchange
  BY AddressAssumption DEF IInv, TypeOK, Holdings, Accounts
<1>2. balances[a][v] \in Nat /\ ethBalances[v] \in Nat
  BY <1>1 DEF Holdings
<1>3. QED BY <1>1, <1>2 DEF Wealth

(***************************************************************************)
(* Nobody gets poorer of a step in which neither the credits nor the       *)
(* holdings of users fall.                                                 *)
(***************************************************************************)
LEMMA KeepsUnlessLowered ==
  ASSUME IInv, IInv', NEW v \in Users, NEW a \in Assets,
         balances'[a][v] >= balances[a][v], ethBalances'[v] >= ethBalances[v]
  PROVE  KeepsOrPays(v, a)
<1>1. /\ balances[a][v] \in Nat /\ ethBalances[v] \in Nat
      /\ balances'[a][v] \in Nat /\ ethBalances'[v] \in Nat
  BY DEF IInv, TypeOK, Accounts
<1>2. ~ (Wealth(v, a)' < Wealth(v, a))
  BY <1>1 DEF Wealth
<1>3. QED BY <1>2 DEF KeepsOrPays

LEMMA PaidOutLowersNobody ==
  ASSUME IInv, NEW u \in Users, NEW b \in Assets, NEW n \in Nat,
         balances[b][Exchange] >= n, balances' = Moved(balances, b, Exchange, u, n),
         NEW v \in Users, NEW a \in Assets
  PROVE  balances'[a][v] = balances[a][v] + (IF a = b /\ v = u THEN n ELSE 0)
<1>1. /\ balances \in Holdings /\ u \in Accounts /\ v \in Accounts /\ Exchange \in Accounts
      /\ u # Exchange /\ v # Exchange /\ balances[a][v] \in Nat
  BY WealthIs
<1>2. balances'[a][v] = IF a = b /\ v = u THEN balances[a][v] + n ELSE balances[a][v]
  BY <1>1, MovedIs
<1>3. QED BY <1>1, <1>2

LEMMA OthersCreateOrFill ==
  ASSUME IInv, IInv', NEW u \in Users, NEW v \in Users, NEW a \in Assets, v # u,
         \/ \E sell, buy \in Assets, m, n \in Amounts, d \in Deadlines :
              CreateOrder(u, sell, buy, m, n, d)
         \/ \E t \in Tokens, n \in Gifts : Donate(u, t, n)
         \/ \E i \in OrderIds, n \in Amounts : FillOrder(u, i, n) \/ FillOrderWithETH(u, i, n)
  PROVE  KeepsOrPays(v, a)
<1>1. /\ balances \in Holdings /\ u \in Accounts /\ v \in Accounts /\ Exchange \in Accounts
      /\ u # Exchange /\ v # Exchange /\ balances[a][v] \in Nat /\ ethBalances[v] \in Nat
  BY WealthIs
<1>2. ASSUME NEW b \in Assets, NEW n \in Nat, balances[b][u] >= n,
             balances' = Moved(balances, b, u, Exchange, n), ethBalances' = ethBalances
      PROVE  KeepsOrPays(v, a)
  <2>1. balances'[a][v] = balances[a][v]
    BY <1>1, <1>2, MovedIs
  <2>2. balances'[a][v] >= balances[a][v] /\ ethBalances'[v] >= ethBalances[v]
    BY <1>1, <1>2, <2>1
  <2>3. QED BY <2>2, KeepsUnlessLowered
<1>3. ASSUME NEW sell \in Assets, NEW buy \in Assets, NEW m \in Amounts, NEW n \in Amounts,
             NEW d \in Deadlines, CreateOrder(u, sell, buy, m, n, d)
      PROVE  KeepsOrPays(v, a)
  <2>1. /\ m \in Nat /\ balances[sell][u] >= m /\ ethBalances' = ethBalances
        /\ balances' = Moved(balances, sell, u, Exchange, m)
    BY <1>3, NumberAssumption DEF CreateOrder, CanPay
  <2>2. QED BY <1>2, <2>1
<1>4. ASSUME NEW t \in Tokens, NEW n \in Gifts, Donate(u, t, n)
      PROVE  KeepsOrPays(v, a)
  <2>1. /\ t \in Assets /\ n \in Nat /\ balances[t][u] >= n /\ ethBalances' = ethBalances
        /\ balances' = Moved(balances, t, u, Exchange, n)
    BY <1>4, NumberAssumption DEF Donate, CanPay, Assets
  <2>2. QED BY <1>2, <2>1
<1>5. ASSUME NEW i \in OrderIds, NEW n \in Amounts,
             FillOrder(u, i, n) \/ FillOrderWithETH(u, i, n)
      PROVE  KeepsOrPays(v, a)
  <2> DEFINE buy  == orders'[i].filledBuy - orders[i].filledBuy
             sell == orders'[i].filledSell - orders[i].filledSell
  <2>1. TradesFor(u, i) /\ buy \in Nat /\ sell \in Nat /\ Wealth(v, a) \in Nat
    BY <1>5, FillOrderTrades, FillOrderWithETHTrades, FillMovesOn, WealthIs
  <2>2. Wealth(v, a)' = Wealth(v, a)
          + ((IF v = orders[i].maker /\ a = orders[i].tokenBuy THEN buy ELSE 0)
             + (IF v = u /\ a = orders[i].tokenSell THEN sell ELSE 0)
             - (IF v = u /\ a = orders[i].tokenBuy THEN buy ELSE 0))
    BY <2>1 DEF TradesFor
  <2> HIDE DEF buy, sell
  <2>3. ~ (Wealth(v, a)' < Wealth(v, a))
    BY <2>1, <2>2
  <2>4. QED BY <2>3 DEF KeepsOrPays
<1>6. QED BY <1>3, <1>4, <1>5

(***************************************************************************)
(* Nobody gets poorer by what somebody else does, the owner included:      *)
(* whatever asset a user has less of after a step, credited ETH counted    *)
(* with it, they created an order, called a fill or sent tokens in it.     *)
(* Cancelling, withdrawing and emergency withdrawals cost no user.         *)
(***************************************************************************)
THEOREM NobodyPaysForOthers == Spec => OnlyOwnStepsCost
<1>1. ASSUME IInv, IInv', [Next]_vars, NEW v \in Users, NEW a \in Assets
      PROVE  KeepsOrPays(v, a)
  <2>1. /\ balances[a][v] \in Nat /\ ethBalances[v] \in Nat /\ ethBalances \in [Users -> Nat]
    BY <1>1, WealthIs
  <2>2. ASSUME balances' = balances, ethBalances' = ethBalances
        PROVE  KeepsOrPays(v, a)
    BY <1>1, <2>1, <2>2, KeepsUnlessLowered
  <2>3. ASSUME NEW u \in Users,
               \/ \E sell, buy \in Assets, m, n \in Amounts, d \in Deadlines :
                    CreateOrder(u, sell, buy, m, n, d)
               \/ \E t \in Tokens, n \in Gifts : Donate(u, t, n)
               \/ \E i \in OrderIds, n \in Amounts :
                    FillOrder(u, i, n) \/ FillOrderWithETH(u, i, n)
        PROVE  KeepsOrPays(v, a)
    <3>1. CASE v = u
      BY <2>3, <3>1 DEF KeepsOrPays, PaysBy
    <3>2. CASE v # u
      BY <1>1, <2>3, <3>2, OthersCreateOrFill
    <3>3. QED BY <3>1, <3>2
  <2>4. ASSUME NEW u \in Users, NEW i \in OrderIds, CancelOrder(u, i)
        PROVE  KeepsOrPays(v, a)
    <3> DEFINE b == orders[i].tokenSell
               n == orders[i].amountSell - orders[i].filledSell
    <3>1. b \in Assets /\ n \in Nat
      BY <1>1, <2>4, CancelFacts
    <3>2. \/ ethBalances' = Credited(ethBalances, u, n) /\ balances' = balances
          \/ /\ balances[b][Exchange] >= n /\ ethBalances' = ethBalances
             /\ balances' = Moved(balances, b, Exchange, u, n)
      BY <2>4 DEF CancelOrder, CanPay
    <3> HIDE DEF b, n
    <3>3. CASE ethBalances' = Credited(ethBalances, u, n) /\ balances' = balances
      <4>1. ethBalances'[v] = ethBalances[v] + (IF v = u THEN n ELSE 0)
        BY <2>1, <3>1, <3>3, CreditedAt
      <4>2. balances'[a][v] >= balances[a][v] /\ ethBalances'[v] >= ethBalances[v]
        BY <2>1, <3>1, <3>3, <4>1
      <4>3. QED BY <1>1, <4>2, KeepsUnlessLowered
    <3>4. CASE /\ balances[b][Exchange] >= n /\ ethBalances' = ethBalances
               /\ balances' = Moved(balances, b, Exchange, u, n)
      <4>1. balances'[a][v] = balances[a][v] + (IF a = b /\ v = u THEN n ELSE 0)
        BY <1>1, <3>1, <3>4, PaidOutLowersNobody
      <4>2. balances'[a][v] >= balances[a][v] /\ ethBalances'[v] >= ethBalances[v]
        BY <2>1, <3>1, <3>4, <4>1
      <4>3. QED BY <1>1, <4>2, KeepsUnlessLowered
    <3>5. QED BY <3>2, <3>3, <3>4
  <2>5. ASSUME NEW u \in Users, WithdrawEth(u)
        PROVE  KeepsOrPays(v, a)
    <3>1. /\ ethBalances[u] \in Nat /\ ETH \in Assets
          /\ balances[ETH][Exchange] >= ethBalances[u]
          /\ balances' = Moved(balances, ETH, Exchange, u, ethBalances[u])
          /\ ethBalances' = [ethBalances EXCEPT ![u] = 0]
      BY <2>1, <2>5 DEF WithdrawEth, CanPay, Assets
    <3>2. balances'[a][v] = balances[a][v] + (IF a = ETH /\ v = u THEN ethBalances[u] ELSE 0)
      BY <1>1, <3>1, PaidOutLowersNobody
    <3>3. ethBalances'[v] = IF v = u THEN 0 ELSE ethBalances[v]
      BY <2>1, <3>1
    <3>4. ~ (Wealth(v, a)' < Wealth(v, a))
      BY <2>1, <3>2, <3>3 DEF Wealth
    <3>5. QED BY <3>4 DEF KeepsOrPays
  <2>6. ASSUME NEW u \in Users, NEW r \in RequestIds, ExecuteEmergencyWithdraw(u, r)
        PROVE  KeepsOrPays(v, a)
    <3> DEFINE q == emergencyRequests[r]
    <3>1. q.amount # 0 /\ q.amount \in Nat /\ q.token \in Assets /\ q.recipient \in Users
      <4>1. q \in EmergencyRequest /\ q.amount # 0
        BY <1>1, <2>6 DEF IInv, TypeOK, ExecuteEmergencyWithdraw, Pending
      <4>2. QED BY <1>1, <4>1 DEF IInv, RequestsOK, EmergencyRequest
    <3>2. /\ balances[q.token][Exchange] >= q.amount /\ ethBalances' = ethBalances
          /\ balances' = Moved(balances, q.token, Exchange, q.recipient, q.amount)
      BY <2>6 DEF ExecuteEmergencyWithdraw, CanPay
    <3> HIDE DEF q
    <3>3. balances'[a][v] = balances[a][v]
                              + (IF a = q.token /\ v = q.recipient THEN q.amount ELSE 0)
      BY <1>1, <3>1, <3>2, PaidOutLowersNobody
    <3>4. balances'[a][v] >= balances[a][v] /\ ethBalances'[v] >= ethBalances[v]
      BY <2>1, <3>1, <3>2, <3>3
    <3>5. QED BY <1>1, <3>4, KeepsUnlessLowered
  <2>7. ASSUME NEW u \in Users,
               \/ OwnerStep(u)
               \/ \E c \in Assets, n \in Amounts, w \in Users : RequestEmergencyWithdraw(u, c, n, w)
               \/ \E r \in RequestIds : CancelEmergencyWithdraw(u, r)
        PROVE  KeepsOrPays(v, a)
    <3>1. balances' = balances /\ ethBalances' = ethBalances
      BY <2>7 DEF OwnerStep, TransferOwnership, AcceptOwnership, Pause, Unpause,
                  RequestEmergencyWithdraw, CancelEmergencyWithdraw, assetVars
    <3>2. QED BY <2>2, <3>1
  <2>8. CASE Tick \/ UNCHANGED vars
    <3>1. balances' = balances /\ ethBalances' = ethBalances
      BY <2>8 DEF Tick, vars, assetVars
    <3>2. QED BY <2>2, <3>1
  <2>9. QED BY <1>1, <2>3, <2>4, <2>5, <2>6, <2>7, <2>8 DEF Next, TradeStep, EmergencyStep
<1>2. IInv /\ IInv' /\ [Next]_vars => [\A v \in Users, a \in Assets : KeepsOrPays(v, a)]_vars
  BY <1>1
<1>3. QED BY <1>2, Invariance, PTL DEF Spec, OnlyOwnStepsCost
=============================================================================
