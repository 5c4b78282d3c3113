--------------------------- MODULE ContractsProofs ---------------------------
(***************************************************************************)
(* The contracts that stand on their own, for every set of tokens, users,  *)
(* pools and coins, all amounts and every point in time.                   *)
(*                                                                         *)
(* The constant-product market keeps its types and a balance for all it    *)
(* owes, a share of it is worth its square root and never less than it     *)
(* was, and the oracle's accumulator is the price summed over time.  A     *)
(* swap that is swapped back pays no more than it took, nobody gets poorer *)
(* by what another does, everyone can leave at once while nothing was      *)
(* swept, and what is missing was announced.  The Orbital market keeps     *)
(* what it owes and some of every coin, along every route, is not to be    *)
(* gained from by turning around, and leaves every share its part of the   *)
(* coins.  The templates that hold a fund for many can pay it out.         *)
(***************************************************************************)
EXTENDS LiquidityPool, OrbitalPool, LinearVesting, StakingProgram, RewardStaking, SumsProofs

-----------------------------------------------------------------------------
(* The constant-product market: arithmetic *)

\* A quotient and a remainder are unique.
LEMMA RemainderIsUnique ==
  ASSUME NEW W \in Nat, NEW q \in Int, NEW r \in Nat, NEW s \in Int, NEW t \in Nat,
         r < W, t < W, W * q + r = W * s + t
  PROVE  r = t
<1>1. W * (q - s) = t - r
  BY Z3
<1>2. q - s >= 1 => W * (q - s) >= W
  BY Z3
<1>3. q - s <= -1 => W * (q - s) <= -W
  BY Z3
<1>4. W * (q - s) \in Int /\ q - s \in Int
  BY Z3
<1>5. q - s = 0
  BY <1>1, <1>2, <1>3, <1>4
<1>6. QED BY <1>1, <1>5, Z3

LEMMA SmallRemainder ==
  ASSUME NEW x \in Nat, NEW W \in Nat, W # 0
  PROVE  (x % W) % W = x % W
BY RemainderIsSmall, Z3

\* Equal remainders stay equal when the same is added.
LEMMA RemaindersShift ==
  ASSUME NEW x \in Nat, NEW y \in Nat, NEW d \in Nat, NEW W \in Nat, W # 0, x % W = y % W
  PROVE  (x + d) % W = (y + d) % W
<1> DEFINE qx == x \div W
           qy == y \div W
           r  == x % W
           u  == (x + d) \div W
           v  == (y + d) \div W
           s  == (x + d) % W
           t  == (y + d) % W
<1>1. /\ r \in Nat /\ x = W * qx + r /\ y = W * qy + r
      /\ s \in Nat /\ s < W /\ x + d = W * u + s
      /\ t \in Nat /\ t < W /\ y + d = W * v + t
  BY RemainderIsSmall
<1>2. qx \in Int /\ qy \in Int /\ u \in Int /\ v \in Int
  BY Z3
<1> HIDE DEF qx, qy, r, u, v, s, t
<1>3. W * (u - qx) + s = W * (v - qy) + t
  <2>1. W * (u - qx) = W * u - W * qx /\ W * (v - qy) = W * v - W * qy
    BY <1>2, Z3
  <2>2. W * u \in Int /\ W * qx \in Int /\ W * v \in Int /\ W * qy \in Int
    BY <1>2, Z3
  <2>3. QED BY <1>1, <1>2, <2>1, <2>2
<1>4. s = t
  BY <1>1, <1>2, <1>3, RemainderIsUnique
<1>5. QED BY <1>4 DEF s, t

\* If each reserve per share does not fall, their product per squared share
\* does not.
LEMMA SidesMakeTheProduct ==
  ASSUME NEW A \in Nat, NEW B \in Nat, NEW C \in Nat, NEW D \in Nat, NEW T \in Nat, NEW U \in Nat,
         A * U <= C * T, B * U <= D * T
  PROVE  C * D * T * T >= A * B * U * U
<1>1. (A * U) * (B * U) <= (C * T) * (D * T)
  BY TimesIsNat, ProductsGrow
<1>2. (A * U) * (B * U) = A * B * U * U /\ (C * T) * (D * T) = C * D * T * T
  BY Z3
<1>3. A * B * U * U \in Nat /\ C * D * T * T \in Nat
  BY TimesIsNat
<1>4. QED BY <1>1, <1>2, <1>3

\* A square that is no more than a product stays so under such a change.
LEMMA SquareStaysCovered ==
  ASSUME NEW P \in Nat, NEW Q \in Nat, NEW T \in Nat, NEW U \in Nat, T > 0,
         T * T <= P, Q * T * T >= P * U * U
  PROVE  U * U <= Q
<1>1. U * U \in Nat /\ T * T \in Nat /\ T * T > 0
  BY Z3
<1> DEFINE V == U * U
           S == T * T
<1>2. Q * T * T = Q * S /\ P * U * U = P * V
  BY Z3
<1> HIDE DEF V, S
<1>3. V \in Nat /\ S \in Nat /\ S > 0 /\ S <= P /\ Q * S >= P * V
  BY <1>1, <1>2 DEF V, S
<1>4. S * V <= P * V
  BY <1>3, Z3
<1>5. S * V \in Nat /\ P * V \in Nat /\ Q * S \in Nat
  BY <1>3, TimesIsNat
<1>6. S * V <= Q * S
  BY <1>3, <1>4, <1>5
<1>7. V <= Q
  <2>1. V >= Q + 1 => S * V >= S * (Q + 1)
    BY <1>3, Z3
  <2>2. S * (Q + 1) = Q * S + S
    BY <1>3, Z3
  <2>3. S * (Q + 1) \in Int
    BY <1>3, Z3
  <2>4. QED BY <1>3, <1>5, <1>6, <2>1, <2>2, <2>3
<1>8. QED BY <1>7 DEF V

-----------------------------------------------------------------------------
(***************************************************************************)
(* The root.  What Newton's iteration visits from x is the least set that  *)
(* is closed under a step that descends; its lowest element is where it    *)
(* stops, and the function that gives it solves the equation _sqrt is      *)
(* written as.                                                             *)
(***************************************************************************)
Pos == Nat \ {0}

Newton(y, x) == (y \div x + x) \div 2

ClosedUnder(y, C) == \A x \in C : Newton(y, x) < x => Newton(y, x) \in C

Orbit(y, x) == {w \in Pos : \A C \in SUBSET Pos : x \in C /\ ClosedUnder(y, C) => w \in C}

Bottom(y, x) == CHOOSE n \in Orbit(y, x) : \A m \in Orbit(y, x) : n <= m

Descent(y, f) == f = [x \in Pos |-> IF Newton(y, x) < x THEN f[Newton(y, x)] ELSE x]

LEMMA NewtonIsPositive ==
  ASSUME NEW y \in Pos, NEW x \in Pos
  PROVE  Newton(y, x) \in Pos
<1> DEFINE q == y \div x
<1>1. q \in Nat /\ (x = 1 => q = y)
  BY Z3 DEF Pos
<1> HIDE DEF q
<1>2. q + x >= 2
  BY <1>1 DEF Pos
<1>3. (q + x) \div 2 \in Nat /\ (q + x) \div 2 >= 1
  BY <1>1, <1>2 DEF Pos
<1>4. QED BY <1>3 DEF Newton, Pos, q

LEMMA OrbitStarts == ASSUME NEW y, NEW x \in Pos PROVE x \in Orbit(y, x) /\ Orbit(y, x) \subseteq Pos
BY DEF Orbit

LEMMA OrbitStops ==
  ASSUME NEW y, NEW x \in Pos, ~ (Newton(y, x) < x)
  PROVE  Orbit(y, x) = {x}
<1> DEFINE C == {x}
<1>1. C \in SUBSET Pos /\ x \in C /\ ClosedUnder(y, C)
  BY DEF ClosedUnder
<1> HIDE DEF C
<1>2. Orbit(y, x) \subseteq C
  BY <1>1 DEF Orbit
<1>3. QED BY <1>2, OrbitStarts DEF C

LEMMA OrbitGoesOn ==
  ASSUME NEW y \in Pos, NEW x \in Pos, Newton(y, x) < x
  PROVE  Orbit(y, x) = {x} \cup Orbit(y, Newton(y, x))
<1> DEFINE n == Newton(y, x)
           C == {x} \cup Orbit(y, n)
<1>0. n \in Pos
  BY NewtonIsPositive
<1>1. C \in SUBSET Pos /\ x \in C
  BY DEF Orbit
<1>2. ASSUME NEW a \in C, Newton(y, a) < a PROVE Newton(y, a) \in C
  <2>1. CASE a = x
    BY <2>1, <1>0, OrbitStarts
  <2>2. CASE a \in Orbit(y, n)
    <3>1. Newton(y, a) \in Pos
      BY <1>1, NewtonIsPositive
    <3>2. ASSUME NEW D \in SUBSET Pos, n \in D, ClosedUnder(y, D)
          PROVE  Newton(y, a) \in D
      BY <1>2, <2>2, <3>2 DEF Orbit, ClosedUnder
    <3>3. QED BY <3>1, <3>2 DEF Orbit
  <2>3. QED BY <2>1, <2>2
<1>3. ClosedUnder(y, C)
  BY <1>2 DEF ClosedUnder
<1>4. Orbit(y, x) \subseteq C
  <2> HIDE DEF C
  <2>1. QED BY <1>1, <1>3 DEF Orbit
<1>5. ASSUME NEW w \in Orbit(y, n) PROVE w \in Orbit(y, x)
  <2>1. ASSUME NEW D \in SUBSET Pos, x \in D, ClosedUnder(y, D)
        PROVE  w \in D
    <3>1. n \in D
      BY <2>1 DEF ClosedUnder
    <3> HIDE DEF n
    <3>2. QED BY <1>5, <2>1, <3>1 DEF Orbit
  <2>2. QED BY <1>5, <2>1 DEF Orbit
<1>6. QED BY <1>4, <1>5, OrbitStarts

LEMMA BottomIsLowest ==
  ASSUME NEW y, NEW x \in Pos
  PROVE  /\ Bottom(y, x) \in Orbit(y, x) /\ Bottom(y, x) \in Pos
         /\ \A w \in Orbit(y, x) : Bottom(y, x) <= w
<1>1. Orbit(y, x) \subseteq Nat /\ Orbit(y, x) # {}
  BY OrbitStarts DEF Pos
<1>2. \E n \in Orbit(y, x) : \A m \in Orbit(y, x) : n <= m
  BY <1>1, LeastNatural
<1>3. Bottom(y, x) \in Orbit(y, x) /\ \A w \in Orbit(y, x) : Bottom(y, x) <= w
  BY <1>2 DEF Bottom
<1>4. QED BY <1>3, OrbitStarts

LEMMA BottomSolves ==
  ASSUME NEW y \in Pos
  PROVE  Descent(y, [x \in Pos |-> Bottom(y, x)])
<1> DEFINE f == [x \in Pos |-> Bottom(y, x)]
<1>1. ASSUME NEW x \in Pos
      PROVE  f[x] = IF Newton(y, x) < x THEN f[Newton(y, x)] ELSE x
  <2>1. CASE ~ (Newton(y, x) < x)
    BY <2>1, OrbitStops, BottomIsLowest
  <2>2. CASE Newton(y, x) < x
    <3> DEFINE n == Newton(y, x)
    <3>1. n \in Pos /\ n < x
      BY <2>2, NewtonIsPositive
    <3>2. Orbit(y, x) = {x} \cup Orbit(y, n)
      BY <2>2, OrbitGoesOn
    <3> HIDE DEF n
    <3> DEFINE b == Bottom(y, n)
               c == Bottom(y, x)
    <3>3. b \in Pos /\ b \in Orbit(y, n) /\ n \in Orbit(y, n) /\ \A w \in Orbit(y, n) : b <= w
      BY <3>1, BottomIsLowest, OrbitStarts
    <3>4. c \in Pos /\ c \in Orbit(y, x) /\ \A w \in Orbit(y, x) : c <= w
      BY BottomIsLowest
    <3> HIDE DEF b, c
    <3>5. c <= b
      BY <3>2, <3>3, <3>4
    <3>6. b <= c
      <4>1. b <= n
        BY <3>3
      <4>2. c # x
        BY <3>1, <3>3, <3>4, <3>5, <4>1 DEF Pos
      <4>3. QED BY <3>2, <3>3, <3>4, <4>2
    <3>7. b = c
      BY <3>3, <3>4, <3>5, <3>6 DEF Pos
    <3>8. QED BY <2>2, <3>1, <3>7 DEF n, b, c
  <2>3. QED BY <2>1, <2>2
<1>2. f = [x \in Pos |-> f[x]]
  OBVIOUS
<1> HIDE DEF f
<1>3. f = [x \in Pos |-> IF Newton(y, x) < x THEN f[Newton(y, x)] ELSE x]
  BY <1>1, <1>2
<1>4. QED BY <1>3 DEF Descent, f

\* Where the iteration stops, the square is not above y.
LEMMA DescentEndsBelow ==
  ASSUME NEW y \in Pos, NEW f, Descent(y, f), NEW x \in Pos
  PROVE  f[x] \in Pos /\ f[x] * f[x] <= y
<1> DEFINE Bad == {w \in Pos : ~ (f[w] \in Pos /\ f[w] * f[w] <= y)}
<1>1. SUFFICES ASSUME Bad # {} PROVE FALSE
  OBVIOUS
<1>2. Bad \subseteq Nat
  BY DEF Pos
<1>3. PICK w \in Bad : \A m \in Bad : w <= m
  <2> HIDE DEF Bad
  <2>1. QED BY <1>1, <1>2, LeastNatural
<1> DEFINE n == Newton(y, w)
<1>4. w \in Pos /\ n \in Pos /\ ~ (f[w] \in Pos /\ f[w] * f[w] <= y)
  BY <1>3, NewtonIsPositive
<1>5. f[w] = IF n < w THEN f[n] ELSE w
  BY <1>4 DEF Descent
<1>6. CASE n < w
  <2>1. n \notin Bad
    <3> HIDE DEF Bad, n
    <3>1. QED BY <1>2, <1>3, <1>4, <1>6 DEF Pos
  <2>2. QED BY <1>4, <1>5, <1>6, <2>1
<1>7. CASE ~ (n < w)
  <2> DEFINE q == y \div w
  <2>1. q \in Nat /\ q * w <= y
    BY <1>4, Z3 DEF Pos
  <2>2. n = (q + w) \div 2
    BY DEF Newton
  <2> HIDE DEF q, n, Bad
  <2>3. q >= w
    BY <1>4, <1>7, <2>1, <2>2 DEF Pos
  <2>4. w * w <= q * w /\ w * w \in Int /\ q * w \in Int
    BY <1>4, <2>1, <2>3, Z3 DEF Pos
  <2>5. w * w <= y
    BY <2>1, <2>4 DEF Pos
  <2>6. QED BY <1>4, <1>5, <1>7, <2>5
<1>8. QED BY <1>6, <1>7

(***************************************************************************)
(* The root a first deposit is given is a number whose square the product  *)
(* of the two amounts covers.                                              *)
(***************************************************************************)
LEMMA SqrtIsBelow ==
  ASSUME NEW y \in Nat
  PROVE  Sqrt(y) \in Nat /\ Sqrt(y) * Sqrt(y) <= y
<1>1. CASE y > 3
  <2> DEFINE g == CHOOSE f : Descent(y, f)
             x == y \div 2 + 1
  <2>1. y \in Pos /\ x \in Pos
    BY <1>1 DEF Pos
  <2>2. Descent(y, g)
    BY <2>1, BottomSolves
  <2>3. Sqrt(y) = g[x]
    BY <1>1 DEF Sqrt, Descent, Newton, Pos
  <2> HIDE DEF g, x
  <2>4. QED BY <2>1, <2>2, <2>3, DescentEndsBelow DEF Pos
<1>2. CASE ~ (y > 3)
  <2>1. Sqrt(y) = IF y = 0 THEN 0 ELSE 1
    BY <1>2 DEF Sqrt
  <2>2. QED BY <2>1
<1>3. QED BY <1>1, <1>2

-----------------------------------------------------------------------------
(* Pools, assets and accounts *)

LEMMA PoolsAreFinite ==
  /\ IsFiniteSet(Assets) /\ IsFiniteSet(Pools) /\ IsFiniteSet(Users) /\ IsFiniteSet(Holders)
<1>1. IsFiniteSet(Assets) /\ IsFiniteSet(Holders)
  BY AddressAssumption, FS_AddElement DEF Assets, Holders
<1>2. Pools \subseteq SUBSET Assets
  BY AddressAssumption
<1>3. IsFiniteSet(SUBSET Assets)
  BY <1>1, FS_SUBSET
<1>4. QED BY <1>1, <1>2, <1>3, FS_Subset, AddressAssumption

\* A pool is two assets.
LEMMA PoolIsPair ==
  ASSUME NEW p \in Pools, NEW a \in p
  PROVE  /\ a \in Assets /\ Other(p, a) \in p /\ Other(p, a) \in Assets /\ Other(p, a) # a
         /\ p = {a, Other(p, a)} /\ Other(p, Other(p, a)) = a
<1>1. PICK b \in Assets, c \in Assets : p = {b, c}
  BY AddressAssumption
<1>2. b # c /\ a \in Assets
  BY <1>1, AddressAssumption
<1>3. Other(p, a) \in p /\ Other(p, a) # a
  BY <1>1, <1>2 DEF Other
<1>4. Other(p, Other(p, a)) \in p /\ Other(p, Other(p, a)) # Other(p, a)
  BY <1>1, <1>2, <1>3 DEF Other
<1>5. QED BY <1>1, <1>2, <1>3, <1>4

LEMMA RemainderOfLess ==
  ASSUME NEW x \in Nat, NEW W \in Nat, W # 0, x < W
  PROVE  x % W = x
BY Z3

\* A pool has an asset other than a, whether a is one of its own or not.
LEMMA PoolsHaveOthers ==
  ASSUME NEW p \in Pools, NEW a \in Assets
  PROVE  Other(p, a) \in p /\ Other(p, a) \in Assets
<1>1. PICK b \in Assets, c \in Assets : p = {b, c}
  BY AddressAssumption
<1>2. b # c
  BY <1>1, AddressAssumption
<1>3. \E d \in p : d # a
  BY <1>1, <1>2
<1>4. Other(p, a) \in p
  BY <1>3 DEF Other
<1>5. QED BY <1>1, <1>4

Holdings == [Assets -> [Users \cup {Amm} -> Nat]]

LEMMA OneHolding ==
  ASSUME NEW b \in Holdings, NEW a \in Assets, NEW x \in Users \cup {Amm}, NEW n \in Nat
  PROVE  /\ [b EXCEPT ![a][x] = n] \in Holdings
         /\ \A c \in Assets, y \in Users \cup {Amm} :
              [b EXCEPT ![a][x] = n][c][y] = IF c = a /\ y = x THEN n ELSE b[c][y]
<1> DEFINE row == [b[a] EXCEPT ![x] = n]
<1>1. /\ row \in [Users \cup {Amm} -> Nat]
      /\ \A y \in Users \cup {Amm} : row[y] = IF y = x THEN n ELSE b[a][y]
  BY DEF Holdings
<1>2. [b EXCEPT ![a][x] = n] = [b EXCEPT ![a] = row]
  OBVIOUS
<1> HIDE DEF row
<1>3. QED BY <1>1, <1>2 DEF Holdings

LEMMA ReceivedIs ==
  ASSUME NEW a \in Assets, NEW n \in Nat
  PROVE  /\ Received(a, n) \in Nat /\ Received(a, n) <= n
         /\ a = ETH => Received(a, n) = n
<1>1. Tax[a] \in Nat /\ (a = ETH => Tax[a] = 0)
  BY NumberAssumption
<1>2. QED BY <1>1 DEF Received

\* A user pays the contract.
LEMMA MovedIn ==
  ASSUME NEW b \in Holdings, NEW a \in Assets, NEW u \in Users, NEW n \in Nat, b[a][u] >= n
  PROVE  /\ Moved(b, a, u, Amm, n) \in Holdings
         /\ \A c \in Assets : Moved(b, a, u, Amm, n)[c][Amm] =
              b[c][Amm] + (IF c = a THEN Received(a, n) ELSE 0)
         /\ \A c \in Assets, x \in Users :
              x # u \/ c # a => Moved(b, a, u, Amm, n)[c][x] = b[c][x]
<1> DEFINE r  == Received(a, n)
           v1 == b[a][u] - n
           m1 == [b EXCEPT ![a][u] = v1]
           v2 == m1[a][Amm] + r
           m2 == [m1 EXCEPT ![a][Amm] = v2]
<1>1. Moved(b, a, u, Amm, n) = m2
  BY DEF Moved
<1>2. Amm # u /\ r \in Nat
  BY AddressAssumption, ReceivedIs
<1> HIDE DEF r
<1>9. v1 \in Nat
  BY DEF Holdings
<1> HIDE DEF v1
<1>3. /\ m1 \in Holdings
      /\ \A c \in Assets, x \in Users \cup {Amm} :
           m1[c][x] = IF c = a /\ x = u THEN v1 ELSE b[c][x]
  BY <1>9, OneHolding
<1> HIDE DEF m1
<1>10. v2 \in Nat
  BY <1>2, <1>3 DEF Holdings
<1> HIDE DEF v2
<1>4. /\ m2 \in Holdings
      /\ \A c \in Assets, x \in Users \cup {Amm} :
           m2[c][x] = IF c = a /\ x = Amm THEN v2 ELSE m1[c][x]
  BY <1>3, <1>10, OneHolding
<1> HIDE DEF m2
<1>5. \A c \in Assets : b[c][Amm] \in Nat
  BY DEF Holdings
<1>6. \A c \in Assets : m2[c][Amm] = b[c][Amm] + (IF c = a THEN r ELSE 0)
  BY <1>2, <1>3, <1>4, <1>5 DEF v2
<1>7. \A c \in Assets, x \in Users : x # u \/ c # a => m2[c][x] = b[c][x]
  BY <1>2, <1>3, <1>4, AddressAssumption
<1>8. QED BY <1>1, <1>4, <1>6, <1>7 DEF r

\* The contract pays a user.
LEMMA MovedOut ==
  ASSUME NEW b \in Holdings, NEW a \in Assets, NEW u \in Users, NEW n \in Nat, b[a][Amm] >= n
  PROVE  /\ Moved(b, a, Amm, u, n) \in Holdings
         /\ \A c \in Assets : Moved(b, a, Amm, u, n)[c][Amm] =
              b[c][Amm] - (IF c = a THEN n ELSE 0)
<1> DEFINE r  == Received(a, n)
           v1 == b[a][Amm] - n
           m1 == [b EXCEPT ![a][Amm] = v1]
           v2 == m1[a][u] + r
           m2 == [m1 EXCEPT ![a][u] = v2]
<1>1. Moved(b, a, Amm, u, n) = m2
  BY DEF Moved
<1>2. Amm # u /\ r \in Nat
  BY AddressAssumption, ReceivedIs
<1> HIDE DEF r
<1>9. v1 \in Nat
  BY DEF Holdings
<1> HIDE DEF v1
<1>3. /\ m1 \in Holdings
      /\ \A c \in Assets, x \in Users \cup {Amm} :
           m1[c][x] = IF c = a /\ x = Amm THEN v1 ELSE b[c][x]
  BY <1>9, OneHolding
<1> HIDE DEF m1
<1>10. v2 \in Nat
  BY <1>2, <1>3 DEF Holdings
<1> HIDE DEF v2
<1>4. /\ m2 \in Holdings
      /\ \A c \in Assets, x \in Users \cup {Amm} :
           m2[c][x] = IF c = a /\ x = u THEN v2 ELSE m1[c][x]
  BY <1>3, <1>10, OneHolding
<1> HIDE DEF m2
<1>5. \A c \in Assets : b[c][Amm] \in Nat
  BY DEF Holdings
<1>6. \A c \in Assets : m2[c][Amm] = b[c][Amm] - (IF c = a THEN n ELSE 0)
  BY <1>2, <1>3, <1>4, <1>5 DEF v1
<1>7. QED BY <1>1, <1>4, <1>6

-----------------------------------------------------------------------------
(***************************************************************************)
(* The invariant.  A pool that was not created is empty, a pool holds      *)
(* nothing but its two assets, the shares add up to their total, and an    *)
(* observation lies in the past; and what the runs check.                  *)
(***************************************************************************)
Uncreated ==
  \A p \in Pools : p \notin created =>
    totalLiquidity[p] = 0 /\ \A a \in Assets : reserve[p][a] = 0 /\ integral[p][a] = 0

Elsewhere == \A p \in Pools, a \in Assets : a \notin p => reserve[p][a] = 0

SharesAddUp == \A p \in Pools : totalLiquidity[p] = SumOver(liquidityBalances[p], Holders)

ObservedBefore == \A p \in created : observation[p].timestamp <= now

IInv == /\ TypeOK /\ Uncreated /\ Elsewhere /\ SharesAddUp /\ ObservedBefore
        /\ SharesAreBacked /\ Backed /\ TwapIsIntegral

\* The price at reserves r.
PriceAt(r, p, a) ==
  IF a \in p /\ \A b \in p : r[b] > 0 THEN ((r[Other(p, a)] * Precision) % Word) \div r[a] ELSE 0

LEMMA PriceIsNat ==
  ASSUME NEW r \in [Assets -> Nat], NEW p \in Pools, NEW a \in Assets
  PROVE  PriceAt(r, p, a) \in Nat
<1>1. CASE a \in p /\ \A b \in p : r[b] > 0
  <2>1. Other(p, a) \in Assets
    BY <1>1, PoolIsPair
  <2>2. r[Other(p, a)] \in Nat /\ r[a] \in Nat /\ r[a] # 0
    BY <1>1, <2>1
  <2>3. (r[Other(p, a)] * Precision) % Word \in Nat
    BY <2>2, NumberAssumption, TimesIsNat, RemainderIsSmall
  <2>4. QED BY <1>1, <2>2, <2>3, QuotientIsFloor DEF PriceAt
<1>2. QED BY <1>1 DEF PriceAt

LEMMA ObservedType ==
  ASSUME IInv, NEW p \in Pools, p \in created
  PROVE  /\ Observed(p) \in [timestamp : Nat, cumulative : [Assets -> Nat]]
         /\ Observed(p).timestamp = now
         /\ \A a \in Assets :
              /\ observation[p].cumulative[a] + Price(p, a) * (now - observation[p].timestamp) \in Nat
              /\ Observed(p).cumulative[a] =
                  (observation[p].cumulative[a] + Price(p, a) * (now - observation[p].timestamp)) % Word
<1> DEFINE x(a) == observation[p].cumulative[a] + Price(p, a) * (now - observation[p].timestamp)
<1>1. /\ now \in Nat /\ observation[p] \in [timestamp : Nat, cumulative : [Assets -> Nat]]
      /\ observation[p].timestamp <= now
  BY DEF IInv, TypeOK, ObservedBefore
<1>2. ASSUME NEW a \in Assets PROVE x(a) \in Nat /\ x(a) % Word \in Nat
  <2>1. Price(p, a) \in Nat
    <3>1. reserve[p] \in [Assets -> Nat] /\ Price(p, a) = PriceAt(reserve[p], p, a)
      BY DEF IInv, TypeOK, Price, Product, PriceAt
    <3>2. QED BY <3>1, PriceIsNat
  <2>2. now - observation[p].timestamp \in Nat /\ observation[p].cumulative[a] \in Nat
    BY <1>1
  <2>3. Price(p, a) * (now - observation[p].timestamp) \in Nat
    BY <2>1, <2>2, TimesIsNat
  <2>4. x(a) \in Nat
    BY <2>2, <2>3
  <2>5. QED BY <2>4, NumberAssumption, RemainderIsSmall
<1>3. Observed(p) = [timestamp |-> now, cumulative |-> [a \in Assets |-> x(a) % Word]]
  BY DEF Observed
<1> HIDE DEF x
<1>4. QED BY <1>1, <1>2, <1>3 DEF x

\* What is owed, when one pool's reserves and one user's credit change.
LEMMA OwedIsInt ==
  ASSUME TypeOK, NEW a \in Assets
  PROVE  /\ SumOver([q \in Pools |-> reserve[q][a]], Pools) \in Int
         /\ SumOver(ethBalances, Users) \in Int
<1>1. \A q \in Pools : [r \in Pools |-> reserve[r][a]][q] \in Int
  BY DEF TypeOK
<1>2. \A v \in Users : ethBalances[v] \in Int
  BY DEF TypeOK
<1>3. QED BY <1>1, <1>2, PoolsAreFinite, SumInt

LEMMA ReservesAfterStep ==
  ASSUME TypeOK, NEW p \in Pools, NEW res \in [Assets -> Nat], NEW a \in Assets,
         reserve' = [reserve EXCEPT ![p] = res]
  PROVE  SumOver([q \in Pools |-> reserve'[q][a]], Pools)
           = SumOver([q \in Pools |-> reserve[q][a]], Pools) + (res[a] - reserve[p][a])
<1> DEFINE f == [q \in Pools |-> reserve[q][a]]
           g == [q \in Pools |-> reserve'[q][a]]
<1>1. /\ \A q \in Pools : f[q] \in Int /\ g[q] \in Int
      /\ \A q \in Pools : q # p => g[q] = f[q]
      /\ g[p] = res[a] /\ f[p] = reserve[p][a]
  BY DEF TypeOK
<1> HIDE DEF f, g
<1>2. IsFiniteSet(Pools)
  BY PoolsAreFinite
<1>3. SumOver(g, Pools) = SumOver(f, Pools) + (g[p] - f[p])
  BY <1>1, <1>2, SumUpdate
<1>4. QED BY <1>1, <1>3 DEF f, g

LEMMA CreditsAfterStep ==
  ASSUME TypeOK, NEW u \in Users, NEW credit \in Nat,
         ethBalances' = [ethBalances EXCEPT ![u] = credit]
  PROVE  SumOver(ethBalances', Users) = SumOver(ethBalances, Users) + (credit - ethBalances[u])
<1>1. /\ \A v \in Users : ethBalances[v] \in Int /\ ethBalances'[v] \in Int
      /\ \A v \in Users : v # u => ethBalances'[v] = ethBalances[v]
      /\ ethBalances'[u] = credit
  BY DEF TypeOK
<1> DEFINE f == ethBalances
           g == ethBalances'
<1>2. /\ \A v \in Users : f[v] \in Int /\ g[v] \in Int
      /\ \A v \in Users : v # u => g[v] = f[v]
      /\ g[u] = credit
  BY <1>1
<1> HIDE DEF f, g
<1>3. SumOver(g, Users) = SumOver(f, Users) + (g[u] - f[u])
  BY <1>2, PoolsAreFinite, SumUpdate
<1>4. QED BY <1>2, <1>3 DEF f, g

-----------------------------------------------------------------------------
(***************************************************************************)
(* What a deposit, a withdrawal and a swap have in common: one pool gets   *)
(* new reserves and shares and one user a new credit; the contract's       *)
(* balances move as far as what it owes; no share loses; and the shares    *)
(* that were there before stay, or the first burned the minimum.           *)
(***************************************************************************)
NoShareLoses(p, res, total) ==
  totalLiquidity[p] > 0 => \A a \in p :
    res[a] * res[Other(p, a)] * totalLiquidity[p] * totalLiquidity[p]
      >= reserve[p][a] * reserve[p][Other(p, a)] * total * total

FirstIsCovered(p, res, total, shares) ==
  /\ totalLiquidity[p] > 0 => shares[NoOne] = liquidityBalances[p][NoOne]
  /\ totalLiquidity[p] = 0 /\ total > 0 =>
       shares[NoOne] = MinimumLiquidity /\ \A a \in p : total * total <= res[a] * res[Other(p, a)]

PoolChange(p, u, res, total, shares, credit) ==
  /\ p \in created /\ UNCHANGED <<now, roleVars, emergencyRequests, created, swept, integral>>
  /\ res \in [Assets -> Nat] /\ total \in Nat /\ shares \in [Holders -> Nat] /\ credit \in Nat
  /\ reserve' = [reserve EXCEPT ![p] = res]
  /\ totalLiquidity' = [totalLiquidity EXCEPT ![p] = total]
  /\ liquidityBalances' = [liquidityBalances EXCEPT ![p] = shares]
  /\ ethBalances' = [ethBalances EXCEPT ![u] = credit]
  /\ observation' = [observation EXCEPT ![p] = Observed(p)]
  /\ balances' \in Holdings
  /\ \A a \in Assets : a \notin p => res[a] = 0
  /\ total = SumOver(shares, Holders)
  /\ \A a \in Assets :
       LET owed == (res[a] - reserve[p][a]) + (IF a = ETH THEN credit - ethBalances[u] ELSE 0)
       IN /\ balances'[a][Amm] - balances[a][Amm] >= owed
          /\ a = ETH => balances'[a][Amm] - balances[a][Amm] = owed
  /\ NoShareLoses(p, res, total)
  /\ FirstIsCovered(p, res, total, shares)

LEMMA ChangeKeepsTypes ==
  ASSUME IInv, NEW p \in Pools, NEW u \in Users, NEW res, NEW total, NEW shares, NEW credit,
         PoolChange(p, u, res, total, shares, credit)
  PROVE  TypeOK' /\ Uncreated' /\ Elsewhere' /\ SharesAddUp' /\ ObservedBefore'
<1>1. TypeOK'
  <2>1. Observed(p) \in [timestamp : Nat, cumulative : [Assets -> Nat]]
    BY ObservedType DEF PoolChange
  <2>2. QED BY <2>1 DEF IInv, TypeOK, PoolChange, roleVars, Holdings
<1>2. \A q \in Pools : reserve'[q] = IF q = p THEN res ELSE reserve[q]
  BY DEF PoolChange, IInv, TypeOK
<1>3. \A q \in Pools : totalLiquidity'[q] = IF q = p THEN total ELSE totalLiquidity[q]
  BY DEF PoolChange, IInv, TypeOK
<1>4. \A q \in Pools : liquidityBalances'[q] = IF q = p THEN shares ELSE liquidityBalances[q]
  BY DEF PoolChange, IInv, TypeOK
<1>5. Uncreated'
  BY <1>2, <1>3 DEF PoolChange, IInv, Uncreated
<1>6. Elsewhere'
  BY <1>2 DEF PoolChange, IInv, Elsewhere
<1>7. SharesAddUp'
  BY <1>3, <1>4 DEF PoolChange, IInv, SharesAddUp
<1>8. ObservedBefore'
  <2>1. Observed(p).timestamp = now /\ now \in Nat
    BY ObservedType DEF PoolChange, IInv, TypeOK
  <2>2. \A q \in created : observation'[q] = IF q = p THEN Observed(p) ELSE observation[q]
    BY DEF PoolChange, IInv, TypeOK
  <2>3. QED BY <2>1, <2>2 DEF PoolChange, IInv, ObservedBefore
<1>9. QED BY <1>1, <1>5, <1>6, <1>7, <1>8

LEMMA ChangeKeepsSharesBacked ==
  ASSUME IInv, NEW p \in Pools, NEW u \in Users, NEW res, NEW total, NEW shares, NEW credit,
         PoolChange(p, u, res, total, shares, credit)
  PROVE  SharesAreBacked'
<1>1. /\ \A q \in Pools : reserve'[q] = IF q = p THEN res ELSE reserve[q]
      /\ \A q \in Pools : totalLiquidity'[q] = IF q = p THEN total ELSE totalLiquidity[q]
      /\ \A q \in Pools : liquidityBalances'[q] = IF q = p THEN shares ELSE liquidityBalances[q]
  BY DEF PoolChange, IInv, TypeOK
<1>2. ASSUME total > 0
      PROVE  /\ shares[NoOne] = MinimumLiquidity
             /\ \A a \in p : total * total <= res[a] * res[Other(p, a)]
  <2>1. totalLiquidity[p] \in Nat
    BY DEF IInv, TypeOK
  <2>2. CASE totalLiquidity[p] = 0
    BY <1>2, <2>2 DEF PoolChange, FirstIsCovered
  <2>3. CASE totalLiquidity[p] > 0
    <3>1. shares[NoOne] = MinimumLiquidity
      BY <2>3 DEF PoolChange, FirstIsCovered, IInv, SharesAreBacked
    <3>2. ASSUME NEW a \in p PROVE total * total <= res[a] * res[Other(p, a)]
      <4> DEFINE b == Other(p, a)
                 P == reserve[p][a] * reserve[p][b]
                 Q == res[a] * res[b]
                 T == totalLiquidity[p]
      <4>1. a \in Assets /\ b \in Assets
        BY PoolIsPair
      <4>2. P \in Nat /\ Q \in Nat /\ T \in Nat /\ total \in Nat
        <5>1. /\ reserve[p][a] \in Nat /\ reserve[p][b] \in Nat
              /\ res[a] \in Nat /\ res[b] \in Nat
          BY <4>1 DEF IInv, TypeOK, PoolChange
        <5>2. QED BY <2>1, <5>1, TimesIsNat DEF PoolChange
      <4>3. T * T <= P /\ Q * T * T >= P * total * total /\ T > 0
        BY <2>3, <3>2 DEF IInv, SharesAreBacked, PoolChange, NoShareLoses
      <4> HIDE DEF P, Q, T
      <4>4. total * total <= Q
        BY <4>2, <4>3, SquareStaysCovered
      <4>5. QED BY <4>4 DEF Q
    <3>3. QED BY <3>1, <3>2
  <2>4. QED BY <2>1, <2>2, <2>3
<1>3. QED BY <1>1, <1>2 DEF IInv, SharesAreBacked

LEMMA ChangeKeepsBacked ==
  ASSUME IInv, NEW p \in Pools, NEW u \in Users, NEW res, NEW total, NEW shares, NEW credit,
         PoolChange(p, u, res, total, shares, credit)
  PROVE  Backed'
<1> SUFFICES ASSUME NEW a \in Assets
             PROVE  /\ balances'[a][Amm] + swept'[a] >= Owed(a)'
                    /\ a = ETH => balances'[a][Amm] + swept'[a] = Owed(a)'
  BY DEF Backed
<1> DEFINE s == SumOver([q \in Pools |-> reserve[q][a]], Pools)
           t == SumOver([q \in Pools |-> reserve'[q][a]], Pools)
           c == SumOver(ethBalances, Users)
           d == SumOver(ethBalances', Users)
<1>1. Owed(a) = s + (IF a = ETH THEN c ELSE 0) /\ Owed(a)' = t + (IF a = ETH THEN d ELSE 0)
  BY DEF Owed
<1>2. TypeOK
  BY DEF IInv
<1>3. s \in Int /\ c \in Int
  BY <1>2, OwedIsInt
<1>4. t = s + (res[a] - reserve[p][a])
  BY <1>2, ReservesAfterStep DEF PoolChange
<1>5. d = c + (credit - ethBalances[u])
  BY <1>2, CreditsAfterStep DEF PoolChange
<1> HIDE DEF s, t, c, d
<1>6. /\ res[a] \in Nat /\ reserve[p][a] \in Nat /\ credit \in Nat /\ ethBalances[u] \in Nat
      /\ balances[a][Amm] \in Nat /\ swept[a] \in Nat /\ swept' = swept
  BY <1>2 DEF TypeOK, PoolChange
<1>7. balances'[a][Amm] \in Nat
  BY DEF PoolChange, Holdings
<1>8. /\ balances[a][Amm] + swept[a] >= Owed(a)
      /\ a = ETH => balances[a][Amm] + swept[a] = Owed(a)
  BY DEF IInv, Backed
<1>9. CASE a = ETH
  <2>1. balances'[a][Amm] - balances[a][Amm] = (res[a] - reserve[p][a]) + (credit - ethBalances[u])
    BY <1>9 DEF PoolChange
  <2>2. QED BY <1>1, <1>3, <1>4, <1>5, <1>6, <1>7, <1>8, <1>9, <2>1
<1>10. CASE a # ETH
  <2>1. balances'[a][Amm] - balances[a][Amm] >= res[a] - reserve[p][a]
    BY <1>6, <1>10 DEF PoolChange
  <2>2. QED BY <1>1, <1>3, <1>4, <1>5, <1>6, <1>7, <1>8, <1>10, <2>1
<1>11. QED BY <1>9, <1>10

\* The observation brings the accumulator up to date: the time since is 0.
LEMMA ChangeKeepsTheIntegral ==
  ASSUME IInv, NEW p \in Pools, NEW u \in Users, NEW res, NEW total, NEW shares, NEW credit,
         PoolChange(p, u, res, total, shares, credit)
  PROVE  TwapIsIntegral'
<1> SUFFICES ASSUME NEW q \in created, NEW a \in Assets, integral[q][a] # Lost
             PROVE  (observation'[q].cumulative[a]
                       + Price(q, a)' * (now - observation'[q].timestamp)) % Word
                      = integral[q][a] % Word
  BY DEF TwapIsIntegral, PoolChange
<1>1. q \in Pools /\ created \subseteq Pools
  BY DEF IInv, TypeOK
<1>2. (observation[q].cumulative[a] + Price(q, a) * (now - observation[q].timestamp)) % Word
        = integral[q][a] % Word
  BY DEF IInv, TwapIsIntegral
<1>3. CASE q # p
  <2>1. observation'[q] = observation[q] /\ reserve'[q] = reserve[q]
    BY <1>1, <1>3 DEF PoolChange, IInv, TypeOK
  <2>2. Price(q, a)' = Price(q, a)
    BY <2>1 DEF Price, Product
  <2>3. QED BY <1>2, <2>1, <2>2
<1>4. CASE q = p
  <2> DEFINE x == observation[p].cumulative[a] + Price(p, a) * (now - observation[p].timestamp)
             price == Price(p, a)'
  <2>1. observation'[p] = Observed(p)
    BY DEF PoolChange, IInv, TypeOK
  <2>2. /\ Observed(p).timestamp = now /\ now \in Nat /\ x \in Nat
        /\ Observed(p).cumulative[a] = x % Word
    BY ObservedType DEF PoolChange, IInv, TypeOK
  <2>3. price \in Nat
    <3>1. reserve'[p] = res /\ res \in [Assets -> Nat]
      BY DEF PoolChange, IInv, TypeOK
    <3>2. price = PriceAt(res, p, a)
      BY <3>1 DEF Price, Product, PriceAt
    <3>3. QED BY <3>1, <3>2, PriceIsNat
  <2> HIDE DEF x, price
  <2>4. price * (now - now) = 0
    BY <2>2, <2>3, Z3
  <2>5. (x % Word) % Word = x % Word /\ x % Word \in Nat
    BY <2>2, NumberAssumption, SmallRemainder, RemainderIsSmall
  <2>6. (x % Word) + price * (now - now) = x % Word
    BY <2>4, <2>5
  <2>7. x % Word = integral[p][a] % Word
    BY <1>2, <1>4 DEF x
  <2>8. QED BY <1>4, <2>1, <2>2, <2>5, <2>6, <2>7 DEF price
<1>5. QED BY <1>3, <1>4

LEMMA ChangeKeeps ==
  ASSUME IInv, NEW p \in Pools, NEW u \in Users, NEW res, NEW total, NEW shares, NEW credit,
         PoolChange(p, u, res, total, shares, credit)
  PROVE  IInv'
BY ChangeKeepsTypes, ChangeKeepsSharesBacked, ChangeKeepsBacked, ChangeKeepsTheIntegral DEF IInv

-----------------------------------------------------------------------------
(* A withdrawal *)

\* What is paid for shares leaves the others at least their part.
LEMMA PartOfReserve ==
  ASSUME NEW R \in Nat, NEW T \in Nat, NEW l \in Nat, T > 0, l <= T
  PROVE  /\ (l * R) \div T \in Nat /\ (l * R) \div T <= R
         /\ R * (T - l) <= (R - ((l * R) \div T)) * T
<1> DEFINE out == (l * R) \div T
<1>1. l * R \in Nat /\ T * R \in Nat
  BY TimesIsNat
<1>2. out \in Nat /\ out * T <= l * R
  BY <1>1, QuotientIsFloor
<1> HIDE DEF out
<1>3. l * R <= T * R
  BY Z3
<1>4. out > R => out * T >= (R + 1) * T
  BY <1>2, Z3
<1>5. (R + 1) * T = T * R + T /\ R * (T - l) = T * R - l * R /\ (R - out) * T = T * R - out * T
  BY <1>2, Z3
<1>6. out * T \in Int /\ (R + 1) * T \in Int
  BY <1>2, TimesIsNat
<1>7. out <= R
  BY <1>1, <1>2, <1>3, <1>4, <1>5, <1>6
<1>8. R * (T - l) <= (R - out) * T
  BY <1>1, <1>2, <1>5, <1>6
<1>9. QED BY <1>2, <1>7, <1>8 DEF out

\* One holder's shares change.
LEMMA SharesAfter ==
  ASSUME NEW f \in [Holders -> Nat], NEW h \in Holders, NEW n \in Nat
  PROVE  /\ [f EXCEPT ![h] = n] \in [Holders -> Nat]
         /\ \A x \in Holders : [f EXCEPT ![h] = n][x] = IF x = h THEN n ELSE f[x]
         /\ SumOver([f EXCEPT ![h] = n], Holders) = SumOver(f, Holders) + (n - f[h])
<1> DEFINE g == [f EXCEPT ![h] = n]
<1>1. g \in [Holders -> Nat] /\ \A x \in Holders : g[x] = IF x = h THEN n ELSE f[x]
  OBVIOUS
<1> HIDE DEF g
<1>2. /\ \A x \in Holders : f[x] \in Int /\ g[x] \in Int
      /\ \A x \in Holders : x # h => g[x] = f[x]
      /\ g[h] = n
  BY <1>1
<1>3. IsFiniteSet(Holders)
  BY PoolsAreFinite
<1>4. SumOver(g, Holders) = SumOver(f, Holders) + (g[h] - f[h])
  BY <1>2, <1>3, SumUpdate
<1>5. QED BY <1>1, <1>2, <1>4 DEF g

LEMMA HoldersAndUsers == NoOne \in Holders /\ NoOne \notin Users /\ Users \subseteq Holders
BY AddressAssumption DEF Holders

LEMMA RemoveIsChange ==
  ASSUME IInv, NEW u \in Users, NEW p \in Pools, NEW l \in Nat, NEW minimum,
         RemoveLiquidity(u, p, l, minimum)
  PROVE  \E res, total, shares, credit : PoolChange(p, u, res, total, shares, credit)
<1> DEFINE R == reserve[p]
           T == totalLiquidity[p]
           f == liquidityBalances[p]
           out == Burned(p, l)
           res == [a \in Assets |-> R[a] - out[a]]
           left == f[u] - l
           shares == [f EXCEPT ![u] = left]
           credit == ethBalances[u] + out[ETH]
<1>1. /\ R \in [Assets -> Nat] /\ T \in Nat /\ f \in [Holders -> Nat] /\ ethBalances[u] \in Nat
      /\ balances \in Holdings /\ u \in Holders /\ u # NoOne
  BY HoldersAndUsers DEF IInv, TypeOK, Holdings
<1>2. T = SumOver(f, Holders) /\ f[u] <= T /\ l <= f[u] /\ l # 0
  <2>1. T = SumOver(f, Holders)
    BY DEF IInv, SharesAddUp
  <2>2. IsFiniteSet(Holders) /\ \A x \in Holders : f[x] \in Nat
    BY <1>1, PoolsAreFinite
  <2> HIDE DEF f, T
  <2>3. f[u] <= SumOver(f, Holders)
    BY <1>1, <2>2, SumMember
  <2>4. QED BY <2>1, <2>3 DEF RemoveLiquidity, f
<1>3. T > 0 /\ l <= T /\ T - l \in Nat /\ left \in Nat
  BY <1>1, <1>2
<1>4. \A a \in Assets : /\ out[a] \in Nat /\ out[a] <= R[a] /\ out[a] = (l * R[a]) \div T
                        /\ R[a] * (T - l) <= (R[a] - out[a]) * T
  <2> SUFFICES ASSUME NEW a \in Assets
               PROVE  /\ out[a] \in Nat /\ out[a] <= R[a] /\ out[a] = (l * R[a]) \div T
                      /\ R[a] * (T - l) <= (R[a] - out[a]) * T
    OBVIOUS
  <2>1. out[a] = (l * R[a]) \div T /\ R[a] \in Nat
    BY <1>1 DEF Burned
  <2> HIDE DEF out, R, T
  <2>2. QED BY <1>1, <1>3, <2>1, PartOfReserve
<1>5. /\ p \in created /\ UNCHANGED <<now, roleVars, emergencyRequests, created, swept, integral>>
      /\ liquidityBalances' = [liquidityBalances EXCEPT ![p] = shares]
      /\ totalLiquidity' = [totalLiquidity EXCEPT ![p] = T - l]
      /\ reserve' = [reserve EXCEPT ![p] = res]
      /\ balances' = TokensOut(balances, u, out)
      /\ ethBalances' = [ethBalances EXCEPT ![u] = credit]
      /\ observation' = [observation EXCEPT ![p] = Observed(p)]
      /\ \A a \in p : a # ETH => balances[a][Amm] >= out[a]
  BY DEF RemoveLiquidity, UpdateTWAP, CanPay
<1>6. \A a \in Assets : a \notin p => R[a] = 0 /\ out[a] = 0
  <2>1. \A a \in Assets : a \notin p => R[a] = 0
    BY DEF IInv, Elsewhere
  <2>2. QED BY <1>1, <1>4, <2>1
<1>7. /\ balances' \in Holdings
      /\ \A a \in Assets : balances'[a][Amm] =
           balances[a][Amm] - (IF a = ETH THEN 0 ELSE out[a])
  <2> HIDE DEF out, R
  <2>1. \A a \in Assets : a # ETH => balances[a][Amm] >= out[a]
    BY <1>1, <1>5, <1>6 DEF Holdings
  <2>2. ASSUME NEW a \in Assets
        PROVE  /\ balances'[a] \in [Users \cup {Amm} -> Nat]
               /\ balances'[a][Amm] = balances[a][Amm] - (IF a = ETH THEN 0 ELSE out[a])
    <3>1. balances'[a] = IF a = ETH THEN balances[a] ELSE Moved(balances, a, Amm, u, out[a])[a]
      BY <1>5 DEF TokensOut
    <3>2. CASE a = ETH
      <4>1. balances'[a] = balances[a] /\ balances[a] \in [Users \cup {Amm} -> Nat]
        BY <1>1, <3>1, <3>2 DEF Holdings
      <4>2. balances[a][Amm] \in Nat
        BY <4>1
      <4>3. QED BY <3>2, <4>1, <4>2
    <3>3. CASE a # ETH
      <4>1. out[a] \in Nat /\ balances[a][Amm] >= out[a]
        BY <1>4, <2>1, <3>3
      <4>2. /\ Moved(balances, a, Amm, u, out[a]) \in Holdings
            /\ Moved(balances, a, Amm, u, out[a])[a][Amm] = balances[a][Amm] - out[a]
        BY <1>1, <4>1, MovedOut
      <4>3. QED BY <3>1, <3>3, <4>2 DEF Holdings
    <3>4. QED BY <3>2, <3>3
  <2>3. balances' = [a \in Assets |-> balances'[a]]
    BY <1>5 DEF TokensOut
  <2>4. QED BY <2>2, <2>3 DEF Holdings
<1>8. res \in [Assets -> Nat] /\ \A a \in Assets : res[a] = R[a] - out[a]
  BY <1>1, <1>4
<1>9. credit \in Nat
  <2>1. ETH \in Assets
    BY DEF Assets
  <2>2. QED BY <1>1, <1>4, <2>1
<1>10. \A a \in Assets :
         /\ balances'[a][Amm] - balances[a][Amm] >=
              (res[a] - R[a]) + (IF a = ETH THEN credit - ethBalances[u] ELSE 0)
         /\ a = ETH => balances'[a][Amm] - balances[a][Amm] =
              (res[a] - R[a]) + (IF a = ETH THEN credit - ethBalances[u] ELSE 0)
  <2> SUFFICES ASSUME NEW a \in Assets
               PROVE  balances'[a][Amm] - balances[a][Amm] =
                        (res[a] - R[a]) + (IF a = ETH THEN credit - ethBalances[u] ELSE 0)
    <3>1. \A a \in Assets : balances'[a][Amm] \in Int /\ balances[a][Amm] \in Int
      BY <1>1, <1>7 DEF Holdings
    <3> HIDE DEF res, R, credit
    <3>2. QED BY <3>1
  <2>1. /\ R[a] \in Nat /\ out[a] \in Nat /\ balances[a][Amm] \in Nat
        /\ res[a] = R[a] - out[a] /\ balances'[a][Amm] = balances[a][Amm] - (IF a = ETH THEN 0 ELSE out[a])
    BY <1>1, <1>4, <1>7, <1>8 DEF Holdings
  <2>2. a = ETH => credit = ethBalances[u] + out[a]
    OBVIOUS
  <2> HIDE DEF R, out, res, credit
  <2>3. QED BY <1>1, <1>9, <2>1, <2>2
<1>11. \A a \in Assets : a \notin p => res[a] = 0
  <2> HIDE DEF out, R, res
  <2>1. QED BY <1>6, <1>8
<1>12. shares \in [Holders -> Nat] /\ T - l = SumOver(shares, Holders) /\ shares[NoOne] = f[NoOne]
  <2> HIDE DEF f, left, T
  <2>1. SumOver(shares, Holders) = SumOver(f, Holders) + (left - f[u]) /\ shares \in [Holders -> Nat]
    BY <1>1, <1>3, SharesAfter
  <2>2. left - f[u] = 0 - l /\ f[u] \in Nat
    BY <1>1 DEF left
  <2>3. shares[NoOne] = f[NoOne]
    BY <1>1, HoldersAndUsers
  <2> HIDE DEF shares
  <2>4. QED BY <1>1, <1>2, <2>1, <2>2, <2>3
<1>13. NoShareLoses(p, res, T - l)
  <2> SUFFICES ASSUME NEW a \in p
               PROVE  res[a] * res[Other(p, a)] * T * T >= R[a] * R[Other(p, a)] * (T - l) * (T - l)
    BY DEF NoShareLoses
  <2> DEFINE b == Other(p, a)
  <2>1. a \in Assets /\ b \in Assets
    BY PoolIsPair
  <2> HIDE DEF b
  <2>2. /\ R[a] \in Nat /\ R[b] \in Nat /\ res[a] \in Nat /\ res[b] \in Nat
        /\ R[a] * (T - l) <= res[a] * T /\ R[b] * (T - l) <= res[b] * T
    BY <1>1, <1>4, <1>8, <2>1
  <2> HIDE DEF R, T, res
  <2>3. res[a] * res[b] * T * T >= R[a] * R[b] * (T - l) * (T - l)
    BY <1>1, <1>3, <2>2, SidesMakeTheProduct
  <2>4. QED BY <2>3 DEF b
<1>14. FirstIsCovered(p, res, T - l, shares)
  BY <1>3, <1>12 DEF FirstIsCovered
<1> HIDE DEF res, credit, shares
<1>15. PoolChange(p, u, res, T - l, shares, credit)
  BY <1>3, <1>5, <1>7, <1>8, <1>9, <1>10, <1>11, <1>12, <1>13, <1>14 DEF PoolChange
<1>16. QED BY <1>15

-----------------------------------------------------------------------------
(* A swap *)

LEMMA AmountOutIsNat ==
  ASSUME NEW n \in Nat, NEW r \in Nat, NEW s \in Nat, r # 0
  PROVE  AmountOut(n, r, s) \in Nat
<1> DEFINE d == FeeDenominator - FeeNumerator
           w == n * d
<1>1. d \in Nat /\ FeeDenominator \in Nat /\ FeeDenominator # 0
  BY NumberAssumption
<1> HIDE DEF d
<1>2. w \in Nat /\ r * FeeDenominator \in Nat
  BY <1>1, TimesIsNat
<1>3. r * FeeDenominator # 0
  BY <1>1, Z3
<1> HIDE DEF w
<1>4. w * s \in Nat /\ r * FeeDenominator + w \in Nat /\ r * FeeDenominator + w # 0
  BY <1>2, <1>3, TimesIsNat
<1>5. (w * s) \div (r * FeeDenominator + w) \in Nat
  BY <1>4, QuotientIsFloor
<1>6. QED BY <1>5 DEF AmountOut, w, d

\* The product of the reserves stays, and so do the shares.
LEMMA ProductKeepsShares ==
  ASSUME NEW P \in Nat, NEW Q \in Nat, NEW T \in Nat, P <= Q
  PROVE  Q * T * T >= P * T * T
<1>1. P * T <= Q * T
  BY Z3
<1>2. P * T \in Nat /\ Q * T \in Nat
  BY TimesIsNat
<1> DEFINE x == P * T
           y == Q * T
<1> HIDE DEF x, y
<1>3. x \in Nat /\ y \in Nat /\ x <= y
  BY <1>1, <1>2 DEF x, y
<1>4. x * T <= y * T
  BY <1>3, Z3
<1>5. QED BY <1>4 DEF x, y

LEMMA SwapIsChange ==
  ASSUME IInv, NEW u \in Users, NEW p \in Pools, NEW a \in p, NEW n \in Nat, NEW minimum,
         Swap(u, a, Other(p, a), n, minimum)
  PROVE  \E res, total, shares, credit : PoolChange(p, u, res, total, shares, credit)
<1>0. PICK b : b = Other(p, a)
  OBVIOUS
<1>1. a \in Assets /\ b \in p /\ b \in Assets /\ b # a /\ {a, b} = p /\ Other(p, b) = a
  BY <1>0, PoolIsPair
<1> DEFINE R == reserve[p]
           T == totalLiquidity[p]
           f == liquidityBalances[p]
           in == Received(a, n)
           out == AmountOut(in, R[a], R[b])
           res == [R EXCEPT ![a] = @ + in, ![b] = @ - out]
           paid == Moved(balances, a, u, Amm, n)
           credit == IF b = ETH THEN ethBalances[u] + out ELSE ethBalances[u]
<1>2. /\ R \in [Assets -> Nat] /\ T \in Nat /\ f \in [Holders -> Nat] /\ ethBalances[u] \in Nat
      /\ balances \in Holdings
  BY DEF IInv, TypeOK, Holdings
<1>3. in \in Nat /\ (a = ETH => in = n)
  BY <1>1, ReceivedIs
<1>4. /\ p \in created
      /\ balances[a][u] >= n /\ R[a] # 0
      /\ out < R[b]
      /\ ReservesAfter(p, a, b, in, out)[p][a] * ReservesAfter(p, a, b, in, out)[p][b] >= R[a] * R[b]
      /\ observation' = [observation EXCEPT ![p] = Observed(p)]
      /\ reserve' = ReservesAfter(p, a, b, in, out)
      /\ \/ b = ETH /\ ethBalances' = [ethBalances EXCEPT ![u] = @ + out] /\ balances' = paid
         \/ b # ETH /\ paid[b][Amm] >= out /\ balances' = Moved(paid, b, Amm, u, out)
            /\ UNCHANGED ethBalances
      /\ UNCHANGED <<now, roleVars, emergencyRequests, created, totalLiquidity,
                     liquidityBalances, swept, integral>>
  BY <1>0, <1>1 DEF Swap, UpdateTWAP, CanPay
<1>5. ReservesAfter(p, a, b, in, out) = [reserve EXCEPT ![p] = res]
  BY <1>1, <1>2 DEF ReservesAfter, IInv, TypeOK
<1>6. out \in Nat
  <2> HIDE DEF in, R
  <2>1. QED BY <1>1, <1>2, <1>3, <1>4, AmountOutIsNat
<1> HIDE DEF in, out
<1>7. /\ res \in [Assets -> Nat] /\ res[a] = R[a] + in /\ res[b] = R[b] - out
      /\ \A c \in Assets : c # a /\ c # b => res[c] = R[c]
  <2> DEFINE x == R[a] + in
             y == R[b] - out
  <2>1. x \in Nat /\ y \in Nat
    BY <1>1, <1>2, <1>3, <1>4, <1>6
  <2>2. res = [[R EXCEPT ![a] = x] EXCEPT ![b] = y]
    BY <1>1, <1>2
  <2> HIDE DEF x, y, R, res
  <2>3. /\ res \in [Assets -> Nat] /\ res[a] = x /\ res[b] = y
        /\ \A c \in Assets : c # a /\ c # b => res[c] = R[c]
    BY <1>1, <1>2, <2>1, <2>2
  <2>4. QED BY <2>3 DEF x, y
<1> HIDE DEF res
<1>8. /\ paid \in Holdings
      /\ \A c \in Assets : paid[c][Amm] = balances[c][Amm] + (IF c = a THEN in ELSE 0)
  BY <1>1, <1>2, <1>4, MovedIn DEF in
<1> HIDE DEF paid
<1>9. /\ balances' \in Holdings
      /\ \A c \in Assets : balances'[c][Amm] =
           balances[c][Amm] + (IF c = a THEN in ELSE 0) - (IF c = b /\ b # ETH THEN out ELSE 0)
  <2>1. \A c \in Assets : balances[c][Amm] \in Nat
    BY <1>2 DEF Holdings
  <2>2. CASE b = ETH
    BY <1>3, <1>4, <1>8, <2>1, <2>2
  <2>3. CASE b # ETH
    <3>1. /\ balances' \in Holdings
          /\ \A c \in Assets : balances'[c][Amm] = paid[c][Amm] - (IF c = b THEN out ELSE 0)
      BY <1>1, <1>4, <1>6, <1>8, <2>3, MovedOut
    <3>2. QED BY <1>3, <1>6, <1>8, <2>1, <2>3, <3>1
  <2>4. QED BY <2>2, <2>3
<1>10. ethBalances' = [ethBalances EXCEPT ![u] = credit] /\ credit \in Nat
       /\ credit = ethBalances[u] + (IF b = ETH THEN out ELSE 0)
  <2>1. credit \in Nat /\ credit = ethBalances[u] + (IF b = ETH THEN out ELSE 0)
    BY <1>2, <1>6
  <2>2. ethBalances' = [ethBalances EXCEPT ![u] = credit]
    <3>1. CASE b = ETH
      BY <1>4, <3>1
    <3>2. CASE b # ETH
      BY <1>4, <3>2 DEF IInv, TypeOK
    <3>3. QED BY <3>1, <3>2
  <2>3. QED BY <2>1, <2>2
<1> HIDE DEF credit
<1>11. \A c \in Assets :
         balances'[c][Amm] - balances[c][Amm] =
            (res[c] - R[c]) + (IF c = ETH THEN credit - ethBalances[u] ELSE 0)
  <2> SUFFICES ASSUME NEW c \in Assets
               PROVE  balances'[c][Amm] - balances[c][Amm] =
                        (res[c] - R[c]) + (IF c = ETH THEN credit - ethBalances[u] ELSE 0)
    OBVIOUS
  <2>1. /\ balances[c][Amm] \in Nat /\ R[c] \in Nat /\ R[a] \in Nat /\ R[b] \in Nat
    BY <1>1, <1>2 DEF Holdings
  <2>2. balances'[c][Amm] = balances[c][Amm] + (IF c = a THEN in ELSE 0)
                              - (IF c = b /\ b # ETH THEN out ELSE 0)
    BY <1>9
  <2> HIDE DEF R
  <2>3. CASE c = a
    BY <1>1, <1>2, <1>3, <1>6, <1>7, <1>10, <2>1, <2>2, <2>3
  <2>4. CASE c = b
    BY <1>1, <1>2, <1>3, <1>6, <1>7, <1>10, <2>1, <2>2, <2>4
  <2>5. CASE c # a /\ c # b
    BY <1>1, <1>2, <1>3, <1>6, <1>7, <1>10, <2>1, <2>2, <2>5
  <2>6. QED BY <2>3, <2>4, <2>5
<1>12. \A c \in Assets :
         LET owed == (res[c] - R[c]) + (IF c = ETH THEN credit - ethBalances[u] ELSE 0)
         IN /\ balances'[c][Amm] - balances[c][Amm] >= owed
            /\ c = ETH => balances'[c][Amm] - balances[c][Amm] = owed
  <2>1. \A c \in Assets : balances'[c][Amm] - balances[c][Amm] \in Int
    BY <1>2, <1>9 DEF Holdings
  <2> HIDE DEF R
  <2>2. QED BY <1>11, <2>1
<1>13. \A c \in Assets : c \notin p => res[c] = 0
  BY <1>1, <1>7 DEF IInv, Elsewhere
<1>14. NoShareLoses(p, res, T)
  <2>1. res[a] * res[b] >= R[a] * R[b] /\ res[b] * res[a] >= R[b] * R[a]
    <3>1. ReservesAfter(p, a, b, in, out)[p] = res
      BY <1>5 DEF IInv, TypeOK
    <3>2. res[a] * res[b] >= R[a] * R[b]
      BY <1>4, <3>1
    <3>3. res[a] \in Nat /\ res[b] \in Nat /\ R[a] \in Nat /\ R[b] \in Nat
      BY <1>1, <1>2, <1>7
    <3>4. res[b] * res[a] = res[a] * res[b] /\ R[b] * R[a] = R[a] * R[b]
      BY <3>3, Z3
    <3>5. QED BY <3>2, <3>4
  <2>2. res[a] * res[b] \in Nat /\ R[a] * R[b] \in Nat /\ res[b] * res[a] \in Nat /\ R[b] * R[a] \in Nat
    BY <1>1, <1>2, <1>7, TimesIsNat
  <2> HIDE DEF R, T
  <2>3. /\ res[a] * res[b] * T * T >= R[a] * R[b] * T * T
        /\ res[b] * res[a] * T * T >= R[b] * R[a] * T * T
    BY <1>2, <2>1, <2>2, ProductKeepsShares
  <2>4. QED BY <1>0, <1>1, <2>3 DEF NoShareLoses, R, T
<1>15. FirstIsCovered(p, res, T, f)
  BY <1>2 DEF FirstIsCovered
<1>16. /\ T = SumOver(f, Holders)
       /\ totalLiquidity' = [totalLiquidity EXCEPT ![p] = T]
       /\ liquidityBalances' = [liquidityBalances EXCEPT ![p] = f]
  BY <1>4 DEF IInv, TypeOK, SharesAddUp
<1>17. PoolChange(p, u, res, T, f, credit)
  BY <1>2, <1>4, <1>5, <1>7, <1>9, <1>10, <1>12, <1>13, <1>14, <1>15, <1>16 DEF PoolChange
<1>18. QED BY <1>17

-----------------------------------------------------------------------------
(* A deposit *)

\* Shares that are worth no more than what came in leave the others theirs.
LEMMA PartOfDeposit ==
  ASSUME NEW R \in Nat, NEW T \in Nat, NEW x \in Nat, NEW l \in Nat, R # 0, l <= (x * T) \div R
  PROVE  R * (T + l) <= (R + x) * T
<1> DEFINE q == (x * T) \div R
<1>1. x * T \in Nat /\ R * T \in Nat /\ R * l \in Nat
  BY TimesIsNat
<1>2. q \in Nat /\ q * R <= x * T
  BY <1>1, QuotientIsFloor
<1>3. l <= q
  OBVIOUS
<1> HIDE DEF q
<1>4. R * l <= q * R
  BY <1>2, <1>3, Z3
<1>5. R * (T + l) = R * T + R * l /\ (R + x) * T = R * T + x * T
  BY Z3
<1>6. q * R \in Nat
  BY <1>2, TimesIsNat
<1>7. QED BY <1>1, <1>2, <1>4, <1>5, <1>6

LEMMA SharesNeedReserves ==
  ASSUME IInv, NEW p \in Pools, NEW a \in p, totalLiquidity[p] > 0
  PROVE  reserve[p][a] # 0
<1> DEFINE T == totalLiquidity[p]
           r == reserve[p][a]
           s == reserve[p][Other(p, a)]
<1>1. T \in Nat /\ r \in Nat /\ s \in Nat /\ T > 0 /\ T * T <= r * s
  <2>1. a \in Assets /\ Other(p, a) \in Assets
    BY PoolIsPair
  <2>2. QED BY <2>1 DEF IInv, TypeOK, SharesAreBacked
<1> HIDE DEF T, r, s
<1>2. T * T > 0
  BY <1>1, Z3
<1>3. r = 0 => r * s = 0
  BY <1>1, Z3
<1>4. T * T \in Nat /\ r * s \in Nat
  BY <1>1, TimesIsNat
<1>5. r # 0
  BY <1>1, <1>2, <1>3, <1>4
<1>6. QED BY <1>5 DEF r

LEMMA OptimalIs ==
  ASSUME IInv, NEW p \in Pools, NEW a \in p, NEW b \in p, NEW n \in Nat, NEW m \in Nat,
         NEW aMin, NEW bMin, WithinLimits(p, Optimal(p, a, b, n, m), n, aMin, bMin)
  PROVE  /\ Optimal(p, a, b, n, m)[1] \in Nat /\ Optimal(p, a, b, n, m)[2] \in Nat
         /\ Optimal(p, a, b, n, m)[1] <= n
<1> DEFINE d == Optimal(p, a, b, n, m)
           ra == reserve[p][a]
           rb == reserve[p][b]
<1>1. totalLiquidity[p] \in Nat /\ ra \in Nat /\ rb \in Nat
  <2>1. a \in Assets /\ b \in Assets
    BY PoolIsPair
  <2>2. QED BY <2>1 DEF IInv, TypeOK
<1>2. CASE totalLiquidity[p] = 0
  BY <1>2 DEF Optimal
<1>3. CASE totalLiquidity[p] > 0
  <2>1. ra # 0 /\ rb # 0
    BY <1>3, SharesNeedReserves
  <2>2. n * rb \in Nat /\ m * ra \in Nat
    BY <1>1, TimesIsNat
  <2>3. (n * rb) \div ra \in Nat /\ (m * ra) \div rb \in Nat
    BY <1>1, <2>1, <2>2, QuotientIsFloor
  <2> DEFINE bOpt == (n * rb) \div ra
             aOpt == (m * ra) \div rb
  <2>4. d = IF bOpt <= m THEN <<n, bOpt>> ELSE <<aOpt, m>>
    BY <1>3 DEF Optimal
  <2>5. d[1] = n \/ d[1] <= n
    BY <1>3 DEF WithinLimits
  <2> HIDE DEF bOpt, aOpt, d
  <2>6. bOpt \in Nat /\ aOpt \in Nat
    BY <2>3 DEF bOpt, aOpt
  <2>7. d[1] \in Nat /\ d[2] \in Nat
    BY <2>4, <2>6
  <2>8. QED BY <2>5, <2>7 DEF d
<1>4. QED BY <1>1, <1>2, <1>3

LEMMA MintedIs ==
  ASSUME IInv, NEW p \in Pools, NEW a \in p, NEW b \in p, NEW x \in Nat, NEW y \in Nat,
         Minted(p, a, b, x, y) > 0
  PROVE  /\ Minted(p, a, b, x, y) \in Nat
         /\ totalLiquidity[p] = 0 =>
              Minted(p, a, b, x, y) = Sqrt(x * y) - MinimumLiquidity /\ Sqrt(x * y) \in Nat
         /\ totalLiquidity[p] > 0 =>
              /\ reserve[p][a] # 0 /\ Minted(p, a, b, x, y) <= (x * totalLiquidity[p]) \div reserve[p][a]
              /\ reserve[p][b] # 0 /\ Minted(p, a, b, x, y) <= (y * totalLiquidity[p]) \div reserve[p][b]
<1> DEFINE T == totalLiquidity[p]
           ra == reserve[p][a]
           rb == reserve[p][b]
<1>1. T \in Nat /\ ra \in Nat /\ rb \in Nat
  <2>1. a \in Assets /\ b \in Assets
    BY PoolIsPair
  <2>2. QED BY <2>1 DEF IInv, TypeOK
<1>2. CASE T = 0
  <2>1. Minted(p, a, b, x, y) = Sqrt(x * y) - MinimumLiquidity
    BY <1>2 DEF Minted
  <2>2. Sqrt(x * y) \in Nat
    BY TimesIsNat, SqrtIsBelow
  <2>3. QED BY <1>2, <2>1, <2>2, NumberAssumption
<1>3. CASE T > 0
  <2> DEFINE la == (x * T) \div ra
             lb == (y * T) \div rb
  <2>1. ra # 0 /\ rb # 0
    BY <1>3, SharesNeedReserves
  <2>2. la \in Nat /\ lb \in Nat
    BY <1>1, <2>1, TimesIsNat, QuotientIsFloor
  <2>3. Minted(p, a, b, x, y) = Lesser(la, lb)
    BY <1>3 DEF Minted
  <2> HIDE DEF la, lb
  <2>4. Lesser(la, lb) \in Nat /\ Lesser(la, lb) <= la /\ Lesser(la, lb) <= lb
    BY <2>2 DEF Lesser
  <2>5. QED BY <1>3, <2>1, <2>3, <2>4 DEF la, lb
<1>4. QED BY <1>1, <1>2, <1>3

LEMMA AddIsChange ==
  ASSUME IInv, NEW u \in Users, NEW p \in Pools, NEW a \in p, NEW n \in Nat, NEW m \in Nat,
         NEW aMin, NEW bMin, Other(p, a) # ETH,
         AddLiquidity(u, a, Other(p, a), n, m, aMin, bMin)
  PROVE  \E res, total, shares, credit : PoolChange(p, u, res, total, shares, credit)
<1>0. PICK b : b = Other(p, a)
  OBVIOUS
<1>1. a \in Assets /\ b \in p /\ b \in Assets /\ b # a /\ {a, b} = p /\ Other(p, b) = a /\ b # ETH
  BY <1>0, PoolIsPair
<1> DEFINE R == reserve[p]
           T == totalLiquidity[p]
           f == liquidityBalances[p]
           d1 == Optimal(p, a, b, n, m)[1]
           d2 == Optimal(p, a, b, n, m)[2]
           sent == IF a = ETH THEN n ELSE d1
           x == Received(a, d1)
           y == Received(b, d2)
           l == Minted(p, a, b, x, y)
           burned == IF T = 0 THEN MinimumLiquidity ELSE 0
           ra == R[a] + x
           rb == R[b] + y
           res == [[R EXCEPT ![a] = ra] EXCEPT ![b] = rb]
           total == T + burned + l
           h0 == f[NoOne] + burned
           g == [f EXCEPT ![NoOne] = h0]
           h1 == g[u] + l
           shares == [g EXCEPT ![u] = h1]
           paid == Moved(balances, a, u, Amm, sent)
           credit == ethBalances[u] + (sent - d1)
<1>2. /\ R \in [Assets -> Nat] /\ T \in Nat /\ f \in [Holders -> Nat] /\ ethBalances[u] \in Nat
      /\ balances \in Holdings /\ u \in Holders /\ u # NoOne /\ NoOne \in Holders
  BY HoldersAndUsers DEF IInv, TypeOK, Holdings
<1>3. /\ p \in created
      /\ WithinLimits(p, Optimal(p, a, b, n, m), n, aMin, bMin)
      /\ balances[a][u] >= sent /\ balances[b][u] >= d2
      /\ observation' = [observation EXCEPT ![p] = Observed(p)]
      /\ MintLiquidity(p, u, a, b, x, y)
      /\ balances' = Moved(paid, b, u, Amm, d2)
      /\ ethBalances' = [ethBalances EXCEPT ![u] = credit]
      /\ UNCHANGED <<now, roleVars, emergencyRequests, created, swept, integral>>
  BY <1>0, <1>1 DEF AddLiquidity, UpdateTWAP, CanPay
<1>4. d1 \in Nat /\ d2 \in Nat /\ d1 <= n
  BY <1>1, <1>3, OptimalIs
<1>5. l > 0 /\ liquidityBalances' = [liquidityBalances EXCEPT ![p] = shares]
      /\ totalLiquidity' = [totalLiquidity EXCEPT ![p] = total]
      /\ reserve' = [reserve EXCEPT ![p] = res]
  <2> HIDE DEF x, y, d1, d2, sent, paid, credit
  <2>1. /\ l > 0
        /\ liquidityBalances' = [liquidityBalances EXCEPT ![p][NoOne] = @ + burned, ![p][u] = @ + l]
        /\ totalLiquidity' = [totalLiquidity EXCEPT ![p] = @ + burned + l]
        /\ reserve' = [reserve EXCEPT ![p][a] = @ + x, ![p][b] = @ + y]
    BY <1>3 DEF MintLiquidity
  <2> HIDE DEF l, burned
  <2>2. liquidityBalances' = [liquidityBalances EXCEPT ![p] = shares]
    BY <1>2, <2>1 DEF IInv, TypeOK
  <2>3. reserve' = [reserve EXCEPT ![p] = res]
    BY <1>1, <1>2, <2>1 DEF IInv, TypeOK
  <2>4. QED BY <2>1, <2>2, <2>3
<1> HIDE DEF d1, d2
<1>6. sent \in Nat /\ d1 <= sent /\ (a # ETH => sent = d1)
  BY <1>4
<1> HIDE DEF sent
<1>7. /\ x \in Nat /\ x <= d1 /\ (a = ETH => x = d1) /\ y \in Nat
      /\ Received(a, sent) = IF a = ETH THEN sent ELSE x
  <2>1. x \in Nat /\ x <= d1 /\ (a = ETH => x = d1) /\ y \in Nat
    BY <1>1, <1>4, ReceivedIs
  <2>2. a = ETH => Received(a, sent) = sent
    BY <1>1, <1>6, ReceivedIs
  <2>3. QED BY <1>6, <2>1, <2>2
<1> HIDE DEF x, y
<1>8. /\ l \in Nat
      /\ T = 0 => l = Sqrt(x * y) - MinimumLiquidity /\ Sqrt(x * y) \in Nat
      /\ T > 0 => /\ R[a] # 0 /\ l <= (x * T) \div R[a]
                  /\ R[b] # 0 /\ l <= (y * T) \div R[b]
  BY <1>1, <1>5, <1>7, MintedIs
<1>9. burned \in Nat /\ MinimumLiquidity \in Nat /\ (T > 0 => burned = 0) /\ (T = 0 => burned = MinimumLiquidity)
  BY NumberAssumption
<1> HIDE DEF l, burned
<1>10. total \in Nat /\ credit \in Nat /\ ra \in Nat /\ rb \in Nat
  BY <1>1, <1>2, <1>4, <1>6, <1>7, <1>8, <1>9
<1>11. /\ res \in [Assets -> Nat] /\ res[a] = ra /\ res[b] = rb
       /\ \A c \in Assets : c # a /\ c # b => res[c] = R[c]
  <2> HIDE DEF ra, rb, R
  <2>1. QED BY <1>1, <1>2, <1>10
<1> HIDE DEF res
<1>12. /\ shares \in [Holders -> Nat] /\ total = SumOver(shares, Holders)
       /\ shares[NoOne] = f[NoOne] + burned
  <2>1. T = SumOver(f, Holders)
    BY DEF IInv, SharesAddUp
  <2>2. h0 \in Nat /\ h0 - f[NoOne] = burned
    BY <1>2, <1>9
  <2> HIDE DEF f, T
  <2>3. /\ g \in [Holders -> Nat] /\ g[NoOne] = h0
        /\ SumOver(g, Holders) = SumOver(f, Holders) + (h0 - f[NoOne])
    <3> HIDE DEF h0
    <3>1. QED BY <1>2, <2>2, SharesAfter
  <2> HIDE DEF g
  <2>4. h1 \in Nat /\ h1 - g[u] = l
    BY <1>2, <1>8, <2>3
  <2>5. /\ shares \in [Holders -> Nat] /\ shares[NoOne] = g[NoOne]
        /\ SumOver(shares, Holders) = SumOver(g, Holders) + (h1 - g[u])
    <3> HIDE DEF h1
    <3>1. QED BY <1>2, <2>3, <2>4, SharesAfter
  <2> HIDE DEF shares
  <2>6. SumOver(shares, Holders) = total
    BY <1>2, <1>8, <1>9, <2>1, <2>2, <2>3, <2>4, <2>5
  <2>7. QED BY <2>3, <2>5, <2>6
<1> HIDE DEF shares
<1>13. /\ paid \in Holdings
       /\ \A c \in Assets : paid[c][Amm] = balances[c][Amm] + (IF c = a THEN Received(a, sent) ELSE 0)
       /\ paid[b][u] = balances[b][u]
  BY <1>1, <1>2, <1>3, <1>6, MovedIn
<1> HIDE DEF paid
<1>14. /\ balances' \in Holdings
       /\ \A c \in Assets : balances'[c][Amm] = paid[c][Amm] + (IF c = b THEN y ELSE 0)
  <2>1. paid[b][u] >= d2
    BY <1>3, <1>13
  <2>2. QED BY <1>1, <1>3, <1>4, <1>13, <2>1, MovedIn DEF y
<1>15. \A c \in Assets :
         balances'[c][Amm] - balances[c][Amm] =
            (res[c] - R[c]) + (IF c = ETH THEN credit - ethBalances[u] ELSE 0)
  <2> SUFFICES ASSUME NEW c \in Assets
               PROVE  balances'[c][Amm] - balances[c][Amm] =
                        (res[c] - R[c]) + (IF c = ETH THEN credit - ethBalances[u] ELSE 0)
    OBVIOUS
  <2>1. balances[c][Amm] \in Nat /\ R[c] \in Nat /\ R[a] \in Nat /\ R[b] \in Nat
    BY <1>1, <1>2 DEF Holdings
  <2>2. balances'[c][Amm] = balances[c][Amm] + (IF c = a THEN Received(a, sent) ELSE 0)
                              + (IF c = b THEN y ELSE 0)
    BY <1>13, <1>14
  <2>3. credit - ethBalances[u] = sent - d1
    BY <1>2, <1>4, <1>6
  <2> HIDE DEF R, credit
  <2>4. CASE c = a
    <3>1. CASE a = ETH
      BY <1>1, <1>4, <1>6, <1>7, <1>11, <2>1, <2>2, <2>3, <2>4, <3>1
    <3>2. CASE a # ETH
      BY <1>1, <1>4, <1>6, <1>7, <1>11, <2>1, <2>2, <2>4, <3>2
    <3>3. QED BY <3>1, <3>2
  <2>5. CASE c = b
    BY <1>1, <1>7, <1>11, <2>1, <2>2, <2>5
  <2>6. CASE c # a /\ c # b
    <3>1. c = ETH => credit - ethBalances[u] = 0
      BY <1>4, <1>6, <2>3, <2>6
    <3>2. QED BY <1>11, <2>1, <2>2, <2>6, <3>1
  <2>7. QED BY <2>4, <2>5, <2>6
<1>16. \A c \in Assets :
         LET owed == (res[c] - R[c]) + (IF c = ETH THEN credit - ethBalances[u] ELSE 0)
         IN /\ balances'[c][Amm] - balances[c][Amm] >= owed
            /\ c = ETH => balances'[c][Amm] - balances[c][Amm] = owed
  <2>1. \A c \in Assets : balances'[c][Amm] - balances[c][Amm] \in Int
    BY <1>2, <1>14 DEF Holdings
  <2> HIDE DEF R, credit
  <2>2. QED BY <1>15, <2>1
<1>17. \A c \in Assets : c \notin p => res[c] = 0
  BY <1>1, <1>11 DEF IInv, Elsewhere
<1>18. R[a] \in Nat /\ R[b] \in Nat
  BY <1>1, <1>2
<1>19. NoShareLoses(p, res, total)
  <2>1. CASE T > 0
    <3>1. total = T + l
      BY <1>2, <1>8, <1>9, <2>1
    <3> HIDE DEF R, T, total
    <3>2. R[a] * (T + l) <= (R[a] + x) * T /\ R[b] * (T + l) <= (R[b] + y) * T
      BY <1>2, <1>7, <1>8, <1>18, <2>1, PartOfDeposit
    <3>3. R[a] * total <= res[a] * T /\ R[b] * total <= res[b] * T
      BY <1>11, <3>1, <3>2
    <3>4. res[a] \in Nat /\ res[b] \in Nat
      BY <1>10, <1>11
    <3>5. /\ res[a] * res[b] * T * T >= R[a] * R[b] * total * total
          /\ res[b] * res[a] * T * T >= R[b] * R[a] * total * total
      BY <1>2, <1>10, <1>18, <3>3, <3>4, SidesMakeTheProduct
    <3>6. QED BY <1>0, <1>1, <3>5 DEF NoShareLoses, R, T
  <2>2. QED BY <2>1 DEF NoShareLoses
<1>20. FirstIsCovered(p, res, total, shares)
  <2>1. T > 0 => shares[NoOne] = f[NoOne]
    BY <1>2, <1>9, <1>12
  <2>2. ASSUME T = 0
        PROVE  shares[NoOne] = MinimumLiquidity /\ \A c \in p : total * total <= res[c] * res[Other(p, c)]
    <3>1. f[NoOne] = 0
      <4>1. T = SumOver(f, Holders)
        BY DEF IInv, SharesAddUp
      <4>2. IsFiniteSet(Holders) /\ \A h \in Holders : f[h] \in Nat
        BY <1>2, PoolsAreFinite
      <4> HIDE DEF f, T
      <4>3. f[NoOne] <= SumOver(f, Holders)
        BY <1>2, <4>2, SumMember
      <4>4. QED BY <1>2, <2>2, <4>1, <4>2, <4>3
    <3>2. total = Sqrt(x * y) /\ x * y \in Nat
      BY <1>7, <1>8, <1>9, <2>2, TimesIsNat
    <3>3. total * total <= x * y
      BY <3>2, SqrtIsBelow
    <3>4. x <= ra /\ y <= rb
      BY <1>7, <1>18
    <3> HIDE DEF total, ra, rb
    <3>5. x * y <= ra * rb
      BY <1>7, <1>10, <3>4, ProductsGrow
    <3>6. total * total <= ra * rb /\ ra * rb = rb * ra
      <4>1. total * total \in Nat /\ ra * rb \in Nat
        BY <1>10, TimesIsNat
      <4>2. ra * rb = rb * ra
        BY <1>10, Z3
      <4>3. QED BY <3>2, <3>3, <3>5, <4>1, <4>2
    <3>7. shares[NoOne] = MinimumLiquidity
      BY <1>9, <1>12, <2>2, <3>1
    <3>8. QED BY <1>0, <1>1, <1>11, <3>6, <3>7
  <2>3. QED BY <2>1, <2>2 DEF FirstIsCovered
<1> HIDE DEF total, credit
<1>21. PoolChange(p, u, res, total, shares, credit)
  BY <1>3, <1>5, <1>10, <1>11, <1>12, <1>14, <1>16, <1>17, <1>19, <1>20 DEF PoolChange
<1>22. QED BY <1>21

-----------------------------------------------------------------------------
(* The other steps *)

\* The owner, the pause switch and the requests touch nothing of a pool.
LEMMA PoolsRest ==
  ASSUME IInv, TypeOK', UNCHANGED <<now, poolVars, assetVars, swept, integral>>
  PROVE  IInv'
<1>1. Uncreated' /\ Elsewhere' /\ SharesAddUp' /\ ObservedBefore'
  BY DEF IInv, Uncreated, Elsewhere, SharesAddUp, ObservedBefore, poolVars
<1>2. SharesAreBacked' /\ Backed'
  BY DEF IInv, SharesAreBacked, Backed, Owed, poolVars, assetVars
<1>3. TwapIsIntegral'
  BY DEF IInv, TwapIsIntegral, Price, Product, poolVars
<1>4. QED BY <1>1, <1>2, <1>3 DEF IInv

\* Of the pools only the balances and the credits change.
LEMMA OnlyBalancesMove ==
  ASSUME IInv, TypeOK', UNCHANGED <<now, poolVars, integral>>, Backed'
  PROVE  IInv'
<1>1. Uncreated' /\ Elsewhere' /\ SharesAddUp' /\ ObservedBefore'
  BY DEF IInv, Uncreated, Elsewhere, SharesAddUp, ObservedBefore, poolVars
<1>2. SharesAreBacked'
  BY DEF IInv, SharesAreBacked, poolVars
<1>3. TwapIsIntegral'
  BY DEF IInv, TwapIsIntegral, Price, Product, poolVars
<1>4. QED BY <1>1, <1>2, <1>3 DEF IInv

LEMMA RequestIs ==
  ASSUME TypeOK, NEW r \in DOMAIN emergencyRequests
  PROVE  /\ emergencyRequests[r] \in EmergencyRequest
         /\ [emergencyRequests EXCEPT ![r].executed = TRUE] \in Seq(EmergencyRequest)
<1>1. emergencyRequests \in Seq(EmergencyRequest)
  BY DEF TypeOK
<1>2. r \in 1 .. Len(emergencyRequests) /\ emergencyRequests[r] \in EmergencyRequest
  BY <1>1
<1> DEFINE q == [emergencyRequests[r] EXCEPT !.executed = TRUE]
<1>3. q \in EmergencyRequest
  BY <1>2 DEF EmergencyRequest
<1>4. [emergencyRequests EXCEPT ![r].executed = TRUE] = [emergencyRequests EXCEPT ![r] = q]
  OBVIOUS
<1> HIDE DEF q
<1>5. [emergencyRequests EXCEPT ![r] = q] \in Seq(EmergencyRequest)
  BY <1>1, <1>2, <1>3
<1>6. QED BY <1>2, <1>4, <1>5

LEMMA OwnerSteps ==
  ASSUME IInv, NEW u \in Users, OwnerStep(u)
  PROVE  IInv' /\ UNCHANGED <<reserve, totalLiquidity>>
<1>0. TypeOK
  BY DEF IInv
<1>1. ASSUME \/ \E v \in Heirs : TransferOwnership(u, v)
             \/ AcceptOwnership(u) \/ Pause(u) \/ Unpause(u)
      PROVE  IInv' /\ UNCHANGED <<reserve, totalLiquidity>>
  <2>1. UNCHANGED <<now, emergencyRequests, poolVars, assetVars, swept, integral>>
    BY <1>1 DEF TransferOwnership, AcceptOwnership, Pause, Unpause
  <2>2. owner' \in Users /\ pendingOwner' \in Holders /\ paused' \in BOOLEAN
    <3>1. owner \in Users /\ pendingOwner \in Holders /\ paused \in BOOLEAN
      BY <1>0 DEF TypeOK
    <3>2. ASSUME NEW v \in Heirs, TransferOwnership(u, v)
          PROVE  owner' \in Users /\ pendingOwner' \in Holders /\ paused' \in BOOLEAN
      <4>1. v \in Holders
        BY AddressAssumption, HoldersAndUsers
      <4>2. QED BY <3>1, <3>2, <4>1 DEF TransferOwnership
    <3>3. CASE AcceptOwnership(u)
      BY <3>1, <3>3, HoldersAndUsers DEF AcceptOwnership
    <3>4. CASE Pause(u) \/ Unpause(u)
      BY <3>1, <3>4 DEF Pause, Unpause
    <3>5. QED BY <1>1, <3>2, <3>3, <3>4
  <2>3. TypeOK'
    BY <1>0, <2>1, <2>2 DEF TypeOK, poolVars, assetVars
  <2>4. QED BY <2>1, <2>3, PoolsRest DEF poolVars
<1>2. ASSUME NEW a \in Assets, NEW n \in Amounts, NEW v \in Heirs,
             RequestEmergencyWithdraw(u, a, n, v)
      PROVE  IInv' /\ UNCHANGED <<reserve, totalLiquidity>>
  <2> DEFINE q == [token |-> a, amount |-> n, recipient |-> v,
                   executeAfter |-> now + Timelock, executed |-> FALSE]
  <2>1. q \in EmergencyRequest
    <3>1. n \in Nat /\ v \in Users /\ now + Timelock \in Nat
      <4>1. now \in Nat
        BY <1>0 DEF TypeOK
      <4>2. Timelock \in Nat /\ n \in Nat /\ v \in Users
        BY AddressAssumption, NumberAssumption
      <4>3. QED BY <4>1, <4>2
    <3>2. QED BY <3>1 DEF EmergencyRequest
  <2>2. /\ emergencyRequests' = Append(emergencyRequests, q)
        /\ UNCHANGED <<now, roleVars, poolVars, assetVars, swept, integral>>
    BY <1>2 DEF RequestEmergencyWithdraw
  <2> HIDE DEF q
  <2>3. emergencyRequests' \in Seq(EmergencyRequest)
    BY <1>0, <2>1, <2>2 DEF TypeOK
  <2>4. TypeOK'
    BY <1>0, <2>2, <2>3 DEF TypeOK, roleVars, poolVars, assetVars
  <2>5. QED BY <2>2, <2>4, PoolsRest DEF poolVars
<1>3. ASSUME NEW r \in DOMAIN emergencyRequests, ExecuteEmergencyWithdraw(u, r)
      PROVE  IInv' /\ UNCHANGED <<reserve, totalLiquidity>>
  <2>1. PICK q \in EmergencyRequest : q = emergencyRequests[r]
    BY <1>0, RequestIs
  <2>2. q.token \in Assets /\ q.amount \in Nat /\ q.recipient \in Users
    BY DEF EmergencyRequest
  <2>3. /\ balances[q.token][Amm] >= q.amount
        /\ emergencyRequests' = [emergencyRequests EXCEPT ![r].executed = TRUE]
        /\ balances' = Moved(balances, q.token, Amm, q.recipient, q.amount)
        /\ swept' = [swept EXCEPT ![q.token] = @ + q.amount]
        /\ UNCHANGED <<now, roleVars, poolVars, ethBalances, integral>>
    BY <1>3, <2>1 DEF ExecuteEmergencyWithdraw, CanPay
  <2>4. emergencyRequests' \in Seq(EmergencyRequest)
    BY <1>0, <2>3, RequestIs
  <2>5. balances \in Holdings
    BY <1>0 DEF TypeOK, Holdings
  <2>6. /\ balances' \in Holdings
        /\ \A c \in Assets : balances'[c][Amm] = balances[c][Amm] - (IF c = q.token THEN q.amount ELSE 0)
    BY <2>2, <2>3, <2>5, MovedOut
  <2>7. /\ swept' \in [Assets -> Nat]
        /\ \A c \in Assets : swept'[c] = swept[c] + (IF c = q.token THEN q.amount ELSE 0)
    BY <1>0, <2>2, <2>3 DEF TypeOK
  <2>8. TypeOK'
    BY <1>0, <2>3, <2>4, <2>6, <2>7 DEF TypeOK, Holdings, roleVars, poolVars
  <2>9. \A c \in Assets : balances'[c][Amm] + swept'[c] = balances[c][Amm] + swept[c]
    <3>1. \A c \in Assets : balances[c][Amm] \in Nat /\ swept[c] \in Nat
      BY <1>0, <2>5 DEF TypeOK, Holdings
    <3>2. QED BY <2>2, <2>6, <2>7, <3>1
  <2>10. \A c : Owed(c)' = Owed(c)
    BY <2>3 DEF Owed, poolVars
  <2>11. Backed'
    BY <2>9, <2>10 DEF IInv, Backed
  <2>12. QED BY <2>3, <2>8, <2>11, OnlyBalancesMove DEF poolVars
<1>4. ASSUME NEW r \in DOMAIN emergencyRequests, CancelEmergencyWithdraw(u, r)
      PROVE  IInv' /\ UNCHANGED <<reserve, totalLiquidity>>
  <2>1. /\ emergencyRequests' \in Seq(EmergencyRequest)
        /\ UNCHANGED <<now, roleVars, poolVars, assetVars, swept, integral>>
    BY <1>0, <1>4, RequestIs DEF CancelEmergencyWithdraw
  <2>2. TypeOK'
    BY <1>0, <2>1 DEF TypeOK, roleVars, poolVars, assetVars
  <2>3. QED BY <2>1, <2>2, PoolsRest DEF poolVars
<1>5. QED BY <1>1, <1>2, <1>3, <1>4 DEF OwnerStep

LEMMA DonateKeeps ==
  ASSUME IInv, NEW u \in Users, NEW t \in Tokens, NEW n \in Nat, Donate(u, t, n)
  PROVE  IInv' /\ UNCHANGED <<reserve, totalLiquidity>>
<1>1. TypeOK /\ t \in Assets /\ t # ETH /\ balances \in Holdings
  <2>1. t \in Assets /\ t # ETH
    BY AddressAssumption DEF Assets
  <2>2. QED BY <2>1 DEF IInv, TypeOK, Holdings
<1>2. /\ balances[t][u] >= n /\ balances' = Moved(balances, t, u, Amm, n)
      /\ UNCHANGED <<now, roleVars, emergencyRequests, poolVars, ethBalances, swept, integral>>
  BY DEF Donate, CanPay
<1>3. /\ balances' \in Holdings
      /\ \A c \in Assets : balances'[c][Amm] = balances[c][Amm] + (IF c = t THEN Received(t, n) ELSE 0)
  BY <1>1, <1>2, MovedIn
<1>4. TypeOK'
  BY <1>1, <1>2, <1>3 DEF TypeOK, Holdings, roleVars, poolVars
<1>5. \A c : Owed(c)' = Owed(c)
  BY <1>2 DEF Owed, poolVars
<1>6. Backed'
  <2>1. Received(t, n) \in Nat
    BY <1>1, ReceivedIs
  <2> SUFFICES ASSUME NEW c \in Assets
               PROVE  /\ balances'[c][Amm] + swept'[c] >= Owed(c)'
                      /\ c = ETH => balances'[c][Amm] + swept'[c] = Owed(c)'
    BY DEF Backed
  <2>2. balances[c][Amm] \in Nat /\ swept[c] \in Nat /\ swept' = swept
    BY <1>1, <1>2 DEF TypeOK, Holdings
  <2>5. Owed(c) \in Int
    BY <1>1, OwedIsInt DEF Owed
  <2>3. /\ balances[c][Amm] + swept[c] >= Owed(c)
        /\ c = ETH => balances[c][Amm] + swept[c] = Owed(c)
    BY DEF IInv, Backed
  <2>4. QED BY <1>1, <1>3, <1>5, <2>1, <2>2, <2>3, <2>5
<1>7. QED BY <1>2, <1>4, <1>6, OnlyBalancesMove DEF poolVars

LEMMA WithdrawKeeps ==
  ASSUME IInv, NEW u \in Users, WithdrawEth(u)
  PROVE  IInv' /\ UNCHANGED <<reserve, totalLiquidity>>
<1>1. TypeOK /\ ETH \in Assets /\ balances \in Holdings /\ ethBalances[u] \in Nat
  BY DEF IInv, TypeOK, Holdings, Assets
<1>2. PICK n \in Nat : n = ethBalances[u]
  BY <1>1
<1>3. /\ balances[ETH][Amm] >= n /\ balances' = Moved(balances, ETH, Amm, u, n)
      /\ ethBalances' = [ethBalances EXCEPT ![u] = 0]
      /\ UNCHANGED <<now, roleVars, emergencyRequests, poolVars, swept, integral>>
  BY <1>2 DEF WithdrawEth, CanPay
<1>4. /\ balances' \in Holdings
      /\ \A c \in Assets : balances'[c][Amm] = balances[c][Amm] - (IF c = ETH THEN n ELSE 0)
  BY <1>1, <1>3, MovedOut
<1>5. TypeOK'
  BY <1>1, <1>3, <1>4 DEF TypeOK, Holdings, roleVars, poolVars
<1>6. SumOver(ethBalances', Users) = SumOver(ethBalances, Users) + (0 - n)
  BY <1>1, <1>2, <1>3, CreditsAfterStep
<1>7. Backed'
  <2> SUFFICES ASSUME NEW c \in Assets
               PROVE  /\ balances'[c][Amm] + swept'[c] >= Owed(c)'
                      /\ c = ETH => balances'[c][Amm] + swept'[c] = Owed(c)'
    BY DEF Backed
  <2> DEFINE s == SumOver([q \in Pools |-> reserve[q][c]], Pools)
             d == SumOver(ethBalances, Users)
             e == SumOver(ethBalances', Users)
  <2>1. s \in Int /\ d \in Int /\ e = d - n
    BY <1>1, <1>6, OwedIsInt
  <2>2. Owed(c) = s + (IF c = ETH THEN d ELSE 0) /\ Owed(c)' = s + (IF c = ETH THEN e ELSE 0)
    BY <1>3 DEF Owed, poolVars
  <2> HIDE DEF s, d, e
  <2>3. balances[c][Amm] \in Nat /\ swept[c] \in Nat /\ swept' = swept
    BY <1>1, <1>3 DEF TypeOK, Holdings
  <2>4. /\ balances[c][Amm] + swept[c] >= Owed(c)
        /\ c = ETH => balances[c][Amm] + swept[c] = Owed(c)
    BY DEF IInv, Backed
  <2>5. QED BY <1>4, <2>1, <2>2, <2>3, <2>4
<1>8. QED BY <1>3, <1>5, <1>7, OnlyBalancesMove DEF poolVars

LEMMA CreateKeeps ==
  ASSUME IInv, NEW p \in Pools, CreatePool(p)
  PROVE  IInv' /\ UNCHANGED <<reserve, totalLiquidity>>
<1> DEFINE first == [timestamp |-> now, cumulative |-> None]
<1>1. TypeOK /\ now \in Nat /\ created \subseteq Pools
  BY DEF IInv, TypeOK
<1>2. /\ p \notin created /\ created' = created \cup {p}
      /\ observation' = [observation EXCEPT ![p] = first]
      /\ UNCHANGED <<now, roleVars, emergencyRequests, reserve, totalLiquidity,
                     liquidityBalances, assetVars, swept, integral>>
  BY DEF CreatePool
<1>3. /\ first \in [timestamp : Nat, cumulative : [Assets -> Nat]]
      /\ first.timestamp = now /\ \A a \in Assets : first.cumulative[a] = 0
  BY <1>1 DEF None
<1> HIDE DEF first
<1>4. TypeOK'
  BY <1>1, <1>2, <1>3 DEF TypeOK, roleVars, assetVars
<1>5. \A q \in Pools : observation'[q] = IF q = p THEN first ELSE observation[q]
  BY <1>1, <1>2 DEF TypeOK
<1>6. Uncreated' /\ Elsewhere' /\ SharesAddUp'
  BY <1>2 DEF IInv, Uncreated, Elsewhere, SharesAddUp
<1>7. ObservedBefore'
  BY <1>1, <1>2, <1>3, <1>5 DEF IInv, ObservedBefore
<1>8. SharesAreBacked' /\ Backed'
  BY <1>2 DEF IInv, SharesAreBacked, Backed, Owed, assetVars
<1>9. TwapIsIntegral'
  <2> SUFFICES ASSUME NEW q \in created', NEW a \in Assets, integral'[q][a] # Lost
               PROVE  (observation'[q].cumulative[a]
                         + Price(q, a)' * (now' - observation'[q].timestamp)) % Word
                        = integral'[q][a] % Word
    BY DEF TwapIsIntegral
  <2>1. Price(q, a)' = Price(q, a) /\ now' = now /\ integral' = integral /\ q \in Pools
    BY <1>1, <1>2 DEF Price, Product
  <2>2. CASE q = p
    <3>1. integral[p][a] = 0
      BY <1>2 DEF IInv, Uncreated
    <3>2. Price(p, a) \in Nat
      <4>1. Price(p, a) = PriceAt(reserve[p], p, a) /\ reserve[p] \in [Assets -> Nat]
        BY <1>1 DEF Price, Product, PriceAt, TypeOK
      <4>2. QED BY <4>1, PriceIsNat
    <3> DEFINE price == Price(p, a)
    <3> HIDE DEF price
    <3>3. price * (now - now) = 0
      BY <1>1, <3>2, Z3 DEF price
    <3>4. 0 + price * (now - now) = 0
      BY <3>3
    <3>5. QED BY <1>3, <1>5, <2>1, <2>2, <3>1, <3>4 DEF price
  <2>3. CASE q # p
    <3>1. q \in created /\ observation'[q] = observation[q]
      BY <1>2, <1>5, <2>1, <2>3
    <3>2. QED BY <2>1, <3>1 DEF IInv, TwapIsIntegral
  <2>4. QED BY <2>2, <2>3
<1>10. QED BY <1>2, <1>4, <1>6, <1>7, <1>8, <1>9 DEF IInv

\* The accumulator after d more seconds at a price.
Wrapped(x) == x % Word

Accumulated(c, price, d) == Wrapped(c + price * d)

LEMMA WrappedShifts ==
  ASSUME NEW x \in Nat, NEW y \in Nat, NEW d \in Nat, Wrapped(x) = Wrapped(y)
  PROVE  Wrapped(x + d) = Wrapped(y + d)
<1> DEFINE W == Word
<1>1. W \in Nat /\ W # 0 /\ x % W = y % W
  BY NumberAssumption DEF Wrapped
<1> HIDE DEF W
<1>2. (x + d) % W = (y + d) % W
  BY <1>1, RemaindersShift
<1>3. QED BY <1>2 DEF W, Wrapped

LEMMA AccumulatesOnce ==
  ASSUME NEW c \in Nat, NEW price \in Nat, NEW d \in Nat, NEW i \in Nat,
         Accumulated(c, price, d) = Wrapped(i)
  PROVE  Accumulated(c, price, d + 1) = Wrapped(i + price)
<1> DEFINE e == c + price * d
<1>1. price * d \in Nat /\ price * (d + 1) = price * d + price
  BY TimesIsNat, Z3
<1>2. e \in Nat /\ c + price * (d + 1) = e + price
  BY <1>1
<1>3. Wrapped(e) = Wrapped(i)
  BY DEF Accumulated
<1> HIDE DEF e
<1>4. Wrapped(e + price) = Wrapped(i + price)
  BY <1>2, <1>3, WrappedShifts
<1>5. QED BY <1>2, <1>4 DEF Accumulated

\* A block passes: every price counts once more.
LEMMA TickKeeps ==
  ASSUME IInv, Tick
  PROVE  IInv' /\ UNCHANGED <<reserve, totalLiquidity>>
<1>1. TypeOK /\ now \in Nat /\ created \subseteq Pools
  BY DEF IInv, TypeOK
<1>2. /\ now' = now + 1
      /\ integral' = [p \in Pools |-> [a \in Assets |->
           IF integral[p][a] = Lost \/ Product(p, a) >= Word THEN Lost
           ELSE integral[p][a] + TruePrice(p, a)]]
      /\ UNCHANGED <<roleVars, emergencyRequests, poolVars, assetVars, swept>>
  BY DEF Tick
<1>3. \A p \in Pools, a \in Assets : Price(p, a) \in Nat /\ Price(p, a)' = Price(p, a)
  <2> SUFFICES ASSUME NEW p \in Pools, NEW a \in Assets
               PROVE  Price(p, a) \in Nat /\ Price(p, a)' = Price(p, a)
    OBVIOUS
  <2>1. Price(p, a) = PriceAt(reserve[p], p, a) /\ reserve[p] \in [Assets -> Nat]
    BY <1>1 DEF Price, Product, PriceAt, TypeOK
  <2>2. Price(p, a)' = Price(p, a)
    BY <1>2 DEF Price, Product, poolVars
  <2>3. QED BY <2>1, <2>2, PriceIsNat
<1>4. /\ integral' \in [Pools -> [Assets -> Nat \cup {Lost}]]
      /\ \A p \in Pools, a \in Assets : integral'[p][a] # Lost =>
           integral[p][a] \in Nat /\ integral'[p][a] = integral[p][a] + Price(p, a)
  <2>1. ASSUME NEW p \in Pools, NEW a \in Assets, integral[p][a] # Lost, ~ (Product(p, a) >= Word)
        PROVE  integral[p][a] \in Nat /\ TruePrice(p, a) = Price(p, a)
    <3>1. integral[p][a] \in Nat
      BY <1>1, <2>1 DEF TypeOK
    <3>2. CASE a \in p
      <4>1. Other(p, a) \in Assets /\ reserve[p] \in [Assets -> Nat]
        BY <1>1, <3>2, PoolIsPair DEF TypeOK
      <4>2. Product(p, a) \in Nat
        BY <4>1, NumberAssumption, TimesIsNat DEF Product
      <4>3. Product(p, a) % Word = Product(p, a)
        <5> DEFINE x == Product(p, a)
                   W == Word
        <5>1. x \in Nat /\ W \in Nat /\ W # 0 /\ ~ (x >= W)
          BY <2>1, <4>2, NumberAssumption
        <5> HIDE DEF x, W
        <5>2. x < W
          BY <5>1
        <5>3. x % W = x
          BY <5>1, <5>2, RemainderOfLess
        <5>4. QED BY <5>3 DEF x, W
      <4>4. QED BY <3>1, <4>3 DEF TruePrice, Price
    <3>3. QED BY <3>1, <3>2 DEF TruePrice, Price
  <2>2. ASSUME NEW p \in Pools, NEW a \in Assets
        PROVE  /\ integral'[p][a] \in Nat \cup {Lost}
               /\ integral'[p][a] # Lost =>
                    integral[p][a] \in Nat /\ integral'[p][a] = integral[p][a] + Price(p, a)
    <3>1. CASE integral[p][a] = Lost \/ Product(p, a) >= Word
      BY <1>2, <3>1
    <3>2. CASE ~ (integral[p][a] = Lost \/ Product(p, a) >= Word)
      <4>1. integral'[p][a] = integral[p][a] + TruePrice(p, a)
        BY <1>2, <3>2
      <4>2. QED BY <1>3, <2>1, <3>2, <4>1
    <3>3. QED BY <3>1, <3>2
  <2>3. DOMAIN integral' = Pools /\ \A p \in Pools : integral'[p] = [a \in Assets |-> integral'[p][a]]
    BY <1>2
  <2>4. integral' = [p \in Pools |-> integral'[p]]
    BY <1>2
  <2>5. QED BY <2>2, <2>3, <2>4
<1>5. TypeOK'
  <2>1. now' \in Nat
    BY <1>1, <1>2
  <2>2. QED BY <1>1, <1>2, <1>4, <2>1 DEF TypeOK, roleVars, poolVars, assetVars
<1>6. Uncreated'
  <2> SUFFICES ASSUME NEW p \in Pools, p \notin created
               PROVE  /\ totalLiquidity'[p] = 0
                      /\ \A a \in Assets : reserve'[p][a] = 0 /\ integral'[p][a] = 0
    BY <1>2 DEF Uncreated, poolVars
  <2>1. totalLiquidity[p] = 0 /\ \A a \in Assets : reserve[p][a] = 0 /\ integral[p][a] = 0
    BY DEF IInv, Uncreated
  <2>2. \A a \in Assets : Price(p, a) = 0
    <3> SUFFICES ASSUME NEW a \in Assets PROVE Price(p, a) = 0
      OBVIOUS
    <3>1. a \in p => ~ (\A b \in p : reserve[p][b] > 0)
      BY <2>1
    <3>2. QED BY <3>1 DEF Price
  <2>3. \A a \in Assets : Product(p, a) = 0 /\ TruePrice(p, a) = 0 /\ Word > 0
    <3> SUFFICES ASSUME NEW a \in Assets PROVE Product(p, a) = 0 /\ TruePrice(p, a) = 0
      BY NumberAssumption
    <3>1. Other(p, a) \in Assets
      BY PoolsHaveOthers
    <3>2. reserve[p][Other(p, a)] = 0
      BY <2>1, <3>1
    <3>3. Product(p, a) = 0
      BY <3>2, NumberAssumption DEF Product
    <3>4. QED BY <2>1, <3>3 DEF TruePrice
  <2>4. ASSUME NEW a \in Assets PROVE integral'[p][a] = 0
    <3>1. integral[p][a] # Lost /\ ~ (Product(p, a) >= Word)
      BY <2>1, <2>3, NumberAssumption DEF Lost
    <3>2. integral'[p][a] = integral[p][a] + TruePrice(p, a)
      BY <1>2, <3>1
    <3>3. QED BY <2>1, <2>3, <3>2
  <2>5. QED BY <1>2, <2>1, <2>4 DEF poolVars
<1>7. Elsewhere' /\ SharesAddUp' /\ ObservedBefore'
  <2>1. \A p \in created : observation[p].timestamp \in Nat
    BY <1>1 DEF TypeOK
  <2>2. QED BY <1>1, <1>2, <2>1 DEF IInv, Elsewhere, SharesAddUp, ObservedBefore, poolVars
<1>8. SharesAreBacked' /\ Backed'
  BY <1>2 DEF IInv, SharesAreBacked, Backed, Owed, poolVars, assetVars
<1>9. TwapIsIntegral'
  <2> DEFINE c(p, a) == observation[p].cumulative[a]
             t(p) == observation[p].timestamp
  <2>1. ASSUME NEW p \in created, NEW a \in Assets
        PROVE  integral'[p][a] # Lost =>
                 Accumulated(c(p, a), Price(p, a), now' - t(p)) = Wrapped(integral'[p][a])
    <3> SUFFICES ASSUME integral'[p][a] # Lost
                 PROVE  Accumulated(c(p, a), Price(p, a), now' - t(p)) = Wrapped(integral'[p][a])
      OBVIOUS
    <3> DEFINE d == now - t(p)
    <3>1. /\ c(p, a) \in Nat /\ t(p) \in Nat /\ t(p) <= now
          /\ Price(p, a) \in Nat /\ integral[p][a] \in Nat /\ p \in Pools
      BY <1>1, <1>3, <1>4 DEF TypeOK, IInv, ObservedBefore
    <3>2. Accumulated(c(p, a), Price(p, a), d) = Wrapped(integral[p][a])
      BY <3>1 DEF IInv, TwapIsIntegral, Accumulated, Wrapped, Lost
    <3>3. integral'[p][a] = integral[p][a] + Price(p, a)
      BY <1>4, <3>1
    <3>4. d \in Nat /\ now' - t(p) = d + 1
      <4>1. now \in Nat /\ now' = now + 1 /\ t(p) \in Nat /\ t(p) <= now
        BY <1>1, <1>2, <3>1
      <4> HIDE DEF t
      <4>2. QED BY <4>1
    <3> HIDE DEF c, t, d
    <3>5. QED BY <3>1, <3>2, <3>3, <3>4, AccumulatesOnce
  <2>2. created' = created /\ observation' = observation
    BY <1>2 DEF poolVars
  <2>3. \A p \in created, a \in Assets : Price(p, a)' = Price(p, a)
    BY <1>1, <1>3
  <2>4. \A p \in created, a \in Assets :
          integral'[p][a] # Lost =>
            Accumulated(observation'[p].cumulative[a], Price(p, a)', now' - observation'[p].timestamp)
              = Wrapped(integral'[p][a])
    BY <2>1, <2>2, <2>3
  <2>5. QED BY <2>2, <2>4 DEF TwapIsIntegral, Accumulated, Wrapped
<1>10. QED BY <1>2, <1>5, <1>6, <1>7, <1>8, <1>9 DEF IInv, poolVars

-----------------------------------------------------------------------------
(* Every step *)

LEMMA InitKeeps == Init => IInv
<1>1. SUFFICES ASSUME Init PROVE IInv
  OBVIOUS
<1>2. TypeOK
  <2>1. balances \in [Assets -> [Users \cup {Amm} -> Nat]]
    BY <1>1, NumberAssumption DEF Init
  <2>2. owner \in Users /\ pendingOwner \in Holders
    BY <1>1, AddressAssumption DEF Init, Holders
  <2>3. emergencyRequests \in Seq(EmergencyRequest)
    BY <1>1 DEF Init
  <2>4. QED BY <1>1, <2>1, <2>2, <2>3 DEF Init, TypeOK, None
<1>3. /\ \A p \in Pools, a \in Assets : reserve[p][a] = 0 /\ integral[p][a] = 0
      /\ \A p \in Pools : totalLiquidity[p] = 0
      /\ \A p \in Pools, x \in Holders : liquidityBalances[p][x] = 0
      /\ \A u \in Users : ethBalances[u] = 0
      /\ \A a \in Assets : balances[a][Amm] = 0 /\ swept[a] = 0
      /\ created = {}
  BY <1>1 DEF Init, None
<1>4. Uncreated /\ Elsewhere /\ ObservedBefore /\ TwapIsIntegral
  BY <1>3 DEF Uncreated, Elsewhere, ObservedBefore, TwapIsIntegral
<1>5. SharesAddUp
  <2>1. \A p \in Pools : SumOver(liquidityBalances[p], Holders) = 0
    BY <1>3, SumZero, PoolsAreFinite
  <2>2. QED BY <2>1, <1>3 DEF SharesAddUp
<1>6. SharesAreBacked
  BY <1>3 DEF SharesAreBacked
<1>7. Backed
  <2>1. SumOver(ethBalances, Users) = 0
    BY <1>3, SumZero, PoolsAreFinite
  <2>2. ASSUME NEW a \in Assets PROVE SumOver([p \in Pools |-> reserve[p][a]], Pools) = 0
    <3> DEFINE f == [p \in Pools |-> reserve[p][a]]
    <3>1. \A p \in Pools : f[p] = 0
      BY <1>3
    <3> HIDE DEF f
    <3>2. SumOver(f, Pools) = 0
      BY <3>1, SumZero, PoolsAreFinite
    <3>3. QED BY <3>2 DEF f
  <2>3. QED BY <2>1, <2>2, <1>3 DEF Backed, Owed
<1>8. QED BY <1>2, <1>4, <1>5, <1>6, <1>7 DEF IInv

\* A step leaves reserves and totals alone, or changes those of one pool.
PoolStays == UNCHANGED <<reserve, totalLiquidity>>

SomePoolChanges == \E p \in Pools, u \in Users :
                     \E res, total, shares, credit : PoolChange(p, u, res, total, shares, credit)

LEMMA PoolSteps ==
  ASSUME IInv, NEW u \in Users, PoolStep(u)
  PROVE  SomePoolChanges \/ (IInv' /\ PoolStays)
<1>1. CASE \E p \in Pools : CreatePool(p)
  BY <1>1, CreateKeeps DEF PoolStays
<1>2. CASE WithdrawEth(u)
  BY <1>2, WithdrawKeeps DEF PoolStays
<1>3. ASSUME NEW p \in Pools, NEW n \in Amounts, NEW min \in Minimums,
             \/ \E a \in p, m \in Amounts :
                  Other(p, a) # ETH /\ AddLiquidity(u, a, Other(p, a), n, m, min, min)
             \/ RemoveLiquidity(u, p, n, [a \in p |-> min])
             \/ \E a \in p : Swap(u, a, Other(p, a), n, min)
      PROVE  SomePoolChanges
  <2>1. Amounts \subseteq Nat
    BY NumberAssumption
  <2>2. ASSUME NEW a \in p, NEW m \in Amounts, Other(p, a) # ETH,
               AddLiquidity(u, a, Other(p, a), n, m, min, min)
        PROVE  SomePoolChanges
    <3>1. n \in Nat /\ m \in Nat
      BY <2>1
    <3>2. \E res, total, shares, credit : PoolChange(p, u, res, total, shares, credit)
      BY <2>2, <3>1, AddIsChange
    <3>3. QED BY <3>2 DEF SomePoolChanges
  <2>3. ASSUME RemoveLiquidity(u, p, n, [a \in p |-> min]) PROVE SomePoolChanges
    <3>1. \E res, total, shares, credit : PoolChange(p, u, res, total, shares, credit)
      BY <2>1, <2>3, RemoveIsChange
    <3>2. QED BY <3>1 DEF SomePoolChanges
  <2>4. ASSUME NEW a \in p, Swap(u, a, Other(p, a), n, min) PROVE SomePoolChanges
    <3>1. \E res, total, shares, credit : PoolChange(p, u, res, total, shares, credit)
      BY <2>1, <2>4, SwapIsChange
    <3>2. QED BY <3>1 DEF SomePoolChanges
  <2>5. QED BY <1>3, <2>2, <2>3, <2>4
<1>4. QED BY <1>1, <1>2, <1>3 DEF PoolStep

LEMMA EveryStep ==
  ASSUME IInv, [Next]_vars
  PROVE  SomePoolChanges \/ (IInv' /\ PoolStays)
<1>1. CASE UNCHANGED vars
  <2>1. TypeOK' /\ UNCHANGED <<now, poolVars, assetVars, swept, integral>> /\ PoolStays
    BY <1>1 DEF IInv, TypeOK, vars, poolVars, assetVars, roleVars, PoolStays
  <2>2. QED BY <2>1, PoolsRest
<1>2. CASE Tick
  BY <1>2, TickKeeps DEF PoolStays
<1>3. ASSUME NEW u \in Users, OwnerStep(u) PROVE IInv' /\ PoolStays
  BY <1>3, OwnerSteps DEF PoolStays
<1>4. ASSUME NEW u \in Users, PoolStep(u) PROVE SomePoolChanges \/ (IInv' /\ PoolStays)
  BY <1>4, PoolSteps
<1>5. ASSUME NEW u \in Users, NEW t \in Tokens, NEW n \in Gifts, Donate(u, t, n)
      PROVE  IInv' /\ PoolStays
  <2>1. n \in Nat
    BY NumberAssumption
  <2>2. QED BY <2>1, <1>5, DonateKeeps DEF PoolStays
<1>6. QED BY <1>1, <1>2, <1>3, <1>4, <1>5 DEF Next

LEMMA StepKeeps == IInv /\ [Next]_vars => IInv'
<1>1. SUFFICES ASSUME IInv, [Next]_vars, SomePoolChanges PROVE IInv'
  BY EveryStep
<1>2. PICK p \in Pools, u \in Users :
        \E res, total, shares, credit : PoolChange(p, u, res, total, shares, credit)
  BY <1>1 DEF SomePoolChanges
<1>3. PICK res, total, shares, credit : PoolChange(p, u, res, total, shares, credit)
  BY <1>2
<1>4. QED BY <1>1, <1>3, ChangeKeeps

LEMMA Invariance == Spec => []IInv
<1>1. QED BY InitKeeps, StepKeeps, PTL DEF Spec

\* The product per squared share, for one pool and one of its assets.
Kept(p, a) ==
  totalLiquidity[p] > 0 =>
    reserve'[p][a] * reserve'[p][Other(p, a)] * totalLiquidity[p] * totalLiquidity[p]
      >= reserve[p][a] * reserve[p][Other(p, a)] * totalLiquidity'[p] * totalLiquidity'[p]

LEMMA KeptIfUnchanged ==
  ASSUME IInv, NEW p \in Pools, NEW a \in p,
         reserve'[p] = reserve[p], totalLiquidity'[p] = totalLiquidity[p]
  PROVE  Kept(p, a)
<1> DEFINE P == reserve[p][a] * reserve[p][Other(p, a)]
           T == totalLiquidity[p]
<1>1. P \in Nat /\ T \in Nat
  <2>1. a \in Assets /\ Other(p, a) \in Assets
    BY PoolIsPair
  <2>2. reserve[p][a] \in Nat /\ reserve[p][Other(p, a)] \in Nat /\ T \in Nat
    BY <2>1 DEF IInv, TypeOK
  <2>3. QED BY <2>2, TimesIsNat
<1>2. reserve'[p][a] * reserve'[p][Other(p, a)] = P /\ totalLiquidity'[p] = T
  OBVIOUS
<1> HIDE DEF P, T
<1>3. P * T * T >= P * T * T
  BY <1>1, ProductKeepsShares
<1>4. QED BY <1>2, <1>3 DEF Kept, P, T

LEMMA StepLosesNothing == IInv /\ [Next]_vars => \A p \in Pools : \A a \in p : Kept(p, a)
<1>1. SUFFICES ASSUME IInv, [Next]_vars, NEW q \in Pools, NEW a \in q PROVE Kept(q, a)
  OBVIOUS
<1>2. CASE PoolStays
  BY <1>1, <1>2, KeptIfUnchanged DEF PoolStays
<1>3. CASE SomePoolChanges
  <2>1. PICK p \in Pools, u \in Users :
          \E res, total, shares, credit : PoolChange(p, u, res, total, shares, credit)
    BY <1>3 DEF SomePoolChanges
  <2>2. PICK res, total, shares, credit : PoolChange(p, u, res, total, shares, credit)
    BY <2>1
  <2>3. /\ reserve' = [reserve EXCEPT ![p] = res]
        /\ totalLiquidity' = [totalLiquidity EXCEPT ![p] = total]
        /\ NoShareLoses(p, res, total)
    BY <2>2 DEF PoolChange
  <2>4. /\ \A r \in Pools : reserve'[r] = IF r = p THEN res ELSE reserve[r]
        /\ \A r \in Pools : totalLiquidity'[r] = IF r = p THEN total ELSE totalLiquidity[r]
    BY <2>3, <1>1 DEF IInv, TypeOK
  <2>5. CASE q = p
    BY <2>3, <2>4, <2>5, <1>1 DEF NoShareLoses, Kept
  <2>6. CASE q # p
    BY <2>4, <2>6, <1>1, KeptIfUnchanged
  <2>7. QED BY <2>5, <2>6
<1>4. QED BY <1>1, <1>2, <1>3, EveryStep

-----------------------------------------------------------------------------
(* Results for the constant-product market *)

(***************************************************************************)
(* The state of the market keeps its types: no reserve, share, credit or   *)
(* balance ever goes below zero, so no checked subtraction of the contract *)
(* that follows its guards reverts.                                        *)
(***************************************************************************)
THEOREM TypesHold == Spec => []TypeOK
<1>1. IInv => TypeOK
  BY DEF IInv
<1>2. QED BY <1>1, Invariance, PTL

(***************************************************************************)
(* The one balance of an asset covers the reserves of all pools and the    *)
(* credits, for every tax and every rounding: each deposit books what      *)
(* arrives, and each payment is what leaves the books.                     *)
(***************************************************************************)
THEOREM ReservesAreBacked == Spec => []Backed
<1>1. IInv => Backed
  BY DEF IInv
<1>2. QED BY <1>1, Invariance, PTL

(***************************************************************************)
(* A share is backed by a unit of the reserves' geometric mean, and the    *)
(* minimum burned by the first deposit stays burned: the first root is     *)
(* rounded down, whatever Newton's iteration passes through.               *)
(***************************************************************************)
THEOREM SharesStayBacked == Spec => []SharesAreBacked
<1>1. IInv => SharesAreBacked
  BY DEF IInv
<1>2. QED BY <1>1, Invariance, PTL

(***************************************************************************)
(* The accumulator of the oracle, brought up to date, is the integral of   *)
(* the price modulo its wrap, though it is only written by trades.         *)
(***************************************************************************)
THEOREM OracleAddsUp == Spec => []TwapIsIntegral
<1>1. IInv => TwapIsIntegral
  BY DEF IInv
<1>2. QED BY <1>1, Invariance, PTL

(***************************************************************************)
(* The product of the reserves per squared share never falls: every        *)
(* quotient of a deposit, a withdrawal and a swap is rounded for the pool. *)
(***************************************************************************)
THEOREM SharesNeverLose == Spec => ShareNeverLoses
<1>1. IInv /\ [Next]_vars =>
        [\A p \in Pools : \A a \in p :
           LET b == Other(p, a) IN
           totalLiquidity[p] > 0 =>
             reserve'[p][a] * reserve'[p][b] * totalLiquidity[p] * totalLiquidity[p]
               >= reserve[p][a] * reserve[p][b] * totalLiquidity'[p] * totalLiquidity'[p]]_vars
  BY StepLosesNothing DEF Kept
<1>2. QED BY <1>1, Invariance, PTL DEF Spec, ShareNeverLoses

-----------------------------------------------------------------------------
(* Swapping back, and who pays *)

\* Of what goes in, the part after the fee buys no more than the curve allows.
LEMMA AmountOutKeepsProduct ==
  ASSUME NEW n \in Nat, NEW r \in Nat, NEW s \in Nat, r # 0, s # 0
  PROVE  LET out == AmountOut(n, r, s)
         IN out \in Nat /\ out < s /\ (r + n) * (s - out) >= r * s
<1> DEFINE D == FeeDenominator
           d == FeeDenominator - FeeNumerator
           w == n * d
           q == r * D + w
           out == (w * s) \div q
<1>1. AmountOut(n, r, s) = out
  BY DEF AmountOut
<1>2. d \in Nat /\ D \in Nat /\ d <= D /\ D > 0
  BY NumberAssumption
<1> HIDE DEF d, D
<1>3. w \in Nat /\ r * D \in Nat /\ r * D > 0 /\ w <= n * D /\ n * D \in Nat
  BY <1>2, TimesIsNat, Z3
<1>4. q \in Nat /\ q # 0 /\ w * s \in Nat
  BY <1>3, TimesIsNat
<1>5. out \in Nat /\ out * q <= w * s
  BY <1>4, QuotientIsFloor
<1> HIDE DEF out, q
<1>6. out < s
  <2>1. out >= s => out * q >= s * q
    BY <1>4, <1>5, Z3
  <2>2. s * q = (r * D) * s + w * s /\ (r * D) * s > 0
    BY <1>3, Z3 DEF q
  <2>3. out * q \in Nat /\ s * q \in Nat /\ (r * D) * s \in Nat
    BY <1>3, <1>4, <1>5, TimesIsNat
  <2>4. QED BY <1>4, <1>5, <2>1, <2>2, <2>3
<1>7. (out * r) * D <= w * (s - out)
  <2>1. out * q = (out * r) * D + w * out /\ w * (s - out) = w * s - w * out
    BY <1>2, <1>3, <1>5, Z3 DEF q
  <2>2. (out * r) * D \in Nat /\ w * out \in Nat
    BY <1>2, <1>3, <1>5, TimesIsNat
  <2>3. QED BY <1>4, <1>5, <2>1, <2>2
<1>8. w * (s - out) <= (n * (s - out)) * D
  <2>1. s - out \in Nat
    BY <1>5, <1>6
  <2>2. w * (s - out) <= (n * D) * (s - out)
    BY <1>3, <2>1, Z3
  <2>3. (n * D) * (s - out) = (n * (s - out)) * D
    BY <1>2, <2>1, Z3
  <2>4. QED BY <2>2, <2>3
<1>9. out * r <= n * (s - out)
  <2> DEFINE x == out * r
             y == n * (s - out)
             z == w * (s - out)
  <2>1. s - out \in Nat
    BY <1>5, <1>6
  <2>2. x \in Nat /\ y \in Nat /\ z \in Nat
    BY <1>3, <1>5, <2>1, TimesIsNat
  <2>3. x * D <= z /\ z <= y * D
    BY <1>7, <1>8
  <2> HIDE DEF x, y, z
  <2>4. x * D \in Nat /\ y * D \in Nat
    BY <1>2, <2>2, TimesIsNat
  <2>5. x * D <= y * D
    BY <2>2, <2>3, <2>4
  <2>6. x <= y
    BY <1>2, <2>2, <2>5, Z3
  <2>7. QED BY <2>6 DEF x, y
<1>10. (r + n) * (s - out) >= r * s
  <2>1. (r + n) * (s - out) = r * s - out * r + n * (s - out)
    BY <1>5, <1>6, Z3
  <2>2. r * s \in Nat /\ out * r \in Nat /\ n * (s - out) \in Int
    BY <1>5, <1>6, TimesIsNat
  <2>3. QED BY <1>9, <2>1, <2>2
<1>11. QED BY <1>1, <1>5, <1>6, <1>10

\* What a swap pays is never all the pool has and never breaks the product the
\* contract checks afterwards, and to swap it back pays no more than went in.
SwapBackPaysNoMore ==
  \A p \in Pools : \A a \in p, n \in Nat :
    LET r   == reserve[p][a]
        s   == reserve[p][Other(p, a)]
        out == AmountOut(n, r, s)
    IN r # 0 /\ s # 0 =>
         /\ out < s /\ (r + n) * (s - out) >= r * s
         /\ AmountOut(out, s - out, r + n) <= n

LEMMA BackAndForth ==
  ASSUME NEW n \in Nat, NEW r \in Nat, NEW s \in Nat, r # 0, s # 0
  PROVE  LET out == AmountOut(n, r, s)
         IN AmountOut(out, s - out, r + n) <= n
<1> DEFINE out  == AmountOut(n, r, s)
           back == AmountOut(out, s - out, r + n)
<1>1. out \in Nat /\ out < s /\ (r + n) * (s - out) >= r * s
  BY AmountOutKeepsProduct
<1> HIDE DEF out
<1>2. /\ s - out \in Nat /\ s - out # 0 /\ r + n \in Nat /\ r + n # 0
      /\ (s - out) + out = s
  BY <1>1
<1>3. back \in Nat /\ back < r + n
      /\ ((s - out) + out) * ((r + n) - back) >= (s - out) * (r + n)
  BY <1>1, <1>2, AmountOutKeepsProduct
<1> HIDE DEF back
<1> DEFINE left == (r + n) - back
<1>4. left \in Nat /\ s * left >= (s - out) * (r + n)
  BY <1>2, <1>3
<1>5. (s - out) * (r + n) = (r + n) * (s - out)
  BY <1>1, Z3
<1> HIDE DEF left
<1>6. s * left \in Nat /\ (r + n) * (s - out) \in Nat /\ r * s \in Nat
  BY <1>2, <1>4, TimesIsNat
<1>7. s * left >= r * s
  BY <1>1, <1>4, <1>5, <1>6
<1>8. left >= r
  BY <1>4, <1>7, Z3
<1>9. back <= n
  BY <1>3, <1>8 DEF left
<1>10. QED BY <1>9 DEF back, out

(***************************************************************************)
(* The quotient of getAmountOut is on the pool's side: the check of the    *)
(* product in swap never reverts one, and nobody gains by turning a swap   *)
(* around.                                                                 *)
(***************************************************************************)
THEOREM NothingGainedBySwappingBack == Spec => []SwapBackPaysNoMore
<1>1. ASSUME IInv PROVE SwapBackPaysNoMore
  <2>1. SUFFICES ASSUME NEW p \in Pools, NEW a \in p, NEW n \in Nat,
                        reserve[p][a] # 0, reserve[p][Other(p, a)] # 0
                 PROVE  LET r   == reserve[p][a]
                            s   == reserve[p][Other(p, a)]
                            out == AmountOut(n, r, s)
                        IN /\ out < s /\ (r + n) * (s - out) >= r * s
                           /\ AmountOut(out, s - out, r + n) <= n
    BY DEF SwapBackPaysNoMore
  <2>2. a \in Assets /\ Other(p, a) \in Assets
    BY PoolIsPair
  <2>3. reserve[p][a] \in Nat /\ reserve[p][Other(p, a)] \in Nat
    BY <1>1, <2>2 DEF IInv, TypeOK
  <2>4. QED BY <2>1, <2>3, AmountOutKeepsProduct, BackAndForth
<1>2. QED BY <1>1, Invariance, PTL

\* The steps by which a user parts with assets: deposits, swaps and gifts.
SpendsBy(v) ==
  \/ \E p \in Pools, n \in Amounts, min \in Minimums : \E a \in p :
       \/ \E m \in Amounts : AddLiquidity(v, a, Other(p, a), n, m, min, min)
       \/ Swap(v, a, Other(p, a), n, min)
  \/ \E t \in Tokens, n \in Gifts : Donate(v, t, n)

\* The steps by which a user parts with shares.
LeavesBy(v, p) ==
  \E n \in Amounts, min \in Minimums : RemoveLiquidity(v, p, n, [a \in p |-> min])

\* All a user has of an asset, credited ETH included.
Owns(v, a) == balances[a][v] + (IF a = ETH THEN ethBalances[v] ELSE 0)

AssetsOnlySpent(v) == \A a \in Assets : Owns(v, a)' < Owns(v, a) => SpendsBy(v)

SharesOnlyLeft(v) ==
  \A p \in Pools : liquidityBalances'[p][v] < liquidityBalances[p][v] => LeavesBy(v, p)

OnlyUseCosts == [][\A v \in Users : AssetsOnlySpent(v) /\ SharesOnlyLeft(v)]_vars

\* A step after which user v has as much of everything as before.
KeepsAssets(v) ==
  \A a \in Assets : balances'[a][v] >= balances[a][v] /\ ethBalances'[v] >= ethBalances[v]

KeepsShares(v) == \A p \in Pools : liquidityBalances'[p][v] >= liquidityBalances[p][v]

LEMMA UserTypes ==
  ASSUME IInv, NEW v \in Users
  PROVE  /\ balances \in Holdings /\ ethBalances \in [Users -> Nat]
         /\ \A a \in Assets : balances[a][v] \in Nat
         /\ ethBalances[v] \in Nat /\ v \in Holders /\ v # NoOne /\ v # Amm
         /\ \A p \in Pools : liquidityBalances[p] \in [Holders -> Nat]
         /\ \A p \in Pools : liquidityBalances[p][v] \in Nat
<1>1. /\ balances \in Holdings /\ ethBalances \in [Users -> Nat]
      /\ liquidityBalances \in [Pools -> [Holders -> Nat]]
  BY DEF IInv, TypeOK, Holdings
<1>2. v \in Users \cup {Amm} /\ v \in Holders /\ v # NoOne /\ v # Amm
  BY AddressAssumption, HoldersAndUsers
<1>3. (\A a \in Assets : balances[a][v] \in Nat) /\ ethBalances[v] \in Nat
  BY <1>1, <1>2 DEF Holdings
<1>4. \A p \in Pools : liquidityBalances[p] \in [Holders -> Nat] /\ liquidityBalances[p][v] \in Nat
  BY <1>1, <1>2
<1>5. QED BY <1>1, <1>2, <1>3, <1>4

LEMMA KeptIsNotSpent ==
  ASSUME IInv, IInv', NEW v \in Users, KeepsAssets(v)
  PROVE  AssetsOnlySpent(v)
<1>1. ASSUME NEW a \in Assets PROVE ~ (Owns(v, a)' < Owns(v, a))
  <2>1. /\ balances[a][v] \in Nat /\ ethBalances[v] \in Nat
        /\ balances'[a][v] \in Nat /\ ethBalances'[v] \in Nat
    BY DEF IInv, TypeOK
  <2>2. QED BY <2>1 DEF KeepsAssets, Owns
<1>2. QED BY <1>1 DEF AssetsOnlySpent

LEMMA KeptIsNotLeft ==
  ASSUME IInv, IInv', NEW v \in Users, KeepsShares(v)
  PROVE  SharesOnlyLeft(v)
<1>1. \A p \in Pools : liquidityBalances[p][v] \in Nat /\ liquidityBalances'[p][v] \in Nat
  BY HoldersAndUsers DEF IInv, TypeOK
<1>2. QED BY <1>1 DEF KeepsShares, SharesOnlyLeft

LEMMA SharesUntouched ==
  ASSUME IInv, NEW v \in Users, liquidityBalances' = liquidityBalances
  PROVE  KeepsShares(v)
<1>1. \A p \in Pools : liquidityBalances[p][v] \in Nat
  BY UserTypes
<1>2. QED BY <1>1 DEF KeepsShares

LEMMA AssetsUntouched ==
  ASSUME IInv, NEW v \in Users, UNCHANGED assetVars
  PROVE  KeepsAssets(v)
<1>1. (\A a \in Assets : balances[a][v] \in Nat) /\ ethBalances[v] \in Nat
  BY UserTypes
<1>2. QED BY <1>1 DEF KeepsAssets, assetVars

\* What the contract pays one user takes from no other.
LEMMA PaidOutIs ==
  ASSUME NEW b \in Holdings, NEW a \in Assets, NEW u \in Users, NEW n \in Nat, b[a][Amm] >= n,
         NEW c \in Assets, NEW v \in Users
  PROVE  Moved(b, a, Amm, u, n)[c][v] = b[c][v] + (IF c = a /\ v = u THEN Received(a, n) ELSE 0)
<1> DEFINE r  == Received(a, n)
           v1 == b[a][Amm] - n
           m1 == [b EXCEPT ![a][Amm] = v1]
           v2 == m1[a][u] + r
           m2 == [m1 EXCEPT ![a][u] = v2]
<1>1. Moved(b, a, Amm, u, n) = m2
  BY DEF Moved
<1>2. Amm # u /\ Amm # v /\ r \in Nat
  BY AddressAssumption, ReceivedIs
<1> HIDE DEF r
<1>3. v1 \in Nat
  BY DEF Holdings
<1> HIDE DEF v1
<1>4. /\ m1 \in Holdings
      /\ \A d \in Assets, x \in Users \cup {Amm} :
           m1[d][x] = IF d = a /\ x = Amm THEN v1 ELSE b[d][x]
  BY <1>3, OneHolding
<1> HIDE DEF m1
<1>5. v2 \in Nat
  BY <1>2, <1>4 DEF Holdings
<1>6. v2 = b[a][u] + r
  BY <1>2, <1>4
<1> HIDE DEF v2
<1>7. /\ m2 \in Holdings
      /\ \A d \in Assets, x \in Users \cup {Amm} :
           m2[d][x] = IF d = a /\ x = u THEN v2 ELSE m1[d][x]
  BY <1>4, <1>5, OneHolding
<1> HIDE DEF m2
<1>8. m2[c][v] = b[c][v] + (IF c = a /\ v = u THEN r ELSE 0)
  <2>1. b[c][v] \in Nat
    BY DEF Holdings
  <2>2. QED BY <1>2, <1>4, <1>6, <1>7, <2>1
<1>9. QED BY <1>1, <1>8 DEF r

LEMMA OthersSwap ==
  ASSUME IInv, NEW u \in Users, NEW p \in Pools, NEW a \in p, NEW n \in Nat, NEW minimum,
         Swap(u, a, Other(p, a), n, minimum), NEW v \in Users, v # u
  PROVE  KeepsAssets(v) /\ liquidityBalances' = liquidityBalances
<1>0. PICK b : b = Other(p, a)
  OBVIOUS
<1>1. a \in Assets /\ b \in p /\ b \in Assets /\ b # a /\ {a, b} = p
  BY <1>0, PoolIsPair
<1> DEFINE in == Received(a, n)
           out == AmountOut(in, reserve[p][a], reserve[p][b])
           paid == Moved(balances, a, u, Amm, n)
<1>2. /\ balances[a][u] >= n /\ reserve[p][a] # 0
      /\ \/ b = ETH /\ ethBalances' = [ethBalances EXCEPT ![u] = @ + out] /\ balances' = paid
         \/ b # ETH /\ paid[b][Amm] >= out /\ balances' = Moved(paid, b, Amm, u, out)
            /\ UNCHANGED ethBalances
      /\ liquidityBalances' = liquidityBalances
  BY <1>0, <1>1 DEF Swap, CanPay
<1>3. /\ balances \in Holdings /\ ethBalances \in [Users -> Nat]
      /\ \A c \in Assets : balances[c][v] \in Nat
      /\ ethBalances[v] \in Nat /\ reserve[p][a] \in Nat /\ reserve[p][b] \in Nat
  <2>1. reserve \in [Pools -> [Assets -> Nat]]
    BY DEF IInv, TypeOK
  <2>2. reserve[p][a] \in Nat /\ reserve[p][b] \in Nat
    BY <1>1, <2>1
  <2>3. QED BY <2>2, UserTypes
<1>4. in \in Nat
  BY <1>1, ReceivedIs
<1> HIDE DEF in
<1>5. out \in Nat
  BY <1>2, <1>3, <1>4, AmountOutIsNat
<1> HIDE DEF out
<1>6. paid \in Holdings /\ \A c \in Assets : paid[c][v] = balances[c][v]
  BY <1>1, <1>2, <1>3, MovedIn
<1> HIDE DEF paid
<1>7. ethBalances'[v] = ethBalances[v]
  BY <1>2, <1>3
<1>8. \A c \in Assets : balances'[c][v] = balances[c][v]
  <2>1. CASE b = ETH
    BY <1>2, <1>6, <2>1
  <2>2. CASE b # ETH
    <3>1. balances' = Moved(paid, b, Amm, u, out) /\ paid[b][Amm] >= out
      BY <1>2, <2>2
    <3>2. \A c \in Assets : balances'[c][v] = paid[c][v] + 0
      BY <1>1, <1>5, <1>6, <3>1, PaidOutIs
    <3>3. QED BY <1>3, <1>6, <3>2
  <2>3. QED BY <2>1, <2>2
<1>9. QED BY <1>2, <1>3, <1>7, <1>8 DEF KeepsAssets

LEMMA Depositing ==
  ASSUME IInv, NEW u \in Users, NEW p \in Pools, NEW a \in p, NEW n \in Nat, NEW m \in Nat,
         NEW aMin, NEW bMin, Other(p, a) # ETH,
         AddLiquidity(u, a, Other(p, a), n, m, aMin, bMin), NEW v \in Users
  PROVE  KeepsShares(v) /\ (v # u => KeepsAssets(v))
<1>0. PICK b : b = Other(p, a)
  OBVIOUS
<1>1. a \in Assets /\ b \in p /\ b \in Assets /\ b # a /\ {a, b} = p /\ b # ETH
  BY <1>0, PoolIsPair
<1> DEFINE d1 == Optimal(p, a, b, n, m)[1]
           d2 == Optimal(p, a, b, n, m)[2]
           sent == IF a = ETH THEN n ELSE d1
           x == Received(a, d1)
           y == Received(b, d2)
           l == Minted(p, a, b, x, y)
           burned == IF totalLiquidity[p] = 0 THEN MinimumLiquidity ELSE 0
           paid == Moved(balances, a, u, Amm, sent)
           credit == ethBalances[u] + (sent - d1)
<1>2. /\ WithinLimits(p, Optimal(p, a, b, n, m), n, aMin, bMin)
      /\ balances[a][u] >= sent /\ balances[b][u] >= d2
      /\ MintLiquidity(p, u, a, b, x, y)
      /\ balances' = Moved(paid, b, u, Amm, d2)
      /\ ethBalances' = [ethBalances EXCEPT ![u] = credit]
  BY <1>0, <1>1 DEF AddLiquidity, CanPay
<1>3. /\ balances \in Holdings /\ ethBalances \in [Users -> Nat]
      /\ \A c \in Assets : balances[c][v] \in Nat
      /\ ethBalances[v] \in Nat /\ v \in Holders /\ v # NoOne
      /\ \A q \in Pools : liquidityBalances[q] \in [Holders -> Nat]
      /\ u \in Holders /\ u # NoOne /\ NoOne \in Holders
  BY UserTypes, HoldersAndUsers
<1>4. d1 \in Nat /\ d2 \in Nat
  BY <1>1, <1>2, OptimalIs
<1>5. l > 0 /\ liquidityBalances' = [liquidityBalances EXCEPT ![p][NoOne] = @ + burned, ![p][u] = @ + l]
  <2> HIDE DEF x, y
  <2>1. QED BY <1>2 DEF MintLiquidity
<1> HIDE DEF d1, d2
<1>6. sent \in Nat
  BY <1>4
<1>7. x \in Nat /\ y \in Nat
  BY <1>1, <1>4, ReceivedIs
<1> HIDE DEF x, y, sent
<1>8. l \in Nat /\ burned \in Nat
  BY <1>1, <1>5, <1>7, MintedIs, NumberAssumption
<1> HIDE DEF l, burned
<1>9. KeepsShares(v)
  <2> SUFFICES ASSUME NEW q \in Pools PROVE liquidityBalances'[q][v] >= liquidityBalances[q][v]
    BY DEF KeepsShares
  <2>1. liquidityBalances \in [Pools -> [Holders -> Nat]]
    BY DEF IInv, TypeOK
  <2> DEFINE f == liquidityBalances[p]
             h == f[NoOne] + burned
             g == [f EXCEPT ![NoOne] = h]
             k == f[u] + l
  <2>2. liquidityBalances' = [liquidityBalances EXCEPT ![p] = [g EXCEPT ![u] = k]]
    BY <1>3, <1>5, <2>1
  <2>3. f \in [Holders -> Nat] /\ f[v] \in Nat /\ k \in Nat /\ h \in Nat
    BY <1>3, <1>8
  <2>4. liquidityBalances'[q] = IF q = p THEN [g EXCEPT ![u] = k] ELSE liquidityBalances[q]
    BY <2>1, <2>2
  <2> HIDE DEF h, k
  <2>5. [g EXCEPT ![u] = k][v] = IF v = u THEN k ELSE f[v]
    BY <1>3, <2>3
  <2>6. k >= f[u]
    BY <1>3, <1>8 DEF k
  <2>7. liquidityBalances[q][v] \in Nat
    BY <1>3
  <2>8. QED BY <2>3, <2>4, <2>5, <2>6, <2>7
<1>10. ASSUME v # u PROVE KeepsAssets(v)
  <2>1. paid \in Holdings /\ paid[b][u] = balances[b][u]
        /\ \A c \in Assets : paid[c][v] = balances[c][v]
    BY <1>1, <1>2, <1>3, <1>6, <1>10, MovedIn
  <2> HIDE DEF paid
  <2>2. \A c \in Assets : balances'[c][v] = paid[c][v]
    BY <1>1, <1>2, <1>4, <1>10, <2>1, MovedIn
  <2>3. ethBalances'[v] = ethBalances[v]
    BY <1>2, <1>3, <1>10
  <2>4. QED BY <1>3, <2>1, <2>2, <2>3 DEF KeepsAssets
<1>11. QED BY <1>9, <1>10

LEMMA Leaving ==
  ASSUME IInv, NEW u \in Users, NEW p \in Pools, NEW l \in Nat, NEW minimum,
         RemoveLiquidity(u, p, l, minimum), NEW v \in Users
  PROVE  /\ KeepsAssets(v)
         /\ \A q \in Pools : v # u \/ q # p => liquidityBalances'[q][v] = liquidityBalances[q][v]
<1> DEFINE R == reserve[p]
           T == totalLiquidity[p]
           f == liquidityBalances[p]
           out == Burned(p, l)
<1>1. /\ R \in [Assets -> Nat] /\ T \in Nat /\ ethBalances[u] \in Nat
      /\ balances \in Holdings /\ u \in Holders /\ v \in Holders /\ f[u] \in Nat
      /\ ethBalances \in [Users -> Nat] /\ ethBalances[v] \in Nat
      /\ \A c \in Assets : balances[c][v] \in Nat
      /\ liquidityBalances \in [Pools -> [Holders -> Nat]]
  BY UserTypes DEF IInv, TypeOK
<1>2. /\ l # 0 /\ f[u] >= l
      /\ liquidityBalances' = [liquidityBalances EXCEPT ![p][u] = @ - l]
      /\ balances' = TokensOut(balances, u, out)
      /\ ethBalances' = [ethBalances EXCEPT ![u] = @ + out[ETH]]
      /\ \A a \in p : a # ETH => balances[a][Amm] >= out[a]
  BY DEF RemoveLiquidity, CanPay
<1>3. f[u] <= T /\ T # 0
  <2>1. T = SumOver(f, Holders)
    BY DEF IInv, SharesAddUp
  <2>2. IsFiniteSet(Holders) /\ \A x \in Holders : f[x] \in Nat
    BY <1>1, PoolsAreFinite
  <2> HIDE DEF f, T
  <2>3. f[u] <= SumOver(f, Holders)
    BY <1>1, <2>2, SumMember
  <2>4. QED BY <1>1, <1>2, <2>1, <2>3
<1>4. \A a \in Assets : out[a] \in Nat /\ (R[a] = 0 => out[a] = 0)
  <2> SUFFICES ASSUME NEW a \in Assets PROVE out[a] \in Nat /\ (R[a] = 0 => out[a] = 0)
    OBVIOUS
  <2>1. out[a] = (l * R[a]) \div T /\ R[a] \in Nat
    BY <1>1 DEF Burned
  <2> HIDE DEF out, R, T
  <2>2. l * R[a] \in Nat
    BY <2>1, TimesIsNat
  <2>3. out[a] \in Nat /\ out[a] * T <= l * R[a]
    BY <1>1, <1>3, <2>1, <2>2, QuotientIsFloor
  <2>4. R[a] = 0 => l * R[a] = 0
    BY Z3
  <2>5. l * R[a] = 0 => out[a] = 0
    <3> DEFINE x == out[a]
               k == l * R[a]
    <3>1. x \in Nat /\ T \in Nat /\ T # 0 /\ k \in Nat /\ x * T <= k
      BY <1>1, <1>3, <2>2, <2>3
    <3> HIDE DEF x, k
    <3>2. \A i, j \in Nat : i # 0 /\ j # 0 => i * j # 0 /\ i * j \in Nat
      BY Z3
    <3>3. k = 0 => x = 0
      BY <3>1, <3>2
    <3>4. QED BY <3>3 DEF x, k
  <2>6. QED BY <2>3, <2>4, <2>5
<1>5. \A a \in Assets : a # ETH => balances[a][Amm] >= out[a]
  <2>1. \A a \in Assets : a \notin p => out[a] = 0
    BY <1>4 DEF IInv, Elsewhere
  <2> HIDE DEF out
  <2>2. QED BY <1>1, <1>2, <2>1 DEF Holdings
<1> HIDE DEF out
<1>6. ETH \in Assets
  BY DEF Assets
<1>7. ASSUME NEW a \in Assets PROVE balances'[a][v] >= balances[a][v]
  <2>1. balances'[a] = IF a = ETH THEN balances[a] ELSE Moved(balances, a, Amm, u, out[a])[a]
    BY <1>2 DEF TokensOut
  <2>2. CASE a = ETH
    BY <1>1, <2>1, <2>2
  <2>3. CASE a # ETH
    <3>1. out[a] \in Nat /\ Received(a, out[a]) \in Nat /\ balances[a][Amm] >= out[a]
      BY <1>4, <1>5, <2>3, ReceivedIs
    <3>2. balances'[a][v] = balances[a][v] + (IF v = u THEN Received(a, out[a]) ELSE 0)
      BY <1>1, <2>1, <2>3, <3>1, PaidOutIs
    <3>3. QED BY <1>1, <3>1, <3>2
  <2>4. QED BY <2>2, <2>3
<1>8. ethBalances'[v] >= ethBalances[v]
  BY <1>1, <1>2, <1>4, <1>6
<1>9. \A q \in Pools : v # u \/ q # p => liquidityBalances'[q][v] = liquidityBalances[q][v]
  BY <1>1, <1>2
<1>10. QED BY <1>7, <1>8, <1>9 DEF KeepsAssets

(***************************************************************************)
(* Nobody gets poorer by what somebody else does, the owner included: who  *)
(* has less of an asset after a step, credited ETH counted with it, has    *)
(* deposited, swapped or sent tokens in it, and who has fewer shares of a  *)
(* pool has left it.                                                       *)
(***************************************************************************)
THEOREM NobodyPaysForOthers == Spec => OnlyUseCosts
<1>1. ASSUME IInv, IInv', [Next]_vars, NEW v \in Users
      PROVE  AssetsOnlySpent(v) /\ SharesOnlyLeft(v)
  <2>1. ASSUME KeepsAssets(v), liquidityBalances' = liquidityBalances
        PROVE  AssetsOnlySpent(v) /\ SharesOnlyLeft(v)
    BY <1>1, <2>1, KeptIsNotSpent, KeptIsNotLeft, SharesUntouched
  <2>2. ASSUME UNCHANGED assetVars, liquidityBalances' = liquidityBalances
        PROVE  AssetsOnlySpent(v) /\ SharesOnlyLeft(v)
    BY <1>1, <2>1, <2>2, AssetsUntouched
  <2>3. Amounts \subseteq Nat /\ Gifts \subseteq Nat
    BY NumberAssumption
  <2>4. ASSUME NEW u \in Users, NEW p \in Pools, NEW n \in Amounts, NEW min \in Minimums,
               NEW a \in p, NEW m \in Amounts, Other(p, a) # ETH,
               AddLiquidity(u, a, Other(p, a), n, m, min, min)
        PROVE  AssetsOnlySpent(v) /\ SharesOnlyLeft(v)
    <3>1. KeepsShares(v) /\ (v # u => KeepsAssets(v))
      BY <1>1, <2>3, <2>4, Depositing
    <3>2. SharesOnlyLeft(v)
      BY <1>1, <3>1, KeptIsNotLeft
    <3>3. v = u => SpendsBy(v)
      BY <2>4 DEF SpendsBy
    <3>4. AssetsOnlySpent(v)
      BY <1>1, <3>1, <3>3, KeptIsNotSpent DEF AssetsOnlySpent
    <3>5. QED BY <3>2, <3>4
  <2>5. ASSUME NEW u \in Users, NEW p \in Pools, NEW n \in Amounts, NEW min \in Minimums,
               NEW a \in p, Swap(u, a, Other(p, a), n, min)
        PROVE  AssetsOnlySpent(v) /\ SharesOnlyLeft(v)
    <3>1. CASE v # u
      BY <1>1, <2>1, <2>3, <2>5, <3>1, OthersSwap
    <3>2. CASE v = u
      <4>1. SpendsBy(v) /\ liquidityBalances' = liquidityBalances
        BY <2>5, <3>2 DEF SpendsBy, Swap
      <4>2. QED BY <1>1, <4>1, KeptIsNotLeft, SharesUntouched DEF AssetsOnlySpent
    <3>3. QED BY <3>1, <3>2
  <2>6. ASSUME NEW u \in Users, NEW p \in Pools, NEW n \in Amounts, NEW min \in Minimums,
               RemoveLiquidity(u, p, n, [a \in p |-> min])
        PROVE  AssetsOnlySpent(v) /\ SharesOnlyLeft(v)
    <3>1. /\ KeepsAssets(v)
          /\ \A q \in Pools : v # u \/ q # p => liquidityBalances'[q][v] = liquidityBalances[q][v]
      BY <1>1, <2>3, <2>6, Leaving
    <3>2. AssetsOnlySpent(v)
      BY <1>1, <3>1, KeptIsNotSpent
    <3>3. v = u => LeavesBy(v, p)
      BY <2>6 DEF LeavesBy
    <3>4. \A q \in Pools : liquidityBalances[q][v] \in Nat
      BY <1>1, UserTypes
    <3>5. SharesOnlyLeft(v)
      BY <3>1, <3>3, <3>4 DEF SharesOnlyLeft
    <3>6. QED BY <3>2, <3>5
  <2>7. ASSUME NEW u \in Users, WithdrawEth(u)
        PROVE  AssetsOnlySpent(v) /\ SharesOnlyLeft(v)
    <3>1. /\ balances \in Holdings /\ ethBalances \in [Users -> Nat]
          /\ (\A a \in Assets : balances[a][v] \in Nat) /\ ethBalances[v] \in Nat
          /\ ethBalances[u] \in Nat /\ ETH \in Assets
      BY <1>1, UserTypes DEF Assets
    <3>2. PICK n \in Nat : n = ethBalances[u]
      BY <3>1
    <3>3. /\ balances[ETH][Amm] >= n /\ balances' = Moved(balances, ETH, Amm, u, n)
          /\ ethBalances' = [ethBalances EXCEPT ![u] = 0]
          /\ liquidityBalances' = liquidityBalances
      BY <2>7, <3>2 DEF WithdrawEth, CanPay, poolVars
    <3>4. Received(ETH, n) = n
      BY <3>1, ReceivedIs
    <3>5. ASSUME NEW a \in Assets PROVE ~ (Owns(v, a)' < Owns(v, a))
      <4>1. balances'[a][v] = balances[a][v] + (IF a = ETH /\ v = u THEN n ELSE 0)
        BY <3>1, <3>3, <3>4, PaidOutIs
      <4>2. ethBalances'[v] = IF v = u THEN 0 ELSE ethBalances[v]
        BY <3>1, <3>3
      <4>3. QED BY <3>1, <3>2, <4>1, <4>2 DEF Owns
    <3>6. QED BY <1>1, <3>3, <3>5, KeptIsNotLeft, SharesUntouched DEF AssetsOnlySpent
  <2>8. ASSUME NEW u \in Users, NEW r \in DOMAIN emergencyRequests, ExecuteEmergencyWithdraw(u, r)
        PROVE  AssetsOnlySpent(v) /\ SharesOnlyLeft(v)
    <3>1. PICK q \in EmergencyRequest : q = emergencyRequests[r]
      BY <1>1, RequestIs DEF IInv
    <3>2. q.token \in Assets /\ q.amount \in Nat /\ q.recipient \in Users
      BY DEF EmergencyRequest
    <3>3. /\ balances[q.token][Amm] >= q.amount
          /\ balances' = Moved(balances, q.token, Amm, q.recipient, q.amount)
          /\ ethBalances' = ethBalances /\ liquidityBalances' = liquidityBalances
      BY <2>8, <3>1 DEF ExecuteEmergencyWithdraw, CanPay, poolVars
    <3>4. /\ balances \in Holdings /\ ethBalances[v] \in Nat
          /\ (\A a \in Assets : balances[a][v] \in Nat) /\ Received(q.token, q.amount) \in Nat
      BY <1>1, <3>2, UserTypes, ReceivedIs
    <3>5. KeepsAssets(v)
      <4>1. ASSUME NEW a \in Assets
            PROVE  balances'[a][v] = balances[a][v] + (IF a = q.token /\ v = q.recipient
                                                       THEN Received(q.token, q.amount) ELSE 0)
        BY <3>2, <3>3, <3>4, PaidOutIs
      <4>2. \A a \in Assets : balances'[a][v] >= balances[a][v]
        BY <3>4, <4>1
      <4>3. QED BY <3>3, <3>4, <4>2 DEF KeepsAssets
    <3>6. QED BY <2>1, <3>3, <3>5
  <2>9. ASSUME NEW u \in Users, NEW t \in Tokens, NEW n \in Gifts, Donate(u, t, n)
        PROVE  AssetsOnlySpent(v) /\ SharesOnlyLeft(v)
    <3>1. /\ t \in Assets /\ n \in Nat /\ balances[t][u] >= n
          /\ balances' = Moved(balances, t, u, Amm, n)
          /\ ethBalances' = ethBalances /\ liquidityBalances' = liquidityBalances
      BY <2>3, <2>9 DEF Donate, CanPay, Assets, poolVars
    <3>2. CASE v = u
      <4>1. SpendsBy(v)
        BY <2>9, <3>2 DEF SpendsBy
      <4>2. QED BY <1>1, <3>1, <4>1, KeptIsNotLeft, SharesUntouched DEF AssetsOnlySpent
    <3>3. CASE v # u
      <4>1. /\ balances \in Holdings /\ ethBalances[v] \in Nat
            /\ \A a \in Assets : balances[a][v] \in Nat
        BY <1>1, UserTypes
      <4>2. \A a \in Assets : balances'[a][v] = balances[a][v]
        BY <3>1, <3>3, <4>1, MovedIn
      <4>3. KeepsAssets(v)
        BY <3>1, <4>1, <4>2 DEF KeepsAssets
      <4>4. QED BY <2>1, <3>1, <4>3
    <3>4. QED BY <3>2, <3>3
  <2>10. ASSUME NEW u \in Users,
                \/ \E w \in Heirs : TransferOwnership(u, w)
                \/ AcceptOwnership(u) \/ Pause(u) \/ Unpause(u)
                \/ \E a \in Assets, n \in Amounts, w \in Heirs : RequestEmergencyWithdraw(u, a, n, w)
                \/ \E r \in DOMAIN emergencyRequests : CancelEmergencyWithdraw(u, r)
                \/ \E p \in Pools : CreatePool(p)
         PROVE  AssetsOnlySpent(v) /\ SharesOnlyLeft(v)
    <3>1. UNCHANGED assetVars /\ liquidityBalances' = liquidityBalances
      BY <2>10 DEF TransferOwnership, AcceptOwnership, Pause, Unpause, RequestEmergencyWithdraw,
                   CancelEmergencyWithdraw, CreatePool, poolVars
    <3>2. QED BY <2>2, <3>1
  <2>11. CASE Tick \/ UNCHANGED vars
    <3>1. UNCHANGED assetVars /\ liquidityBalances' = liquidityBalances
      BY <2>11 DEF Tick, vars, poolVars
    <3>2. QED BY <2>2, <3>1
  <2>12. ASSUME NEW u \in Users, PoolStep(u)
         PROVE  AssetsOnlySpent(v) /\ SharesOnlyLeft(v)
    BY <2>4, <2>5, <2>6, <2>7, <2>10, <2>12 DEF PoolStep
  <2>13. ASSUME NEW u \in Users, OwnerStep(u)
         PROVE  AssetsOnlySpent(v) /\ SharesOnlyLeft(v)
    BY <2>8, <2>10, <2>13 DEF OwnerStep
  <2>14. QED BY <1>1, <2>9, <2>11, <2>12, <2>13 DEF Next
<1>2. IInv /\ IInv' /\ [Next]_vars => [\A v \in Users : AssetsOnlySpent(v) /\ SharesOnlyLeft(v)]_vars
  BY <1>1
<1>3. QED BY <1>2, Invariance, PTL DEF Spec, OnlyUseCosts

-----------------------------------------------------------------------------
(* Emergency withdrawals from the market *)

\* What request r has announced: used, and its timelock over.
Due(r, a) ==
  IF /\ r \in DOMAIN emergencyRequests
     /\ emergencyRequests[r].token = a /\ emergencyRequests[r].executed
     /\ emergencyRequests[r].executeAfter <= now
  THEN emergencyRequests[r].amount ELSE 0

DueFrom(a) == [r \in RequestIds |-> Due(r, a)]

Announced(a) == SumOver(DueFrom(a), RequestIds)

\* Whatever the pools owe and the contract does not hold was announced at least
\* a timelock before, by requests that were used once.
ShortfallWasAnnounced == \A a \in Assets : balances[a][Amm] + Announced(a) >= Owed(a)

SweptWasAnnounced == \A a \in Assets : swept[a] <= Announced(a)

EmergencyInv == Len(emergencyRequests) <= MaxRequests /\ SweptWasAnnounced

LEMMA RequestsAreFinite == IsFiniteSet(RequestIds)
BY FS_Interval, NumberAssumption DEF RequestIds

LEMMA DueIsNat ==
  ASSUME TypeOK, NEW a
  PROVE  (\A r \in RequestIds : DueFrom(a)[r] \in Nat) /\ Announced(a) \in Nat
<1>1. ASSUME NEW r \in RequestIds PROVE DueFrom(a)[r] \in Nat
  <2>1. r \in DOMAIN emergencyRequests => emergencyRequests[r].amount \in Nat
    BY RequestIs DEF EmergencyRequest
  <2>2. QED BY <2>1 DEF DueFrom, Due
<1>2. QED BY <1>1, RequestsAreFinite, SumNat DEF Announced

DuesTyped == \A a \in Assets, r \in RequestIds : DueFrom(a)[r] \in Nat

LEMMA DuesAreNat == TypeOK => DuesTyped
BY DueIsNat DEF DuesTyped

LEMMA DuesStayNat == TypeOK' => DuesTyped'
BY DuesAreNat, PTL

LEMMA InitEmergency == Init => EmergencyInv
<1> SUFFICES ASSUME Init PROVE EmergencyInv
  OBVIOUS
<1>1. TypeOK
  BY InitKeeps DEF IInv
<1>2. \A a \in Assets : Announced(a) \in Nat /\ swept[a] = 0
  BY <1>1, DueIsNat DEF Init, None
<1>3. Len(emergencyRequests) <= MaxRequests
  BY NumberAssumption DEF Init
<1>4. QED BY <1>2, <1>3 DEF EmergencyInv, SweptWasAnnounced

\* A step that takes nothing, by which no announcement is taken back.
LEMMA QuietEmergency ==
  ASSUME TypeOK, TypeOK', EmergencyInv, swept' = swept,
         Len(emergencyRequests') <= MaxRequests,
         \A a \in Assets, r \in RequestIds : Due(r, a) <= Due(r, a)'
  PROVE  EmergencyInv'
<1>1. ASSUME NEW a \in Assets PROVE swept'[a] <= Announced(a)'
  <2> DEFINE f == DueFrom(a)
             g == DueFrom(a)'
  <2>1. \A r \in RequestIds : f[r] \in Int /\ g[r] \in Int /\ f[r] <= g[r]
    <3>1. DuesTyped /\ DuesTyped'
      BY DuesAreNat, DuesStayNat
    <3>2. QED BY <3>1 DEF DuesTyped, DueFrom, RequestIds
  <2>2. Announced(a) = SumOver(f, RequestIds) /\ Announced(a)' = SumOver(g, RequestIds)
    BY DEF Announced, RequestIds
  <2>3. swept[a] \in Nat /\ swept[a] <= Announced(a)
    BY DEF EmergencyInv, SweptWasAnnounced, TypeOK
  <2> HIDE DEF f, g
  <2>4. SumOver(f, RequestIds) <= SumOver(g, RequestIds)
    BY <2>1, RequestsAreFinite, SumMonotone
  <2>5. SumOver(f, RequestIds) \in Int /\ SumOver(g, RequestIds) \in Int
    BY <2>1, RequestsAreFinite, SumInt
  <2>6. QED BY <2>2, <2>3, <2>4, <2>5
<1>2. QED BY <1>1 DEF EmergencyInv, SweptWasAnnounced

(***************************************************************************)
(* Only a pending request is executed, and only when its time has come, so *)
(* what is taken is announced by it and by none before.                    *)
(***************************************************************************)
LEMMA ExecuteEmergency ==
  ASSUME TypeOK, TypeOK', EmergencyInv, NEW u \in Users, NEW r \in DOMAIN emergencyRequests,
         ExecuteEmergencyWithdraw(u, r)
  PROVE  EmergencyInv'
<1>1. PICK q \in EmergencyRequest : q = emergencyRequests[r]
  BY RequestIs
<1>2. /\ ~ q.executed /\ now >= q.executeAfter /\ now' = now
      /\ emergencyRequests' = [emergencyRequests EXCEPT ![r].executed = TRUE]
      /\ swept' = [swept EXCEPT ![q.token] = @ + q.amount]
  BY <1>1 DEF ExecuteEmergencyWithdraw, Pending
<1>3. /\ q.token \in Assets /\ q.amount \in Nat /\ q.executeAfter \in Nat /\ now \in Nat
      /\ emergencyRequests \in Seq(EmergencyRequest) /\ swept \in [Assets -> Nat]
  BY DEF EmergencyRequest, TypeOK
<1>4. r \in RequestIds /\ Len(emergencyRequests') <= MaxRequests
  BY <1>2, <1>3, NumberAssumption DEF EmergencyInv, RequestIds
<1> DEFINE x == [q EXCEPT !.executed = TRUE]
<1>5. /\ x.token = q.token /\ x.amount = q.amount /\ x.executed
      /\ x.executeAfter = q.executeAfter
  BY DEF EmergencyRequest
<1>6. emergencyRequests' = [emergencyRequests EXCEPT ![r] = x]
  BY <1>1, <1>2, <1>3
<1> HIDE DEF x
<1>7. /\ DOMAIN emergencyRequests' = DOMAIN emergencyRequests /\ emergencyRequests'[r] = x
      /\ \A s \in DOMAIN emergencyRequests : s # r => emergencyRequests'[s] = emergencyRequests[s]
  BY <1>3, <1>6
<1>8. ASSUME NEW a \in Assets PROVE swept'[a] <= Announced(a)'
  <2> DEFINE f == DueFrom(a)
             g == DueFrom(a)'
             n == IF a = q.token THEN q.amount ELSE 0
  <2>1. \A s \in RequestIds : f[s] \in Int /\ g[s] \in Int
    <3>1. DuesTyped /\ DuesTyped'
      BY DuesAreNat, DuesStayNat
    <3>2. QED BY <3>1 DEF DuesTyped, RequestIds
  <2>2. \A s \in RequestIds : s # r => g[s] = f[s]
    BY <1>2, <1>7 DEF DueFrom, Due
  <2>3. f[r] = 0
    BY <1>1, <1>2, <1>4 DEF DueFrom, Due
  <2>4. g[r] = n
    <3>1. g[r] = Due(r, a)'
      BY <1>4 DEF DueFrom, RequestIds
    <3>2. Due(r, a)' = n
      BY <1>2, <1>5, <1>7 DEF Due
    <3>3. QED BY <3>1, <3>2
  <2>5. Announced(a) = SumOver(f, RequestIds) /\ Announced(a)' = SumOver(g, RequestIds)
    BY DEF Announced, RequestIds
  <2>6. /\ swept[a] \in Nat /\ swept[a] <= Announced(a) /\ swept'[a] = swept[a] + n /\ n \in Nat
        /\ Announced(a) \in Nat
    BY <1>2, <1>3, DueIsNat DEF EmergencyInv, SweptWasAnnounced
  <2> HIDE DEF f, g, n
  <2>7. SumOver(g, RequestIds) = SumOver(f, RequestIds) + (g[r] - f[r])
    <3>1. IntsOn(f, RequestIds) /\ IntsOn(g, RequestIds) /\ SameBut(f, g, RequestIds, r)
      BY <2>1, <2>2 DEF IntsOn, SameBut
    <3>2. QED BY <1>4, <3>1, RequestsAreFinite, OneSummand
  <2>8. QED BY <2>3, <2>4, <2>5, <2>6, <2>7
<1>9. QED BY <1>4, <1>8 DEF EmergencyInv, SweptWasAnnounced

LEMMA StepEmergency == IInv /\ IInv' /\ EmergencyInv /\ [Next]_vars => EmergencyInv'
<1> SUFFICES ASSUME IInv, IInv', EmergencyInv, [Next]_vars PROVE EmergencyInv'
  OBVIOUS
<1>1. /\ TypeOK /\ TypeOK' /\ now \in Nat /\ now' \in Nat
      /\ emergencyRequests \in Seq(EmergencyRequest) /\ Len(emergencyRequests) <= MaxRequests
      /\ emergencyRequests' \in Seq(EmergencyRequest)
  BY DEF IInv, TypeOK, EmergencyInv
<1>2. \A a \in Assets, r \in RequestIds : Due(r, a) \in Nat
  <2>1. \A a \in Assets, r \in RequestIds : DueFrom(a)[r] \in Nat
    BY <1>1, DueIsNat
  <2>2. QED BY <2>1 DEF DueFrom
<1>3. ASSUME emergencyRequests' = emergencyRequests, swept' = swept, now' >= now
      PROVE  EmergencyInv'
  <2>1. ASSUME NEW a \in Assets, NEW r \in RequestIds PROVE Due(r, a) <= Due(r, a)'
    <3>1. r \in DOMAIN emergencyRequests =>
            emergencyRequests[r].executeAfter \in Nat /\ emergencyRequests[r].amount \in Nat
      BY <1>1, RequestIs DEF EmergencyRequest
    <3>2. QED BY <1>1, <1>3, <3>1 DEF Due
  <2>2. QED BY <1>1, <1>3, <2>1, QuietEmergency
<1>4. ASSUME NEW u \in Users, NEW a \in Assets, NEW n \in Amounts, NEW v \in Heirs,
             RequestEmergencyWithdraw(u, a, n, v)
      PROVE  EmergencyInv'
  <2>1. PICK q : emergencyRequests' = Append(emergencyRequests, q) /\ ~ q.executed
    BY <1>4 DEF RequestEmergencyWithdraw
  <2>2. /\ now' = now /\ swept' = swept /\ Len(emergencyRequests) < MaxRequests
    BY <1>4 DEF RequestEmergencyWithdraw
  <2>3. /\ Len(emergencyRequests') <= MaxRequests
        /\ \A r \in DOMAIN emergencyRequests : /\ r \in DOMAIN emergencyRequests'
                                               /\ emergencyRequests'[r] = emergencyRequests[r]
        /\ \A r \in DOMAIN emergencyRequests' : r \notin DOMAIN emergencyRequests
                                                  => emergencyRequests'[r] = q
    <3>1. /\ Len(emergencyRequests') = Len(emergencyRequests) + 1
          /\ emergencyRequests'[Len(emergencyRequests) + 1] = q
          /\ \A r \in 1 .. Len(emergencyRequests) : emergencyRequests'[r] = emergencyRequests[r]
      BY <1>1, <2>1
    <3>2. /\ DOMAIN emergencyRequests = 1 .. Len(emergencyRequests)
          /\ DOMAIN emergencyRequests' = 1 .. Len(emergencyRequests')
          /\ Len(emergencyRequests) \in Nat
      BY <1>1
    <3>3. QED BY <2>2, <3>1, <3>2, NumberAssumption
  <2>4. \A c \in Assets, r \in RequestIds : Due(r, c) <= Due(r, c)'
    <3> SUFFICES ASSUME NEW c \in Assets, NEW r \in RequestIds PROVE Due(r, c) <= Due(r, c)'
      OBVIOUS
    <3>1. r \in DOMAIN emergencyRequests => Due(r, c)' = Due(r, c)
      BY <2>2, <2>3 DEF Due
    <3>2. r \notin DOMAIN emergencyRequests => Due(r, c)' = 0 /\ Due(r, c) = 0
      BY <2>1, <2>3 DEF Due
    <3>3. QED BY <1>2, <3>1, <3>2
  <2>5. QED BY <1>1, <2>2, <2>3, <2>4, QuietEmergency
<1>5. ASSUME NEW u \in Users, NEW r \in DOMAIN emergencyRequests, CancelEmergencyWithdraw(u, r)
      PROVE  EmergencyInv'
  <2>1. PICK q \in EmergencyRequest : q = emergencyRequests[r]
    BY <1>1, RequestIs
  <2>2. /\ ~ q.executed /\ now' = now /\ swept' = swept
        /\ emergencyRequests' = [emergencyRequests EXCEPT ![r].executed = TRUE]
    BY <1>5, <2>1 DEF CancelEmergencyWithdraw, Pending
  <2>3. /\ DOMAIN emergencyRequests' = DOMAIN emergencyRequests
        /\ \A s \in DOMAIN emergencyRequests : s # r => emergencyRequests'[s] = emergencyRequests[s]
        /\ Len(emergencyRequests') <= MaxRequests
    BY <1>1, <2>2
  <2>4. \A a \in Assets, s \in RequestIds : Due(s, a) <= Due(s, a)'
    <3> SUFFICES ASSUME NEW a \in Assets, NEW s \in RequestIds PROVE Due(s, a) <= Due(s, a)'
      OBVIOUS
    <3>1. CASE s = r
      <4>1. Due(s, a) = 0
        BY <2>1, <2>2, <3>1 DEF Due
      <4>2. DuesTyped'
        BY <1>1, DuesStayNat
      <4>3. Due(s, a)' \in Nat
        BY <4>2 DEF DuesTyped, DueFrom, RequestIds, Assets
      <4>4. QED BY <4>1, <4>3
    <3>2. CASE s # r
      <4>1. Due(s, a)' = Due(s, a)
        BY <2>2, <2>3, <3>2 DEF Due
      <4>2. QED BY <1>2, <4>1
    <3>3. QED BY <3>1, <3>2
  <2>5. QED BY <1>1, <2>2, <2>3, <2>4, QuietEmergency
<1>6. ASSUME NEW u \in Users,
             \/ \E w \in Heirs : TransferOwnership(u, w)
             \/ AcceptOwnership(u) \/ Pause(u) \/ Unpause(u)
             \/ PoolStep(u)
             \/ \E t \in Tokens, n \in Gifts : Donate(u, t, n)
      PROVE  EmergencyInv'
  <2>1. PoolStep(u) => emergencyRequests' = emergencyRequests /\ swept' = swept /\ now' = now
    <3> DEFINE Quiet == emergencyRequests' = emergencyRequests /\ swept' = swept /\ now' = now
    <3>1. \A a, b, n, m, min : AddLiquidity(u, a, b, n, m, min, min) => Quiet
      BY DEF AddLiquidity
    <3>2. \A a, b, n, min : Swap(u, a, b, n, min) => Quiet
      BY DEF Swap
    <3>3. \A p, n, min : RemoveLiquidity(u, p, n, min) => Quiet
      BY DEF RemoveLiquidity
    <3>4. (\A p : CreatePool(p) => Quiet) /\ (WithdrawEth(u) => Quiet)
      BY DEF CreatePool, WithdrawEth
    <3> HIDE DEF Quiet
    <3>5. PoolStep(u) => Quiet
      BY <3>1, <3>2, <3>3, <3>4 DEF PoolStep
    <3>6. QED BY <3>5 DEF Quiet
  <2>2. emergencyRequests' = emergencyRequests /\ swept' = swept /\ now' = now
    BY <1>6, <2>1 DEF TransferOwnership, AcceptOwnership, Pause, Unpause, Donate
  <2>3. QED BY <1>1, <1>3, <2>2
<1>7. CASE Tick \/ UNCHANGED vars
  <2>1. emergencyRequests' = emergencyRequests /\ swept' = swept /\ now' >= now
    BY <1>1, <1>7 DEF Tick, vars
  <2>2. QED BY <1>3, <2>1
<1>8. ASSUME NEW u \in Users, OwnerStep(u) PROVE EmergencyInv'
  BY <1>1, <1>4, <1>5, <1>6, <1>8, ExecuteEmergency DEF OwnerStep
<1>9. QED BY <1>6, <1>7, <1>8 DEF Next

(***************************************************************************)
(* The pools' shortfall is the owners' and was announced: whoever owned    *)
(* the contract and whatever was cancelled meanwhile, what it holds of an  *)
(* asset and what emergency withdrawals have announced, each by a request  *)
(* that had waited out the timelock and was used once, is enough for all   *)
(* it owes.                                                                *)
(***************************************************************************)
THEOREM ShortfallIsAnnounced == Spec => []ShortfallWasAnnounced
<1>1. Spec => [](IInv /\ EmergencyInv)
  <2>1. Init => IInv /\ EmergencyInv
    BY InitKeeps, InitEmergency
  <2>2. IInv /\ EmergencyInv /\ [Next]_vars => (IInv /\ EmergencyInv)'
    BY StepKeeps, StepEmergency
  <2>3. QED BY <2>1, <2>2, PTL DEF Spec
<1>2. IInv /\ EmergencyInv => ShortfallWasAnnounced
  <2> SUFFICES ASSUME IInv, EmergencyInv, NEW a \in Assets
               PROVE  balances[a][Amm] + Announced(a) >= Owed(a)
    BY DEF ShortfallWasAnnounced
  <2>1. /\ TypeOK /\ Amm \in Users \cup {Amm} /\ balances[a][Amm] \in Nat /\ swept[a] \in Nat
    BY DEF IInv, TypeOK
  <2>2. Announced(a) \in Nat
    BY <2>1, DueIsNat
  <2>3. swept[a] <= Announced(a)
    BY DEF EmergencyInv, SweptWasAnnounced
  <2>4. balances[a][Amm] + swept[a] >= Owed(a)
    BY DEF IInv, Backed
  <2>5. Owed(a) \in Int
    BY <2>1, OwedIsInt DEF Owed
  <2>6. QED BY <2>1, <2>2, <2>3, <2>4, <2>5
<1>3. QED BY <1>1, <1>2, PTL

-----------------------------------------------------------------------------
(* Everyone can leave at once *)

\* What all who hold shares of p could take of asset a, each of them as if the
\* first: the minimum nobody holds is counted too.
ClaimOn(p, a) ==
  IF totalLiquidity[p] = 0 THEN 0
  ELSE SumOver([u \in Holders |-> Burned(p, liquidityBalances[p][u])[a]], Holders)

\* While nothing was swept, the contract pays them all, and all credits.
EveryoneIsPaid ==
  \A a \in Assets :
    swept[a] = 0 =>
      balances[a][Amm] >= SumOver([p \in Pools |-> ClaimOn(p, a)], Pools)
                            + (IF a = ETH THEN SumOver(ethBalances, Users) ELSE 0)

\* A sum of rounded quotients of one product is no more than its other factor.
LEMMA RoundedShares ==
  ASSUME NEW S, IsFiniteSet(S), NEW l, \A x \in S : l[x] \in Nat, NEW R \in Nat,
         NEW T, T = SumOver(l, S), T # 0
  PROVE  /\ \A x \in S : (l[x] * R) \div T \in Nat
         /\ SumOver([x \in S |-> (l[x] * R) \div T], S) <= R
<1> DEFINE g == [x \in S |-> (l[x] * R) \div T]
           h == [x \in S |-> T * g[x]]
           k == [x \in S |-> R * l[x]]
<1>1. T \in Nat /\ T > 0
  <2>1. T \in Nat
    BY SumNat
  <2>2. QED BY <2>1
<1>2. ASSUME NEW x \in S
      PROVE  g[x] \in Nat /\ h[x] \in Int /\ k[x] \in Int /\ h[x] <= k[x]
  <2>1. l[x] * R \in Nat /\ l[x] * R = R * l[x]
    BY TimesIsNat, Z3
  <2> DEFINE n == l[x] * R
             q == n \div T
  <2>2. q \in Nat /\ q * T <= n
    <3> HIDE DEF n
    <3>1. n \in Nat
      BY <2>1 DEF n
    <3>2. QED BY <1>1, <3>1, QuotientIsFloor
  <2> HIDE DEF n, q
  <2>3. g[x] = q /\ h[x] = T * q /\ k[x] = n
    BY <2>1 DEF n, q
  <2>4. T * q = q * T /\ q * T \in Nat /\ n \in Nat
    BY <1>1, <2>1, <2>2, TimesIsNat, Z3 DEF n
  <2>5. QED BY <2>2, <2>3, <2>4
<1>3. /\ SumOver(h, S) = T * SumOver(g, S) /\ SumOver(k, S) = R * SumOver(l, S)
      /\ SumOver(h, S) <= SumOver(k, S) /\ SumOver(g, S) \in Nat
  <2>1. /\ \A x \in S : g[x] \in Int /\ h[x] = T * g[x]
        /\ \A x \in S : l[x] \in Int /\ k[x] = R * l[x]
    BY <1>2
  <2>2. (\A x \in S : g[x] \in Nat) /\ \A x \in S : h[x] \in Int /\ k[x] \in Int /\ h[x] <= k[x]
    BY <1>2
  <2> HIDE DEF g, h, k
  <2>3. SumOver(h, S) = T * SumOver(g, S)
    BY <1>1, <2>1, SumScaled
  <2>4. SumOver(k, S) = R * SumOver(l, S)
    BY <2>1, SumScaled
  <2>5. QED BY <2>2, <2>3, <2>4, SumMonotone, SumNat
<1>4. SumOver(g, S) <= R
  <2> DEFINE s == SumOver(g, S)
  <2>1. T * s <= R * T /\ s \in Nat
    BY <1>3
  <2> HIDE DEF s
  <2>2. s >= R + 1 => T * s >= T * (R + 1)
    BY <1>1, <2>1, Z3
  <2>3. T * (R + 1) = R * T + T /\ R * T \in Nat /\ T * s \in Nat
    BY <1>1, <2>1, TimesIsNat, Z3
  <2>4. QED BY <1>1, <2>1, <2>2, <2>3 DEF s
<1>5. QED BY <1>2, <1>4

LEMMA ClaimsAreCovered ==
  ASSUME IInv, NEW p \in Pools, NEW a \in Assets
  PROVE  ClaimOn(p, a) \in Nat /\ reserve[p][a] \in Nat /\ ClaimOn(p, a) <= reserve[p][a]
<1> DEFINE l == liquidityBalances[p]
           R == reserve[p][a]
           T == totalLiquidity[p]
           g == [u \in Holders |-> (l[u] * R) \div T]
<1>1. R \in Nat /\ T \in Nat /\ T = SumOver(l, Holders) /\ \A u \in Holders : l[u] \in Nat
  BY DEF IInv, TypeOK, SharesAddUp
<1>2. ClaimOn(p, a) = IF T = 0 THEN 0 ELSE SumOver(g, Holders)
  BY DEF ClaimOn, Burned
<1>3. IsFiniteSet(Holders)
  BY PoolsAreFinite
<1> HIDE DEF l, R, T
<1>4. CASE T # 0
  <2>1. (\A u \in Holders : g[u] \in Nat) /\ SumOver(g, Holders) <= R
    BY <1>1, <1>3, <1>4, RoundedShares
  <2> HIDE DEF g
  <2>2. SumOver(g, Holders) \in Nat
    BY <1>3, <2>1, SumNat
  <2>3. QED BY <1>1, <1>2, <1>4, <2>1, <2>2 DEF R
<1>5. CASE T = 0
  BY <1>1, <1>2, <1>5 DEF R
<1>6. QED BY <1>4, <1>5

(***************************************************************************)
(* No run on the pools fails: while the owners took nothing of an asset,   *)
(* what the contract holds of it pays every holder of shares of every pool *)
(* what their shares are worth, and every credit, whatever was rounded,    *)
(* taxed or given before.                                                  *)
(***************************************************************************)
THEOREM EveryoneCanLeave == Spec => []EveryoneIsPaid
<1>1. IInv => EveryoneIsPaid
  <2> SUFFICES ASSUME IInv, NEW a \in Assets, swept[a] = 0
               PROVE  balances[a][Amm] >= SumOver([p \in Pools |-> ClaimOn(p, a)], Pools)
                                            + (IF a = ETH THEN SumOver(ethBalances, Users) ELSE 0)
    BY DEF EveryoneIsPaid
  <2> DEFINE f == [p \in Pools |-> ClaimOn(p, a)]
             g == [p \in Pools |-> reserve[p][a]]
             c == IF a = ETH THEN SumOver(ethBalances, Users) ELSE 0
  <2>1. balances[a][Amm] + swept[a] >= SumOver(g, Pools) + c
    BY DEF IInv, Backed, Owed
  <2>2. SumOver(g, Pools) \in Int /\ c \in Int /\ balances[a][Amm] \in Nat
    <3>1. TypeOK /\ SumOver(g, Pools) \in Int /\ SumOver(ethBalances, Users) \in Int
      BY OwedIsInt DEF IInv
    <3>2. balances[a][Amm] \in Nat
      BY <3>1 DEF TypeOK
    <3>3. QED BY <3>1, <3>2
  <2>3. \A p \in Pools : f[p] \in Int /\ g[p] \in Int /\ f[p] <= g[p]
    BY ClaimsAreCovered
  <2> HIDE DEF f, g, c
  <2>4. SumOver(f, Pools) <= SumOver(g, Pools) /\ SumOver(f, Pools) \in Int
    BY <2>3, PoolsAreFinite, SumMonotone, SumInt
  <2>5. balances[a][Amm] >= SumOver(f, Pools) + c
    BY <2>1, <2>2, <2>4
  <2>6. QED BY <2>5 DEF f, c
<1>2. QED BY <1>1, Invariance, PTL

-----------------------------------------------------------------------------
(***************************************************************************)
(* The Orbital market.  A trade leaves some of the coin it takes, because  *)
(* what the curve leaves of it is positive and the amount is rounded down; *)
(* along a route this is carried from hop to hop.                          *)
(***************************************************************************)

LEMMA CoinsAreFinite ==
  /\ IsFiniteSet(Coins) /\ Coins # {} /\ Cardinality(Coins) \in Nat /\ Cardinality(Coins) > 0
  /\ Wad \in Nat /\ Wad > 0 /\ LockedShares \in Nat /\ LockedShares > 0
<1>1. IsFiniteSet(Coins) /\ Cardinality(Coins) >= 2
  BY OrbitalAssumption
<1>2. Cardinality(Coins) \in Nat
  BY <1>1, FS_CardinalityType
<1>3. Coins # {}
  BY <1>1, FS_EmptySet
<1>4. /\ Wad \in Nat /\ Wad > 0 /\ LockedShares \in Nat /\ LockedShares > 0
  BY OrbitalAssumption
<1>5. QED BY <1>1, <1>2, <1>3, <1>4

\* The root is the other market's.
LEMMA RootIsNat == ASSUME NEW y \in Nat PROVE Root(y) \in Nat
<1>1. Root(y) = Sqrt(y)
  BY DEF Root, Sqrt
<1>2. QED BY <1>1, SqrtIsBelow

LEMMA SquareIsNat == ASSUME NEW x \in Nat PROVE Square(x) \in Nat
<1>1. x * x \in Nat
  BY TimesIsNat
<1>2. QED BY <1>1, CoinsAreFinite, QuotientIsFloor DEF Square

LEMMA WadSqrtIsNat == ASSUME NEW x \in Nat PROVE WadSqrt(x) \in Nat
<1>1. x * Wad \in Nat
  BY TimesIsNat, CoinsAreFinite
<1>2. QED BY <1>1, RootIsNat DEF WadSqrt

LEMMA PowersAreNat ==
  ASSUME NEW x \in Nat, NEW p \in Concentrations
  PROVE  WadPow(x, p) \in Nat /\ WadRoot(x, p) \in Nat
<1>1. p \in {2, 4, 8, 16, 32}
  BY OrbitalAssumption
<1>2. /\ WadPow(x, 2) = Square(x) /\ WadPow(x, 4) = Square(Square(x))
      /\ WadPow(x, 8) = Square(Square(Square(x)))
      /\ WadPow(x, 16) = Square(Square(Square(Square(x))))
      /\ WadPow(x, 32) = Square(Square(Square(Square(Square(x)))))
  BY DEF WadPow
<1>3. /\ WadRoot(x, 2) = WadSqrt(x) /\ WadRoot(x, 4) = WadSqrt(WadSqrt(x))
      /\ WadRoot(x, 8) = WadSqrt(WadSqrt(WadSqrt(x)))
      /\ WadRoot(x, 16) = WadSqrt(WadSqrt(WadSqrt(WadSqrt(x))))
      /\ WadRoot(x, 32) = WadSqrt(WadSqrt(WadSqrt(WadSqrt(WadSqrt(x)))))
  BY DEF WadRoot
<1>4. \A m \in {2, 4, 8, 16, 32} : WadPow(x, m) \in Nat
  BY <1>2, SquareIsNat
<1>5. \A m \in {2, 4, 8, 16, 32} : WadRoot(x, m) \in Nat
  BY <1>3, WadSqrtIsNat
<1>6. QED BY <1>1, <1>4, <1>5

\* Reserves of which there is some of every coin.
Reserves == {r \in [Coins -> Nat] : \A c \in Coins : r[c] > 0}

LEMMA BaseIsPositive ==
  ASSUME NEW r \in Reserves
  PROVE  Base(r) \in Nat /\ Base(r) > 0 /\ \A c \in Coins : r[c] <= Base(r)
<1>1. r \in [Coins -> Nat] /\ \A c \in Coins : r[c] \in Nat /\ r[c] > 0
  BY DEF Reserves
<1>2. IsFiniteSet(Coins) /\ Coins # {}
  BY CoinsAreFinite
<1>3. Base(r) \in Nat
  BY <1>1, <1>2, SumNat DEF Base
<1>4. \A c \in Coins : r[c] <= Base(r)
  <2> TAKE c \in Coins
  <2>1. r[c] <= SumOver(r, Coins)
    BY <1>1, <1>2, SumMember
  <2>2. QED BY <2>1 DEF Base
<1>5. PICK c \in Coins : TRUE
  BY <1>2
<1>6. r[c] > 0 /\ r[c] <= Base(r) /\ r[c] \in Nat
  BY <1>1, <1>4
<1>7. Base(r) > 0
  BY <1>3, <1>6
<1>8. QED BY <1>3, <1>4, <1>7

LEMMA ShareOfBase ==
  ASSUME NEW r \in Reserves, NEW n \in Nat
  PROVE  /\ Cardinality(Coins) * n * Wad \in Nat
         /\ (Cardinality(Coins) * n * Wad) \div Base(r) \in Nat
         /\ ((Cardinality(Coins) * n * Wad) \div Base(r)) * Base(r) <= Cardinality(Coins) * n * Wad
<1>1. Cardinality(Coins) * n \in Nat
  BY TimesIsNat, CoinsAreFinite
<1>2. (Cardinality(Coins) * n) * Wad \in Nat
  BY <1>1, TimesIsNat, CoinsAreFinite
<1>3. Base(r) \in Nat /\ Base(r) # 0
  BY BaseIsPositive
<1>4. QED BY <1>2, <1>3, QuotientIsFloor

LEMMA NormalisedType == ASSUME NEW r \in Reserves PROVE Normalised(r) \in [Coins -> Nat]
<1>1. \A c \in Coins : r[c] \in Nat
  BY DEF Reserves
<1>2. \A c \in Coins : (Cardinality(Coins) * r[c] * Wad) \div Base(r) \in Nat
  BY <1>1, ShareOfBase
<1>3. QED BY <1>2 DEF Normalised

LEMMA PowerSumIsNat ==
  ASSUME NEW x \in [Coins -> Nat], NEW S \in SUBSET Coins, NEW p \in Concentrations
  PROVE  PowerSum(x, S, p) \in Nat
<1> DEFINE f == [c \in Coins |-> WadPow(x[c], p)]
<1>1. \A c \in S : f[c] \in Nat
  BY PowersAreNat
<1>2. IsFiniteSet(S)
  BY CoinsAreFinite, FS_Subset
<1>3. PowerSum(x, S, p) = SumOver(f, S)
  BY DEF PowerSum
<1> HIDE DEF f
<1>4. QED BY <1>1, <1>2, <1>3, SumNat

LEMMA LeftIsNat ==
  ASSUME concentration \in Concentrations, NEW r \in Reserves, NEW a \in Coins, NEW b \in Coins,
         NEW n \in Nat
  PROVE  LeftOf(r, a, b, n) \in Nat
<1> DEFINE x      == Normalised(r)
           filled == [x EXCEPT ![a] = @ + (Cardinality(Coins) * n * Wad) \div Base(r)]
           others == PowerSum(filled, Coins \ {b}, concentration)
           K      == Invariant(r)
<1>1. x \in [Coins -> Nat]
  BY NormalisedType
<1>2. filled \in [Coins -> Nat]
  BY <1>1, ShareOfBase
<1>3. others \in Nat
  BY <1>2, PowerSumIsNat
<1>4. K \in Nat
  BY <1>1, PowerSumIsNat DEF Invariant
<1>5. LeftOf(r, a, b, n) = IF others >= K THEN 0 ELSE WadRoot(K - others, concentration)
  BY DEF LeftOf
<1> HIDE DEF others, K, filled, x
<1>6. CASE others >= K
  BY <1>5, <1>6
<1>7. CASE ~ (others >= K)
  <2>1. K - others \in Nat
    BY <1>3, <1>4, <1>7
  <2>2. QED BY <1>5, <1>7, <2>1, PowersAreNat
<1>8. QED BY <1>6, <1>7

\* The division that makes an amount of a normalised reserve undershoots.
LEMMA PartialAmount ==
  ASSUME NEW k \in Nat, NEW S \in Nat, NEW N \in Nat, NEW left \in Nat, NEW r \in Nat,
         k > 0, S > 0, left > 0, left < N, N * S <= k * r
  PROVE  ((N - left) * S) \div k \in Nat /\ ((N - left) * S) \div k < r
<1> DEFINE out == ((N - left) * S) \div k
<1>1. N - left \in Nat /\ N - left <= N - 1 /\ (N - left) * S \in Nat
  BY TimesIsNat
<1>2. out \in Nat /\ out * k <= (N - left) * S
  BY <1>1, QuotientIsFloor
<1> HIDE DEF out
<1>3. (N - left) * S <= (N - 1) * S /\ (N - 1) * S = N * S - S
  BY <1>1, Z3
<1>4. N * S \in Nat /\ k * r \in Nat /\ out * k \in Nat
  BY <1>2, TimesIsNat
<1>5. out * k < k * r
  BY <1>1, <1>2, <1>3, <1>4
<1>6. out >= r => out * k >= r * k
  BY <1>2, Z3
<1>7. r * k = k * r
  BY Z3
<1>8. out < r
  BY <1>2, <1>4, <1>5, <1>6, <1>7
<1>9. QED BY <1>2, <1>8 DEF out

\* A trade leaves some of the coin it takes.
LEMMA AmountIsPartial ==
  ASSUME concentration \in Concentrations, NEW r \in Reserves, NEW a \in Coins, NEW b \in Coins,
         NEW n \in Nat, Tradable(r, a, b, n)
  PROVE  AmountOf(r, a, b, n) \in Nat /\ AmountOf(r, a, b, n) < r[b]
<1> DEFINE left == LeftOf(r, a, b, n)
           N    == Normalised(r)[b]
           k    == Cardinality(Coins) * Wad
           S    == Base(r)
<1>1. left \in Nat /\ r[b] \in Nat /\ S \in Nat /\ S > 0
  BY LeftIsNat, BaseIsPositive DEF Reserves
<1>2. N \in Nat
  BY NormalisedType
<1>3. left > 0 /\ left < N
  BY <1>1 DEF Tradable
<1>4. k \in Nat /\ k > 0
  BY CoinsAreFinite, TimesIsNat, Z3
<1>5. N * S <= Cardinality(Coins) * r[b] * Wad
  BY <1>1, ShareOfBase DEF Normalised
<1>6. Cardinality(Coins) * r[b] * Wad = k * r[b]
  BY <1>1, CoinsAreFinite, Z3
<1>7. AmountOf(r, a, b, n) = ((N - left) * S) \div k
  BY DEF AmountOf
<1> HIDE DEF left, N, k, S
<1>8. N * S <= k * r[b]
  BY <1>5, <1>6
<1>9. QED BY <1>1, <1>2, <1>3, <1>4, <1>7, <1>8, PartialAmount

LEMMA FeeIsPart == ASSUME NEW n \in Nat PROVE Fee(n) \in Nat /\ Fee(n) <= n
<1>1. FeeUnit \in Nat /\ FeeUnit > 0 /\ SwapFee \in Nat /\ SwapFee <= FeeUnit
  BY OrbitalAssumption
<1> DEFINE f == (n * SwapFee) \div FeeUnit
<1>2. n * SwapFee \in Nat /\ n * FeeUnit \in Nat
  BY <1>1, TimesIsNat
<1>3. f \in Nat /\ f * FeeUnit <= n * SwapFee
  BY <1>1, <1>2, QuotientIsFloor
<1> HIDE DEF f
<1>4. n * SwapFee <= n * FeeUnit
  BY <1>1, Z3
<1>5. f > n => f * FeeUnit >= (n + 1) * FeeUnit
  BY <1>1, <1>3, Z3
<1>6. (n + 1) * FeeUnit = n * FeeUnit + FeeUnit
  BY <1>1, Z3
<1>7. f * FeeUnit \in Int
  BY <1>1, <1>3, TimesIsNat
<1>8. f <= n
  BY <1>1, <1>2, <1>3, <1>4, <1>5, <1>6, <1>7
<1>9. QED BY <1>3, <1>8 DEF f, Fee

-----------------------------------------------------------------------------
(* Routes *)

RouteStates == [passes : BOOLEAN, coin : Coins, amount : Nat,
                reserves : [Coins -> Nat], fees : [Coins -> Nat]]

\* What a route that came in with n of `from` has left: some of every coin, and
\* all that was there, up to what is on its way.
KeepsAll(s, from, n) ==
  \A c \in Coins :
    /\ s.reserves[c] > 0
    /\ s.reserves[c] + s.fees[c] = reserves[c] + accumulatedFees[c]
                                   + (IF c = from THEN n ELSE 0)
                                   - (IF c = s.coin THEN s.amount ELSE 0)

RouteIsSound(s, from, n) == s \in RouteStates /\ (s.passes => KeepsAll(s, from, n))

LEMMA HopIsSound ==
  ASSUME concentration \in Concentrations, reserves \in [Coins -> Nat],
         accumulatedFees \in [Coins -> Nat],
         NEW from \in Coins, NEW n \in Nat, NEW s, RouteIsSound(s, from, n), NEW b \in Coins
  PROVE  RouteIsSound(Hop(s, b), from, n)
<1> DEFINE a    == s.coin
           net  == s.amount - Fee(s.amount)
           out  == AmountOf(s.reserves, a, b, net)
           new  == Booked(s.reserves, a, b, s.amount, out)
           fees == [s.fees EXCEPT ![a] = @ + Fee(s.amount)]
           good == /\ s.passes /\ a # b /\ s.amount # 0
                   /\ Tradable(s.reserves, a, b, net)
                   /\ Invariant(new) >= Invariant(s.reserves)
           next == [passes |-> TRUE, coin |-> b, amount |-> out, reserves |-> new, fees |-> fees]
<1>1. Hop(s, b) = IF good THEN next ELSE [s EXCEPT !.passes = FALSE]
  BY DEF Hop
<1>2. s \in RouteStates
  BY DEF RouteIsSound
<1>3. CASE ~ good
  <2>1. Hop(s, b) = [s EXCEPT !.passes = FALSE]
    BY <1>1, <1>3
  <2>2. [s EXCEPT !.passes = FALSE] \in RouteStates /\ ~ [s EXCEPT !.passes = FALSE].passes
    BY <1>2 DEF RouteStates
  <2>3. QED BY <2>1, <2>2 DEF RouteIsSound
<1>4. CASE good
  <2>1. /\ a \in Coins /\ s.amount \in Nat /\ s.reserves \in [Coins -> Nat]
        /\ s.fees \in [Coins -> Nat]
    BY <1>2 DEF RouteStates
  <2>2. KeepsAll(s, from, n)
    BY <1>4 DEF RouteIsSound
  <2>3. s.reserves \in Reserves
    BY <2>1, <2>2 DEF KeepsAll, Reserves
  <2>4. Fee(s.amount) \in Nat /\ Fee(s.amount) <= s.amount /\ net \in Nat
    BY <2>1, FeeIsPart
  <2>5. a # b /\ Tradable(s.reserves, a, b, net)
    BY <1>4
  <2> HIDE DEF net
  <2>6. out \in Nat /\ out < s.reserves[b]
    BY <2>1, <2>3, <2>4, <2>5, AmountIsPartial
  <2> HIDE DEF out
  <2> USE DEF net
  <2>7. /\ new = [c \in Coins |-> s.reserves[c] + (IF c = a THEN s.amount - Fee(s.amount) ELSE 0)
                                                - (IF c = b THEN out ELSE 0)]
        /\ fees = [c \in Coins |-> s.fees[c] + (IF c = a THEN Fee(s.amount) ELSE 0)]
    <3>1. fees = [c \in Coins |-> s.fees[c] + (IF c = a THEN Fee(s.amount) ELSE 0)]
      BY <2>1, <2>4
    <3>2. QED BY <3>1 DEF Booked
  <2> HIDE DEF new, fees, a, net
  <2>8. ASSUME NEW c \in Coins
        PROVE  /\ new[c] \in Nat /\ fees[c] \in Nat /\ new[c] > 0
               /\ new[c] + fees[c] = reserves[c] + accumulatedFees[c]
                                     + (IF c = from THEN n ELSE 0) - (IF c = b THEN out ELSE 0)
    <3> DEFINE r == s.reserves[c]
               f == s.fees[c]
               x == IF c = from THEN n ELSE 0
               t == reserves[c] + accumulatedFees[c]
    <3>1. r \in Nat /\ f \in Nat /\ x \in Nat /\ t \in Nat
      BY <2>1
    <3>2. r > 0 /\ r + f = t + x - (IF c = a THEN s.amount ELSE 0)
      BY <2>2 DEF KeepsAll, a
    <3>3. /\ new[c] = r + (IF c = a THEN s.amount - Fee(s.amount) ELSE 0) - (IF c = b THEN out ELSE 0)
          /\ fees[c] = f + (IF c = a THEN Fee(s.amount) ELSE 0)
      BY <2>7
    <3>4. c = b => out < r
      BY <2>6
    <3> HIDE DEF r, f, x, t
    <3>5. CASE c = a
      BY <2>1, <2>4, <2>5, <2>6, <3>1, <3>2, <3>3, <3>4, <3>5 DEF t, x
    <3>6. CASE c # a
      BY <2>1, <2>4, <2>5, <2>6, <3>1, <3>2, <3>3, <3>4, <3>6 DEF t, x
    <3>7. QED BY <3>5, <3>6
  <2>9. new \in [Coins -> Nat] /\ fees \in [Coins -> Nat]
    <3>1. DOMAIN new = Coins /\ DOMAIN fees = Coins
      BY <2>7
    <3>2. QED BY <2>7, <2>8
  <2>10. next \in RouteStates
    BY <2>6, <2>9 DEF RouteStates
  <2>11. KeepsAll(next, from, n)
    BY <2>8 DEF KeepsAll
  <2>12. QED BY <1>1, <1>4, <2>10, <2>11 DEF RouteIsSound
<1>5. QED BY <1>3, <1>4

\* The states along a path, up to its l-th coin.
Follows(after, path, n, l) ==
  after = [k \in 1 .. l |->
             IF k = 1 THEN [passes |-> TRUE, coin |-> path[1], amount |-> n,
                            reserves |-> reserves, fees |-> accumulatedFees]
             ELSE Hop(after[k - 1], path[k])]

LEMMA RouteIsFollowed ==
  ASSUME NEW path, NEW n, NEW l \in Nat, l > 0
  PROVE  \E after : Follows(after, path, n, l)
<1> DEFINE start == [passes |-> TRUE, coin |-> path[1], amount |-> n,
                     reserves |-> reserves, fees |-> accumulatedFees]
           Bad == {m \in Nat : m > 0 /\ ~ \E after : Follows(after, path, n, m)}
<1>1. SUFFICES ASSUME Bad # {} PROVE FALSE
  OBVIOUS
<1>2. PICK m \in Bad : \A i \in Bad : m <= i
  <2>1. Bad \subseteq Nat
    OBVIOUS
  <2> HIDE DEF Bad
  <2>2. QED BY <1>1, <2>1, LeastNatural
<1>3. CASE m = 1
  <2>1. Follows([k \in 1 .. 1 |-> start], path, n, 1)
    BY DEF Follows
  <2>2. QED BY <1>2, <1>3, <2>1
<1>4. CASE m # 1
  <2>1. m - 1 \in Nat /\ m - 1 > 0 /\ m - 1 \notin Bad
    BY <1>2, <1>4
  <2>2. PICK f : Follows(f, path, n, m - 1)
    BY <2>1
  <2> DEFINE g == [k \in 1 .. m |-> IF k = m THEN Hop(f[m - 1], path[m]) ELSE f[k]]
  <2>3. ASSUME NEW k \in 1 .. m
        PROVE  g[k] = IF k = 1 THEN start ELSE Hop(g[k - 1], path[k])
    <3>1. CASE k = m
      <4>1. m - 1 \in 1 .. m /\ m - 1 # m /\ k # 1
        BY <1>2, <1>4, <2>1, <3>1
      <4>2. g[k - 1] = f[m - 1] /\ g[k] = Hop(f[m - 1], path[m])
        BY <3>1, <4>1
      <4>3. QED BY <3>1, <4>1, <4>2
    <3>2. CASE k # m
      <4>1. k \in 1 .. m - 1 /\ g[k] = f[k]
        BY <1>2, <3>2
      <4>2. f[k] = IF k = 1 THEN start ELSE Hop(f[k - 1], path[k])
        BY <2>2, <4>1 DEF Follows
      <4>3. k # 1 => k - 1 \in 1 .. m /\ k - 1 # m /\ g[k - 1] = f[k - 1]
        BY <1>2, <4>1
      <4>4. QED BY <4>1, <4>2, <4>3
    <3>3. QED BY <3>1, <3>2
  <2>4. g = [k \in 1 .. m |-> g[k]]
    OBVIOUS
  <2> HIDE DEF g
  <2>5. g = [k \in 1 .. m |-> IF k = 1 THEN start ELSE Hop(g[k - 1], path[k])]
    BY <2>3, <2>4
  <2>6. Follows(g, path, n, m)
    BY <2>5 DEF Follows
  <2>7. QED BY <1>2, <2>6
<1>5. QED BY <1>3, <1>4

\* A route of any length is sound.
LEMMA RouteStaysSound ==
  ASSUME concentration \in Concentrations, reserves \in Reserves,
         accumulatedFees \in [Coins -> Nat],
         NEW n \in Nat, NEW path, NEW l \in Nat, l > 0, Len(path) = l, path \in [1 .. l -> Coins]
  PROVE  RouteIsSound(Route(path, n), path[1], n)
<1> DEFINE after == CHOOSE f : Follows(f, path, n, l)
           Bad   == {k \in 1 .. l : ~ RouteIsSound(after[k], path[1], n)}
<1>1. Route(path, n) = after[l]
  BY DEF Route, Follows
<1>2. Follows(after, path, n, l)
  BY RouteIsFollowed
<1> HIDE DEF after
<1>3. SUFFICES ASSUME Bad # {} PROVE FALSE
  <2>1. l \in 1 .. l
    OBVIOUS
  <2>2. QED BY <1>1, <2>1
<1>4. PICK k \in Bad : \A i \in Bad : k <= i
  <2>1. Bad \subseteq Nat
    OBVIOUS
  <2> HIDE DEF Bad
  <2>2. QED BY <1>3, <2>1, LeastNatural
<1>5. path[1] \in Coins /\ path[k] \in Coins
  BY <1>4
<1>6. after[k] = IF k = 1 THEN [passes |-> TRUE, coin |-> path[1], amount |-> n,
                                reserves |-> reserves, fees |-> accumulatedFees]
                 ELSE Hop(after[k - 1], path[k])
  BY <1>2, <1>4 DEF Follows
<1>7. reserves \in [Coins -> Nat] /\ \A c \in Coins : reserves[c] > 0
  BY DEF Reserves
<1>8. CASE k = 1
  <2> DEFINE s == [passes |-> TRUE, coin |-> path[1], amount |-> n,
                   reserves |-> reserves, fees |-> accumulatedFees]
  <2>1. s \in RouteStates
    BY <1>5, <1>7 DEF RouteStates
  <2>2. KeepsAll(s, path[1], n)
    BY <1>7 DEF KeepsAll
  <2>3. QED BY <1>4, <1>6, <1>8, <2>1, <2>2 DEF RouteIsSound
<1>9. CASE k # 1
  <2>1. k - 1 \in 1 .. l /\ k - 1 \notin Bad
    BY <1>4, <1>9
  <2>2. RouteIsSound(after[k - 1], path[1], n)
    BY <2>1
  <2>3. RouteIsSound(Hop(after[k - 1], path[k]), path[1], n)
    BY <1>5, <1>7, <2>2, HopIsSound
  <2>4. QED BY <1>4, <1>6, <1>9, <2>3
<1>10. QED BY <1>8, <1>9

-----------------------------------------------------------------------------
(* The invariant of the Orbital market *)

Shareholders == Callers \cup {Nowhere}

OrbitalTypes ==
  /\ concentration \in Concentrations
  /\ reserves \in [Coins -> Nat] /\ accumulatedFees \in [Coins -> Nat]
  /\ holdings \in [Coins -> Nat]
  /\ totalSupply \in Nat /\ balanceOf \in [Shareholders -> Nat]

\* While there are shares the first deposit's lock is among them, and there is
\* some of every coin; before there are any there is none.
LockedForGood ==
  /\ totalSupply > 0 => balanceOf[Nowhere] >= LockedShares /\ \A c \in Coins : reserves[c] > 0
  /\ totalSupply = 0 => \A c \in Coins : reserves[c] = 0

OrbitalInv == OrbitalTypes /\ OrbitalIsBacked /\ LockedForGood

LEMMA ShareholdersAreFinite ==
  /\ IsFiniteSet(Shareholders) /\ Nowhere \in Shareholders /\ Nowhere \notin Callers
  /\ Callers \subseteq Shareholders
<1>1. IsFiniteSet(Callers \cup {Nowhere})
  BY OrbitalAssumption, FS_AddElement
<1>2. QED BY <1>1, OrbitalAssumption DEF Shareholders

\* What two holders have is no more than there is.
LEMMA TwoHoldings ==
  ASSUME NEW f \in [Shareholders -> Nat], NEW u \in Shareholders, NEW v \in Shareholders, u # v
  PROVE  f[u] + f[v] <= SumOver(f, Shareholders)
<1> DEFINE g == [x \in Shareholders |-> IF x = u THEN 0 ELSE f[x]]
<1>1. IsFiniteSet(Shareholders)
  BY ShareholdersAreFinite
<1>2. g \in [Shareholders -> Nat] /\ g[u] = 0 /\ g[v] = f[v]
      /\ \A x \in Shareholders : x # u => f[x] = g[x]
  OBVIOUS
<1> HIDE DEF g
<1>3. g[v] <= SumOver(g, Shareholders)
  BY <1>1, <1>2, SumMember
<1>4. SumOver(f, Shareholders) = SumOver(g, Shareholders) + (f[u] - g[u])
  BY <1>1, <1>2, SumUpdate
<1>5. SumOver(g, Shareholders) \in Nat
  BY <1>1, <1>2, SumNat
<1>6. QED BY <1>2, <1>3, <1>4, <1>5

\* One holder's shares change.
LEMMA SharesChange ==
  ASSUME NEW f \in [Shareholders -> Nat], NEW u \in Shareholders, NEW n \in Nat
  PROVE  SumOver([f EXCEPT ![u] = n], Shareholders) = SumOver(f, Shareholders) + (n - f[u])
<1> DEFINE g == [f EXCEPT ![u] = n]
<1>1. IsFiniteSet(Shareholders)
  BY ShareholdersAreFinite
<1>2. g \in [Shareholders -> Nat] /\ g[u] = n /\ \A x \in Shareholders : x # u => g[x] = f[x]
  OBVIOUS
<1> HIDE DEF g
<1>3. SumOver(g, Shareholders) = SumOver(f, Shareholders) + (g[u] - f[u])
  BY <1>1, <1>2, SumUpdate
<1>4. SumOver(g, Shareholders) = SumOver(f, Shareholders) + (n - f[u])
  BY <1>2, <1>3
<1>5. QED BY <1>4 DEF g

LEMMA OrbitalStarts == OrbitalInit => OrbitalInv
<1>1. SUFFICES ASSUME OrbitalInit PROVE OrbitalInv
  OBVIOUS
<1>2. /\ concentration \in Concentrations /\ reserves = NoCoins /\ accumulatedFees = NoCoins
      /\ holdings = NoCoins /\ totalSupply = 0 /\ balanceOf = [u \in Shareholders |-> 0]
  BY <1>1 DEF OrbitalInit, Shareholders
<1>3. NoCoins \in [Coins -> Nat] /\ \A c \in Coins : NoCoins[c] = 0
  BY DEF NoCoins
<1>4. OrbitalTypes
  BY <1>2, <1>3 DEF OrbitalTypes
<1>5. SumOver(balanceOf, Shareholders) = 0
  <2>1. \A x \in Shareholders : balanceOf[x] = 0
    BY <1>2
  <2>2. QED BY <2>1, ShareholdersAreFinite, SumZero
<1>6. OrbitalIsBacked
  <2>1. \A c \in Coins : holdings[c] >= reserves[c] + accumulatedFees[c]
    BY <1>2, <1>3
  <2>2. QED BY <1>2, <1>5, <2>1 DEF OrbitalIsBacked, Shareholders
<1>7. LockedForGood
  BY <1>2, <1>3 DEF LockedForGood
<1>8. QED BY <1>4, <1>6, <1>7 DEF OrbitalInv

\* What a step has to show: the coins and the shares, each on its own.
LEMMA OrbitalKept ==
  ASSUME OrbitalInv, concentration' = concentration,
         reserves' \in [Coins -> Nat], accumulatedFees' \in [Coins -> Nat],
         holdings' \in [Coins -> Nat],
         \A c \in Coins : holdings'[c] >= reserves'[c] + accumulatedFees'[c],
         totalSupply' \in Nat, balanceOf' \in [Shareholders -> Nat],
         totalSupply' = SumOver(balanceOf', Shareholders),
         totalSupply' > 0 => /\ balanceOf'[Nowhere] >= LockedShares
                             /\ \A c \in Coins : reserves'[c] > 0,
         totalSupply' = 0 => \A c \in Coins : reserves'[c] = 0
  PROVE  OrbitalInv'
<1>1. OrbitalTypes'
  BY DEF OrbitalTypes, OrbitalInv, Shareholders
<1>2. OrbitalIsBacked'
  BY DEF OrbitalIsBacked, Shareholders
<1>3. LockedForGood'
  BY DEF LockedForGood
<1>4. QED BY <1>1, <1>2, <1>3 DEF OrbitalInv

\* Whoever moves no share and no coin moves nothing of the invariant.
LEMMA NothingMoved ==
  ASSUME OrbitalInv,
         UNCHANGED <<concentration, reserves, accumulatedFees, holdings, totalSupply, balanceOf>>
  PROVE  OrbitalInv'
BY DEF OrbitalInv, OrbitalTypes, OrbitalIsBacked, LockedForGood

LEMMA TheInvariantSays ==
  ASSUME OrbitalInv
  PROVE  /\ concentration \in Concentrations
         /\ reserves \in [Coins -> Nat] /\ accumulatedFees \in [Coins -> Nat]
         /\ holdings \in [Coins -> Nat]
         /\ totalSupply \in Nat /\ balanceOf \in [Shareholders -> Nat]
         /\ \A c \in Coins : holdings[c] >= reserves[c] + accumulatedFees[c]
         /\ totalSupply = SumOver(balanceOf, Shareholders)
         /\ totalSupply > 0 => /\ balanceOf[Nowhere] >= LockedShares
                               /\ \A c \in Coins : reserves[c] > 0
         /\ totalSupply = 0 => \A c \in Coins : reserves[c] = 0
BY DEF OrbitalInv, OrbitalTypes, OrbitalIsBacked, LockedForGood, Shareholders

LEMMA SwapKeepsAll ==
  ASSUME OrbitalInv, NEW path \in Paths, NEW n \in SwapAmounts, SwapAlong(path, n)
  PROVE  OrbitalInv'
<1> DEFINE s == Route(path, n)
<1>1. n \in Nat
  BY OrbitalAssumption
<1>2. PICK l \in 2 .. MaxHops + 1 : path \in [1 .. l -> Coins]
  BY DEF Paths
<1>3. l \in Nat /\ l > 0 /\ Len(path) = l
  BY <1>2, OrbitalAssumption
<1>4. totalSupply > 0 /\ reserves \in Reserves
  <2>1. totalSupply # 0 /\ totalSupply \in Nat
    BY TheInvariantSays DEF SwapAlong
  <2>2. QED BY <2>1, TheInvariantSays DEF Reserves
<1>5. RouteIsSound(s, path[1], n)
  BY <1>1, <1>2, <1>3, <1>4, TheInvariantSays, RouteStaysSound
<1>6. /\ s.passes /\ reserves' = s.reserves /\ accumulatedFees' = s.fees
      /\ holdings' = [c \in Coins |-> holdings[c] + (IF c = path[1] THEN n ELSE 0)
                                                  - (IF c = s.coin THEN s.amount ELSE 0)]
      /\ UNCHANGED <<concentration, totalSupply, balanceOf>>
  BY DEF SwapAlong, shareVars
<1> HIDE DEF s
<1>7. s \in RouteStates /\ KeepsAll(s, path[1], n)
  BY <1>5, <1>6 DEF RouteIsSound
<1>8. s.reserves \in [Coins -> Nat] /\ s.fees \in [Coins -> Nat] /\ s.amount \in Nat
  BY <1>7 DEF RouteStates
<1>9. ASSUME NEW c \in Coins
      PROVE  /\ reserves'[c] > 0 /\ holdings'[c] >= reserves'[c] + accumulatedFees'[c]
             /\ holdings'[c] \in Nat
  <2>1. /\ holdings[c] >= reserves[c] + accumulatedFees[c] /\ holdings[c] \in Nat
        /\ reserves[c] \in Nat /\ accumulatedFees[c] \in Nat
    BY TheInvariantSays
  <2>2. /\ s.reserves[c] > 0
        /\ s.reserves[c] + s.fees[c] = reserves[c] + accumulatedFees[c]
                                       + (IF c = path[1] THEN n ELSE 0)
                                       - (IF c = s.coin THEN s.amount ELSE 0)
    BY <1>7 DEF KeepsAll
  <2>3. holdings'[c] = holdings[c] + (IF c = path[1] THEN n ELSE 0)
                                   - (IF c = s.coin THEN s.amount ELSE 0)
    BY <1>6
  <2>4. s.reserves[c] \in Nat /\ s.fees[c] \in Nat /\ s.amount \in Nat
    BY <1>8
  <2>5. holdings'[c] >= s.reserves[c] + s.fees[c] /\ holdings'[c] \in Int
    BY <1>1, <2>1, <2>2, <2>3, <2>4
  <2>6. QED BY <1>6, <2>2, <2>4, <2>5
<1>10. holdings' \in [Coins -> Nat]
  <2>1. DOMAIN holdings' = Coins /\ holdings' = [c \in Coins |-> holdings'[c]]
    BY <1>6
  <2>2. QED BY <1>9, <2>1
<1>11. /\ reserves' \in [Coins -> Nat] /\ accumulatedFees' \in [Coins -> Nat]
       /\ \A c \in Coins : reserves'[c] > 0
       /\ \A c \in Coins : holdings'[c] >= reserves'[c] + accumulatedFees'[c]
  BY <1>6, <1>8, <1>9
<1>12. /\ totalSupply' \in Nat /\ totalSupply' > 0 /\ balanceOf' \in [Shareholders -> Nat]
       /\ totalSupply' = SumOver(balanceOf', Shareholders) /\ balanceOf'[Nowhere] >= LockedShares
  BY <1>4, <1>6, TheInvariantSays
<1>13. QED BY <1>6, <1>10, <1>11, <1>12, OrbitalKept

LEMMA CollectKeepsAll ==
  ASSUME OrbitalInv, CollectFees
  PROVE  OrbitalInv'
<1>1. /\ accumulatedFees' = NoCoins
      /\ holdings' = [c \in Coins |-> holdings[c] - accumulatedFees[c]]
      /\ UNCHANGED <<concentration, reserves, totalSupply, balanceOf>>
  BY DEF CollectFees, shareVars
<1>2. ASSUME NEW c \in Coins
      PROVE  /\ holdings[c] - accumulatedFees[c] >= reserves[c]
             /\ holdings[c] - accumulatedFees[c] \in Nat /\ NoCoins[c] = 0
  <2>1. holdings[c] >= reserves[c] + accumulatedFees[c] /\ reserves[c] \in Nat
        /\ accumulatedFees[c] \in Nat /\ holdings[c] \in Nat
    BY TheInvariantSays
  <2>2. QED BY <2>1 DEF NoCoins
<1>4. \A c \in Coins : holdings'[c] >= reserves'[c] + accumulatedFees'[c]
  <2> TAKE c \in Coins
  <2>1. /\ holdings'[c] >= reserves[c] /\ holdings'[c] \in Nat
        /\ accumulatedFees'[c] = 0 /\ reserves[c] \in Nat
    BY <1>1, <1>2, TheInvariantSays
  <2>2. QED BY <1>1, <2>1
<1>5. holdings' \in [Coins -> Nat] /\ accumulatedFees' \in [Coins -> Nat]
  BY <1>1, <1>2, TheInvariantSays DEF NoCoins
<1>6. /\ totalSupply' = totalSupply /\ balanceOf' = balanceOf /\ reserves' = reserves
      /\ concentration' = concentration
  BY <1>1
<1>7. QED BY ONLY <1>4, <1>5, <1>6, OrbitalInv, TheInvariantSays, OrbitalKept

\* A pool without shares has no shareholder.
LEMMA NobodyWithoutShares ==
  ASSUME OrbitalInv, totalSupply = 0, NEW u \in Shareholders
  PROVE  balanceOf[u] = 0
<1>1. balanceOf[u] <= SumOver(balanceOf, Shareholders)
  BY TheInvariantSays, ShareholdersAreFinite, SumMember
<1>2. balanceOf[u] \in Nat
  BY TheInvariantSays
<1>3. QED BY <1>1, <1>2, TheInvariantSays

LEMMA FirstDepositKeepsAll ==
  ASSUME OrbitalInv, NEW u \in Callers, NEW offer \in Deposits, FirstDeposit(u, offer)
  PROVE  OrbitalInv'
<1> DEFINE radius == WadRoot(Invariant(offer), concentration)
           n      == radius - LockedShares
           given  == [balanceOf EXCEPT ![u] = n]
           locked == [given EXCEPT ![Nowhere] = LockedShares]
<1>1. /\ totalSupply = 0 /\ (\A c \in Coins : offer[c] # 0) /\ radius > LockedShares
      /\ reserves' = offer
      /\ holdings' = [c \in Coins |-> holdings[c] + offer[c]]
      /\ totalSupply' = n + LockedShares
      /\ balanceOf' = [balanceOf EXCEPT ![u] = @ + n, ![Nowhere] = LockedShares]
      /\ UNCHANGED <<concentration, accumulatedFees>>
  BY DEF FirstDeposit, FirstShares
<1>2. offer \in [Coins -> Nat]
  BY OrbitalAssumption
<1>3. offer \in Reserves
  BY <1>1, <1>2 DEF Reserves
<1>4. Invariant(offer) \in Nat
  <2>1. Normalised(offer) \in [Coins -> Nat]
    BY <1>3, NormalisedType
  <2>2. QED BY <2>1, TheInvariantSays, PowerSumIsNat DEF Invariant
<1>5. radius \in Nat
  BY <1>4, TheInvariantSays, PowersAreNat
<1> HIDE DEF radius
<1>6. n \in Nat /\ LockedShares \in Nat /\ LockedShares > 0
  BY <1>1, <1>5, CoinsAreFinite
<1>7. u \in Shareholders /\ Nowhere \in Shareholders /\ u # Nowhere
  BY ShareholdersAreFinite
<1>8. balanceOf[u] = 0 /\ balanceOf[Nowhere] = 0 /\ SumOver(balanceOf, Shareholders) = 0
  BY <1>1, <1>7, NobodyWithoutShares, TheInvariantSays
<1>9. balanceOf \in [Shareholders -> Nat]
  BY TheInvariantSays
<1> HIDE DEF n
<1>10. given \in [Shareholders -> Nat] /\ locked \in [Shareholders -> Nat]
       /\ given[Nowhere] = 0 /\ locked[Nowhere] = LockedShares
  BY <1>6, <1>7, <1>8, <1>9
<1>11. balanceOf' = locked
  BY <1>1, <1>6, <1>7, <1>8, <1>9
<1>12. SumOver(given, Shareholders) = n
  <2>1. SumOver(given, Shareholders) = SumOver(balanceOf, Shareholders) + (n - balanceOf[u])
    BY <1>6, <1>7, <1>9, SharesChange
  <2>2. QED BY <1>6, <1>8, <2>1
<1> HIDE DEF given
<1>13. SumOver(locked, Shareholders) = n + LockedShares
  <2>1. SumOver(locked, Shareholders)
          = SumOver(given, Shareholders) + (LockedShares - given[Nowhere])
    BY <1>6, <1>7, <1>10, SharesChange
  <2>2. QED BY <1>6, <1>10, <1>12, <2>1
<1> HIDE DEF locked
<1>14. \A c \in Coins : offer[c] > 0
  BY <1>1, <1>2
<1>15. \A c \in Coins : holdings'[c] >= reserves'[c] + accumulatedFees'[c]
  <2> TAKE c \in Coins
  <2>1. holdings[c] >= reserves[c] + accumulatedFees[c]
    BY TheInvariantSays
  <2>2. reserves[c] \in Nat /\ accumulatedFees[c] \in Nat /\ offer[c] \in Nat /\ holdings[c] \in Nat
    BY <1>2, TheInvariantSays
  <2>3. reserves[c] = 0
    BY <1>1, TheInvariantSays
  <2>4. QED BY <1>1, <2>1, <2>2, <2>3
<1>16. holdings' \in [Coins -> Nat]
  BY <1>1, <1>2, TheInvariantSays
<1>17. totalSupply' \in Nat /\ totalSupply' > 0 /\ totalSupply' = SumOver(balanceOf', Shareholders)
  <2>1. totalSupply' = n + LockedShares /\ SumOver(balanceOf', Shareholders) = n + LockedShares
    BY <1>1, <1>11, <1>13
  <2>2. QED BY <1>6, <2>1
<1>18. balanceOf' \in [Shareholders -> Nat] /\ balanceOf'[Nowhere] >= LockedShares
  <2>1. balanceOf' \in [Shareholders -> Nat] /\ balanceOf'[Nowhere] = LockedShares
    BY <1>10, <1>11
  <2>2. QED BY <1>6, <2>1
<1>19. /\ reserves' \in [Coins -> Nat] /\ accumulatedFees' \in [Coins -> Nat]
       /\ concentration' = concentration /\ \A c \in Coins : reserves'[c] > 0
  BY <1>1, <1>2, <1>14, TheInvariantSays
<1>20. QED BY ONLY <1>15, <1>16, <1>17, <1>18, <1>19, OrbitalInv, OrbitalKept

\* The least ratio of an offer.
LEMMA MinRatioIs ==
  ASSUME reserves \in Reserves, NEW offer \in [Coins -> Nat]
  PROVE  MinRatio(offer) \in Nat
<1>1. \A c \in Coins : Ratio(offer, c) \in Nat
  <2> TAKE c \in Coins
  <2>1. offer[c] \in Nat /\ Wad \in Nat /\ reserves[c] \in Nat /\ reserves[c] # 0
    BY CoinsAreFinite DEF Reserves
  <2>2. offer[c] * Wad \in Nat
    BY <2>1, TimesIsNat
  <2>3. QED BY <2>1, <2>2, QuotientIsFloor DEF Ratio
<1> DEFINE S == {Ratio(offer, c) : c \in Coins}
<1>2. S \subseteq Nat /\ S # {}
  BY <1>1, CoinsAreFinite
<1>3. PICK m \in S : \A k \in S : m <= k
  <2> HIDE DEF S
  <2>1. QED BY <1>2, LeastNatural
<1>4. \E c \in Coins : \A d \in Coins : Ratio(offer, c) <= Ratio(offer, d)
  BY <1>3
<1>5. PICK e \in Coins : MinRatio(offer) = Ratio(offer, e)
  BY <1>4 DEF MinRatio
<1>6. QED BY <1>1, <1>5

LEMMA TakenIs ==
  ASSUME reserves \in Reserves, totalSupply \in Nat, NEW offer \in [Coins -> Nat]
  PROVE  Taken(offer) \in [Coins -> Nat] /\ Earned(offer) \in Nat
<1>1. MinRatio(offer) \in Nat /\ Wad \in Nat /\ Wad # 0
  BY MinRatioIs, CoinsAreFinite
<1>2. \A c \in Coins : (reserves[c] * MinRatio(offer)) \div Wad \in Nat
  <2> TAKE c \in Coins
  <2>1. reserves[c] \in Nat
    BY DEF Reserves
  <2>2. reserves[c] * MinRatio(offer) \in Nat
    BY <1>1, <2>1, TimesIsNat
  <2>3. QED BY <1>1, <2>2, QuotientIsFloor
<1>3. totalSupply * MinRatio(offer) \in Nat
  BY <1>1, TimesIsNat
<1>4. QED BY <1>1, <1>2, <1>3, QuotientIsFloor DEF Taken, Earned

LEMMA DepositKeepsAll ==
  ASSUME OrbitalInv, NEW u \in Callers, NEW offer \in Deposits, Deposit(u, offer)
  PROVE  OrbitalInv'
<1> DEFINE taken  == Taken(offer)
           earned == Earned(offer)
<1>1. /\ totalSupply # 0
      /\ reserves' = [c \in Coins |-> reserves[c] + taken[c]]
      /\ holdings' = [c \in Coins |-> holdings[c] + taken[c]]
      /\ totalSupply' = totalSupply + earned
      /\ balanceOf' = [balanceOf EXCEPT ![u] = @ + earned]
      /\ UNCHANGED <<concentration, accumulatedFees>>
  BY DEF Deposit, Accepts
<1>2. totalSupply \in Nat /\ totalSupply > 0 /\ reserves \in Reserves /\ offer \in [Coins -> Nat]
  BY <1>1, OrbitalAssumption, TheInvariantSays DEF Reserves
<1>3. taken \in [Coins -> Nat] /\ earned \in Nat
  BY <1>2, TakenIs
<1> HIDE DEF taken, earned
<1>4. u \in Shareholders /\ u # Nowhere /\ Nowhere \in Shareholders
  BY ShareholdersAreFinite
<1>5. /\ balanceOf \in [Shareholders -> Nat] /\ balanceOf[Nowhere] >= LockedShares
      /\ LockedShares \in Nat /\ LockedShares > 0
      /\ totalSupply = SumOver(balanceOf, Shareholders)
  BY <1>2, TheInvariantSays, CoinsAreFinite
<1>6. balanceOf[u] \in Nat /\ balanceOf[u] + earned \in Nat
  BY <1>3, <1>4, <1>5
<1>7. balanceOf' = [balanceOf EXCEPT ![u] = balanceOf[u] + earned]
  BY <1>1, <1>4, <1>5
<1>8. SumOver([balanceOf EXCEPT ![u] = balanceOf[u] + earned], Shareholders)
        = SumOver(balanceOf, Shareholders) + ((balanceOf[u] + earned) - balanceOf[u])
  BY <1>4, <1>5, <1>6, SharesChange
<1>9. totalSupply' \in Nat /\ totalSupply' > 0 /\ totalSupply' = SumOver(balanceOf', Shareholders)
  <2>1. SumOver(balanceOf', Shareholders) = totalSupply + ((balanceOf[u] + earned) - balanceOf[u])
    BY <1>5, <1>7, <1>8
  <2>2. QED BY <1>1, <1>2, <1>3, <1>6, <2>1
<1>10. balanceOf' \in [Shareholders -> Nat] /\ balanceOf'[Nowhere] >= LockedShares
  BY <1>4, <1>5, <1>6, <1>7
<1>11. ASSUME NEW c \in Coins
       PROVE  /\ reserves'[c] \in Nat /\ reserves'[c] > 0
              /\ holdings'[c] >= reserves'[c] + accumulatedFees'[c] /\ holdings'[c] \in Nat
  <2>1. /\ holdings[c] >= reserves[c] + accumulatedFees[c] /\ reserves[c] \in Nat
        /\ accumulatedFees[c] \in Nat /\ reserves[c] > 0 /\ taken[c] \in Nat /\ holdings[c] \in Nat
    BY <1>2, <1>3, TheInvariantSays
  <2>2. /\ reserves'[c] = reserves[c] + taken[c] /\ holdings'[c] = holdings[c] + taken[c]
        /\ accumulatedFees'[c] = accumulatedFees[c]
    BY <1>1
  <2>3. QED BY <2>1, <2>2
<1>12. /\ reserves' \in [Coins -> Nat] /\ holdings' \in [Coins -> Nat]
       /\ accumulatedFees' \in [Coins -> Nat] /\ concentration' = concentration
  <2>1. reserves' = [c \in Coins |-> reserves'[c]] /\ holdings' = [c \in Coins |-> holdings'[c]]
    BY <1>1
  <2>2. QED BY <1>1, <1>11, <2>1, TheInvariantSays
<1>13. QED BY <1>9, <1>10, <1>11, <1>12, OrbitalKept

\* What is paid for some of the shares leaves some of every coin.
LEMMA WorthIsPartial ==
  ASSUME NEW r \in Nat, NEW n \in Nat, NEW T \in Nat, r > 0, n < T
  PROVE  (r * n) \div T \in Nat /\ (r * n) \div T < r
<1> DEFINE out == (r * n) \div T
<1>1. r * n \in Nat /\ r * T \in Nat
  BY TimesIsNat
<1>2. out \in Nat /\ out * T <= r * n
  BY <1>1, QuotientIsFloor
<1> HIDE DEF out
<1>3. r * n < r * T
  BY Z3
<1>4. out >= r => out * T >= r * T
  BY <1>2, Z3
<1>5. out * T \in Int
  BY <1>2, TimesIsNat
<1>6. out < r
  BY <1>1, <1>2, <1>3, <1>4, <1>5
<1>7. QED BY <1>2, <1>6 DEF out

LEMMA WithdrawKeepsAll ==
  ASSUME OrbitalInv, NEW u \in Callers, NEW n \in Parts(u), Withdraw(u, n)
  PROVE  OrbitalInv' /\ totalSupply' > 0
<1> DEFINE out == Worth(reserves, n, totalSupply)
<1>1. /\ n # 0 /\ balanceOf[u] >= n
      /\ balanceOf' = [balanceOf EXCEPT ![u] = @ - n]
      /\ totalSupply' = totalSupply - n
      /\ reserves' = [c \in Coins |-> reserves[c] - out[c]]
      /\ holdings' = [c \in Coins |-> holdings[c] - out[c]]
      /\ UNCHANGED <<concentration, accumulatedFees>>
  BY DEF Withdraw
<1>2. /\ balanceOf \in [Shareholders -> Nat] /\ totalSupply \in Nat
      /\ totalSupply = SumOver(balanceOf, Shareholders) /\ LockedShares \in Nat /\ LockedShares > 0
  BY TheInvariantSays, CoinsAreFinite
<1>3. u \in Shareholders /\ u # Nowhere /\ Nowhere \in Shareholders
  BY ShareholdersAreFinite
<1>4. n \in Nat /\ balanceOf[u] \in Nat /\ balanceOf[Nowhere] \in Nat
  <2>1. balanceOf[u] \in Nat /\ balanceOf[Nowhere] \in Nat
    BY <1>2, <1>3
  <2>2. QED BY <2>1, OrbitalAssumption DEF Parts
<1>5. balanceOf[u] + balanceOf[Nowhere] <= totalSupply
  BY <1>2, <1>3, TwoHoldings
<1>6. totalSupply > 0
  BY <1>1, <1>2, <1>4, <1>5
<1>7. balanceOf[Nowhere] >= LockedShares /\ \A c \in Coins : reserves[c] > 0
  BY <1>6, TheInvariantSays
<1>8. n < totalSupply /\ balanceOf[u] - n \in Nat
  BY <1>1, <1>2, <1>4, <1>5, <1>7
<1>9. balanceOf' = [balanceOf EXCEPT ![u] = balanceOf[u] - n]
  BY <1>1, <1>2, <1>3
<1>10. SumOver([balanceOf EXCEPT ![u] = balanceOf[u] - n], Shareholders)
         = SumOver(balanceOf, Shareholders) + ((balanceOf[u] - n) - balanceOf[u])
  BY <1>2, <1>3, <1>8, SharesChange
<1>11. totalSupply' \in Nat /\ totalSupply' > 0 /\ totalSupply' = SumOver(balanceOf', Shareholders)
  <2>1. SumOver(balanceOf', Shareholders) = totalSupply + ((balanceOf[u] - n) - balanceOf[u])
    BY <1>2, <1>9, <1>10
  <2>2. QED BY <1>1, <1>2, <1>4, <1>8, <2>1
<1>12. balanceOf' \in [Shareholders -> Nat] /\ balanceOf'[Nowhere] >= LockedShares
  BY <1>2, <1>3, <1>7, <1>8, <1>9
<1>13. ASSUME NEW c \in Coins
       PROVE  /\ reserves'[c] \in Nat /\ reserves'[c] > 0
              /\ holdings'[c] >= reserves'[c] + accumulatedFees'[c] /\ holdings'[c] \in Nat
  <2>1. /\ holdings[c] >= reserves[c] + accumulatedFees[c] /\ reserves[c] \in Nat
        /\ accumulatedFees[c] \in Nat /\ reserves[c] > 0 /\ holdings[c] \in Nat
    BY <1>7, TheInvariantSays
  <2>2. out[c] = (reserves[c] * n) \div totalSupply
    BY DEF Worth
  <2>3. out[c] \in Nat /\ out[c] < reserves[c]
    BY <1>2, <1>4, <1>8, <2>1, <2>2, WorthIsPartial
  <2>4. /\ reserves'[c] = reserves[c] - out[c] /\ holdings'[c] = holdings[c] - out[c]
        /\ accumulatedFees'[c] = accumulatedFees[c]
    BY <1>1
  <2> HIDE DEF out
  <2>5. QED BY <2>1, <2>3, <2>4
<1>14. /\ reserves' \in [Coins -> Nat] /\ holdings' \in [Coins -> Nat]
       /\ accumulatedFees' \in [Coins -> Nat] /\ concentration' = concentration
  <2>1. reserves' = [c \in Coins |-> reserves'[c]] /\ holdings' = [c \in Coins |-> holdings'[c]]
    BY <1>1
  <2>2. QED BY <1>1, <1>13, <2>1, TheInvariantSays
<1>15. OrbitalInv'
  BY ONLY <1>11, <1>12, <1>13, <1>14, OrbitalInv, OrbitalKept
<1>16. QED BY <1>11, <1>15

LEMMA SendKeepsAll ==
  ASSUME OrbitalInv, NEW u \in Callers, NEW v \in Callers, NEW n \in Parts(u), SendShares(u, v, n)
  PROVE  OrbitalInv'
<1> DEFINE taken == [balanceOf EXCEPT ![u] = balanceOf[u] - n]
           given == [taken EXCEPT ![v] = balanceOf[v] + n]
<1>1. /\ u # v /\ balanceOf[u] >= n
      /\ balanceOf' = [balanceOf EXCEPT ![u] = @ - n, ![v] = @ + n]
      /\ UNCHANGED <<concentration, reserves, accumulatedFees, totalSupply, holdings>>
  BY DEF SendShares
<1>2. /\ balanceOf \in [Shareholders -> Nat] /\ totalSupply \in Nat
      /\ totalSupply = SumOver(balanceOf, Shareholders)
  BY TheInvariantSays
<1>3. u \in Shareholders /\ v \in Shareholders /\ u # Nowhere /\ v # Nowhere
      /\ Nowhere \in Shareholders
  BY ShareholdersAreFinite
<1>4. balanceOf[u] \in Nat /\ balanceOf[v] \in Nat /\ n \in Nat
  <2>1. balanceOf[u] \in Nat /\ balanceOf[v] \in Nat
    BY <1>2, <1>3
  <2>2. QED BY <2>1, OrbitalAssumption DEF Parts
<1>5. balanceOf[u] - n \in Nat /\ balanceOf[v] + n \in Nat
  BY <1>1, <1>4
<1>6. taken \in [Shareholders -> Nat] /\ taken[v] = balanceOf[v]
      /\ taken[Nowhere] = balanceOf[Nowhere]
  BY <1>1, <1>2, <1>3, <1>5
<1>7. given \in [Shareholders -> Nat] /\ given[Nowhere] = balanceOf[Nowhere]
  BY <1>3, <1>5, <1>6
<1>8. balanceOf' = given
  BY <1>1, <1>2, <1>3
<1>9. SumOver(taken, Shareholders)
        = SumOver(balanceOf, Shareholders) + ((balanceOf[u] - n) - balanceOf[u])
  BY <1>2, <1>3, <1>5, SharesChange
<1> HIDE DEF taken
<1>10. SumOver(given, Shareholders) = SumOver(taken, Shareholders) + ((balanceOf[v] + n) - taken[v])
  BY <1>3, <1>5, <1>6, SharesChange
<1>11. SumOver(given, Shareholders) = totalSupply
  <2>1. SumOver(taken, Shareholders) = totalSupply + ((balanceOf[u] - n) - balanceOf[u])
    BY <1>2, <1>9
  <2>2. QED BY <1>2, <1>4, <1>6, <1>10, <2>1
<1> HIDE DEF given
<1>12. /\ totalSupply' \in Nat /\ totalSupply' = SumOver(balanceOf', Shareholders)
       /\ balanceOf' \in [Shareholders -> Nat] /\ balanceOf'[Nowhere] = balanceOf[Nowhere]
  BY <1>1, <1>2, <1>7, <1>8, <1>11
<1>13. /\ reserves' = reserves /\ accumulatedFees' = accumulatedFees /\ holdings' = holdings
       /\ totalSupply' = totalSupply /\ concentration' = concentration
  BY <1>1
<1>14. QED BY ONLY <1>12, <1>13, OrbitalInv, TheInvariantSays, OrbitalKept

LEMMA GiftKeepsAll ==
  ASSUME OrbitalInv, NEW c \in Coins, NEW n \in SwapAmounts, SendCoins(c, n)
  PROVE  OrbitalInv'
<1>1. /\ holdings' = [holdings EXCEPT ![c] = @ + n]
      /\ UNCHANGED <<concentration, reserves, accumulatedFees, totalSupply, balanceOf>>
  BY DEF SendCoins, shareVars
<1>2. n \in Nat /\ holdings \in [Coins -> Nat]
  BY OrbitalAssumption, TheInvariantSays
<1>3. ASSUME NEW d \in Coins
      PROVE  holdings'[d] \in Nat /\ holdings'[d] >= holdings[d] /\ holdings[d] \in Nat
  BY <1>1, <1>2
<1>4. ASSUME NEW d \in Coins PROVE holdings'[d] >= reserves'[d] + accumulatedFees'[d]
  <2>1. /\ holdings[d] >= reserves[d] + accumulatedFees[d]
        /\ reserves[d] \in Nat /\ accumulatedFees[d] \in Nat
    BY TheInvariantSays
  <2>2. QED BY <1>1, <1>3, <2>1
<1>5. holdings' \in [Coins -> Nat]
  BY <1>1, <1>2
<1>6. /\ totalSupply' = totalSupply /\ balanceOf' = balanceOf /\ reserves' = reserves
      /\ accumulatedFees' = accumulatedFees /\ concentration' = concentration
  BY <1>1
<1>7. QED BY ONLY <1>4, <1>5, <1>6, OrbitalInv, TheInvariantSays, OrbitalKept

LEMMA OrbitalStepKeeps ==
  ASSUME OrbitalInv, [OrbitalNext]_orbitalVars
  PROVE  OrbitalInv' /\ (totalSupply > 0 => totalSupply' > 0)
<1>1. totalSupply \in Nat
  BY TheInvariantSays
<1>2. ASSUME UNCHANGED <<concentration, reserves, accumulatedFees, holdings, totalSupply, balanceOf>>
      PROVE  OrbitalInv' /\ (totalSupply > 0 => totalSupply' > 0)
  <2>1. OrbitalInv'
    BY <1>2, NothingMoved
  <2>2. QED BY <1>2, <2>1
<1>3. CASE NextBlock
  BY <1>2, <1>3 DEF NextBlock, shareVars
<1>4. ASSUME NEW path \in Paths, NEW n \in SwapAmounts, SwapAlong(path, n)
      PROVE  OrbitalInv' /\ (totalSupply > 0 => totalSupply' > 0)
  <2>1. totalSupply' = totalSupply
    BY <1>4 DEF SwapAlong, shareVars
  <2>2. QED BY <1>4, <2>1, SwapKeepsAll
<1>5. CASE CollectFees
  <2>1. totalSupply' = totalSupply
    BY <1>5 DEF CollectFees, shareVars
  <2>2. QED BY <1>5, <2>1, CollectKeepsAll
<1>6. ASSUME NEW u \in Callers, NEW offer \in Deposits, FirstDeposit(u, offer)
      PROVE  OrbitalInv' /\ (totalSupply > 0 => totalSupply' > 0)
  <2>1. totalSupply = 0
    BY <1>6 DEF FirstDeposit
  <2>2. QED BY <1>6, <2>1, FirstDepositKeepsAll
<1>7. ASSUME NEW u \in Callers, NEW offer \in Deposits, Deposit(u, offer)
      PROVE  OrbitalInv' /\ (totalSupply > 0 => totalSupply' > 0)
  <2>1. totalSupply' = totalSupply + Earned(offer) /\ totalSupply # 0
    BY <1>7 DEF Deposit, Accepts
  <2>2. reserves \in Reserves /\ offer \in [Coins -> Nat]
    BY <1>1, <2>1, OrbitalAssumption, TheInvariantSays DEF Reserves
  <2>3. Earned(offer) \in Nat
    BY <1>1, <2>2, TakenIs
  <2>4. totalSupply' > 0
    BY <1>1, <2>1, <2>3
  <2>5. QED BY <1>7, <2>4, DepositKeepsAll
<1>8. ASSUME NEW c \in Coins, NEW n \in SwapAmounts, SendCoins(c, n)
      PROVE  OrbitalInv' /\ (totalSupply > 0 => totalSupply' > 0)
  <2>1. totalSupply' = totalSupply
    BY <1>8 DEF SendCoins, shareVars
  <2>2. QED BY <1>8, <2>1, GiftKeepsAll
<1>9. ASSUME NEW u \in Callers, NEW n \in Parts(u), Withdraw(u, n)
      PROVE  OrbitalInv' /\ (totalSupply > 0 => totalSupply' > 0)
  BY <1>9, WithdrawKeepsAll
<1>10. ASSUME NEW u \in Callers, NEW v \in Callers, NEW n \in Parts(u), SendShares(u, v, n)
       PROVE  OrbitalInv' /\ (totalSupply > 0 => totalSupply' > 0)
  <2>1. totalSupply' = totalSupply
    BY <1>10 DEF SendShares
  <2>2. QED BY <1>10, <2>1, SendKeepsAll
<1>11. CASE SwitchPause
  BY <1>2, <1>11 DEF SwitchPause, shareVars
<1>12. CASE UNCHANGED orbitalVars
  BY <1>2, <1>12 DEF orbitalVars, shareVars
<1>13. QED
  BY <1>3, <1>4, <1>5, <1>6, <1>7, <1>8, <1>9, <1>10, <1>11, <1>12 DEF OrbitalNext

LEMMA OrbitalInvariance == OrbitalSpec => []OrbitalInv
<1>1. OrbitalInit => OrbitalInv
  BY OrbitalStarts
<1>2. OrbitalInv /\ [OrbitalNext]_orbitalVars => OrbitalInv'
  BY OrbitalStepKeeps
<1>3. QED BY <1>1, <1>2, PTL DEF OrbitalSpec

\* The shares of a deposit are worth less than what is taken for them and a unit: the
\* shares are rounded down from the least ratio, and so is what is taken.
LEMMA SharesForMore ==
  ASSUME NEW r \in Nat, NEW T \in Nat, NEW m \in Nat, NEW W \in Nat, T > 0, W > 0
  PROVE  r * ((T * m) \div W) < T * (((r * m) \div W) + 1)
<1> DEFINE t == (r * m) \div W
           E == (T * m) \div W
<1>1. r * m \in Nat /\ T * m \in Nat
  BY TimesIsNat
<1>2. t \in Nat /\ E \in Nat /\ E * W <= T * m
  BY <1>1, QuotientIsFloor
<1>3. r * m < (t + 1) * W
  <2>1. (r * m) % W \in Nat /\ (r * m) % W < W /\ r * m = W * t + ((r * m) % W)
    BY <1>1, RemainderIsSmall
  <2> HIDE DEF t
  <2>2. (t + 1) * W = W * t + W /\ W * t \in Nat
    BY <1>2, TimesIsNat, Z3
  <2>3. QED BY <2>1, <2>2
<1> HIDE DEF t, E
<1>4. r * E \in Nat /\ T * (t + 1) \in Nat /\ (r * E) * W \in Nat /\ (T * (t + 1)) * W \in Nat
      /\ r * (E * W) = (r * E) * W /\ T * ((t + 1) * W) = (T * (t + 1)) * W
  BY <1>2, TimesIsNat, Z3
<1>5. r * (E * W) <= r * (T * m)
  BY <1>1, <1>2, TimesIsNat, ProductsGrow
<1>6. T * (r * m) < T * ((t + 1) * W)
  <2>1. (t + 1) * W \in Nat
    BY <1>2, TimesIsNat
  <2> DEFINE x == r * m
             y == (t + 1) * W
  <2>2. x \in Nat /\ y \in Nat /\ x < y
    BY <1>1, <1>3, <2>1
  <2> HIDE DEF x, y
  <2>3. T * x < T * y
    BY <2>2, Z3
  <2>4. QED BY <2>3 DEF x, y
<1>7. r * (T * m) = T * (r * m)
  BY Z3
<1>8. (r * E) * W < (T * (t + 1)) * W
  <2>1. r * (T * m) \in Nat
    BY <1>1, TimesIsNat
  <2>2. QED BY <1>4, <1>5, <1>6, <1>7, <2>1
<1>9. r * E < T * (t + 1)
  <2> DEFINE x == r * E
             y == T * (t + 1)
  <2>1. x \in Nat /\ y \in Nat /\ x * W < y * W
    BY <1>4, <1>8
  <2> HIDE DEF x, y
  <2>2. x < y
    BY <2>1, Z3
  <2>3. QED BY <2>2 DEF x, y
<1>10. QED BY <1>9 DEF t, E

\* What the shares of a deposit are worth once it is in does not exceed it: the shares
\* are rounded down from the least ratio, the payment from the shares.
LEMMA RoundedTwice ==
  ASSUME NEW r \in Nat, NEW T \in Nat, NEW m \in Nat, NEW W \in Nat, T > 0, W > 0
  PROVE  ((r + ((r * m) \div W)) * ((T * m) \div W)) \div (T + ((T * m) \div W)) <= (r * m) \div W
<1> DEFINE t == (r * m) \div W
           E == (T * m) \div W
           q == ((r + t) * E) \div (T + E)
<1>1. r * E < T * (t + 1)
  BY SharesForMore
<1>2. t \in Nat /\ E \in Nat
  <2>1. r * m \in Nat /\ T * m \in Nat /\ W # 0
    BY TimesIsNat
  <2>2. QED BY <2>1, QuotientIsFloor
<1> HIDE DEF t, E
<1>3. r * E \in Nat /\ T * (t + 1) \in Nat
  <2>1. t + 1 \in Nat
    BY <1>2
  <2>2. QED BY <1>2, <2>1, TimesIsNat
<1>4. (r + t) * E < (t + 1) * (T + E)
  <2>1. /\ (r + t) * E = r * E + t * E
        /\ (t + 1) * (T + E) = T * (t + 1) + t * E + E
        /\ t * E \in Nat
    BY <1>2, TimesIsNat, Z3
  <2>2. QED BY <1>1, <1>2, <1>3, <2>1
<1>5. q \in Nat /\ q * (T + E) <= (r + t) * E /\ (r + t) * E \in Nat
  <2>1. (r + t) * E \in Nat
    BY <1>2, TimesIsNat
  <2>2. T + E \in Nat /\ T + E # 0
    BY <1>2
  <2>3. QED BY <2>1, <2>2, QuotientIsFloor
<1> HIDE DEF q
<1>6. q * (T + E) < (t + 1) * (T + E)
  <2>1. q * (T + E) \in Nat /\ (t + 1) * (T + E) \in Nat
    BY <1>2, <1>5, TimesIsNat
  <2>2. QED BY <1>4, <1>5, <2>1
<1>7. q < t + 1
  <2> DEFINE D == T + E
             y == t + 1
  <2>1. D \in Nat /\ y \in Nat /\ q * D < y * D
    BY <1>2, <1>6
  <2> HIDE DEF D, y
  <2>2. q < y
    BY <1>5, <2>1, Z3
  <2>3. QED BY <2>2 DEF y
<1>8. q <= t
  BY <1>2, <1>5, <1>7
<1>9. QED BY <1>8 DEF q, t, E

LEMMA RoundTrips == OrbitalInv => RoundTripPaysNoMore
<1>1. SUFFICES ASSUME OrbitalInv, NEW offer \in Deposits, Accepts(offer), NEW c \in Coins
               PROVE  Worth([d \in Coins |-> reserves[d] + Taken(offer)[d]], Earned(offer),
                            totalSupply + Earned(offer))[c] <= Taken(offer)[c]
  BY DEF RoundTripPaysNoMore
<1>2. totalSupply \in Nat /\ totalSupply > 0
  BY <1>1, TheInvariantSays DEF Accepts
<1>3. reserves \in Reserves /\ offer \in [Coins -> Nat] /\ reserves[c] \in Nat
  BY <1>1, <1>2, OrbitalAssumption, TheInvariantSays DEF Reserves
<1> DEFINE m == MinRatio(offer)
<1>4. m \in Nat
  BY <1>3, MinRatioIs
<1>5. /\ Taken(offer)[c] = (reserves[c] * m) \div Wad
      /\ Earned(offer) = (totalSupply * m) \div Wad
      /\ Worth([d \in Coins |-> reserves[d] + Taken(offer)[d]], Earned(offer),
               totalSupply + Earned(offer))[c]
           = ((reserves[c] + Taken(offer)[c]) * Earned(offer)) \div (totalSupply + Earned(offer))
  BY DEF Taken, Earned, Worth
<1> HIDE DEF m
<1>6. ((reserves[c] + ((reserves[c] * m) \div Wad)) * ((totalSupply * m) \div Wad))
        \div (totalSupply + ((totalSupply * m) \div Wad)) <= (reserves[c] * m) \div Wad
  BY <1>2, <1>3, <1>4, CoinsAreFinite, RoundedTwice
<1>7. QED BY <1>5, <1>6

(***************************************************************************)
(* OrbitalPool.sol holds its reserves and its fees, and every share is     *)
(* somebody's, whatever has been swapped along whatever route or sent to   *)
(* the pool.                                                               *)
(***************************************************************************)
THEOREM OrbitalStaysBacked == OrbitalSpec => []OrbitalIsBacked
<1>1. OrbitalInv => OrbitalIsBacked
  BY DEF OrbitalInv
<1>2. QED BY <1>1, OrbitalInvariance, PTL

(***************************************************************************)
(* Once the pool has liquidity no route and no withdrawal takes the last   *)
(* of a coin or of the shares.                                             *)
(***************************************************************************)
THEOREM LiquidityStays == OrbitalSpec => ReservesStayPositive
<1> DEFINE Stays == totalSupply > 0 => totalSupply' > 0 /\ \A c \in Coins : reserves'[c] > 0
<1>1. OrbitalInv /\ OrbitalInv' /\ [OrbitalNext]_orbitalVars => Stays
  <2>1. SUFFICES ASSUME OrbitalInv, OrbitalInv', [OrbitalNext]_orbitalVars, totalSupply > 0
                 PROVE  totalSupply' > 0 /\ \A c \in Coins : reserves'[c] > 0
    OBVIOUS
  <2>2. totalSupply' > 0
    BY <2>1, OrbitalStepKeeps
  <2>3. LockedForGood'
    BY <2>1 DEF OrbitalInv
  <2>4. QED BY <2>2, <2>3 DEF LockedForGood
<1>2. OrbitalInv /\ OrbitalInv' /\ [OrbitalNext]_orbitalVars => [Stays]_orbitalVars
  BY <1>1
<1>3. QED BY <1>2, OrbitalInvariance, PTL DEF OrbitalSpec, ReservesStayPositive

(***************************************************************************)
(* Whoever deposits and leaves at once gains nothing of any coin.          *)
(***************************************************************************)
THEOREM NothingGainedByTurning == OrbitalSpec => []RoundTripPaysNoMore
<1>1. QED BY RoundTrips, OrbitalInvariance, PTL

\* What liquidity that comes or goes leaves to a share of the coins: a deposit takes
\* less than a unit of each coin from all of them together, a withdrawal nothing.
SharesKeepTheirPart ==
  [][totalSupply > 0 =>
       \A c \in Coins :
         /\ totalSupply' > totalSupply =>
              (reserves'[c] + 1) * totalSupply > reserves[c] * totalSupply'
         /\ totalSupply' < totalSupply =>
              reserves'[c] * totalSupply >= reserves[c] * totalSupply']_orbitalVars

PartKept(c) ==
  /\ totalSupply' > totalSupply => (reserves'[c] + 1) * totalSupply > reserves[c] * totalSupply'
  /\ totalSupply' < totalSupply => reserves'[c] * totalSupply >= reserves[c] * totalSupply'

LEMMA DepositKeepsParts ==
  ASSUME OrbitalInv, NEW u \in Callers, NEW offer \in Deposits,
         Deposit(u, offer), NEW c \in Coins
  PROVE  PartKept(c)
<1> DEFINE r == reserves[c]
           T == totalSupply
           m == MinRatio(offer)
           t == (r * m) \div Wad
           E == (T * m) \div Wad
<1>1. /\ T # 0 /\ reserves' = [d \in Coins |-> reserves[d] + Taken(offer)[d]]
      /\ totalSupply' = T + Earned(offer)
  BY DEF Deposit, Accepts
<1>2. T \in Nat /\ T > 0 /\ reserves \in Reserves /\ offer \in [Coins -> Nat] /\ r \in Nat
  BY <1>1, OrbitalAssumption, TheInvariantSays DEF Reserves
<1>3. m \in Nat /\ Wad \in Nat /\ Wad > 0
  BY <1>2, MinRatioIs, CoinsAreFinite
<1>4. reserves'[c] = r + t /\ totalSupply' = T + E
  BY <1>1 DEF Taken, Earned
<1> HIDE DEF r, T, m
<1>5. r * E < T * (t + 1)
  BY <1>2, <1>3, SharesForMore
<1>6. t \in Nat /\ E \in Nat
  <2>1. r * m \in Nat /\ T * m \in Nat /\ Wad # 0
    BY <1>2, <1>3, TimesIsNat
  <2>2. QED BY <1>3, <2>1, QuotientIsFloor
<1> HIDE DEF t, E
<1>7. (r + t + 1) * T = r * T + T * (t + 1) /\ r * (T + E) = r * T + r * E
  BY <1>2, <1>6, Z3
<1>8. r * T \in Nat /\ T * (t + 1) \in Nat /\ r * E \in Nat
  <2>1. t + 1 \in Nat
    BY <1>6
  <2>2. QED BY <1>2, <1>6, <2>1, TimesIsNat
<1>9. (r + t + 1) * T > r * (T + E)
  BY <1>5, <1>7, <1>8
<1>10. (reserves'[c] + 1) * totalSupply > reserves[c] * totalSupply'
  BY <1>4, <1>9 DEF r, T
<1>11. ~ (totalSupply' < totalSupply)
  BY <1>2, <1>4, <1>6 DEF T
<1>12. QED BY <1>10, <1>11 DEF PartKept

LEMMA WithdrawKeepsParts ==
  ASSUME OrbitalInv, NEW u \in Callers, NEW n \in Parts(u), Withdraw(u, n), NEW c \in Coins,
         totalSupply > 0
  PROVE  PartKept(c)
<1> DEFINE r == reserves[c]
           T == totalSupply
           q == (r * n) \div T
<1>1. /\ balanceOf[u] >= n /\ totalSupply' = T - n
      /\ reserves' = [d \in Coins |-> reserves[d] - Worth(reserves, n, totalSupply)[d]]
  BY DEF Withdraw
<1>2. T \in Nat /\ T > 0 /\ r \in Nat /\ balanceOf \in [Shareholders -> Nat]
  BY TheInvariantSays
<1>3. n \in Nat
  <2>1. balanceOf[u] \in Nat
    BY <1>2, ShareholdersAreFinite
  <2>2. QED BY <2>1, OrbitalAssumption DEF Parts
<1>4. reserves'[c] = r - q
  BY <1>1 DEF Worth
<1>5. r * n \in Nat /\ q \in Nat /\ q * T <= r * n
  <2>1. r * n \in Nat /\ T # 0
    BY <1>2, <1>3, TimesIsNat
  <2>2. QED BY <1>2, <2>1, QuotientIsFloor
<1> HIDE DEF r, T, q
<1>6. (r - q) * T = r * T - q * T /\ r * (T - n) = r * T - r * n
  BY <1>2, <1>3, <1>5, Z3
<1>7. r * T \in Nat /\ q * T \in Nat
  BY <1>2, <1>5, TimesIsNat
<1>8. (r - q) * T >= r * (T - n)
  BY <1>5, <1>6, <1>7
<1>9. reserves'[c] * totalSupply >= reserves[c] * totalSupply'
  BY <1>1, <1>4, <1>8 DEF r, T
<1>10. ~ (totalSupply' > totalSupply)
  BY <1>1, <1>2, <1>3 DEF T
<1>11. QED BY <1>9, <1>10 DEF PartKept

(***************************************************************************)
(* Who provides liquidity is not diluted by who comes after: all shares    *)
(* together lose less than a unit of each coin to a deposit and nothing to *)
(* a withdrawal, whatever the ratios are rounded to.                       *)
(***************************************************************************)
THEOREM LiquidityIsNotDiluted == OrbitalSpec => SharesKeepTheirPart
<1>1. ASSUME OrbitalInv, [OrbitalNext]_orbitalVars, totalSupply > 0, NEW c \in Coins
      PROVE  PartKept(c)
  <2>1. totalSupply \in Nat
    BY <1>1, TheInvariantSays
  <2>2. ASSUME totalSupply' = totalSupply PROVE PartKept(c)
    BY <2>1, <2>2 DEF PartKept
  <2>3. ASSUME NEW u \in Callers, NEW offer \in Deposits, Deposit(u, offer)
        PROVE  PartKept(c)
    BY <1>1, <2>3, DepositKeepsParts
  <2>4. ASSUME NEW u \in Callers, NEW n \in Parts(u), Withdraw(u, n)
        PROVE  PartKept(c)
    BY <1>1, <2>4, WithdrawKeepsParts
  <2>5. ASSUME NEW u \in Callers, NEW offer \in Deposits, FirstDeposit(u, offer)
        PROVE  FALSE
    BY <1>1, <2>1, <2>5 DEF FirstDeposit
  <2>6. ASSUME NEW u \in Callers, NEW v \in Callers, NEW n \in Parts(u), SendShares(u, v, n)
        PROVE  PartKept(c)
    BY <2>2, <2>6 DEF SendShares
  <2>7. ASSUME NEW path \in Paths, NEW n \in SwapAmounts, SwapAlong(path, n)
        PROVE  PartKept(c)
    BY <2>2, <2>7 DEF SwapAlong, shareVars
  <2>8. CASE \/ NextBlock \/ CollectFees \/ SwitchPause \/ UNCHANGED orbitalVars
             \/ \E d \in Coins, n \in SwapAmounts : SendCoins(d, n)
    BY <2>2, <2>8 DEF NextBlock, CollectFees, SwitchPause, orbitalVars, shareVars, SendCoins
  <2>9. QED BY <1>1, <2>3, <2>4, <2>5, <2>6, <2>7, <2>8 DEF OrbitalNext
<1>2. OrbitalInv /\ [OrbitalNext]_orbitalVars =>
        [totalSupply > 0 =>
           \A c \in Coins :
             /\ totalSupply' > totalSupply =>
                  (reserves'[c] + 1) * totalSupply > reserves[c] * totalSupply'
             /\ totalSupply' < totalSupply =>
                  reserves'[c] * totalSupply >= reserves[c] * totalSupply']_orbitalVars
  BY <1>1 DEF PartKept
<1>3. QED BY <1>2, OrbitalInvariance, PTL DEF OrbitalSpec, SharesKeepTheirPart

-----------------------------------------------------------------------------
(***************************************************************************)
(* LinearVesting.  A beneficiary has drawn the whole seconds of the rate   *)
(* up to the last time, or everything after the end.                       *)
(***************************************************************************)
Rate(v) == v \div (VestingEnd - VestingStart)

AmountsOf(f) == f \in [Beneficiaries -> Nat]

DrawnSoFar(v, d, t, m) ==
  /\ v = 0 => d = 0 /\ t = 0
  /\ t = 0 => d = 0
  /\ t # 0 => t > VestingStart + CliffDuration /\ t <= m
  /\ t # 0 /\ t <= VestingEnd => d = Rate(v) * (t - VestingStart)
  /\ t > VestingEnd => d = v

LeftFor(v, d) == SumOver([b \in Beneficiaries |-> v[b] - d[b]], Beneficiaries)

VestingInv ==
  /\ moment \in Nat /\ moment > 0
  /\ AmountsOf(vestedAmount) /\ AmountsOf(totalDrawn) /\ AmountsOf(lastDrawnAt)
  /\ escrowed \in Nat /\ takenByOwner \in Nat
  /\ \A b \in Beneficiaries : DrawnSoFar(vestedAmount[b], totalDrawn[b], lastDrawnAt[b], moment)
  /\ escrowed + takenByOwner = LeftFor(vestedAmount, totalDrawn)

LEMMA RateIs ==
  ASSUME NEW v \in Nat
  PROVE  Rate(v) \in Nat /\ Rate(v) * (VestingEnd - VestingStart) <= v
<1> DEFINE D == VestingEnd - VestingStart
<1>1. D \in Nat /\ D # 0
  BY VestingAssumption
<1> HIDE DEF D
<1>2. v \div D \in Nat /\ (v \div D) * D <= v
  BY <1>1, QuotientIsFloor
<1>3. QED BY <1>2 DEF Rate, D

\* Whole seconds of the rate stay below the straight line, and that below the amount.
LEMMA BelowTheLine ==
  ASSUME NEW v \in Nat, NEW t \in Nat, t >= VestingStart, t <= VestingEnd
  PROVE  /\ Rate(v) * (t - VestingStart) \in Nat /\ Rate(v) * (t - VestingStart) <= v
         /\ (Rate(v) * (t - VestingStart)) * (VestingEnd - VestingStart) <= v * (t - VestingStart)
<1> DEFINE D == VestingEnd - VestingStart
           e == t - VestingStart
           r == Rate(v)
<1>1. D \in Nat /\ e \in Nat /\ e <= D
  BY VestingAssumption
<1>2. r \in Nat /\ r * D <= v
  BY RateIs
<1> HIDE DEF D, e, r
<1>3. r * e \in Nat /\ r * D \in Nat /\ r * e <= r * D
  BY <1>1, <1>2, TimesIsNat, ProductsGrow
<1>4. r * e <= v
  BY <1>2, <1>3
<1>5. (r * D) * e <= v * e
  BY <1>1, <1>2, <1>3, ProductsGrow
<1>6. (r * e) * D = (r * D) * e
  BY <1>1, <1>2, Z3
<1>7. QED BY <1>3, <1>4, <1>5, <1>6 DEF D, e, r

\* What is available now, added to what was drawn.
LEMMA DrawnAndAvailable ==
  ASSUME VestingInv, NEW b \in Beneficiaries
  PROVE  LET v == vestedAmount[b]
             d == totalDrawn[b]
         IN /\ v \in Nat /\ d \in Nat /\ d <= v /\ Available(b) \in Nat
            /\ moment <= VestingStart + CliffDuration => Available(b) = 0
            /\ moment > VestingStart + CliffDuration /\ moment <= VestingEnd =>
                 d + Available(b) = Rate(v) * (moment - VestingStart)
            /\ moment > VestingStart + CliffDuration /\ moment > VestingEnd =>
                 d + Available(b) = v
<1> DEFINE v == vestedAmount[b]
           d == totalDrawn[b]
           t == lastDrawnAt[b]
<1>1. /\ v \in Nat /\ d \in Nat /\ t \in Nat /\ moment \in Nat
      /\ DrawnSoFar(v, d, t, moment)
  BY DEF VestingInv, AmountsOf
<1>2. /\ VestingStart \in Nat /\ VestingStart > 0 /\ VestingEnd \in Nat /\ VestingStart < VestingEnd
      /\ CliffDuration \in Nat
  BY VestingAssumption
<1>3. Available(b) = IF moment <= VestingStart + CliffDuration THEN 0
                     ELSE IF moment > VestingEnd THEN v - d
                     ELSE (moment - (IF t = 0 THEN VestingStart ELSE t)) * Rate(v)
  BY DEF Available, SinceLastDrawn, Rate
<1> DEFINE r == Rate(v)
<1>4. r \in Nat
  BY <1>1, RateIs
<1>5. d <= v
  <2>1. CASE t = 0
    BY <1>1, <2>1 DEF DrawnSoFar
  <2>2. CASE t # 0 /\ t <= VestingEnd
    <3>1. d = Rate(v) * (t - VestingStart) /\ t >= VestingStart
      BY <1>1, <1>2, <2>2 DEF DrawnSoFar
    <3>2. QED BY <1>1, <2>2, <3>1, BelowTheLine
  <2>3. CASE t > VestingEnd
    BY <1>1, <2>3 DEF DrawnSoFar
  <2>4. QED BY <1>1, <1>2, <2>1, <2>2, <2>3
<1>6. ASSUME moment > VestingStart + CliffDuration, moment <= VestingEnd
      PROVE  Available(b) \in Nat /\ d + Available(b) = r * (moment - VestingStart)
  <2> DEFINE a == moment - (IF t = 0 THEN VestingStart ELSE t)
             e == moment - VestingStart
             f == IF t = 0 THEN 0 ELSE t - VestingStart
  <2>1. a \in Nat /\ e \in Nat /\ f \in Nat /\ e = f + a
    BY <1>1, <1>2, <1>6 DEF DrawnSoFar
  <2>2. Available(b) = a * r
    BY <1>2, <1>3, <1>1, <1>6
  <2>3. d = r * f
    <3>1. CASE t = 0
      <4>1. r * 0 = 0
        BY <1>4
      <4>2. QED BY <1>1, <3>1, <4>1 DEF DrawnSoFar
    <3>2. CASE t # 0
      BY <1>1, <1>2, <1>6, <3>2 DEF DrawnSoFar
    <3>3. QED BY <3>1, <3>2
  <2> HIDE DEF a, e, f, r
  <2>4. a * r \in Nat
    BY <1>4, <2>1, TimesIsNat
  <2>5. r * f + a * r = r * (f + a)
    BY <1>4, <2>1, Z3
  <2>6. QED BY <2>1, <2>2, <2>3, <2>4, <2>5 DEF e
<1>7. QED BY <1>1, <1>2, <1>3, <1>5, <1>6

\* What is left changes with one beneficiary's row alone.
LEMMA LeftChanges ==
  ASSUME NEW v, NEW d, NEW v2, NEW d2, AmountsOf(v), AmountsOf(d), AmountsOf(v2), AmountsOf(d2),
         NEW b \in Beneficiaries,
         \A c \in Beneficiaries : c # b => v2[c] = v[c] /\ d2[c] = d[c]
  PROVE  LeftFor(v2, d2) = LeftFor(v, d) + ((v2[b] - d2[b]) - (v[b] - d[b]))
<1> DEFINE f == [c \in Beneficiaries |-> v[c] - d[c]]
           g == [c \in Beneficiaries |-> v2[c] - d2[c]]
<1>1. IsFiniteSet(Beneficiaries)
  BY VestingAssumption
<1>2. \A c \in Beneficiaries : f[c] \in Int /\ g[c] \in Int
  BY DEF AmountsOf
<1>3. \A c \in Beneficiaries : c # b => g[c] = f[c]
  OBVIOUS
<1>4. g[b] - f[b] = (v2[b] - d2[b]) - (v[b] - d[b])
  OBVIOUS
<1> HIDE DEF f, g
<1>5. SumOver(g, Beneficiaries) = SumOver(f, Beneficiaries) + (g[b] - f[b])
  BY <1>1, <1>2, <1>3, SumUpdate
<1>6. QED BY <1>4, <1>5 DEF LeftFor, f, g

LEMMA VestingBegins == VestingInit => VestingInv
<1> SUFFICES ASSUME VestingInit PROVE VestingInv
  OBVIOUS
<1>1. /\ moment = 1 /\ escrowed = 0 /\ takenByOwner = 0
      /\ AmountsOf(vestedAmount) /\ AmountsOf(totalDrawn) /\ AmountsOf(lastDrawnAt)
      /\ \A b \in Beneficiaries : vestedAmount[b] = 0 /\ totalDrawn[b] = 0 /\ lastDrawnAt[b] = 0
  BY DEF VestingInit, AmountsOf
<1>2. LeftFor(vestedAmount, totalDrawn) = 0
  <2> DEFINE f == [b \in Beneficiaries |-> vestedAmount[b] - totalDrawn[b]]
  <2>1. (\A b \in Beneficiaries : f[b] = 0) /\ IsFiniteSet(Beneficiaries)
    BY <1>1, VestingAssumption
  <2> HIDE DEF f
  <2>2. SumOver(f, Beneficiaries) = 0
    BY <2>1, SumZero
  <2>3. QED BY <2>2 DEF LeftFor, f
<1>3. ~ 0 > VestingEnd
  BY VestingAssumption
<1>4. QED BY <1>1, <1>2, <1>3 DEF VestingInv, DrawnSoFar

LEMMA ScheduleKeeps ==
  ASSUME VestingInv, NEW b \in Beneficiaries, NEW n \in VestingAmounts, CreateVestingSchedule(b, n)
  PROVE  VestingInv'
<1>1. n \in Nat /\ n # 0 /\ VestingEnd \in Nat
  BY VestingAssumption
<1>2. /\ vestedAmount[b] = 0 /\ vestedAmount' = [vestedAmount EXCEPT ![b] = n]
      /\ escrowed' = escrowed + n /\ UNCHANGED <<moment, totalDrawn, lastDrawnAt, takenByOwner>>
  BY DEF CreateVestingSchedule
<1>3. /\ AmountsOf(vestedAmount) /\ AmountsOf(totalDrawn) /\ AmountsOf(lastDrawnAt)
      /\ escrowed \in Nat /\ takenByOwner \in Nat /\ moment \in Nat /\ moment > 0
      /\ escrowed + takenByOwner = LeftFor(vestedAmount, totalDrawn)
      /\ \A c \in Beneficiaries : DrawnSoFar(vestedAmount[c], totalDrawn[c], lastDrawnAt[c], moment)
  BY DEF VestingInv
<1>4. /\ AmountsOf(vestedAmount') /\ vestedAmount'[b] = n
      /\ \A c \in Beneficiaries : c # b => vestedAmount'[c] = vestedAmount[c]
  BY <1>1, <1>2, <1>3 DEF AmountsOf
<1>5. totalDrawn[b] = 0 /\ lastDrawnAt[b] = 0
  BY <1>2, <1>3 DEF DrawnSoFar
<1>6. \A c \in Beneficiaries : DrawnSoFar(vestedAmount'[c], totalDrawn[c], lastDrawnAt[c], moment)
  <2>1. ASSUME NEW c \in Beneficiaries
        PROVE  DrawnSoFar(vestedAmount'[c], totalDrawn[c], lastDrawnAt[c], moment)
    <3>1. CASE c # b
      BY <1>3, <1>4, <3>1
    <3>2. CASE c = b
      BY <1>1, <1>4, <1>5, <3>2 DEF DrawnSoFar
    <3>3. QED BY <3>1, <3>2
  <2>2. QED BY <2>1
<1>7. LeftFor(vestedAmount', totalDrawn) = LeftFor(vestedAmount, totalDrawn) + n
  <2>1. LeftFor(vestedAmount', totalDrawn)
          = LeftFor(vestedAmount, totalDrawn)
              + ((vestedAmount'[b] - totalDrawn[b]) - (vestedAmount[b] - totalDrawn[b]))
    BY <1>3, <1>4, LeftChanges
  <2>2. ((vestedAmount'[b] - totalDrawn[b]) - (vestedAmount[b] - totalDrawn[b])) = n
    BY <1>1, <1>2, <1>4, <1>5
  <2>3. QED BY <2>1, <2>2
<1>8. escrowed' \in Nat /\ escrowed' + takenByOwner = LeftFor(vestedAmount', totalDrawn)
  BY <1>1, <1>2, <1>3, <1>7
<1>9. LeftFor(vestedAmount, totalDrawn)' = LeftFor(vestedAmount', totalDrawn)
  BY <1>2 DEF LeftFor
<1>10. QED BY <1>2, <1>3, <1>4, <1>6, <1>8, <1>9 DEF VestingInv

LEMMA DrawKeeps ==
  ASSUME VestingInv, NEW b \in Beneficiaries, DrawDown(b)
  PROVE  VestingInv'
<1> DEFINE v == vestedAmount[b]
           n == Available(b)
<1>1. /\ v > 0 /\ n > 0 /\ escrowed >= n
      /\ lastDrawnAt' = [lastDrawnAt EXCEPT ![b] = moment]
      /\ totalDrawn' = [totalDrawn EXCEPT ![b] = @ + n]
      /\ escrowed' = escrowed - n /\ UNCHANGED <<moment, vestedAmount, takenByOwner>>
  BY DEF DrawDown
<1>2. /\ AmountsOf(vestedAmount) /\ AmountsOf(totalDrawn) /\ AmountsOf(lastDrawnAt)
      /\ escrowed \in Nat /\ takenByOwner \in Nat /\ moment \in Nat /\ moment > 0
      /\ escrowed + takenByOwner = LeftFor(vestedAmount, totalDrawn)
      /\ \A c \in Beneficiaries : DrawnSoFar(vestedAmount[c], totalDrawn[c], lastDrawnAt[c], moment)
  BY DEF VestingInv
<1>3. /\ v \in Nat /\ totalDrawn[b] \in Nat /\ n \in Nat
      /\ moment <= VestingStart + CliffDuration => n = 0
      /\ moment > VestingStart + CliffDuration /\ moment <= VestingEnd =>
           totalDrawn[b] + n = Rate(v) * (moment - VestingStart)
      /\ moment > VestingStart + CliffDuration /\ moment > VestingEnd => totalDrawn[b] + n = v
  BY DrawnAndAvailable
<1> HIDE DEF v, n
<1>4. VestingStart \in Nat /\ CliffDuration \in Nat /\ VestingEnd \in Nat
  BY VestingAssumption
<1>5. moment > VestingStart + CliffDuration
  BY <1>1, <1>2, <1>3, <1>4
<1>6. /\ AmountsOf(totalDrawn') /\ totalDrawn'[b] = totalDrawn[b] + n
      /\ AmountsOf(lastDrawnAt') /\ lastDrawnAt'[b] = moment
      /\ \A c \in Beneficiaries : c # b => totalDrawn'[c] = totalDrawn[c] /\ lastDrawnAt'[c] = lastDrawnAt[c]
  <2>1. totalDrawn[b] + n \in Nat
    BY <1>3
  <2>2. QED BY <1>1, <1>2, <2>1 DEF AmountsOf
<1>7. \A c \in Beneficiaries : DrawnSoFar(vestedAmount[c], totalDrawn'[c], lastDrawnAt'[c], moment)
  <2>1. ASSUME NEW c \in Beneficiaries
        PROVE  DrawnSoFar(vestedAmount[c], totalDrawn'[c], lastDrawnAt'[c], moment)
    <3>1. CASE c # b
      BY <1>2, <1>6, <3>1
    <3>2. CASE c = b
      <4>1. vestedAmount[c] = v /\ totalDrawn'[c] = totalDrawn[b] + n /\ lastDrawnAt'[c] = moment
        BY <1>6, <3>2 DEF v
      <4>2. DrawnSoFar(v, totalDrawn[b] + n, moment, moment)
        BY <1>1, <1>2, <1>3, <1>4, <1>5 DEF DrawnSoFar
      <4>3. QED BY <4>1, <4>2
    <3>3. QED BY <3>1, <3>2
  <2>2. QED BY <2>1
<1>8. LeftFor(vestedAmount, totalDrawn') = LeftFor(vestedAmount, totalDrawn) - n
  <2>1. LeftFor(vestedAmount, totalDrawn')
          = LeftFor(vestedAmount, totalDrawn)
              + ((vestedAmount[b] - totalDrawn'[b]) - (vestedAmount[b] - totalDrawn[b]))
    BY <1>2, <1>6, LeftChanges
  <2>2. LeftFor(vestedAmount, totalDrawn) \in Int
    BY <1>2
  <2>3. vestedAmount[b] \in Nat
    BY <1>3 DEF v
  <2>4. QED BY <1>3, <1>6, <2>1, <2>2, <2>3
<1>9. escrowed' \in Nat /\ escrowed' + takenByOwner = LeftFor(vestedAmount, totalDrawn')
  BY <1>1, <1>2, <1>3, <1>8
<1>10. LeftFor(vestedAmount, totalDrawn)' = LeftFor(vestedAmount, totalDrawn')
  BY <1>1 DEF LeftFor
<1>11. QED BY <1>1, <1>2, <1>6, <1>7, <1>9, <1>10 DEF VestingInv

LEMMA VestingSteps == ASSUME VestingInv, [VestingNext]_vestingVars PROVE VestingInv'
<1>1. ASSUME NEW n \in VestingAmounts, TransferBalanceToOwner(n) PROVE VestingInv'
  <2>1. n \in Nat
    BY VestingAssumption
  <2>2. escrowed \in Nat /\ takenByOwner \in Nat
    BY DEF VestingInv
  <2>3. /\ escrowed' \in Nat /\ takenByOwner' \in Nat
        /\ escrowed' + takenByOwner' = escrowed + takenByOwner
        /\ UNCHANGED <<moment, vestedAmount, totalDrawn, lastDrawnAt>>
    BY <1>1, <2>1, <2>2 DEF TransferBalanceToOwner
  <2>4. LeftFor(vestedAmount, totalDrawn)' = LeftFor(vestedAmount, totalDrawn)
    BY <2>3 DEF LeftFor
  <2>5. QED BY <2>3, <2>4 DEF VestingInv
<1>2. CASE MomentPasses
  <2>1. /\ moment \in Nat /\ moment' = moment + 1
        /\ UNCHANGED <<vestedAmount, totalDrawn, lastDrawnAt, escrowed, takenByOwner>>
    BY <1>2 DEF MomentPasses, VestingInv
  <2>2. ASSUME NEW b \in Beneficiaries
        PROVE  DrawnSoFar(vestedAmount[b], totalDrawn[b], lastDrawnAt[b], moment + 1)
    <3>1. DrawnSoFar(vestedAmount[b], totalDrawn[b], lastDrawnAt[b], moment) /\ lastDrawnAt[b] \in Nat
      BY DEF VestingInv, AmountsOf
    <3>2. lastDrawnAt[b] <= moment => lastDrawnAt[b] <= moment + 1
      BY <2>1, <3>1
    <3>3. QED BY <3>1, <3>2 DEF DrawnSoFar
  <2>3. LeftFor(vestedAmount, totalDrawn)' = LeftFor(vestedAmount, totalDrawn)
    BY <2>1 DEF LeftFor
  <2>4. moment' \in Nat /\ moment' > 0
    BY <2>1
  <2>5. QED BY <2>1, <2>2, <2>3, <2>4 DEF VestingInv
<1>3. CASE UNCHANGED vestingVars
  <2>1. LeftFor(vestedAmount, totalDrawn)' = LeftFor(vestedAmount, totalDrawn)
    BY <1>3 DEF LeftFor, vestingVars
  <2>2. QED BY <1>3, <2>1 DEF VestingInv, vestingVars
<1>4. QED BY <1>1, <1>2, <1>3, ScheduleKeeps, DrawKeeps DEF VestingNext

\* No beneficiary has drawn, or can draw now, more than the amount or the
\* straight line, at whatever times it is drawn; and the contract holds what is
\* not drawn, but for what the owner took after the end.
THEOREM VestingKeepsToTheLine == VestingSpec => []DrawnOnSchedule
<1>1. VestingInv /\ [VestingNext]_vestingVars => VestingInv'
  BY VestingSteps
<1>2. VestingInv => DrawnOnSchedule
  <2> SUFFICES ASSUME VestingInv PROVE DrawnOnSchedule
    OBVIOUS
  <2>1. /\ VestingStart \in Nat /\ VestingEnd \in Nat /\ VestingStart < VestingEnd
        /\ CliffDuration \in Nat /\ moment \in Nat
    BY VestingAssumption DEF VestingInv
  <2>2. ASSUME NEW b \in Beneficiaries
        PROVE  /\ totalDrawn[b] + Available(b) <= vestedAmount[b]
               /\ moment <= VestingEnd =>
                    (totalDrawn[b] + Available(b)) * (VestingEnd - VestingStart)
                      <= vestedAmount[b] * (IF moment > VestingStart THEN moment - VestingStart ELSE 0)
    <3> DEFINE v == vestedAmount[b]
               d == totalDrawn[b]
               n == Available(b)
    <3>1. /\ v \in Nat /\ d \in Nat /\ d <= v /\ n \in Nat
          /\ moment <= VestingStart + CliffDuration => n = 0
          /\ moment > VestingStart + CliffDuration /\ moment <= VestingEnd =>
               d + n = Rate(v) * (moment - VestingStart)
          /\ moment > VestingStart + CliffDuration /\ moment > VestingEnd => d + n = v
      BY DrawnAndAvailable
    <3>2. moment <= VestingStart + CliffDuration => d = 0 \/ moment > VestingEnd
      <4>1. DrawnSoFar(v, d, lastDrawnAt[b], moment) /\ lastDrawnAt[b] \in Nat
        BY DEF VestingInv, AmountsOf
      <4>2. QED BY <2>1, <4>1 DEF DrawnSoFar
    <3> HIDE DEF v, d, n
    <3>3. CASE moment <= VestingStart + CliffDuration /\ moment <= VestingEnd
      <4>1. d + n = 0
        BY <2>1, <3>1, <3>2, <3>3
      <4>2. 0 * (VestingEnd - VestingStart) = 0
        BY <2>1
      <4>3. v * (IF moment > VestingStart THEN moment - VestingStart ELSE 0) \in Nat
        <5>1. (IF moment > VestingStart THEN moment - VestingStart ELSE 0) \in Nat
          BY <2>1
        <5>2. QED BY <3>1, <5>1, TimesIsNat
      <4>4. QED BY <3>1, <4>1, <4>2, <4>3 DEF v, d, n
    <3>4. CASE moment > VestingStart + CliffDuration /\ moment <= VestingEnd
      <4>1. moment >= VestingStart /\ moment > VestingStart
        BY <2>1, <3>4
      <4>2. QED BY <2>1, <3>1, <3>4, <4>1, BelowTheLine DEF v, d, n
    <3>5. CASE moment > VestingEnd
      <4>1. d + n <= v
        BY <2>1, <3>1, <3>5
      <4>2. QED BY <2>1, <3>5, <4>1 DEF v, d, n
    <3>6. QED BY <2>1, <3>3, <3>4, <3>5
  <2>3. escrowed + takenByOwner
          = SumOver([b \in Beneficiaries |-> vestedAmount[b] - totalDrawn[b]], Beneficiaries)
    BY DEF VestingInv, LeftFor
  <2>4. QED BY <2>2, <2>3 DEF DrawnOnSchedule
<1>3. QED BY <1>1, <1>2, VestingBegins, PTL DEF VestingSpec

-----------------------------------------------------------------------------
(***************************************************************************)
(* StakingProgram.  Points and their total change until the program ends,  *)
(* and agree; from then on nobody's points change but to be exchanged for  *)
(* the share of the fund they stand for.                                   *)
(***************************************************************************)
PerLocker(f) == f \in [Lockers -> Nat]

Lock == [amount : Nat, period : Nat, start : Nat, points : Nat]

PointsShare(p, total) == IF total = 0 THEN 0 ELSE (Fund * p) \div total

Shared(g, p, total) == SumOver([u \in Lockers |-> g[u] + PointsShare(p[u], total)], Lockers)

ProgramTypes ==
  /\ height \in Nat /\ totalRewardPoints \in Nat /\ fundHoldings \in Nat
  /\ PerLocker(rewardPoints) /\ PerLocker(granted) /\ PerLocker(released)
  /\ \A u \in Lockers : locks[u] \in Lock

\* A lock's points are counted, and no lock outlasts the program.
LocksCount ==
  \A u \in Lockers : /\ locks[u].points <= rewardPoints[u]
                     /\ locks[u].amount = 0 => locks[u].points = 0
                     /\ locks[u].start + locks[u].period <= ProgramEnd

Granting ==
  /\ \A u \in Lockers : rewardPoints[u] > 0 => granted[u] = 0
  /\ height <= ProgramEnd =>
       totalRewardPoints = SumOver(rewardPoints, Lockers) /\ \A u \in Lockers : granted[u] = 0
  /\ height > ProgramEnd =>
       /\ \A u \in Lockers : rewardPoints[u] <= totalRewardPoints
       /\ Shared(granted, rewardPoints, totalRewardPoints) <= Fund

ProgramInv ==
  /\ ProgramTypes /\ locks \in [Lockers -> Lock] /\ LocksCount /\ Granting
  /\ fundHoldings + SumOver(released, Lockers) = Fund

LEMMA PointsShareIs ==
  ASSUME NEW p \in Nat, NEW total \in Nat
  PROVE  PointsShare(p, total) \in Nat /\ total * PointsShare(p, total) <= Fund * p
<1>1. Fund \in Nat
  BY ProgramAssumption
<1> DEFINE m == Fund * p
<1>2. m \in Nat
  BY <1>1, TimesIsNat
<1> HIDE DEF m
<1>3. CASE total = 0
  <2>1. PointsShare(p, total) = 0 /\ 0 * 0 = 0
    BY <1>3 DEF PointsShare
  <2>2. QED BY <1>2, <1>3, <2>1 DEF m
<1>4. CASE total # 0
  <2> DEFINE q == m \div total
  <2>1. PointsShare(p, total) = q
    BY <1>4 DEF PointsShare, m
  <2>2. q \in Nat /\ q * total <= m
    BY <1>2, <1>4, QuotientIsFloor
  <2> HIDE DEF q
  <2>3. total * q = q * total
    BY <2>2, Z3
  <2>4. QED BY <2>1, <2>2, <2>3 DEF m
<1>5. QED BY <1>3, <1>4

\* Rounded down, the shares of all points come to no more than the fund.
LEMMA PointsFitTheFund ==
  ASSUME NEW p, PerLocker(p), NEW total, total = SumOver(p, Lockers)
  PROVE  SumOver([u \in Lockers |-> PointsShare(p[u], total)], Lockers) <= Fund
<1> DEFINE f == [u \in Lockers |-> PointsShare(p[u], total)]
           left == [u \in Lockers |-> total * f[u]]
           right == [u \in Lockers |-> Fund * p[u]]
<1>1. IsFiniteSet(Lockers) /\ Fund \in Nat /\ \A u \in Lockers : p[u] \in Nat
  BY ProgramAssumption DEF PerLocker
<1>2. total \in Nat
  BY <1>1, SumNat
<1>3. \A u \in Lockers : f[u] \in Nat /\ left[u] = total * f[u] /\ right[u] = Fund * p[u]
  BY <1>1, <1>2, PointsShareIs
<1>4. \A u \in Lockers : left[u] <= right[u]
  BY <1>1, <1>2, PointsShareIs
<1>5. CASE total = 0
  <2>1. \A u \in Lockers : f[u] = 0
    BY <1>5 DEF PointsShare
  <2> HIDE DEF f
  <2>2. SumOver(f, Lockers) = 0
    BY <1>1, <2>1, SumZero
  <2>3. QED BY <1>1, <2>2 DEF f
<1>6. CASE total # 0
  <2> HIDE DEF f, left, right
  <2>1. \A u \in Lockers : left[u] \in Nat /\ right[u] \in Nat
    BY <1>1, <1>2, <1>3, TimesIsNat
  <2>2. SumOver(left, Lockers) <= SumOver(right, Lockers)
    BY <1>1, <1>4, <2>1, SumMonotone
  <2>3. SumOver(left, Lockers) = total * SumOver(f, Lockers)
    BY <1>1, <1>2, <1>3, SumScaled
  <2>4. SumOver(right, Lockers) = Fund * total
    BY <1>1, <1>3, SumScaled
  <2>5. SumOver(f, Lockers) \in Nat
    BY <1>1, <1>3, SumNat
  <2> DEFINE s == SumOver(f, Lockers)
  <2>6. s \in Nat /\ total * s <= Fund * total
    BY <2>2, <2>3, <2>4, <2>5
  <2> HIDE DEF s
  <2>7. s <= Fund
    BY <1>1, <1>2, <1>6, <2>6, Z3
  <2>8. QED BY <2>7 DEF s, f
<1>7. QED BY <1>5, <1>6

LEMMA ProgramBegins == ProgramInit => ProgramInv
<1> SUFFICES ASSUME ProgramInit PROVE ProgramInv
  OBVIOUS
<1>1. /\ height = 0 /\ totalRewardPoints = 0 /\ fundHoldings = Fund
      /\ rewardPoints = Zeros /\ granted = Zeros /\ released = Zeros
      /\ locks = [u \in Lockers |-> Unlocked]
  BY DEF ProgramInit
<1>2. Fund \in Nat /\ ProgramEnd \in Nat /\ IsFiniteSet(Lockers)
  BY ProgramAssumption
<1>3. PerLocker(Zeros) /\ \A u \in Lockers : Zeros[u] = 0
  BY DEF PerLocker, Zeros
<1>4. SumOver(Zeros, Lockers) = 0
  BY <1>2, <1>3, SumZero
<1>5. Unlocked \in Lock /\ Unlocked.points = 0 /\ Unlocked.start = 0 /\ Unlocked.period = 0
  BY DEF Unlocked, Lock
<1>6. locks \in [Lockers -> Lock] /\ \A u \in Lockers : locks[u] = Unlocked
  BY <1>1, <1>5
<1>7. LocksCount
  BY <1>1, <1>2, <1>3, <1>5, <1>6 DEF LocksCount
<1>8. Granting
  BY <1>1, <1>2, <1>3, <1>4 DEF Granting
<1>9. ProgramTypes
  BY <1>1, <1>2, <1>3, <1>6 DEF ProgramTypes
<1>10. QED BY <1>1, <1>2, <1>4, <1>6, <1>7, <1>8, <1>9 DEF ProgramInv

LEMMA LockKeeps ==
  ASSUME ProgramInv, NEW u \in Lockers, NEW n \in LockAmounts, NEW k \in LockPeriods, LockTokens(u, n, k)
  PROVE  ProgramInv'
<1> DEFINE points == n * k * k
           lock == [amount |-> n, period |-> k, start |-> height, points |-> points]
<1>1. n \in Nat /\ n # 0 /\ k \in Nat /\ k # 0 /\ ProgramEnd \in Nat /\ IsFiniteSet(Lockers)
  BY ProgramAssumption
<1>2. points \in Nat
  BY <1>1, TimesIsNat
<1>3. /\ height <= ProgramEnd - k
      /\ locks' = [locks EXCEPT ![u] = lock]
      /\ totalRewardPoints' = totalRewardPoints + points
      /\ rewardPoints' = [rewardPoints EXCEPT ![u] = @ + points]
      /\ UNCHANGED <<height, granted, released, fundHoldings>>
  BY DEF LockTokens, EndsInTime
<1> HIDE DEF points
<1>4. /\ height \in Nat /\ totalRewardPoints \in Nat /\ fundHoldings \in Nat
      /\ PerLocker(rewardPoints) /\ PerLocker(granted) /\ PerLocker(released)
      /\ locks \in [Lockers -> Lock] /\ LocksCount
      /\ fundHoldings + SumOver(released, Lockers) = Fund
  BY DEF ProgramInv, ProgramTypes
<1>5. height <= ProgramEnd /\ totalRewardPoints = SumOver(rewardPoints, Lockers)
      /\ \A v \in Lockers : granted[v] = 0
  <2>1. height <= ProgramEnd
    BY <1>1, <1>3, <1>4
  <2>2. QED BY <2>1 DEF ProgramInv, Granting
<1>6. /\ PerLocker(rewardPoints') /\ rewardPoints'[u] = rewardPoints[u] + points
      /\ rewardPoints[u] \in Nat
      /\ \A v \in Lockers : v # u => rewardPoints'[v] = rewardPoints[v]
  BY <1>2, <1>3, <1>4 DEF PerLocker
<1>7. /\ lock \in Lock /\ lock.points = points /\ lock.start = height /\ lock.period = k
      /\ lock.amount = n /\ n # 0
  BY <1>1, <1>2, <1>4 DEF Lock
<1>8. locks' \in [Lockers -> Lock] /\ locks'[u] = lock /\ \A v \in Lockers : v # u => locks'[v] = locks[v]
  BY <1>3, <1>4, <1>7
<1> HIDE DEF lock
<1>9. LocksCount'
  <2>1. ASSUME NEW v \in Lockers
        PROVE  /\ locks'[v].points <= rewardPoints'[v] /\ locks'[v].start + locks'[v].period <= ProgramEnd
               /\ locks'[v].amount = 0 => locks'[v].points = 0
    <3>1. CASE v = u
      <4>1. points <= rewardPoints[u] + points /\ height + k <= ProgramEnd
        BY <1>1, <1>2, <1>3, <1>4, <1>6
      <4>2. QED BY <1>6, <1>7, <1>8, <3>1, <4>1
    <3>2. CASE v # u
      BY <1>4, <1>6, <1>8, <3>2 DEF LocksCount
    <3>3. QED BY <3>1, <3>2
  <2>2. QED BY <2>1 DEF LocksCount
<1>10. SumOver(rewardPoints', Lockers) = SumOver(rewardPoints, Lockers) + points
  <2>1. \A v \in Lockers : rewardPoints[v] \in Int /\ rewardPoints'[v] \in Int
    BY <1>4, <1>6 DEF PerLocker
  <2>2. SumOver(rewardPoints', Lockers) = SumOver(rewardPoints, Lockers) + (rewardPoints'[u] - rewardPoints[u])
    BY <1>1, <1>6, <2>1, SumUpdate
  <2>3. QED BY <1>2, <1>6, <2>2
<1>11. Granting'
  <2>1. ~ height > ProgramEnd
    BY <1>1, <1>4, <1>5
  <2>2. QED BY <1>3, <1>5, <1>10, <2>1 DEF Granting
<1>12. ProgramTypes'
  BY <1>2, <1>3, <1>4, <1>6, <1>8 DEF ProgramTypes
<1>13. QED BY <1>3, <1>4, <1>8, <1>9, <1>11, <1>12 DEF ProgramInv

LEMMA UnlockKeeps ==
  ASSUME ProgramInv, NEW u \in Lockers, UnlockTokens(u)
  PROVE  ProgramInv'
<1> DEFINE n == Penalty(u)
<1>1. ProgramEnd \in Nat /\ IsFiniteSet(Lockers)
  BY ProgramAssumption
<1>2. /\ rewardPoints' = [rewardPoints EXCEPT ![u] = @ - n]
      /\ totalRewardPoints' = totalRewardPoints - n
      /\ locks' = [locks EXCEPT ![u] = Unlocked]
      /\ UNCHANGED <<height, granted, released, fundHoldings>>
  BY DEF UnlockTokens
<1>3. /\ height \in Nat /\ totalRewardPoints \in Nat /\ fundHoldings \in Nat
      /\ PerLocker(rewardPoints) /\ PerLocker(granted) /\ PerLocker(released)
      /\ locks \in [Lockers -> Lock] /\ LocksCount /\ Granting
      /\ fundHoldings + SumOver(released, Lockers) = Fund
  BY DEF ProgramInv, ProgramTypes
<1>4. /\ n \in Nat /\ n <= rewardPoints[u] /\ rewardPoints[u] \in Nat
      /\ height > ProgramEnd => n = 0
  <2>1. /\ locks[u].start \in Nat /\ locks[u].period \in Nat /\ locks[u].points \in Nat
        /\ rewardPoints[u] \in Nat
    BY <1>3 DEF Lock, PerLocker
  <2>2. locks[u].start + locks[u].period <= ProgramEnd /\ locks[u].points <= rewardPoints[u]
    BY <1>3 DEF LocksCount
  <2>3. QED BY <1>1, <1>3, <2>1, <2>2 DEF Penalty
<1> HIDE DEF n
<1>5. /\ PerLocker(rewardPoints') /\ rewardPoints'[u] = rewardPoints[u] - n
      /\ \A v \in Lockers : v # u => rewardPoints'[v] = rewardPoints[v]
      /\ \A v \in Lockers : rewardPoints'[v] <= rewardPoints[v]
  <2>1. rewardPoints[u] - n \in Nat
    BY <1>4
  <2>2. /\ PerLocker(rewardPoints') /\ rewardPoints'[u] = rewardPoints[u] - n
        /\ \A v \in Lockers : v # u => rewardPoints'[v] = rewardPoints[v]
    BY <1>2, <1>3, <2>1 DEF PerLocker
  <2>3. \A v \in Lockers : rewardPoints[v] \in Nat
    BY <1>3 DEF PerLocker
  <2>4. QED BY <1>4, <2>2, <2>3
<1>6. Unlocked \in Lock /\ Unlocked.points = 0 /\ Unlocked.start = 0 /\ Unlocked.period = 0
  BY DEF Unlocked, Lock
<1>7. /\ locks' \in [Lockers -> Lock] /\ locks'[u] = Unlocked
      /\ \A v \in Lockers : v # u => locks'[v] = locks[v]
  BY <1>2, <1>3, <1>6
<1>8. LocksCount'
  <2>1. ASSUME NEW v \in Lockers
        PROVE  /\ locks'[v].points <= rewardPoints'[v] /\ locks'[v].start + locks'[v].period <= ProgramEnd
               /\ locks'[v].amount = 0 => locks'[v].points = 0
    <3>1. CASE v = u
      <4>1. rewardPoints'[u] \in Nat
        BY <1>5 DEF PerLocker
      <4>2. QED BY <1>1, <1>6, <1>7, <3>1, <4>1
    <3>2. CASE v # u
      BY <1>3, <1>5, <1>7, <3>2 DEF LocksCount
    <3>3. QED BY <3>1, <3>2
  <2>2. QED BY <2>1 DEF LocksCount
<1>9. SumOver(rewardPoints', Lockers) = SumOver(rewardPoints, Lockers) - n
  <2>1. \A v \in Lockers : rewardPoints[v] \in Int /\ rewardPoints'[v] \in Int
    BY <1>3, <1>5 DEF PerLocker
  <2>2. SumOver(rewardPoints', Lockers) = SumOver(rewardPoints, Lockers) + (rewardPoints'[u] - rewardPoints[u])
    BY <1>1, <1>5, <2>1, SumUpdate
  <2>3. SumOver(rewardPoints, Lockers) \in Int
    BY <1>1, <2>1, SumInt
  <2>4. QED BY <1>4, <1>5, <2>2, <2>3
<1>10. totalRewardPoints' \in Nat /\ Granting'
  <2>1. \A v \in Lockers : rewardPoints'[v] > 0 => granted[v] = 0
    <3>1. \A v \in Lockers : rewardPoints[v] \in Nat /\ rewardPoints'[v] \in Nat
      BY <1>3, <1>5 DEF PerLocker
    <3>2. QED BY <1>3, <1>5, <3>1 DEF Granting
  <2>2. CASE height <= ProgramEnd
    <3>1. totalRewardPoints' = SumOver(rewardPoints', Lockers)
      BY <1>2, <1>3, <1>9, <2>2 DEF Granting
    <3>2. SumOver(rewardPoints', Lockers) \in Nat
      <4>1. \A v \in Lockers : rewardPoints'[v] \in Nat
        BY <1>5 DEF PerLocker
      <4>2. QED BY <1>1, <4>1, SumNat
    <3>3. ~ height > ProgramEnd
      BY <1>1, <1>3, <2>2
    <3>4. \A v \in Lockers : granted[v] = 0
      BY <1>3, <2>2 DEF Granting
    <3>5. QED BY <1>2, <2>1, <3>1, <3>2, <3>3, <3>4 DEF Granting
  <2>3. CASE height > ProgramEnd
    <3>1. n = 0
      BY <1>4, <2>3
    <3>2. totalRewardPoints' = totalRewardPoints
      BY <1>2, <1>3, <3>1
    <3>3. rewardPoints' = rewardPoints
      <4>1. rewardPoints[u] - n = rewardPoints[u]
        BY <1>4, <3>1
      <4>2. QED BY <1>2, <1>3, <4>1 DEF PerLocker
    <3>4. QED BY <1>2, <1>3, <3>2, <3>3 DEF Granting, Shared
  <2>4. QED BY <1>1, <1>3, <2>2, <2>3
<1>11. ProgramTypes'
  BY <1>2, <1>3, <1>5, <1>7, <1>10 DEF ProgramTypes
<1>12. QED BY <1>2, <1>3, <1>7, <1>8, <1>10, <1>11 DEF ProgramInv

\* Who comes gets exactly the share that the points stood for.
LEMMA GrantKeeps ==
  ASSUME ProgramInv, NEW u \in Lockers, GetRewards(u)
  PROVE  ProgramInv'
<1> DEFINE T == totalRewardPoints
           earned == (Fund * rewardPoints[u]) \div T
           f == [v \in Lockers |-> granted[v] + PointsShare(rewardPoints[v], T)]
           g == [v \in Lockers |-> granted'[v] + PointsShare(rewardPoints'[v], T)]
<1>1. ProgramEnd \in Nat /\ Fund \in Nat /\ IsFiniteSet(Lockers)
  BY ProgramAssumption
<1>2. /\ height > ProgramEnd /\ locks[u].amount = 0 /\ rewardPoints[u] > 0
      /\ granted' = [granted EXCEPT ![u] = earned]
      /\ rewardPoints' = [rewardPoints EXCEPT ![u] = 0]
      /\ UNCHANGED <<height, locks, totalRewardPoints, released, fundHoldings>>
  BY DEF GetRewards
<1>3. /\ height \in Nat /\ T \in Nat /\ fundHoldings \in Nat
      /\ PerLocker(rewardPoints) /\ PerLocker(granted) /\ PerLocker(released)
      /\ locks \in [Lockers -> Lock] /\ LocksCount
      /\ fundHoldings + SumOver(released, Lockers) = Fund
  BY DEF ProgramInv, ProgramTypes
<1>4. /\ \A v \in Lockers : rewardPoints[v] > 0 => granted[v] = 0
      /\ \A v \in Lockers : rewardPoints[v] <= T
      /\ SumOver(f, Lockers) <= Fund
  BY <1>2 DEF ProgramInv, Granting, Shared
<1>5. rewardPoints[u] \in Nat /\ T # 0 /\ granted[u] = 0
  BY <1>2, <1>3, <1>4 DEF PerLocker
<1>6. earned = PointsShare(rewardPoints[u], T) /\ earned \in Nat /\ PointsShare(0, T) = 0
  <2>1. earned = PointsShare(rewardPoints[u], T)
    BY <1>5 DEF PointsShare
  <2>2. PointsShare(0, T) = (Fund * 0) \div T
    BY <1>5 DEF PointsShare
  <2>3. Fund * 0 = 0 /\ 0 \div T = 0
    BY <1>1, <1>3, <1>5, Z3
  <2>4. QED BY <1>3, <1>5, <2>1, <2>2, <2>3, PointsShareIs
<1> HIDE DEF earned
<1>7. /\ PerLocker(granted') /\ granted'[u] = earned
      /\ PerLocker(rewardPoints') /\ rewardPoints'[u] = 0
      /\ \A v \in Lockers : v # u => granted'[v] = granted[v] /\ rewardPoints'[v] = rewardPoints[v]
  BY <1>2, <1>3, <1>6 DEF PerLocker
<1>8. LocksCount'
  <2>1. ASSUME NEW v \in Lockers
        PROVE  /\ locks[v].points <= rewardPoints'[v] /\ locks[v].start + locks[v].period <= ProgramEnd
               /\ locks[v].amount = 0 => locks[v].points = 0
    <3>1. /\ locks[v].points <= rewardPoints[v] /\ locks[v].start + locks[v].period <= ProgramEnd
          /\ locks[v].amount = 0 => locks[v].points = 0
      BY <1>3 DEF LocksCount
    <3>2. CASE v = u
      BY <1>2, <1>7, <3>1, <3>2
    <3>3. CASE v # u
      BY <1>7, <3>1, <3>3
    <3>4. QED BY <3>2, <3>3
  <2>2. QED BY <1>2, <2>1 DEF LocksCount
<1>9. \A v \in Lockers : f[v] \in Int /\ g[v] \in Int /\ g[v] = f[v]
  <2>1. ASSUME NEW v \in Lockers PROVE f[v] \in Int /\ g[v] = f[v]
    <3>1. /\ f[v] = granted[v] + PointsShare(rewardPoints[v], T)
          /\ g[v] = granted'[v] + PointsShare(rewardPoints'[v], T)
      OBVIOUS
    <3>2. granted[v] \in Nat /\ PointsShare(rewardPoints[v], T) \in Nat
      BY <1>3, PointsShareIs DEF PerLocker
    <3>3. CASE v = u
      BY <1>5, <1>6, <1>7, <3>1, <3>2, <3>3
    <3>4. CASE v # u
      BY <1>7, <3>1, <3>2, <3>4
    <3>5. QED BY <3>1, <3>2, <3>3, <3>4
  <2>2. QED BY <2>1
<1> HIDE DEF f, g
<1>10. SumOver(g, Lockers) = SumOver(f, Lockers)
  BY <1>1, <1>9, SumAgree
<1>11. Granting'
  <2>1. \A v \in Lockers : rewardPoints'[v] > 0 => granted'[v] = 0
    BY <1>4, <1>7
  <2>2. \A v \in Lockers : rewardPoints'[v] <= T
    BY <1>3, <1>4, <1>7
  <2>3. Shared(granted, rewardPoints, totalRewardPoints)' <= Fund
    BY <1>2, <1>4, <1>10 DEF Shared, g
  <2>4. ~ height' <= ProgramEnd
    BY <1>1, <1>2, <1>3
  <2>5. QED BY <1>2, <2>1, <2>2, <2>3, <2>4 DEF Granting
<1>12. ProgramTypes'
  BY <1>2, <1>3, <1>7 DEF ProgramTypes
<1>13. QED BY <1>2, <1>3, <1>8, <1>11, <1>12 DEF ProgramInv

LEMMA ReleaseKeeps ==
  ASSUME ProgramInv, NEW u \in Lockers, Release(u)
  PROVE  ProgramInv'
<1> DEFINE n == VestedOf(u) - released[u]
<1>1. ProgramEnd \in Nat /\ VestingBlocks \in Nat /\ VestingBlocks # 0 /\ IsFiniteSet(Lockers)
  BY ProgramAssumption
<1>2. /\ height >= ProgramEnd /\ n > 0 /\ fundHoldings >= n
      /\ released' = [released EXCEPT ![u] = @ + n]
      /\ fundHoldings' = fundHoldings - n
      /\ UNCHANGED <<height, locks, rewardPoints, totalRewardPoints, granted>>
  BY DEF Release
<1>3. /\ height \in Nat /\ totalRewardPoints \in Nat /\ fundHoldings \in Nat
      /\ PerLocker(rewardPoints) /\ PerLocker(granted) /\ PerLocker(released)
      /\ fundHoldings + SumOver(released, Lockers) = Fund
  BY DEF ProgramInv, ProgramTypes
<1>4. n \in Nat /\ released[u] \in Nat
  <2>1. granted[u] \in Nat /\ released[u] \in Nat
    BY <1>3 DEF PerLocker
  <2>2. VestedOf(u) \in Nat
    <3> DEFINE e == height - ProgramEnd
               m == granted[u] * e
    <3>1. e \in Nat
      BY <1>1, <1>2, <1>3
    <3> HIDE DEF e
    <3>2. m \in Nat
      BY <2>1, <3>1, TimesIsNat
    <3> HIDE DEF m
    <3>3. m \div VestingBlocks \in Nat
      BY <1>1, <3>2, QuotientIsFloor
    <3>4. VestedOf(u) = IF height >= ProgramEnd + VestingBlocks THEN granted[u] ELSE m \div VestingBlocks
      BY DEF VestedOf, m, e
    <3>5. QED BY <2>1, <3>3, <3>4
  <2>3. QED BY <1>2, <2>1, <2>2
<1> HIDE DEF n
<1>5. /\ PerLocker(released') /\ released'[u] = released[u] + n
      /\ \A v \in Lockers : v # u => released'[v] = released[v]
  <2>1. released[u] + n \in Nat
    BY <1>4
  <2>2. QED BY <1>2, <1>3, <2>1 DEF PerLocker
<1>6. SumOver(released', Lockers) = SumOver(released, Lockers) + n
  <2>1. \A v \in Lockers : released[v] \in Int /\ released'[v] \in Int
    BY <1>3, <1>5 DEF PerLocker
  <2>2. SumOver(released', Lockers) = SumOver(released, Lockers) + (released'[u] - released[u])
    BY <1>1, <1>5, <2>1, SumUpdate
  <2>3. QED BY <1>4, <1>5, <2>2
<1>7. fundHoldings' \in Nat /\ fundHoldings' + SumOver(released', Lockers) = Fund
  <2>1. SumOver(released, Lockers) \in Nat
    <3>1. \A v \in Lockers : released[v] \in Nat
      BY <1>3 DEF PerLocker
    <3>2. QED BY <1>1, <3>1, SumNat
  <2>2. QED BY <1>2, <1>3, <1>4, <1>6, <2>1
<1>8. ProgramTypes' /\ Granting' /\ LocksCount' /\ locks' \in [Lockers -> Lock]
  <2>1. ProgramTypes /\ Granting /\ LocksCount /\ locks \in [Lockers -> Lock]
    BY DEF ProgramInv
  <2>2. QED BY <1>2, <1>5, <1>7, <2>1 DEF ProgramTypes, Granting, LocksCount, Shared
<1>9. QED BY <1>7, <1>8 DEF ProgramInv

\* The end of the program fixes what the points are worth.
LEMMA BlockKeeps ==
  ASSUME ProgramInv, BlockMined
  PROVE  ProgramInv'
<1>1. ProgramEnd \in Nat /\ Fund \in Nat /\ IsFiniteSet(Lockers)
  BY ProgramAssumption
<1>2. /\ height' = height + 1
      /\ UNCHANGED <<locks, rewardPoints, totalRewardPoints, granted, released, fundHoldings>>
  BY DEF BlockMined
<1>3. /\ ProgramTypes /\ Granting /\ LocksCount /\ locks \in [Lockers -> Lock] /\ height \in Nat
      /\ fundHoldings + SumOver(released, Lockers) = Fund
      /\ PerLocker(rewardPoints) /\ PerLocker(granted)
  BY DEF ProgramInv, ProgramTypes
<1>4. CASE height <= ProgramEnd
  <2>1. totalRewardPoints = SumOver(rewardPoints, Lockers) /\ \A u \in Lockers : granted[u] = 0
    BY <1>3, <1>4 DEF Granting
  <2>2. \A u \in Lockers : rewardPoints[u] <= totalRewardPoints
    <3>1. \A u \in Lockers : rewardPoints[u] \in Nat
      BY <1>3 DEF PerLocker
    <3>2. QED BY <1>1, <2>1, <3>1, SumMember
  <2>3. Shared(granted, rewardPoints, totalRewardPoints) <= Fund
    <3>1. \A u \in Lockers : PointsShare(rewardPoints[u], totalRewardPoints) \in Nat
      BY <1>3, PointsShareIs DEF PerLocker, ProgramTypes
    <3>2. [u \in Lockers |-> granted[u] + PointsShare(rewardPoints[u], totalRewardPoints)]
            = [u \in Lockers |-> PointsShare(rewardPoints[u], totalRewardPoints)]
      BY <2>1, <3>1
    <3>3. QED BY <1>3, <2>1, <3>2, PointsFitTheFund DEF Shared
  <2>4. Shared(granted, rewardPoints, totalRewardPoints)' <= Fund
    BY <1>2, <2>3 DEF Shared
  <2>5. Granting'
    BY <1>1, <1>2, <1>3, <2>1, <2>2, <2>4 DEF Granting
  <2>6. QED BY <1>2, <1>3, <2>5 DEF ProgramInv, ProgramTypes, LocksCount
<1>5. CASE ~ height <= ProgramEnd
  <2>1. height > ProgramEnd /\ height' > ProgramEnd /\ ~ height' <= ProgramEnd /\ height' \in Nat
    BY <1>1, <1>2, <1>3, <1>5
  <2>2. Granting'
    BY <1>2, <1>3, <2>1 DEF Granting, Shared
  <2>3. QED BY <1>2, <1>3, <2>1, <2>2 DEF ProgramInv, ProgramTypes, LocksCount
<1>6. QED BY <1>4, <1>5

\* Once the program is over, the fund covers what was granted and not released
\* and the shares of all who have not come for theirs, whatever was locked and
\* unlocked before and whoever comes first.
THEOREM FundCoversTheGrants == ProgramSpec => []GrantsFitTheFund
<1>1. ProgramInv /\ [ProgramNext]_programVars => ProgramInv'
  <2>1. ASSUME ProgramInv, UNCHANGED programVars PROVE ProgramInv'
    BY <2>1 DEF ProgramInv, ProgramTypes, LocksCount, Granting, Shared, programVars
  <2>2. QED BY <2>1, LockKeeps, UnlockKeeps, GrantKeeps, ReleaseKeeps, BlockKeeps DEF ProgramNext
<1>2. ProgramInv => GrantsFitTheFund
  <2> SUFFICES ASSUME ProgramInv, height > ProgramEnd
               PROVE  fundHoldings >= SumOver([u \in Lockers |-> granted[u] - released[u] + Outstanding(u)], Lockers)
    BY DEF GrantsFitTheFund
  <2> DEFINE f == [u \in Lockers |-> granted[u] - released[u] + Outstanding(u)]
             g == [u \in Lockers |-> granted[u] + PointsShare(rewardPoints[u], totalRewardPoints)]
             r == released
  <2>1. IsFiniteSet(Lockers) /\ Fund \in Nat
    BY ProgramAssumption
  <2>2. fundHoldings \in Nat /\ fundHoldings + SumOver(r, Lockers) = Fund /\ SumOver(g, Lockers) <= Fund
    BY DEF ProgramInv, ProgramTypes, Granting, Shared
  <2>3. \A u \in Lockers : r[u] \in Nat /\ f[u] \in Int /\ g[u] = f[u] + r[u]
    <3>1. ASSUME NEW u \in Lockers PROVE r[u] \in Nat /\ f[u] \in Int /\ g[u] = f[u] + r[u]
      <4>1. granted[u] \in Nat /\ released[u] \in Nat /\ rewardPoints[u] \in Nat /\ totalRewardPoints \in Nat
        BY DEF ProgramInv, ProgramTypes, PerLocker
      <4>2. Outstanding(u) = PointsShare(rewardPoints[u], totalRewardPoints)
        BY DEF Outstanding, PointsShare
      <4>3. Outstanding(u) \in Nat
        BY <4>1, <4>2, PointsShareIs
      <4>4. QED BY <4>1, <4>2, <4>3
    <3>2. QED BY <3>1
  <2> HIDE DEF f, g, r
  <2>4. SumOver(g, Lockers) = SumOver(f, Lockers) + SumOver(r, Lockers)
    BY <2>1, <2>3, SumAdd
  <2>5. SumOver(f, Lockers) \in Int /\ SumOver(r, Lockers) \in Nat
    BY <2>1, <2>3, SumInt, SumNat
  <2>6. fundHoldings >= SumOver(f, Lockers)
    BY <2>1, <2>2, <2>4, <2>5
  <2>7. QED BY <2>6 DEF f
<1>3. QED BY <1>1, <1>2, ProgramBegins, PTL DEF ProgramSpec

-----------------------------------------------------------------------------
(***************************************************************************)
(* SingleStaking.  Between two checkpoints nothing is rounded: the stakes  *)
(* times what was added since, with what is credited already and what the  *)
(* period still distributes after the last checkpoint, are covered in the  *)
(* scaled unit.  Every rounding then only takes away from what is owed.    *)
(***************************************************************************)
PerStaker(f) == f \in [Stakers -> Nat]

OwedTo(s, stored, paid, credit) == s * (stored - paid) + RewardScale * credit

OwedToAll(s, stored, paid, credit) ==
  SumOver([u \in Stakers |-> OwedTo(s[u], stored, paid[u], credit[u])], Stakers)

AfterCheckpoint(at) == (periodFinish - at) * rewardRate

RewardTypes ==
  /\ second \in Nat /\ duration \in Nat \ {0} /\ periodFinish \in Nat /\ rewardRate \in Nat
  /\ lastUpdateTime \in Nat /\ rewardPerTokenStored \in Nat /\ rewardHoldings \in Nat
  /\ PerStaker(staked) /\ PerStaker(userPaid) /\ PerStaker(rewards)

RewardInv ==
  /\ RewardTypes
  /\ lastUpdateTime <= second /\ lastUpdateTime <= periodFinish
  /\ \A u \in Stakers : userPaid[u] <= rewardPerTokenStored
  /\ OwedToAll(staked, rewardPerTokenStored, userPaid, rewards)
       + RewardScale * AfterCheckpoint(lastUpdateTime) <= RewardScale * rewardHoldings

LEMMA OwedToIs ==
  ASSUME NEW s \in Nat, NEW stored \in Nat, NEW paid \in Nat, NEW credit \in Nat, paid <= stored
  PROVE  OwedTo(s, stored, paid, credit) \in Nat
<1>1. stored - paid \in Nat /\ RewardScale \in Nat
  BY StakingAssumption
<1>2. s * (stored - paid) \in Nat /\ RewardScale * credit \in Nat
  BY <1>1, TimesIsNat
<1>3. QED BY <1>2 DEF OwedTo

LEMMA OwedIs ==
  ASSUME NEW s, NEW stored \in Nat, NEW paid, NEW credit,
         PerStaker(s), PerStaker(paid), PerStaker(credit), \A u \in Stakers : paid[u] <= stored
  PROVE  OwedToAll(s, stored, paid, credit) \in Nat
<1> DEFINE f == [u \in Stakers |-> OwedTo(s[u], stored, paid[u], credit[u])]
<1>1. \A u \in Stakers : f[u] \in Nat
  BY OwedToIs DEF PerStaker
<1>2. IsFiniteSet(Stakers)
  BY StakingAssumption
<1> HIDE DEF f
<1>3. SumOver(f, Stakers) \in Nat
  BY <1>1, <1>2, SumNat
<1>4. QED BY <1>3 DEF OwedToAll, f

\* The applicable time lies between the last checkpoint and the period's end.
LEMMA ApplicableIs ==
  ASSUME RewardInv
  PROVE  /\ LastTimeRewardApplicable \in Nat /\ LastTimeRewardApplicable <= second
         /\ LastTimeRewardApplicable <= periodFinish /\ lastUpdateTime <= LastTimeRewardApplicable
         /\ second >= periodFinish => LastTimeRewardApplicable = periodFinish
         /\ second < periodFinish => LastTimeRewardApplicable = second
<1>1. /\ second \in Nat /\ periodFinish \in Nat /\ lastUpdateTime \in Nat
      /\ lastUpdateTime <= second /\ lastUpdateTime <= periodFinish
  BY DEF RewardInv, RewardTypes
<1>2. QED BY <1>1 DEF LastTimeRewardApplicable

\* What a checkpoint adds for all stakes together is at most what was distributed since.
LEMMA PerTokenIs ==
  ASSUME RewardInv
  PROVE  /\ StakedInAll \in Nat /\ RewardPerToken \in Nat /\ rewardPerTokenStored <= RewardPerToken
         /\ StakedInAll * (RewardPerToken - rewardPerTokenStored)
              <= RewardScale * ((LastTimeRewardApplicable - lastUpdateTime) * rewardRate)
<1> DEFINE e == LastTimeRewardApplicable - lastUpdateTime
           m == (e * rewardRate) * RewardScale
           T == StakedInAll
           q == m \div T
<1>1. /\ rewardRate \in Nat /\ rewardPerTokenStored \in Nat /\ RewardScale \in Nat
      /\ lastUpdateTime \in Nat
  BY StakingAssumption DEF RewardInv, RewardTypes
<1>2. e \in Nat
  BY <1>1, ApplicableIs
<1>3. T \in Nat
  <2>1. IsFiniteSet(Stakers) /\ \A u \in Stakers : staked[u] \in Nat
    BY StakingAssumption DEF RewardInv, RewardTypes, PerStaker
  <2>2. QED BY <2>1, SumNat DEF StakedInAll
<1>4. RewardPerToken = IF T = 0 THEN rewardPerTokenStored ELSE rewardPerTokenStored + q
  BY DEF RewardPerToken
<1>5. m \in Nat /\ m = RewardScale * (e * rewardRate)
  <2> HIDE DEF e
  <2>1. e * rewardRate \in Nat
    BY <1>1, <1>2, TimesIsNat
  <2>2. m \in Nat
    BY <1>1, <2>1, TimesIsNat
  <2>3. (e * rewardRate) * RewardScale = RewardScale * (e * rewardRate)
    BY <1>1, <2>1, Z3
  <2>4. QED BY <2>2, <2>3
<1>6. CASE T = 0
  <2>1. RewardPerToken = rewardPerTokenStored /\ rewardPerTokenStored - rewardPerTokenStored = 0 /\ 0 * 0 = 0
    BY <1>1, <1>4, <1>6
  <2> HIDE DEF m, T, e
  <2>2. T * (RewardPerToken - rewardPerTokenStored) = 0
    BY <1>6, <2>1
  <2>3. QED BY <1>1, <1>3, <1>5, <2>1, <2>2 DEF T, e
<1>7. CASE T # 0
  <2> HIDE DEF m, T
  <2>1. q \in Nat /\ q * T <= m
    BY <1>3, <1>5, <1>7, QuotientIsFloor
  <2> HIDE DEF q
  <2>2. RewardPerToken = rewardPerTokenStored + q
    BY <1>4, <1>7
  <2>3. RewardPerToken - rewardPerTokenStored = q
    BY <1>1, <2>1, <2>2
  <2>4. T * q = q * T
    BY <1>3, <2>1, Z3
  <2>5. T * (RewardPerToken - rewardPerTokenStored) <= RewardScale * (e * rewardRate)
    BY <1>5, <2>1, <2>3, <2>4
  <2>6. QED BY <1>1, <1>3, <2>1, <2>2, <2>5 DEF T
<1>8. QED BY <1>6, <1>7

\* So the same is covered at the time of any transaction.
LEMMA CoveredNow ==
  ASSUME RewardInv
  PROVE  /\ OwedToAll(staked, RewardPerToken, userPaid, rewards) \in Nat /\ AfterCheckpoint(LastTimeRewardApplicable) \in Nat
         /\ \A u \in Stakers : userPaid[u] <= RewardPerToken
         /\ OwedToAll(staked, RewardPerToken, userPaid, rewards)
              + RewardScale * AfterCheckpoint(LastTimeRewardApplicable) <= RewardScale * rewardHoldings
<1> DEFINE R == RewardPerToken
           L == LastTimeRewardApplicable
           d == R - rewardPerTokenStored
           f == [u \in Stakers |-> OwedTo(staked[u], rewardPerTokenStored, userPaid[u], rewards[u])]
           g == [u \in Stakers |-> d * staked[u]]
           h == [u \in Stakers |-> OwedTo(staked[u], R, userPaid[u], rewards[u])]
<1>1. /\ rewardRate \in Nat /\ rewardPerTokenStored \in Nat /\ RewardScale \in Nat /\ rewardHoldings \in Nat
      /\ lastUpdateTime \in Nat /\ periodFinish \in Nat /\ IsFiniteSet(Stakers)
      /\ \A u \in Stakers : staked[u] \in Nat /\ userPaid[u] \in Nat /\ rewards[u] \in Nat
  BY StakingAssumption DEF RewardInv, RewardTypes, PerStaker
<1>2. \A u \in Stakers : userPaid[u] <= rewardPerTokenStored
  BY DEF RewardInv
<1>3. R \in Nat /\ d \in Nat /\ L \in Nat /\ L <= periodFinish /\ lastUpdateTime <= L
  BY <1>1, PerTokenIs, ApplicableIs
<1>4. \A u \in Stakers : userPaid[u] <= R
  BY <1>1, <1>2, <1>3, PerTokenIs
<1>5. OwedToAll(staked, R, userPaid, rewards) \in Nat
  BY <1>3, <1>4, OwedIs DEF RewardInv, RewardTypes
<1>6. ASSUME NEW u \in Stakers PROVE f[u] \in Int /\ g[u] \in Int /\ h[u] = f[u] + g[u]
  <2> DEFINE s == staked[u]
             p == userPaid[u]
             c == RewardScale * rewards[u]
             e == rewardPerTokenStored - p
  <2>1. s \in Nat /\ p \in Nat /\ c \in Nat /\ e \in Nat /\ R - p = e + d
    BY <1>1, <1>2, <1>3, TimesIsNat
  <2>2. f[u] = s * e + c /\ g[u] = d * s /\ h[u] = s * (e + d) + c
    BY <2>1 DEF OwedTo
  <2> HIDE DEF s, p, c, e, d, f, g, h
  <2>3. s * e \in Nat /\ d * s \in Nat /\ s * (e + d) = s * e + d * s
    BY <1>3, <2>1, Z3
  <2>4. QED BY <2>1, <2>2, <2>3
<1>7. OwedToAll(staked, R, userPaid, rewards)
        = OwedToAll(staked, rewardPerTokenStored, userPaid, rewards) + StakedInAll * d
  <2>1. \A u \in Stakers : g[u] = d * staked[u]
    OBVIOUS
  <2> HIDE DEF f, g, h, d
  <2>2. SumOver(h, Stakers) = SumOver(f, Stakers) + SumOver(g, Stakers)
    BY <1>1, <1>6, SumAdd
  <2>3. SumOver(g, Stakers) = d * SumOver(staked, Stakers)
    BY <1>1, <1>3, <2>1, SumScaled
  <2>4. StakedInAll \in Nat /\ StakedInAll = SumOver(staked, Stakers)
    BY PerTokenIs DEF StakedInAll
  <2>5. d * StakedInAll = StakedInAll * d
    BY <1>3, <2>4, Z3
  <2>6. QED BY <2>2, <2>3, <2>4, <2>5 DEF OwedToAll, f, h
<1>8. /\ AfterCheckpoint(L) \in Nat
      /\ RewardScale * AfterCheckpoint(lastUpdateTime)
           = RewardScale * ((L - lastUpdateTime) * rewardRate) + RewardScale * AfterCheckpoint(L)
  <2> DEFINE a == periodFinish - L
             b == L - lastUpdateTime
  <2>1. a \in Nat /\ b \in Nat /\ periodFinish - lastUpdateTime = a + b
    BY <1>1, <1>3
  <2>2. AfterCheckpoint(L) = a * rewardRate /\ AfterCheckpoint(lastUpdateTime) = (a + b) * rewardRate
    BY <2>1 DEF AfterCheckpoint
  <2> HIDE DEF a
  <2>3. L - lastUpdateTime = b
    OBVIOUS
  <2> HIDE DEF b
  <2>4. a * rewardRate \in Nat
    BY <1>1, <2>1, TimesIsNat
  <2>5. RewardScale * ((a + b) * rewardRate)
          = RewardScale * (b * rewardRate) + RewardScale * (a * rewardRate)
    BY <1>1, <2>1, Z3
  <2>6. QED BY <2>2, <2>3, <2>4, <2>5
<1>9. QED
  <2> DEFINE X == OwedToAll(staked, rewardPerTokenStored, userPaid, rewards)
             Y == StakedInAll * d
             V == RewardScale * ((L - lastUpdateTime) * rewardRate)
             W == RewardScale * AfterCheckpoint(L)
             Z == RewardScale * rewardHoldings
  <2>1. X \in Nat
    BY <1>1, <1>2, OwedIs DEF RewardInv, RewardTypes
  <2>2. W \in Nat /\ Z \in Nat /\ V \in Nat
    <3>1. (L - lastUpdateTime) * rewardRate \in Nat
      <4>1. L - lastUpdateTime \in Nat
        BY <1>1, <1>3
      <4>2. QED BY <1>1, <4>1, TimesIsNat
    <3>2. QED BY <1>1, <1>8, <3>1, TimesIsNat
  <2>3. Y \in Nat
    BY <1>3, PerTokenIs, TimesIsNat
  <2>4. Y <= V
    BY PerTokenIs
  <2>5. X + RewardScale * AfterCheckpoint(lastUpdateTime) <= Z
    BY DEF RewardInv
  <2>6. RewardScale * AfterCheckpoint(lastUpdateTime) = V + W
    BY <1>8
  <2>7. OwedToAll(staked, R, userPaid, rewards) = X + Y
    BY <1>7
  <2> HIDE DEF X, Y, V, W, Z
  <2>8. (X + Y) + W <= Z
    BY <2>1, <2>2, <2>3, <2>4, <2>5, <2>6
  <2>9. QED BY <1>4, <1>5, <1>8, <2>7, <2>8 DEF W, Z

\* What a staker has earned is at most what he is owed.
LEMMA EarnedIs ==
  ASSUME RewardInv, NEW u \in Stakers
  PROVE  /\ EarnedBy(u) \in Nat
         /\ RewardScale * EarnedBy(u) <= OwedTo(staked[u], RewardPerToken, userPaid[u], rewards[u])
         /\ OwedTo(staked[u], RewardPerToken, userPaid[u], rewards[u]) \in Nat
<1> DEFINE m == staked[u] * (RewardPerToken - userPaid[u])
           q == m \div RewardScale
           c == rewards[u]
<1>1. /\ staked[u] \in Nat /\ userPaid[u] \in Nat /\ c \in Nat
      /\ RewardScale \in Nat /\ RewardScale # 0
  BY StakingAssumption DEF RewardInv, RewardTypes, PerStaker
<1>2. RewardPerToken \in Nat /\ userPaid[u] <= RewardPerToken
  BY PerTokenIs, CoveredNow
<1>3. m \in Nat
  <2>1. RewardPerToken - userPaid[u] \in Nat
    BY <1>1, <1>2
  <2>2. QED BY <1>1, <2>1, TimesIsNat
<1>4. OwedTo(staked[u], RewardPerToken, userPaid[u], rewards[u]) = m + RewardScale * c
  BY DEF OwedTo
<1>5. EarnedBy(u) = q + c
  BY DEF EarnedBy
<1> HIDE DEF m, c
<1>6. q \in Nat /\ q * RewardScale <= m
  BY <1>1, <1>3, QuotientIsFloor
<1> HIDE DEF q
<1>7. RewardScale * (q + c) = q * RewardScale + RewardScale * c
  BY <1>1, <1>6, Z3
<1>8. RewardScale * c \in Nat /\ q * RewardScale \in Nat
  BY <1>1, <1>6, TimesIsNat
<1>9. QED BY <1>1, <1>3, <1>4, <1>5, <1>6, <1>7, <1>8

\* What all are owed changes with one staker's row alone.
LEMMA OwedChanges ==
  ASSUME NEW s, NEW paid, NEW credit, NEW s2, NEW paid2, NEW credit2, NEW R \in Nat,
         PerStaker(s), PerStaker(paid), PerStaker(credit),
         PerStaker(s2), PerStaker(paid2), PerStaker(credit2),
         \A v \in Stakers : paid[v] <= R /\ paid2[v] <= R,
         NEW u \in Stakers,
         \A v \in Stakers : v # u => s2[v] = s[v] /\ paid2[v] = paid[v] /\ credit2[v] = credit[v]
  PROVE  OwedToAll(s2, R, paid2, credit2)
           = OwedToAll(s, R, paid, credit)
               + (OwedTo(s2[u], R, paid2[u], credit2[u]) - OwedTo(s[u], R, paid[u], credit[u]))
<1> DEFINE f == [v \in Stakers |-> OwedTo(s[v], R, paid[v], credit[v])]
           g == [v \in Stakers |-> OwedTo(s2[v], R, paid2[v], credit2[v])]
<1>1. IsFiniteSet(Stakers)
  BY StakingAssumption
<1>2. \A v \in Stakers : f[v] \in Int /\ g[v] \in Int
  <2>1. ASSUME NEW v \in Stakers
        PROVE  /\ OwedTo(s[v], R, paid[v], credit[v]) \in Nat
               /\ OwedTo(s2[v], R, paid2[v], credit2[v]) \in Nat
    <3>1. /\ s[v] \in Nat /\ paid[v] \in Nat /\ credit[v] \in Nat
          /\ s2[v] \in Nat /\ paid2[v] \in Nat /\ credit2[v] \in Nat
          /\ paid[v] <= R /\ paid2[v] <= R
      BY DEF PerStaker
    <3>2. QED BY <3>1, OwedToIs
  <2>2. QED BY <2>1
<1>3. \A v \in Stakers : v # u => g[v] = f[v]
  OBVIOUS
<1>4. f[u] = OwedTo(s[u], R, paid[u], credit[u]) /\ g[u] = OwedTo(s2[u], R, paid2[u], credit2[u])
  OBVIOUS
<1> HIDE DEF f, g
<1>5. SumOver(g, Stakers) = SumOver(f, Stakers) + (g[u] - f[u])
  BY ONLY <1>1, <1>2, <1>3, u \in Stakers, SumUpdate
<1>6. QED BY <1>4, <1>5 DEF OwedToAll, f, g

LEMMA StakingBegins == StakingInit => RewardInv
<1> SUFFICES ASSUME StakingInit PROVE RewardInv
  OBVIOUS
<1>1. /\ second = 1 /\ duration \in Nat \ {0} /\ periodFinish = 0 /\ rewardRate = 0
      /\ lastUpdateTime = 0 /\ rewardPerTokenStored = 0 /\ rewardHoldings = 0
      /\ PerStaker(staked) /\ PerStaker(userPaid) /\ PerStaker(rewards)
      /\ \A u \in Stakers : staked[u] = 0 /\ userPaid[u] = 0 /\ rewards[u] = 0
  BY StakingAssumption DEF StakingInit, PerStaker
<1>2. RewardScale \in Nat /\ IsFiniteSet(Stakers)
  BY StakingAssumption
<1>3. OwedToAll(staked, rewardPerTokenStored, userPaid, rewards) = 0
  <2> DEFINE f == [u \in Stakers |-> OwedTo(staked[u], rewardPerTokenStored, userPaid[u], rewards[u])]
  <2>1. \A u \in Stakers : f[u] = 0
    BY <1>1, <1>2 DEF OwedTo
  <2> HIDE DEF f
  <2>2. SumOver(f, Stakers) = 0
    BY <1>2, <2>1, SumZero
  <2>3. QED BY <2>2 DEF OwedToAll, f
<1>4. RewardScale * AfterCheckpoint(lastUpdateTime) = 0 /\ RewardScale * rewardHoldings = 0
  BY <1>1, <1>2 DEF AfterCheckpoint
<1>5. QED BY <1>1, <1>3, <1>4 DEF RewardInv, RewardTypes

\* A transaction of one staker: his reward is settled, and n of it may be paid.
LEMMA StakerKeeps ==
  ASSUME RewardInv, NEW u \in Stakers, NEW n \in Nat, CheckpointOf(u),
         PerStaker(staked'), \A v \in Stakers : v # u => staked'[v] = staked[v],
         PerStaker(rewards'), \A v \in Stakers : v # u => rewards'[v] = rewards[v],
         rewards'[u] + n = EarnedBy(u), rewardHoldings' \in Nat, rewardHoldings = rewardHoldings' + n,
         UNCHANGED <<second, rewardData>>
  PROVE  RewardInv'
<1> DEFINE R == RewardPerToken
           L == LastTimeRewardApplicable
           owes == OwedTo(staked[u], R, userPaid[u], rewards[u])
           left == RewardScale * rewards'[u]
           all == OwedToAll(staked, R, userPaid, rewards)
           all2 == OwedToAll(staked', R, userPaid', rewards')
           W == RewardScale * AfterCheckpoint(L)
<1>1. /\ second \in Nat /\ duration \in Nat \ {0} /\ periodFinish \in Nat /\ rewardRate \in Nat
      /\ PerStaker(staked) /\ PerStaker(userPaid) /\ PerStaker(rewards)
      /\ RewardScale \in Nat /\ rewardHoldings \in Nat
  BY StakingAssumption DEF RewardInv, RewardTypes
<1>2. /\ rewardPerTokenStored' = R /\ lastUpdateTime' = L
      /\ userPaid' = [userPaid EXCEPT ![u] = R]
  BY DEF CheckpointOf, Checkpoint
<1>3. /\ R \in Nat /\ L \in Nat /\ L <= second /\ L <= periodFinish
      /\ \A v \in Stakers : userPaid[v] <= R
      /\ all \in Nat /\ AfterCheckpoint(L) \in Nat
      /\ all + W <= RewardScale * rewardHoldings
  BY PerTokenIs, ApplicableIs, CoveredNow
<1>4. /\ PerStaker(userPaid') /\ userPaid'[u] = R
      /\ \A v \in Stakers : v # u => userPaid'[v] = userPaid[v]
      /\ \A v \in Stakers : userPaid'[v] <= R
  <2>1. PerStaker(userPaid') /\ userPaid'[u] = R /\ \A v \in Stakers : v # u => userPaid'[v] = userPaid[v]
    BY <1>1, <1>2, <1>3 DEF PerStaker
  <2>2. QED BY <1>3, <2>1
<1>5. UNCHANGED <<second, duration, periodFinish, rewardRate>>
  BY DEF rewardData
<1>6. all2 = all + (left - owes) /\ left \in Nat
  <2>1. all2 = all + (OwedTo(staked'[u], R, userPaid'[u], rewards'[u]) - owes)
    BY <1>1, <1>3, <1>4, OwedChanges
  <2>2. OwedTo(staked'[u], R, userPaid'[u], rewards'[u]) = left
    <3>1. staked'[u] \in Nat /\ R - R = 0 /\ staked'[u] * 0 = 0
      BY <1>3 DEF PerStaker
    <3>2. left \in Nat
      BY <1>1, TimesIsNat DEF PerStaker
    <3>3. QED BY <1>4, <3>1, <3>2 DEF OwedTo
  <2>3. left \in Nat
    BY <1>1, TimesIsNat DEF PerStaker
  <2>4. QED BY <2>1, <2>2, <2>3
<1>7. left + RewardScale * n <= owes /\ owes \in Nat /\ RewardScale * n \in Nat
  <2>1. RewardScale * EarnedBy(u) <= owes /\ owes \in Nat /\ EarnedBy(u) \in Nat
    BY EarnedIs
  <2>2. rewards'[u] \in Nat
    BY DEF PerStaker
  <2>3. RewardScale * (rewards'[u] + n) = left + RewardScale * n
    BY <1>1, <2>2, Z3
  <2>4. RewardScale * n \in Nat
    BY <1>1, TimesIsNat
  <2> HIDE DEF owes
  <2>5. QED BY <2>1, <2>3, <2>4
<1>8. RewardScale * rewardHoldings = RewardScale * rewardHoldings' + RewardScale * n
      /\ RewardScale * rewardHoldings' \in Nat
  <2> DEFINE h == rewardHoldings'
  <2>1. h \in Nat /\ rewardHoldings = h + n
    OBVIOUS
  <2> HIDE DEF h
  <2>2. RewardScale * (h + n) = RewardScale * h + RewardScale * n
    BY ONLY <1>1, <2>1, n \in Nat, Z3
  <2>3. RewardScale * h \in Nat
    BY <1>1, <2>1, TimesIsNat
  <2>4. QED BY <2>1, <2>2, <2>3 DEF h
<1>9. W \in Nat
  BY <1>1, <1>3, TimesIsNat
<1>10. all2 + W <= RewardScale * rewardHoldings'
  <2> DEFINE H == RewardScale * rewardHoldings
             H2 == RewardScale * rewardHoldings'
             x == RewardScale * n
  <2>1. /\ all \in Nat /\ W \in Nat /\ left \in Nat /\ owes \in Nat /\ x \in Nat /\ H2 \in Nat
        /\ all + W <= H /\ H = H2 + x /\ left + x <= owes /\ all2 = all + (left - owes)
    BY <1>3, <1>6, <1>7, <1>8, <1>9
  <2> HIDE DEF all, all2, W, left, owes, H, H2, x
  <2>2. all2 + W <= H2
    BY <2>1
  <2>3. QED BY <2>2 DEF H2
<1>11. /\ OwedToAll(staked, rewardPerTokenStored, userPaid, rewards)' = all2
       /\ AfterCheckpoint(lastUpdateTime)' = AfterCheckpoint(L)
  BY <1>2, <1>5 DEF OwedToAll, AfterCheckpoint
<1> HIDE DEF all, all2, left, owes, R, L
<1>12. RewardTypes'
  BY <1>1, <1>2, <1>3, <1>4, <1>5 DEF RewardTypes
<1>13. QED BY <1>2, <1>3, <1>4, <1>5, <1>10, <1>11, <1>12 DEF RewardInv

LEMMA StakesKeep ==
  ASSUME RewardInv, NEW u \in Stakers, NEW n \in Stakes, StakeTokens(u, n) \/ WithdrawStake(u, n)
  PROVE  RewardInv'
<1>1. n \in Nat /\ PerStaker(staked) /\ PerStaker(rewards) /\ rewardHoldings \in Nat /\ staked[u] \in Nat
  BY StakingAssumption DEF RewardInv, RewardTypes, PerStaker
<1>2. /\ CheckpointOf(u) /\ rewards' = Settled(u) /\ UNCHANGED <<second, rewardData, rewardHoldings>>
      /\ \E m \in Nat : staked' = [staked EXCEPT ![u] = m]
  <2>1. CASE StakeTokens(u, n)
    <3>1. staked[u] + n \in Nat
      BY <1>1
    <3>2. staked' = [staked EXCEPT ![u] = staked[u] + n]
      BY <2>1 DEF StakeTokens
    <3>3. QED BY <2>1, <3>1, <3>2 DEF StakeTokens
  <2>2. CASE WithdrawStake(u, n)
    <3>1. staked[u] - n \in Nat
      BY <1>1, <2>2 DEF WithdrawStake
    <3>2. staked' = [staked EXCEPT ![u] = staked[u] - n]
      BY <2>2 DEF WithdrawStake
    <3>3. QED BY <2>2, <3>1, <3>2 DEF WithdrawStake
  <2>3. QED BY <2>1, <2>2
<1>3. PerStaker(staked') /\ \A v \in Stakers : v # u => staked'[v] = staked[v]
  BY <1>1, <1>2 DEF PerStaker
<1>4. EarnedBy(u) \in Nat
  BY EarnedIs
<1>5. /\ PerStaker(rewards') /\ rewards'[u] = EarnedBy(u)
      /\ \A v \in Stakers : v # u => rewards'[v] = rewards[v]
  BY <1>1, <1>2, <1>4 DEF PerStaker, Settled
<1>6. rewards'[u] + 0 = EarnedBy(u) /\ rewardHoldings' \in Nat /\ rewardHoldings = rewardHoldings' + 0
  BY <1>1, <1>2, <1>4, <1>5
<1>7. UNCHANGED <<second, rewardData>>
  BY <1>2
<1>8. QED BY <1>2, <1>3, <1>5, <1>6, <1>7, StakerKeeps

LEMMA PaymentsKeep ==
  ASSUME RewardInv, NEW u \in Stakers, GetReward(u) \/ Exit(u)
  PROVE  RewardInv'
<1>1. PerStaker(staked) /\ PerStaker(rewards) /\ rewardHoldings \in Nat
  BY DEF RewardInv, RewardTypes
<1>2. /\ rewardHoldings >= EarnedBy(u) /\ CheckpointOf(u)
      /\ rewards' = [rewards EXCEPT ![u] = 0] /\ rewardHoldings' = rewardHoldings - EarnedBy(u)
      /\ UNCHANGED <<second, rewardData>>
      /\ staked' = staked \/ staked' = [staked EXCEPT ![u] = 0]
  BY DEF GetReward, Exit, PayReward
<1>3. PerStaker(staked') /\ \A v \in Stakers : v # u => staked'[v] = staked[v]
  BY <1>1, <1>2 DEF PerStaker
<1>4. PerStaker(rewards') /\ rewards'[u] = 0 /\ \A v \in Stakers : v # u => rewards'[v] = rewards[v]
  BY <1>1, <1>2 DEF PerStaker
<1>5. EarnedBy(u) \in Nat
  BY EarnedIs
<1>6. /\ rewards'[u] + EarnedBy(u) = EarnedBy(u) /\ rewardHoldings' \in Nat
      /\ rewardHoldings = rewardHoldings' + EarnedBy(u)
  BY <1>1, <1>2, <1>4, <1>5
<1>7. QED BY <1>2, <1>3, <1>4, <1>5, <1>6, StakerKeeps

\* The new rate distributes no more than the reward and what was left.
LEMMA RateIsFunded ==
  ASSUME RewardInv, NEW reward \in Nat
  PROVE  /\ RateWith(reward) \in Nat
         /\ duration * RateWith(reward) <= reward + AfterCheckpoint(LastTimeRewardApplicable)
<1> DEFINE L == LastTimeRewardApplicable
           left == AfterCheckpoint(L)
           D == duration
<1>1. /\ second \in Nat /\ D \in Nat /\ D # 0 /\ periodFinish \in Nat /\ rewardRate \in Nat
  BY DEF RewardInv, RewardTypes
<1>2. left \in Nat
  BY CoveredNow
<1>3. ASSUME NEW m \in Nat, RateWith(reward) = m \div D, m <= reward + left
      PROVE  RateWith(reward) \in Nat /\ D * RateWith(reward) <= reward + left
  <2> DEFINE q == m \div D
  <2>1. q \in Nat /\ q * D <= m
    BY <1>1, QuotientIsFloor
  <2>2. RateWith(reward) = q
    BY <1>3
  <2> HIDE DEF q, D, left
  <2>3. D * q = q * D
    BY <1>1, <2>1, Z3
  <2>4. D * q \in Nat
    BY <1>1, <2>1, TimesIsNat
  <2>5. QED BY <1>2, <1>3, <2>1, <2>2, <2>3, <2>4
<1>4. CASE second >= periodFinish
  <2>1. RateWith(reward) = reward \div D
    BY <1>4 DEF RateWith
  <2>2. reward <= reward + left
    BY <1>2
  <2>3. QED BY <1>3, <2>1, <2>2
<1>5. CASE second < periodFinish
  <2>1. L = second
    BY <1>5, ApplicableIs
  <2>2. left = (periodFinish - second) * rewardRate
    BY <2>1 DEF AfterCheckpoint
  <2>3. ~ second >= periodFinish
    BY <1>1, <1>5
  <2>4. RateWith(reward) = (reward + left) \div D
    BY <2>2, <2>3 DEF RateWith
  <2>5. reward + left \in Nat /\ reward + left <= reward + left
    BY <1>2
  <2>6. QED BY <1>3, <2>4, <2>5
<1>6. QED BY <1>1, <1>4, <1>5

LEMMA NotifyKeeps ==
  ASSUME RewardInv, NEW reward \in Rewards, NotifyReward(reward)
  PROVE  RewardInv'
<1> DEFINE R == RewardPerToken
           L == LastTimeRewardApplicable
           all == OwedToAll(staked, R, userPaid, rewards)
           rate == RateWith(reward)
<1>1. /\ second \in Nat /\ duration \in Nat /\ duration # 0 /\ rewardHoldings \in Nat
      /\ PerStaker(staked) /\ PerStaker(userPaid) /\ PerStaker(rewards)
      /\ RewardScale \in Nat /\ reward \in Nat
  BY StakingAssumption DEF RewardInv, RewardTypes
<1>2. /\ rewardPerTokenStored' = R /\ rewardRate' = rate /\ lastUpdateTime' = second
      /\ periodFinish' = second + duration /\ rewardHoldings' = rewardHoldings + reward
      /\ UNCHANGED <<second, staked, duration, userPaid, rewards>>
  BY DEF NotifyReward
<1>3. R \in Nat /\ \A v \in Stakers : userPaid[v] <= R
  BY PerTokenIs, CoveredNow
<1>4. /\ all \in Nat /\ AfterCheckpoint(L) \in Nat
      /\ all + RewardScale * AfterCheckpoint(L) <= RewardScale * rewardHoldings
  BY CoveredNow
<1>5. rate \in Nat /\ duration * rate <= reward + AfterCheckpoint(L)
  BY <1>1, RateIsFunded
<1>6. AfterCheckpoint(lastUpdateTime)' = duration * rate
  <2>1. (second + duration) - second = duration
    BY <1>1
  <2>2. AfterCheckpoint(lastUpdateTime)' = (periodFinish' - lastUpdateTime') * rewardRate'
    BY DEF AfterCheckpoint
  <2>3. QED BY <1>2, <2>1, <2>2
<1>7. OwedToAll(staked, rewardPerTokenStored, userPaid, rewards)' = all
  BY <1>2 DEF OwedToAll
<1>8. all + RewardScale * (duration * rate) <= RewardScale * (rewardHoldings + reward)
  <2> DEFINE a == AfterCheckpoint(L)
             n == duration * rate
             H == rewardHoldings
  <2>1. a \in Nat /\ n \in Nat /\ n <= reward + a /\ H \in Nat /\ all \in Nat
        /\ all + RewardScale * a <= RewardScale * H
    BY <1>1, <1>4, <1>5, TimesIsNat
  <2> HIDE DEF a, n, H, all
  <2>2. RewardScale * n <= RewardScale * (reward + a)
    <3>1. reward + a \in Nat
      BY <1>1, <2>1
    <3>2. QED BY <1>1, <2>1, <3>1, ProductsGrow
  <2>3. /\ RewardScale * (reward + a) = RewardScale * reward + RewardScale * a
        /\ RewardScale * (H + reward) = RewardScale * H + RewardScale * reward
    BY ONLY <1>1, <2>1, Z3
  <2>4. /\ RewardScale * n \in Nat /\ RewardScale * a \in Nat /\ RewardScale * reward \in Nat
        /\ RewardScale * H \in Nat
    BY <1>1, <2>1, TimesIsNat
  <2>5. all + RewardScale * n <= RewardScale * (H + reward)
    BY <2>1, <2>2, <2>3, <2>4
  <2>6. QED BY <2>5 DEF n, H
<1>9. second <= second + duration /\ second + duration \in Nat /\ rewardHoldings + reward \in Nat
  BY <1>1
<1> HIDE DEF R, L, all, rate
<1>10. RewardTypes'
  BY <1>1, <1>2, <1>3, <1>5, <1>9 DEF RewardTypes
<1>11. QED BY <1>1, <1>2, <1>3, <1>6, <1>7, <1>8, <1>9, <1>10 DEF RewardInv

LEMMA StakingSteps == ASSUME RewardInv, [StakingNext]_stakingVars PROVE RewardInv'
<1>1. ASSUME NEW d \in Durations, SetRewardsDuration(d) PROVE RewardInv'
  <2>1. /\ duration' \in Nat \ {0}
        /\ UNCHANGED <<second, staked, periodFinish, rewardRate, checkpoints, rewards, rewardHoldings>>
    BY <1>1, StakingAssumption DEF SetRewardsDuration
  <2>2. QED BY <2>1 DEF RewardInv, RewardTypes, OwedToAll, AfterCheckpoint, checkpoints
<1>2. CASE SecondPasses
  <2>1. second \in Nat /\ lastUpdateTime \in Nat /\ lastUpdateTime <= second /\ second' = second + 1
    BY <1>2 DEF SecondPasses, RewardInv, RewardTypes
  <2>2. second' \in Nat /\ lastUpdateTime <= second'
    BY <2>1
  <2>3. UNCHANGED <<staked, duration, periodFinish, rewardRate, lastUpdateTime, rewardPerTokenStored,
                    userPaid, rewards, rewardHoldings>>
    BY <1>2 DEF SecondPasses, rewardData, checkpoints
  <2>4. /\ OwedToAll(staked, rewardPerTokenStored, userPaid, rewards)'
             = OwedToAll(staked, rewardPerTokenStored, userPaid, rewards)
        /\ AfterCheckpoint(lastUpdateTime)' = AfterCheckpoint(lastUpdateTime)
    BY <2>3 DEF OwedToAll, AfterCheckpoint
  <2>5. RewardTypes'
    BY <2>2, <2>3 DEF RewardInv, RewardTypes
  <2>6. QED BY <2>2, <2>3, <2>4, <2>5 DEF RewardInv
<1>3. CASE UNCHANGED stakingVars
  BY <1>3 DEF RewardInv, RewardTypes, OwedToAll, AfterCheckpoint, stakingVars, rewardData, checkpoints
<1>4. QED BY <1>1, <1>2, <1>3, StakesKeep, PaymentsKeep, NotifyKeeps DEF StakingNext

\* The contract holds what all stakers have earned and what the running period
\* still distributes, whoever stakes, leaves or fetches when and whatever is
\* rounded, so that no reward depends on who comes first.
THEOREM RewardsStayFunded == StakingSpec => []RewardsAreFunded
<1>1. RewardInv /\ [StakingNext]_stakingVars => RewardInv'
  BY StakingSteps
<1>2. RewardInv => RewardsAreFunded
  <2> SUFFICES ASSUME RewardInv
               PROVE  rewardHoldings >= SumOver([u \in Stakers |-> EarnedBy(u)], Stakers) + ToCome
    BY DEF RewardsAreFunded
  <2> DEFINE e == [u \in Stakers |-> EarnedBy(u)]
             f == [u \in Stakers |-> RewardScale * e[u]]
             g == [u \in Stakers |-> OwedTo(staked[u], RewardPerToken, userPaid[u], rewards[u])]
  <2>1. IsFiniteSet(Stakers) /\ RewardScale \in Nat /\ RewardScale # 0 /\ rewardHoldings \in Nat
    BY StakingAssumption DEF RewardInv, RewardTypes
  <2>2. \A u \in Stakers : /\ e[u] \in Nat /\ f[u] = RewardScale * e[u]
                           /\ g[u] \in Nat /\ f[u] <= g[u]
    BY EarnedIs
  <2>3. SumOver(g, Stakers) = OwedToAll(staked, RewardPerToken, userPaid, rewards)
    BY DEF OwedToAll
  <2>4. /\ ToCome = AfterCheckpoint(LastTimeRewardApplicable) /\ ToCome \in Nat
        /\ SumOver(g, Stakers) \in Nat
        /\ SumOver(g, Stakers) + RewardScale * ToCome <= RewardScale * rewardHoldings
    <3>1. ToCome = AfterCheckpoint(LastTimeRewardApplicable)
      BY DEF ToCome, AfterCheckpoint
    <3> HIDE DEF g
    <3>2. QED BY <2>3, <3>1, CoveredNow
  <2> HIDE DEF e, f, g
  <2>5. SumOver(f, Stakers) = RewardScale * SumOver(e, Stakers)
    BY <2>1, <2>2, SumScaled
  <2>6. SumOver(f, Stakers) <= SumOver(g, Stakers)
    <3>1. \A u \in Stakers : f[u] \in Int /\ g[u] \in Int /\ f[u] <= g[u]
      BY <2>1, <2>2, TimesIsNat
    <3>2. QED BY <2>1, <3>1, SumMonotone
  <2>7. SumOver(e, Stakers) \in Nat
    BY <2>1, <2>2, SumNat
  <2> DEFINE E == SumOver(e, Stakers)
             O == SumOver(g, Stakers)
             C == ToCome
             H == rewardHoldings
  <2>8. /\ E \in Nat /\ O \in Nat /\ C \in Nat /\ H \in Nat
        /\ RewardScale * E <= O /\ O + RewardScale * C <= RewardScale * H
    BY <2>1, <2>4, <2>5, <2>6, <2>7
  <2> HIDE DEF E, O, C, H
  <2>9. RewardScale * (E + C) <= RewardScale * H
    <3>1. RewardScale * (E + C) = RewardScale * E + RewardScale * C
      BY ONLY <2>1, <2>8, Z3
    <3>2. RewardScale * E \in Nat /\ RewardScale * C \in Nat /\ RewardScale * H \in Nat
      BY <2>1, <2>8, TimesIsNat
    <3>3. QED BY <2>8, <3>1, <3>2
  <2>10. E + C <= H
    <3> DEFINE s == E + C
    <3>1. s \in Nat /\ RewardScale * s <= RewardScale * H
      BY <2>8, <2>9
    <3> HIDE DEF s
    <3>2. s <= H
      BY ONLY <2>1, <2>8, <3>1, Z3
    <3>3. QED BY <3>2 DEF s
  <2>11. QED BY <2>8, <2>10 DEF E, C, H, e
<1>3. QED BY <1>1, <1>2, StakingBegins, PTL DEF StakingSpec
=============================================================================
