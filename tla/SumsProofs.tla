----------------------------- MODULE SumsProofs -----------------------------
(***************************************************************************)
(* What a total is and how it changes when one summand changes.  The       *)
(* library's induction theorems take an operator as a parameter; here the  *)
(* induction on finite sets is done with a set, the set of the             *)
(* counterexamples, whose smallest element cannot exist.                   *)
(***************************************************************************)
EXTENDS Sums, FiniteSets, FiniteSetTheorems, TLAPS

\* g is the table of the totals of f over all the subsets of S.
IsFold(f, S, g) ==
  g = [T \in SUBSET S |-> IF T = {} THEN 0 ELSE f[Pick(T)] + g[T \ {Pick(T)}]]

LEMMA SumIsFold ==
  ASSUME NEW S, NEW f
  PROVE  SumOver(f, S) = (CHOOSE g : IsFold(f, S, g))[S]
BY Zenon DEF SumOver, MapThenFoldSet, IsFold

(***************************************************************************)
(* A set of numbers has a least element: induction on the numbers, done    *)
(* the same way.                                                           *)
(***************************************************************************)
LEMMA LeastNatural ==
  ASSUME NEW S, S \subseteq Nat, S # {}
  PROVE  \E n \in S : \A m \in S : n <= m
<1>1. PICK n \in S : \A m \in S : ~ (<<m, n>> \in OpToRel(<, Nat))
  BY NatLessThanWellFounded, WFMin
<1>2. \A m \in S : ~ (m < n)
  BY <1>1 DEF OpToRel
<1>3. QED BY <1>2

LEMMA PickIn == ASSUME NEW S, S # {} PROVE Pick(S) \in S
BY DEF Pick

(***************************************************************************)
(* A set of subsets of a finite set has an element with no proper subset   *)
(* in it.                                                                  *)
(***************************************************************************)
LEMMA SmallestSubset ==
  ASSUME NEW S, IsFiniteSet(S), NEW Bad, Bad \subseteq SUBSET S, Bad # {}
  PROVE  \E T \in Bad : \A U \in SUBSET T : U # T => U \notin Bad
<1>1. IsWellFoundedOn(StrictSubsetOrdering(S), FiniteSubsetsOf(S))
  BY FS_StrictSubsetOrderingWellFounded
<1>2. Bad \subseteq FiniteSubsetsOf(S)
  BY FS_Subset DEF FiniteSubsetsOf
<1>3. PICK T \in Bad : \A U \in Bad : ~ (<<U, T>> \in StrictSubsetOrdering(S))
  BY <1>1, <1>2, WFMin
<1>4. ASSUME NEW U \in SUBSET T, U # T PROVE U \notin Bad
  <2>1. <<U, T>> \in StrictSubsetOrdering(S)
    BY <1>4 DEF StrictSubsetOrdering
  <2>2. QED BY <1>3, <2>1
<1>5. QED BY <1>3, <1>4

(***************************************************************************)
(* Two tables agree on every set on which their functions agree.           *)
(***************************************************************************)
LEMMA FoldsAgree ==
  ASSUME NEW S, NEW S2, IsFiniteSet(S), NEW f, NEW f2, NEW g, NEW h,
         IsFold(f, S, g), IsFold(f2, S2, h),
         NEW U, U \in SUBSET S, U \in SUBSET S2, \A x \in U : f[x] = f2[x]
  PROVE  g[U] = h[U]
<1> DEFINE Bad == {T \in SUBSET U : g[T] # h[T]}
<1>1. SUFFICES ASSUME Bad # {} PROVE FALSE
  OBVIOUS
<1>2. IsFiniteSet(U)
  BY FS_Subset
<1>3. PICK T \in Bad : \A V \in SUBSET T : V # T => V \notin Bad
  <2>1. Bad \subseteq SUBSET U
    OBVIOUS
  <2> HIDE DEF Bad
  <2>2. QED BY <1>1, <1>2, <2>1, SmallestSubset
<1>4. T \in SUBSET S /\ T \in SUBSET S2
  OBVIOUS
<1>5. /\ g[T] = IF T = {} THEN 0 ELSE f[Pick(T)] + g[T \ {Pick(T)}]
      /\ h[T] = IF T = {} THEN 0 ELSE f2[Pick(T)] + h[T \ {Pick(T)}]
  BY <1>4 DEF IsFold
<1>6. CASE T = {}
  BY <1>3, <1>5, <1>6
<1>7. CASE T # {}
  <2>1. Pick(T) \in T
    BY <1>7, PickIn
  <2>2. T \ {Pick(T)} \in SUBSET U /\ T \ {Pick(T)} # T
    BY <2>1
  <2>3. g[T \ {Pick(T)}] = h[T \ {Pick(T)}]
    BY <1>3, <2>2
  <2>4. QED BY <1>3, <1>5, <1>7, <2>1, <2>3
<1>8. QED BY <1>6, <1>7

(***************************************************************************)
(* Every finite set has a table, and its total is the table's entry.       *)
(***************************************************************************)
LEMMA FoldExists ==
  ASSUME NEW S, IsFiniteSet(S), NEW f
  PROVE  \E g : IsFold(f, S, g)
<1> DEFINE Bad == {T \in SUBSET S : ~ \E g : IsFold(f, T, g)}
<1>1. SUFFICES ASSUME Bad # {} PROVE FALSE
  OBVIOUS
<1>2. PICK T \in Bad : \A V \in SUBSET T : V # T => V \notin Bad
  <2>1. Bad \subseteq SUBSET S
    OBVIOUS
  <2> HIDE DEF Bad
  <2>2. QED BY <1>1, <2>1, SmallestSubset
<1> DEFINE G(U) == CHOOSE g : IsFold(f, U, g)
           t == [U \in SUBSET T |-> IF U = {} THEN 0
                                    ELSE f[Pick(U)] + G(U \ {Pick(U)})[U \ {Pick(U)}]]
<1>3. ASSUME NEW V \in SUBSET T, V # T PROVE IsFold(f, V, G(V))
  BY <1>2, <1>3
<1>4. ASSUME NEW V \in SUBSET T, V # T PROVE t[V] = G(V)[V]
  <2> HIDE DEF G
  <2>1. G(V)[V] = IF V = {} THEN 0 ELSE f[Pick(V)] + G(V)[V \ {Pick(V)}]
    <3>1. IsFold(f, V, G(V))
      BY <1>3, <1>4
    <3> DEFINE g == G(V)
    <3>2. IsFold(f, V, g)
      BY <3>1
    <3> HIDE DEF g
    <3>3. g[V] = IF V = {} THEN 0 ELSE f[Pick(V)] + g[V \ {Pick(V)}]
      BY <3>2 DEF IsFold
    <3>4. QED BY <3>3 DEF g
  <2>2. CASE V = {}
    BY <2>1, <2>2
  <2>3. CASE V # {}
    <3> DEFINE W == V \ {Pick(V)}
    <3>1. W \in SUBSET T /\ W # T /\ W \in SUBSET V /\ W \in SUBSET W /\ V \in SUBSET S
      BY <1>4
    <3>2. IsFold(f, W, G(W)) /\ IsFold(f, V, G(V)) /\ IsFiniteSet(V)
      BY <1>3, <1>4, <3>1, FS_Subset
    <3>3. G(V)[W] = G(W)[W]
      BY <3>1, <3>2, FoldsAgree
    <3>4. QED BY <2>1, <2>3, <3>3
  <2>4. QED BY <2>2, <2>3
<1>5. IsFold(f, T, t)
  <2> HIDE DEF G
  <2>1. ASSUME NEW U \in SUBSET T, U # {}
        PROVE  t[U] = f[Pick(U)] + t[U \ {Pick(U)}]
    <3>1. Pick(U) \in U
      BY <2>1, PickIn
    <3>2. U \ {Pick(U)} \in SUBSET T /\ U \ {Pick(U)} # T
      BY <3>1
    <3>3. t[U \ {Pick(U)}] = G(U \ {Pick(U)})[U \ {Pick(U)}]
      BY <1>4, <3>2
    <3>4. QED BY <2>1, <3>3
  <2>2. t = [U \in SUBSET T |-> IF U = {} THEN 0 ELSE f[Pick(U)] + t[U \ {Pick(U)}]]
    <3>1. \A U \in SUBSET T :
            t[U] = IF U = {} THEN 0 ELSE f[Pick(U)] + t[U \ {Pick(U)}]
      BY <2>1
    <3>2. t = [U \in SUBSET T |-> t[U]]
      OBVIOUS
    <3> HIDE DEF t
    <3>3. QED BY <3>1, <3>2
  <2>3. QED BY <2>2 DEF IsFold
<1>6. QED BY <1>2, <1>5

(***************************************************************************)
(* The equation that defines a total.                                      *)
(***************************************************************************)
LEMMA SumRecursion ==
  ASSUME NEW S, IsFiniteSet(S), NEW f
  PROVE  SumOver(f, S) = IF S = {} THEN 0
                         ELSE f[Pick(S)] + SumOver(f, S \ {Pick(S)})
<1> DEFINE R == S \ {Pick(S)}
           g == CHOOSE a : IsFold(f, S, a)
           h == CHOOSE a : IsFold(f, R, a)
<1>1. IsFiniteSet(R)
  BY FS_Subset
<1>2. IsFold(f, S, g) /\ IsFold(f, R, h)
  BY <1>1, FoldExists
<1>3. SumOver(f, S) = g[S] /\ SumOver(f, R) = h[R]
  BY SumIsFold
<1> HIDE DEF g, h
<1>4. g[S] = IF S = {} THEN 0 ELSE f[Pick(S)] + g[R]
  BY <1>2 DEF IsFold
<1>5. g[R] = h[R]
  <2>1. R \in SUBSET S /\ R \in SUBSET R
    OBVIOUS
  <2>2. \A x \in R : f[x] = f[x]
    OBVIOUS
  <2> HIDE DEF R
  <2>3. QED BY <1>2, <2>1, <2>2, FoldsAgree
<1>6. QED BY <1>3, <1>4, <1>5

LEMMA SumEmpty == ASSUME NEW f PROVE SumOver(f, {}) = 0
BY SumRecursion, FS_EmptySet

(***************************************************************************)
(* A total depends on the values the function takes on the set only.       *)
(***************************************************************************)
LEMMA SumAgree ==
  ASSUME NEW S, IsFiniteSet(S), NEW f, NEW f2, \A x \in S : f[x] = f2[x]
  PROVE  SumOver(f, S) = SumOver(f2, S)
<1> DEFINE Bad == {T \in SUBSET S : SumOver(f, T) # SumOver(f2, T)}
<1>1. SUFFICES ASSUME Bad # {} PROVE FALSE
  OBVIOUS
<1>2. PICK T \in Bad : \A V \in SUBSET T : V # T => V \notin Bad
  <2>1. Bad \subseteq SUBSET S
    OBVIOUS
  <2> HIDE DEF Bad
  <2>2. QED BY <1>1, <2>1, SmallestSubset
<1>3. /\ SumOver(f, T) = IF T = {} THEN 0 ELSE f[Pick(T)] + SumOver(f, T \ {Pick(T)})
      /\ SumOver(f2, T) = IF T = {} THEN 0 ELSE f2[Pick(T)] + SumOver(f2, T \ {Pick(T)})
  <2>1. IsFiniteSet(T)
    BY FS_Subset
  <2>2. QED BY <2>1, SumRecursion
<1>4. CASE T = {}
  BY <1>2, <1>3, <1>4
<1>5. CASE T # {}
  <2>1. Pick(T) \in T
    BY <1>5, PickIn
  <2>2. SumOver(f, T \ {Pick(T)}) = SumOver(f2, T \ {Pick(T)})
    BY <1>2, <2>1
  <2>3. QED BY <1>2, <1>3, <1>5, <2>1, <2>2
<1>6. QED BY <1>4, <1>5

LEMMA SumInt ==
  ASSUME NEW S, IsFiniteSet(S), NEW f, \A x \in S : f[x] \in Int
  PROVE  SumOver(f, S) \in Int
<1> DEFINE Bad == {T \in SUBSET S : SumOver(f, T) \notin Int}
<1>1. SUFFICES ASSUME Bad # {} PROVE FALSE
  OBVIOUS
<1>2. PICK T \in Bad : \A V \in SUBSET T : V # T => V \notin Bad
  <2>1. Bad \subseteq SUBSET S
    OBVIOUS
  <2> HIDE DEF Bad
  <2>2. QED BY <1>1, <2>1, SmallestSubset
<1>3. SumOver(f, T) = IF T = {} THEN 0 ELSE f[Pick(T)] + SumOver(f, T \ {Pick(T)})
  <2>1. IsFiniteSet(T)
    BY FS_Subset
  <2>2. QED BY <2>1, SumRecursion
<1>4. CASE T = {}
  BY <1>2, <1>3, <1>4
<1>5. CASE T # {}
  <2>1. Pick(T) \in T
    BY <1>5, PickIn
  <2>2. SumOver(f, T \ {Pick(T)}) \in Int
    BY <1>2, <2>1
  <2>3. QED BY <1>2, <1>3, <1>5, <2>1, <2>2
<1>6. QED BY <1>4, <1>5

LEMMA SumNat ==
  ASSUME NEW S, IsFiniteSet(S), NEW f, \A x \in S : f[x] \in Nat
  PROVE  SumOver(f, S) \in Nat
<1> DEFINE Bad == {T \in SUBSET S : SumOver(f, T) \notin Nat}
<1>1. SUFFICES ASSUME Bad # {} PROVE FALSE
  OBVIOUS
<1>2. PICK T \in Bad : \A V \in SUBSET T : V # T => V \notin Bad
  <2>1. Bad \subseteq SUBSET S
    OBVIOUS
  <2> HIDE DEF Bad
  <2>2. QED BY <1>1, <2>1, SmallestSubset
<1>3. SumOver(f, T) = IF T = {} THEN 0 ELSE f[Pick(T)] + SumOver(f, T \ {Pick(T)})
  <2>1. IsFiniteSet(T)
    BY FS_Subset
  <2>2. QED BY <2>1, SumRecursion
<1>4. CASE T = {}
  BY <1>2, <1>3, <1>4
<1>5. CASE T # {}
  <2>1. Pick(T) \in T
    BY <1>5, PickIn
  <2>2. SumOver(f, T \ {Pick(T)}) \in Nat
    BY <1>2, <2>1
  <2>3. QED BY <1>2, <1>3, <1>5, <2>1, <2>2
<1>6. QED BY <1>4, <1>5

(***************************************************************************)
(* Changing one summand changes the total by the same amount.              *)
(***************************************************************************)
LEMMA SumUpdate ==
  ASSUME NEW S, IsFiniteSet(S), NEW f, NEW f2, NEW u \in S,
         \A x \in S : f[x] \in Int /\ f2[x] \in Int,
         \A x \in S : x # u => f2[x] = f[x]
  PROVE  SumOver(f2, S) = SumOver(f, S) + (f2[u] - f[u])
<1> DEFINE Bad == {T \in SUBSET S : u \in T /\ SumOver(f2, T) # SumOver(f, T) + (f2[u] - f[u])}
<1>1. SUFFICES ASSUME Bad # {} PROVE FALSE
  OBVIOUS
<1>2. PICK T \in Bad : \A V \in SUBSET T : V # T => V \notin Bad
  <2>1. Bad \subseteq SUBSET S
    OBVIOUS
  <2> HIDE DEF Bad
  <2>2. QED BY <1>1, <2>1, SmallestSubset
<1> DEFINE R == T \ {Pick(T)}
<1>3. Pick(T) \in T /\ T # {} /\ u \in T /\ T \in SUBSET S
  BY PickIn
<1>4. IsFiniteSet(T) /\ IsFiniteSet(R)
  BY FS_Subset
<1>5. /\ SumOver(f, T) = f[Pick(T)] + SumOver(f, R)
      /\ SumOver(f2, T) = f2[Pick(T)] + SumOver(f2, R)
  BY <1>3, <1>4, SumRecursion
<1>6. SumOver(f, R) \in Int
  BY <1>3, <1>4, SumInt
<1>7. CASE u = Pick(T)
  <2>1. SumOver(f2, R) = SumOver(f, R)
    BY <1>3, <1>4, <1>7, SumAgree
  <2>2. QED BY <1>2, <1>3, <1>5, <1>6, <1>7, <2>1
<1>8. CASE u # Pick(T)
  <2>1. SumOver(f2, R) = SumOver(f, R) + (f2[u] - f[u])
    BY <1>2, <1>3, <1>8
  <2>2. f2[Pick(T)] = f[Pick(T)]
    BY <1>3, <1>8
  <2>3. QED BY <1>2, <1>3, <1>5, <1>6, <2>1, <2>2
<1>9. QED BY <1>7, <1>8

(***************************************************************************)
(* The same fact with its quantifiers under names, for obligations that    *)
(* have enough of them already.                                            *)
(***************************************************************************)
IntsOn(f, S) == \A x \in S : f[x] \in Int

SameBut(f, f2, S, u) == \A x \in S : x # u => f2[x] = f[x]

LEMMA OneSummand ==
  ASSUME NEW S, IsFiniteSet(S), NEW f, NEW f2, NEW u, u \in S,
         IntsOn(f, S), IntsOn(f2, S), SameBut(f, f2, S, u)
  PROVE  SumOver(f2, S) = SumOver(f, S) + (f2[u] - f[u])
BY SumUpdate DEF IntsOn, SameBut

(***************************************************************************)
(* No summand of a total of naturals exceeds the total.                    *)
(***************************************************************************)
LEMMA SumMember ==
  ASSUME NEW S, IsFiniteSet(S), NEW f, NEW u \in S, \A x \in S : f[x] \in Nat
  PROVE  f[u] <= SumOver(f, S)
<1> DEFINE z == [x \in S |-> IF x = u THEN 0 ELSE f[x]]
<1>1. SumOver(z, S) \in Nat
  BY SumNat
<1>2. SumOver(f, S) = SumOver(z, S) + (f[u] - z[u])
  <2> HIDE DEF z
  <2>1. /\ \A x \in S : z[x] \in Int /\ f[x] \in Int
        /\ \A x \in S : x # u => f[x] = z[x]
    BY DEF z
  <2>2. QED BY <2>1, SumUpdate
<1>3. QED BY <1>1, <1>2

LEMMA SumZero ==
  ASSUME NEW S, IsFiniteSet(S), NEW f, \A x \in S : f[x] = 0
  PROVE  SumOver(f, S) = 0
<1> DEFINE Bad == {T \in SUBSET S : SumOver(f, T) # 0}
<1>1. SUFFICES ASSUME Bad # {} PROVE FALSE
  OBVIOUS
<1>2. PICK T \in Bad : \A V \in SUBSET T : V # T => V \notin Bad
  <2>1. Bad \subseteq SUBSET S
    OBVIOUS
  <2> HIDE DEF Bad
  <2>2. QED BY <1>1, <2>1, SmallestSubset
<1>3. SumOver(f, T) = IF T = {} THEN 0 ELSE f[Pick(T)] + SumOver(f, T \ {Pick(T)})
  <2>1. IsFiniteSet(T)
    BY FS_Subset
  <2>2. QED BY <2>1, SumRecursion
<1>4. CASE T # {}
  <2>1. Pick(T) \in T /\ T \in SUBSET S
    BY <1>4, PickIn
  <2>2. SumOver(f, T \ {Pick(T)}) = 0
    BY <1>2, <2>1
  <2>3. QED BY <1>2, <1>3, <1>4, <2>1, <2>2
<1>5. QED BY <1>2, <1>3, <1>4
(***************************************************************************)
(* Any summand may be taken out first.                                     *)
(***************************************************************************)
LEMMA SumSplit ==
  ASSUME NEW S, IsFiniteSet(S), NEW f, \A x \in S : f[x] \in Int, NEW u \in S
  PROVE  SumOver(f, S) = SumOver(f, S \ {u}) + f[u]
<1> DEFINE Bad == {T \in SUBSET S : \E v \in T : SumOver(f, T) # SumOver(f, T \ {v}) + f[v]}
<1>1. SUFFICES ASSUME Bad # {} PROVE FALSE
  OBVIOUS
<1>2. PICK T \in Bad : \A V \in SUBSET T : V # T => V \notin Bad
  <2>1. Bad \subseteq SUBSET S
    OBVIOUS
  <2> HIDE DEF Bad
  <2>2. QED BY <1>1, <2>1, SmallestSubset
<1>3. PICK v \in T : SumOver(f, T) # SumOver(f, T \ {v}) + f[v]
  BY <1>2
<1> DEFINE p == Pick(T)
           R == T \ {p}
           Q == T \ {v}
           B == R \ {v}
<1>4. /\ p \in T /\ T \in SUBSET S
      /\ IsFiniteSet(T) /\ IsFiniteSet(R) /\ IsFiniteSet(Q) /\ IsFiniteSet(B)
  <2>1. T \in SUBSET S /\ p \in T
    BY <1>3, PickIn
  <2>2. QED BY <2>1, FS_Subset
<1>5. SumOver(f, T) = f[p] + SumOver(f, R)
  BY <1>3, <1>4, SumRecursion
<1>6. CASE p = v
  <2>1. SumOver(f, R) \in Int /\ f[p] \in Int
    BY <1>4, SumInt
  <2>2. QED BY <1>3, <1>5, <1>6, <2>1
<1>7. CASE p # v
  <2>1. R \notin Bad /\ Q \notin Bad /\ R \in SUBSET S /\ Q \in SUBSET S
    BY <1>2, <1>3, <1>4
  <2>2. v \in R /\ p \in Q /\ Q \ {p} = B
    BY <1>3, <1>4, <1>7
  <2>3. SumOver(f, R) = SumOver(f, B) + f[v]
    BY <2>1, <2>2
  <2>4. SumOver(f, Q) = SumOver(f, B) + f[p]
    BY <2>1, <2>2
  <2>5. SumOver(f, B) \in Int /\ f[p] \in Int /\ f[v] \in Int
    BY <1>3, <1>4, SumInt
  <2> HIDE DEF p, R, Q, B
  <2>6. SumOver(f, T) # SumOver(f, Q) + f[v]
    BY <1>3 DEF Q
  <2>7. QED BY <1>5, <2>3, <2>4, <2>5, <2>6
<1>8. QED BY <1>6, <1>7

LEMMA SumInsert ==
  ASSUME NEW S, IsFiniteSet(S), NEW u, u \notin S, NEW f, \A x \in S \cup {u} : f[x] \in Int
  PROVE  SumOver(f, S \cup {u}) = SumOver(f, S) + f[u]
<1>1. IsFiniteSet(S \cup {u}) /\ (S \cup {u}) \ {u} = S
  BY FS_AddElement
<1>2. QED BY <1>1, SumSplit

(***************************************************************************)
(* Totals over the positions of a sequence.                                *)
(***************************************************************************)
LEMMA LastSummand ==
  ASSUME NEW k \in Nat, NEW f, \A i \in 1 .. k + 1 : f[i] \in Int
  PROVE  SumOver(f, 1 .. k + 1) = SumOver(f, 1 .. k) + f[k + 1]
<1>1. 1 .. k + 1 = (1 .. k) \cup {k + 1} /\ k + 1 \notin 1 .. k
  OBVIOUS
<1>2. IsFiniteSet(1 .. k)
  BY FS_Interval
<1> DEFINE S == 1 .. k
           u == k + 1
<1>3. \A i \in S \cup {u} : f[i] \in Int
  BY <1>1
<1>4. IsFiniteSet(S) /\ u \notin S
  BY <1>1, <1>2
<1>5. 1 .. k + 1 = S \cup {u}
  BY <1>1
<1> HIDE DEF S, u
<1>6. SumOver(f, S \cup {u}) = SumOver(f, S) + f[u]
  BY <1>3, <1>4, SumInsert
<1>7. QED BY <1>5, <1>6 DEF S, u

LEMMA AppendedSum ==
  ASSUME NEW k \in Nat, NEW f, NEW g, \A i \in 1 .. k + 1 : g[i] \in Int,
         \A i \in 1 .. k : f[i] = g[i]
  PROVE  SumOver(g, 1 .. k + 1) = SumOver(f, 1 .. k) + g[k + 1]
<1>1. SumOver(f, 1 .. k) = SumOver(g, 1 .. k)
  <2> DEFINE S == 1 .. k
  <2>1. IsFiniteSet(S)
    BY FS_Interval
  <2>2. \A i \in S : f[i] = g[i]
    OBVIOUS
  <2> HIDE DEF S
  <2>3. SumOver(f, S) = SumOver(g, S)
    BY <2>1, <2>2, SumAgree
  <2>4. QED BY <2>3 DEF S
<1>2. QED BY <1>1, LastSummand

(***************************************************************************)
(* Comparison, addition and scaling of totals.                             *)
(***************************************************************************)
LEMMA SumMonotone ==
  ASSUME NEW S, IsFiniteSet(S), NEW f, NEW g,
         \A x \in S : f[x] \in Int /\ g[x] \in Int /\ f[x] <= g[x]
  PROVE  SumOver(f, S) <= SumOver(g, S)
<1> DEFINE Bad == {T \in SUBSET S : ~ (SumOver(f, T) <= SumOver(g, T))}
<1>1. SUFFICES ASSUME Bad # {} PROVE FALSE
  OBVIOUS
<1>2. PICK T \in Bad : \A V \in SUBSET T : V # T => V \notin Bad
  <2>1. Bad \subseteq SUBSET S
    OBVIOUS
  <2> HIDE DEF Bad
  <2>2. QED BY <1>1, <2>1, SmallestSubset
<1>3. T # {}
  <2>1. T = {} => SumOver(f, T) = 0 /\ SumOver(g, T) = 0
    BY SumEmpty
  <2>2. ~ (SumOver(f, T) <= SumOver(g, T))
    BY <1>2
  <2>3. QED BY <2>1, <2>2
<1> DEFINE R == T \ {Pick(T)}
<1>4. Pick(T) \in T /\ T \in SUBSET S
  BY <1>2, <1>3, PickIn
<1>5. IsFiniteSet(T) /\ IsFiniteSet(R)
  BY <1>4, FS_Subset
<1>6. /\ SumOver(f, T) = f[Pick(T)] + SumOver(f, R)
      /\ SumOver(g, T) = g[Pick(T)] + SumOver(g, R)
  BY <1>3, <1>5, SumRecursion
<1>7. SumOver(f, R) \in Int /\ SumOver(g, R) \in Int
  BY <1>4, <1>5, SumInt
<1>8. SumOver(f, R) <= SumOver(g, R)
  BY <1>2, <1>4
<1>9. QED BY <1>2, <1>4, <1>6, <1>7, <1>8

LEMMA SumAdd ==
  ASSUME NEW S, IsFiniteSet(S), NEW f, NEW g, NEW h,
         \A x \in S : f[x] \in Int /\ g[x] \in Int /\ h[x] = f[x] + g[x]
  PROVE  SumOver(h, S) = SumOver(f, S) + SumOver(g, S)
<1> DEFINE Bad == {T \in SUBSET S : SumOver(h, T) # SumOver(f, T) + SumOver(g, T)}
<1>1. SUFFICES ASSUME Bad # {} PROVE FALSE
  OBVIOUS
<1>2. PICK T \in Bad : \A V \in SUBSET T : V # T => V \notin Bad
  <2>1. Bad \subseteq SUBSET S
    OBVIOUS
  <2> HIDE DEF Bad
  <2>2. QED BY <1>1, <2>1, SmallestSubset
<1>3. T # {}
  <2>1. T = {} => SumOver(f, T) = 0 /\ SumOver(g, T) = 0 /\ SumOver(h, T) = 0
    BY SumEmpty
  <2>2. SumOver(h, T) # SumOver(f, T) + SumOver(g, T)
    BY <1>2
  <2>3. QED BY <2>1, <2>2
<1> DEFINE R == T \ {Pick(T)}
<1>4. Pick(T) \in T /\ T \in SUBSET S
  BY <1>2, <1>3, PickIn
<1>5. IsFiniteSet(T) /\ IsFiniteSet(R)
  BY <1>4, FS_Subset
<1>6. /\ SumOver(f, T) = f[Pick(T)] + SumOver(f, R)
      /\ SumOver(g, T) = g[Pick(T)] + SumOver(g, R)
      /\ SumOver(h, T) = h[Pick(T)] + SumOver(h, R)
  BY <1>3, <1>5, SumRecursion
<1>7. SumOver(f, R) \in Int /\ SumOver(g, R) \in Int
  BY <1>4, <1>5, SumInt
<1>8. SumOver(h, R) = SumOver(f, R) + SumOver(g, R)
  BY <1>2, <1>4
<1>9. QED BY <1>2, <1>4, <1>6, <1>7, <1>8

LEMMA SumScaled ==
  ASSUME NEW S, IsFiniteSet(S), NEW c \in Int, NEW f, NEW g,
         \A x \in S : f[x] \in Int /\ g[x] = c * f[x]
  PROVE  SumOver(g, S) = c * SumOver(f, S)
<1> DEFINE Bad == {T \in SUBSET S : SumOver(g, T) # c * SumOver(f, T)}
<1>1. SUFFICES ASSUME Bad # {} PROVE FALSE
  OBVIOUS
<1>2. PICK T \in Bad : \A V \in SUBSET T : V # T => V \notin Bad
  <2>1. Bad \subseteq SUBSET S
    OBVIOUS
  <2> HIDE DEF Bad
  <2>2. QED BY <1>1, <2>1, SmallestSubset
<1>3. T # {}
  <2>1. SumOver(f, {}) = 0 /\ SumOver(g, {}) = 0 /\ c * 0 = 0
    BY SumEmpty
  <2>2. QED BY <1>2, <2>1
<1> DEFINE R == T \ {Pick(T)}
           a == f[Pick(T)]
           b == SumOver(f, R)
<1>4. Pick(T) \in T /\ T \in SUBSET S
  BY <1>2, <1>3, PickIn
<1>5. IsFiniteSet(T) /\ IsFiniteSet(R)
  BY <1>4, FS_Subset
<1>6. /\ SumOver(f, T) = a + b
      /\ SumOver(g, T) = g[Pick(T)] + SumOver(g, R)
  BY <1>3, <1>5, SumRecursion
<1>7. a \in Int /\ b \in Int /\ g[Pick(T)] = c * a
  BY <1>4, <1>5, SumInt
<1>8. SumOver(g, R) = c * b
  BY <1>2, <1>4
<1>9. SumOver(g, T) # c * SumOver(f, T)
  BY <1>2
<1> HIDE DEF a, b, R, Bad
<1>10. c * (a + b) = c * a + c * b
  BY <1>7, Z3
<1>11. QED BY <1>6, <1>7, <1>8, <1>9, <1>10

-----------------------------------------------------------------------------
(* Products, quotients and remainders, which the solver only decides in    *)
(* lemmas of their own.                                                    *)

LEMMA TimesIsNat == ASSUME NEW m \in Nat, NEW n \in Nat PROVE m * n \in Nat
BY Z3

LEMMA QuotientIsFloor ==
  ASSUME NEW m \in Nat, NEW n \in Nat, n # 0
  PROVE  m \div n \in Nat /\ (m \div n) * n <= m
BY Z3

LEMMA RemainderIsSmall ==
  ASSUME NEW x \in Nat, NEW W \in Nat, W # 0
  PROVE  x % W \in Nat /\ x % W < W /\ x = W * (x \div W) + (x % W)
BY Z3

LEMMA ProductsGrow ==
  ASSUME NEW w \in Nat, NEW x \in Nat, NEW y \in Nat, NEW z \in Nat, w <= x, y <= z
  PROVE  w * y <= x * z
<1>1. w * y <= x * y
  BY Z3
<1>2. x * y <= x * z
  BY Z3
<1>3. w * y \in Nat /\ x * y \in Nat /\ x * z \in Nat
  BY TimesIsNat
<1>4. QED BY <1>1, <1>2, <1>3
=============================================================================
