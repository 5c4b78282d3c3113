------------------------- MODULE SecurityTokenProofs -------------------------
(***************************************************************************)
(* For every set of accounts and groups, all amounts and any width of the  *)
(* word: what the contract holds is what the timelocks and the swaps have  *)
(* left in it, timelocks that fit a word pay in time, tokens arrive only   *)
(* where the rules let them, the snapshots share out no more than their    *)
(* funds, and swaps settle.                                                *)
(***************************************************************************)
EXTENDS RestrictedSwap, SumsProofs

-----------------------------------------------------------------------------
(* What a schedule releases *)

ValidSchedule(s) ==
  /\ s \in Schedule
  /\ s.releaseCount >= 1 /\ s.initialBips <= Bips
  /\ s.releaseCount > 1 => s.period > 0

\* A part of an amount is no more than the amount, and grows with the part.
LEMMA PartIsLess ==
  ASSUME NEW m \in Nat, NEW k \in Nat, NEW n \in Nat, n # 0, k <= n
  PROVE  (m * k) \div n \in Nat /\ (m * k) \div n <= m
<1>1. m * k \in Nat /\ m * k <= m * n
  BY TimesIsNat, ProductsGrow
<1> DEFINE x == m * k
           q == x \div n
<1>2. q \in Nat /\ q * n <= x
  BY <1>1, QuotientIsFloor
<1>3. q * n <= m * n
  <2>1. q * n \in Nat /\ m * n \in Nat
    BY <1>2, TimesIsNat
  <2>2. QED BY <1>1, <1>2, <2>1
<1> HIDE DEF x, q
<1>4. q <= m
  <2>1. q >= m + 1 => q * n >= (m + 1) * n
    BY <1>2, Z3
  <2>2. (m + 1) * n = m * n + n
    BY Z3
  <2>3. q * n \in Nat /\ m * n \in Nat /\ (m + 1) * n \in Nat
    BY <1>2, TimesIsNat
  <2>4. QED BY <1>2, <1>3, <2>1, <2>2, <2>3
<1>5. QED BY <1>2, <1>4 DEF x, q

LEMMA QuotientsGrow ==
  ASSUME NEW x \in Nat, NEW y \in Nat, NEW n \in Nat, n # 0, x <= y
  PROVE  x \div n \in Nat /\ y \div n \in Nat /\ x \div n <= y \div n
<1>1. x \div n \in Nat /\ y \div n \in Nat
  BY QuotientIsFloor
<1> DEFINE q == x \div n
           r == y \div n
<1>2. q * n <= x /\ y < (r + 1) * n
  BY Z3
<1> HIDE DEF q, r
<1>3. q \in Nat /\ r \in Nat
  BY <1>1 DEF q, r
<1>4. q >= r + 1 => q * n >= (r + 1) * n
  BY <1>3, Z3
<1>5. q * n \in Nat /\ (r + 1) * n \in Nat
  BY <1>3, TimesIsNat
<1>6. q <= r
  BY <1>2, <1>3, <1>4, <1>5
<1>7. QED BY <1>3, <1>6 DEF q, r

Wrapped(n) == n % Word

LEMMA WrappedIs ==
  ASSUME NEW n \in Int
  PROVE  /\ Wrapped(n) \in Nat /\ (n >= 0 => Wrapped(n) <= n)
         /\ n >= 0 /\ n < Word => Wrapped(n) = n
         /\ n < 0 /\ n > 0 - Word => Wrapped(n) = n + Word
<1>1. Word \in Nat /\ Word # 0
  BY NumberAssumption
<1>2. n % Word \in Nat
  BY <1>1, Z3
<1>3. n >= 0 => n % Word <= n
  BY <1>1, Z3
<1>4. n >= 0 /\ n < Word => n % Word = n
  BY <1>1, Z3
<1>5. n < 0 /\ n > 0 - Word => n % Word = n + Word
  BY <1>1, Z3
<1>6. QED BY <1>2, <1>3, <1>4, <1>5 DEF Wrapped

\* The end the contract computes is no later than the schedule's, wrapped or not.
LEMMA EndIsNoLater ==
  ASSUME NEW s, ValidSchedule(s)
  PROVE  LET end == s.delay + s.period * (s.releaseCount - 1)
         IN end \in Nat /\ end % Word \in Nat /\ end % Word <= end
<1> DEFINE end == s.delay + s.period * (s.releaseCount - 1)
<1>1. s.delay \in Nat /\ s.period \in Nat /\ s.releaseCount - 1 \in Nat
  BY DEF ValidSchedule, Schedule
<1>2. end \in Nat
  BY <1>1, TimesIsNat
<1> HIDE DEF end
<1>3. Word \in Nat /\ Word # 0
  BY NumberAssumption
<1>4. end % Word \in Nat /\ end % Word <= end
  BY <1>2, <1>3, Z3
<1>5. QED BY <1>2, <1>4 DEF end

\* The number of whole periods before the end is less than the number of releases.
LEMMA PeriodsBeforeTheEnd ==
  ASSUME NEW e \in Nat, NEW d \in Nat, NEW p \in Nat, NEW c \in Nat,
         e >= d, e < d + p * c, p # 0
  PROVE  (e - d) \div p \in Nat /\ (e - d) \div p <= c
<1> DEFINE x == e - d
           q == x \div p
<1>1. x \in Nat
  OBVIOUS
<1>2. q \in Nat /\ q * p <= x
  BY <1>1, QuotientIsFloor
<1>3. p * c \in Nat /\ q * p \in Nat
  BY <1>2, TimesIsNat
<1>4. q * p < p * c
  BY <1>2, <1>3
<1> HIDE DEF x, q
<1>5. q > c => q * p >= p * c
  BY <1>2, Z3
<1>6. QED BY <1>2, <1>3, <1>4, <1>5 DEF x, q

\* What the periods have released before the end, where their product fits a word.
ByPeriods(s, elapsed, amount) ==
  Initial(s, amount)
    + ((amount - Initial(s, amount)) * ((elapsed - s.delay) \div s.period)) \div (s.releaseCount - 1)

Running(s, elapsed) ==
  /\ elapsed >= 0 /\ elapsed >= s.delay
  /\ ~ (elapsed >= (s.delay + s.period * (s.releaseCount - 1)) % Word)

LEMMA RunningIs ==
  ASSUME NEW s, ValidSchedule(s), NEW e \in Int, Running(s, e)
  PROVE  /\ e \in Nat /\ s.delay \in Nat /\ e >= s.delay
         /\ s.period \in Nat /\ s.period # 0 /\ s.releaseCount - 1 \in Nat /\ s.releaseCount - 1 # 0
         /\ (e - s.delay) \div s.period \in Nat
         /\ (e - s.delay) \div s.period <= s.releaseCount - 1
<1> DEFINE p == s.period
           c == s.releaseCount - 1
           d == s.delay
           end == d + p * c
<1>1. /\ e \in Nat /\ d \in Nat /\ p \in Nat /\ c \in Nat /\ e >= d
      /\ s.releaseCount > 1 => p > 0
  BY DEF Running, ValidSchedule, Schedule
<1>2. end \in Nat /\ end % Word \in Nat /\ end % Word <= end
  BY EndIsNoLater
<1>3. e < end
  BY <1>1, <1>2 DEF Running
<1>4. c # 0
  <2>1. c = 0 => end = d
    BY <1>1
  <2>2. QED BY <1>1, <1>3, <2>1
<1>5. p # 0
  <2>1. s.releaseCount \in Nat
    BY DEF ValidSchedule, Schedule
  <2>2. QED BY <1>1, <1>4, <2>1
<1> HIDE DEF p, c, d
<1>6. (e - d) \div p \in Nat /\ (e - d) \div p <= c
  BY <1>1, <1>3, <1>5, PeriodsBeforeTheEnd
<1>7. QED BY <1>1, <1>4, <1>5, <1>6 DEF p, c, d

LEMMA InitialIs ==
  ASSUME NEW s, ValidSchedule(s), NEW amount \in Nat
  PROVE  Initial(s, amount) \in Nat /\ Initial(s, amount) <= amount
BY PartIsLess, NumberAssumption DEF Initial, ValidSchedule, Schedule

LEMMA ByPeriodsIs ==
  ASSUME NEW s, ValidSchedule(s), NEW e \in Int, Running(s, e), NEW amount \in Nat
  PROVE  ByPeriods(s, e, amount) \in Nat /\ ByPeriods(s, e, amount) <= amount
<1> DEFINE i == Initial(s, amount)
           k == (e - s.delay) \div s.period
           c == s.releaseCount - 1
           m == amount - i
<1>1. k \in Nat /\ c \in Nat /\ c # 0 /\ k <= c
  BY RunningIs
<1>2. i \in Nat /\ i <= amount /\ m \in Nat
  BY InitialIs
<1> HIDE DEF i, k, c
<1>3. (m * k) \div c \in Nat /\ (m * k) \div c <= m
  BY <1>1, <1>2, PartIsLess
<1>4. i + (m * k) \div c \in Nat /\ i + (m * k) \div c <= amount
  BY <1>2, <1>3
<1>5. QED BY <1>4 DEF i, k, c, ByPeriods

LEMMA ByPeriodsGrow ==
  ASSUME NEW s, ValidSchedule(s), NEW e \in Int, NEW f \in Int, Running(s, e), Running(s, f),
         e <= f, NEW amount \in Nat
  PROVE  ByPeriods(s, e, amount) <= ByPeriods(s, f, amount)
<1> DEFINE i == Initial(s, amount)
           x == e - s.delay
           y == f - s.delay
           k == x \div s.period
           l == y \div s.period
           c == s.releaseCount - 1
           m == amount - i
<1>1. /\ x \in Nat /\ y \in Nat /\ x <= y /\ s.period \in Nat /\ s.period # 0
      /\ k \in Nat /\ l \in Nat /\ c \in Nat /\ c # 0
  BY RunningIs
<1>2. k <= l
  BY <1>1, QuotientsGrow
<1>3. i \in Nat /\ m \in Nat
  BY InitialIs
<1> HIDE DEF i, x, y, k, l, c, m
<1>4. m * k \in Nat /\ m * l \in Nat /\ m * k <= m * l
  BY <1>1, <1>2, <1>3, TimesIsNat, ProductsGrow
<1>5. (m * k) \div c \in Nat /\ (m * l) \div c \in Nat /\ (m * k) \div c <= (m * l) \div c
  BY <1>1, <1>4, QuotientsGrow
<1>6. i + (m * k) \div c <= i + (m * l) \div c
  BY <1>3, <1>5
<1>7. QED BY <1>6 DEF i, x, y, k, l, c, m, ByPeriods

\* The largest product of the periods fits a word.
ProductFits(s, amount) == (amount - Initial(s, amount)) * (s.releaseCount - 1) < Word

\* What the contract computes for the periods is no more, and the same if it fits.
LEMMA WrappedPeriods ==
  ASSUME NEW s, ValidSchedule(s), NEW e \in Int, Running(s, e), NEW amount \in Nat
  PROVE  /\ CalculateUnlocked(s, e, amount) \in Nat
         /\ CalculateUnlocked(s, e, amount) <= ByPeriods(s, e, amount)
         /\ ProductFits(s, amount) => CalculateUnlocked(s, e, amount) = ByPeriods(s, e, amount)
<1> DEFINE i == Initial(s, amount)
           k == (e - s.delay) \div s.period
           c == s.releaseCount - 1
           m == amount - i
           product == m * k
           wrapped == Wrapped(product)
<1>1. k \in Nat /\ c \in Nat /\ c # 0 /\ k <= c
  BY RunningIs
<1>2. i \in Nat /\ m \in Nat
  BY InitialIs
<1>3. /\ CalculateUnlocked(s, e, amount) = i + wrapped \div c
      /\ ByPeriods(s, e, amount) = i + product \div c
      /\ ProductFits(s, amount) <=> m * c < Word
  <2>1. s.delay \in Nat
    BY DEF ValidSchedule, Schedule
  <2>2. CalculateUnlocked(s, e, amount) = i + wrapped \div c
    BY <2>1 DEF Running, CalculateUnlocked, Wrapped
  <2>3. QED BY <2>2 DEF ByPeriods, ProductFits
<1> HIDE DEF i, k, c, m
<1>4. product \in Nat /\ m * c \in Nat /\ product <= m * c
  BY <1>1, <1>2, TimesIsNat, ProductsGrow
<1> HIDE DEF product
<1>5. wrapped \in Nat /\ wrapped <= product /\ (product < Word => wrapped = product)
  BY <1>4, WrappedIs
<1> HIDE DEF wrapped
<1>6. /\ wrapped \div c \in Nat /\ product \div c \in Nat /\ wrapped \div c <= product \div c
  BY <1>1, <1>4, <1>5, QuotientsGrow
<1>7. m * c < Word => wrapped = product
  BY <1>4, <1>5, NumberAssumption
<1>8. i + wrapped \div c \in Nat /\ i + wrapped \div c <= i + product \div c
  BY <1>2, <1>6
<1>9. QED BY <1>3, <1>7, <1>8

LEMMA UnlockedIs ==
  ASSUME NEW s, ValidSchedule(s), NEW e \in Int, NEW amount \in Nat
  PROVE  CalculateUnlocked(s, e, amount) \in Nat /\ CalculateUnlocked(s, e, amount) <= amount
<1>1. CASE Running(s, e)
  <2>1. /\ CalculateUnlocked(s, e, amount) \in Nat
        /\ CalculateUnlocked(s, e, amount) <= ByPeriods(s, e, amount)
    BY <1>1, WrappedPeriods
  <2>2. ByPeriods(s, e, amount) \in Nat /\ ByPeriods(s, e, amount) <= amount
    BY <1>1, ByPeriodsIs
  <2>3. QED BY <2>1, <2>2
<1>2. CASE ~ Running(s, e)
  <2>1. CalculateUnlocked(s, e, amount) \in {0, amount}
    <3>1. s.delay \in Nat
      BY DEF ValidSchedule, Schedule
    <3>2. QED BY <1>2, <3>1 DEF Running, CalculateUnlocked
  <2>2. QED BY <2>1
<1>3. QED BY <1>1, <1>2

LEMMA UnlockedGrows ==
  ASSUME NEW s, ValidSchedule(s), NEW e \in Int, NEW f \in Int, e <= f, NEW amount \in Nat,
         ProductFits(s, amount)
  PROVE  CalculateUnlocked(s, e, amount) <= CalculateUnlocked(s, f, amount)
<1> DEFINE end == (s.delay + s.period * (s.releaseCount - 1)) % Word
           u == CalculateUnlocked(s, e, amount)
           v == CalculateUnlocked(s, f, amount)
<1>1. s.delay \in Nat /\ end \in Nat
  BY EndIsNoLater DEF ValidSchedule, Schedule
<1>2. u \in Nat /\ u <= amount /\ v \in Nat
  BY UnlockedIs
<1>3. CASE f >= end /\ f >= 0
  <2>1. v = amount
    BY <1>3 DEF CalculateUnlocked
  <2>2. QED BY <1>2, <2>1
<1>4. CASE e < 0 \/ (e < s.delay /\ ~ (e >= end))
  <2>1. u = 0
    BY <1>1, <1>4 DEF CalculateUnlocked
  <2>2. QED BY <1>2, <2>1
<1>5. CASE /\ ~ (f >= end /\ f >= 0)
           /\ ~ (e < 0 \/ (e < s.delay /\ ~ (e >= end)))
  <2>1. Running(s, e) /\ Running(s, f)
    BY <1>1, <1>5 DEF Running
  <2>2. u = ByPeriods(s, e, amount) /\ v = ByPeriods(s, f, amount)
    BY <2>1, WrappedPeriods
  <2>3. QED BY <2>1, <2>2, ByPeriodsGrow
<1>6. QED BY <1>3, <1>4, <1>5

\* What a schedule releases in numbers of any size, after time e.
ReleasedAfter(s, e, amount) ==
  LET later == s.releaseCount - 1
      steps == (e - s.delay) \div s.period
  IN IF e < s.delay THEN 0
     ELSE IF later = 0 \/ steps >= later THEN amount
     ELSE Initial(s, amount) + ((amount - Initial(s, amount)) * steps) \div later

LEMMA WholePeriods ==
  ASSUME NEW x \in Nat, NEW p \in Nat, p # 0, NEW c \in Nat
  PROVE  x \div p \in Nat /\ (x \div p >= c <=> x >= p * c)
<1> DEFINE q == x \div p
<1>1. q \in Nat /\ q * p <= x /\ x < (q + 1) * p
  BY QuotientIsFloor, Z3
<1> HIDE DEF q
<1>2. q >= c => q * p >= c * p
  BY <1>1, ProductsGrow
<1>3. q < c => (q + 1) * p <= c * p
  BY <1>1, ProductsGrow
<1>4. p * c = c * p /\ p * c \in Nat /\ q * p \in Nat /\ (q + 1) * p \in Nat
  BY <1>1, TimesIsNat, Z3
<1>5. q >= c <=> x >= p * c
  BY <1>1, <1>2, <1>3, <1>4
<1>6. QED BY <1>1, <1>5 DEF q

\* Where both products fit a word, the contract computes that.
LEMMA UnlockedIsReleased ==
  ASSUME NEW s, ValidSchedule(s), NEW e \in Int, NEW amount \in Nat,
         ProductFits(s, amount), s.delay + s.period * (s.releaseCount - 1) < Word
  PROVE  CalculateUnlocked(s, e, amount) = ReleasedAfter(s, e, amount)
<1> DEFINE d == s.delay
           p == s.period
           c == s.releaseCount - 1
           end == d + p * c
<1>1. d \in Nat /\ p \in Nat /\ c \in Nat /\ (c # 0 => p # 0)
  <2>1. /\ s.delay \in Nat /\ s.period \in Nat /\ s.releaseCount \in Nat /\ s.releaseCount >= 1
        /\ s.releaseCount > 1 => s.period > 0
    BY DEF ValidSchedule, Schedule
  <2>2. QED BY <2>1
<1>2. end \in Nat /\ p * c \in Nat /\ end >= d
  BY <1>1, TimesIsNat
<1>3. end % Word = end
  <2> HIDE DEF end
  <2>1. end < Word
    BY DEF end
  <2>2. QED BY <1>2, <2>1, WrappedIs DEF Wrapped
<1>4. CASE e < d
  <2>1. ~ (e >= end % Word)
    BY <1>1, <1>2, <1>3, <1>4
  <2>2. CalculateUnlocked(s, e, amount) = 0
    BY <1>4, <2>1 DEF CalculateUnlocked
  <2>3. ReleasedAfter(s, e, amount) = 0
    BY <1>4 DEF ReleasedAfter
  <2>4. QED BY <2>2, <2>3
<1>5. CASE e >= d /\ e >= end
  <2>1. e >= 0 /\ e >= end % Word
    BY <1>1, <1>3, <1>5
  <2>2. CalculateUnlocked(s, e, amount) = amount
    BY <2>1 DEF CalculateUnlocked
  <2>3. c = 0 \/ (e - d) \div p >= c
    <3>1. e - d \in Nat /\ e - d >= p * c
      BY <1>1, <1>2, <1>5
    <3> HIDE DEF c, d, p
    <3>2. QED BY <1>1, <3>1, WholePeriods
  <2>4. ReleasedAfter(s, e, amount) = amount
    BY <1>1, <1>5, <2>3 DEF ReleasedAfter
  <2>5. QED BY <2>2, <2>4
<1>6. CASE e >= d /\ ~ (e >= end)
  <2>1. Running(s, e)
    BY <1>1, <1>3, <1>6 DEF Running
  <2>2. CalculateUnlocked(s, e, amount) = ByPeriods(s, e, amount)
    BY <2>1, WrappedPeriods
  <2>3. c # 0 /\ ~ ((e - d) \div p >= c)
    <3>1. e - d \in Nat /\ ~ (e - d >= p * c) /\ p # 0
      BY <1>1, <1>2, <1>6, <2>1, RunningIs
    <3>2. c # 0
      BY <2>1, RunningIs
    <3> HIDE DEF c, d, p
    <3>3. QED BY <1>1, <3>1, <3>2, WholePeriods
  <2>4. ReleasedAfter(s, e, amount) = ByPeriods(s, e, amount)
    BY <1>1, <1>6, <2>3 DEF ReleasedAfter, ByPeriods
  <2>5. QED BY <2>2, <2>4
<1>7. QED BY <1>1, <1>4, <1>5, <1>6

-----------------------------------------------------------------------------
(* What is left in a row of timelocks *)

IsRow(row) == row \in Seq(Timelock)

InRow(row) == SumOver([i \in DOMAIN row |-> Left(row[i])], DOMAIN row)

LEMMA LeftIs ==
  ASSUME NEW t \in Timelock
  PROVE  /\ Left(t) \in Int /\ Left(t) = t.total - t.transferred
         /\ t.total \in Nat /\ t.transferred \in Nat /\ t.paid \in Nat
BY DEF Left, Timelock

LEMMA PayingIs ==
  ASSUME NEW t \in Timelock, NEW n \in Nat
  PROVE  /\ Paying(t, n) \in Timelock
         /\ Paying(t, n).transferred = t.transferred + n /\ Paying(t, n).paid = t.paid + n
         /\ Paying(t, n).total = t.total /\ Paying(t, n).scheduleId = t.scheduleId
         /\ Paying(t, n).commencement = t.commencement
         /\ Left(Paying(t, n)) = Left(t) - n
<1> DEFINE m == t.transferred + n
           k == t.paid + n
           t2 == [t EXCEPT !.transferred = m, !.paid = k]
<1>1. m \in Nat /\ k \in Nat /\ t.total \in Nat /\ t.transferred \in Nat
  BY LeftIs
<1>2. Paying(t, n) = t2
  BY DEF Paying
<1> HIDE DEF m, k
<1>3. /\ t2 \in Timelock /\ t2.transferred = m /\ t2.paid = k /\ t2.total = t.total
      /\ t2.scheduleId = t.scheduleId /\ t2.commencement = t.commencement
  BY <1>1 DEF Timelock
<1> HIDE DEF t2
<1>4. Left(t2) = Left(t) - n
  BY <1>1, <1>3 DEF Left, m
<1>5. QED BY <1>2, <1>3, <1>4 DEF m, k

LEMMA RowIs ==
  ASSUME NEW row, IsRow(row)
  PROVE  /\ Len(row) \in Nat /\ DOMAIN row = 1 .. Len(row) /\ IsFiniteSet(DOMAIN row)
         /\ \A i \in DOMAIN row : row[i] \in Timelock /\ Left(row[i]) \in Int
         /\ InRow(row) \in Int
<1>1. Len(row) \in Nat /\ DOMAIN row = 1 .. Len(row)
  BY DEF IsRow
<1>2. IsFiniteSet(1 .. Len(row))
  BY <1>1, FS_Interval
<1>3. IsFiniteSet(DOMAIN row)
  BY <1>1, <1>2
<1>4. \A i \in DOMAIN row : row[i] \in Timelock
  BY <1>1 DEF IsRow
<1>5. \A i \in DOMAIN row : Left(row[i]) \in Int
  BY <1>4, LeftIs
<1> DEFINE f == [i \in DOMAIN row |-> Left(row[i])]
<1>6. \A i \in DOMAIN row : f[i] \in Int
  BY <1>5
<1> HIDE DEF f
<1>7. SumOver(f, DOMAIN row) \in Int
  BY <1>3, <1>6, SumInt
<1>8. QED BY <1>1, <1>3, <1>4, <1>5, <1>7 DEF f, InRow

LEMMA EmptyRow == ASSUME NEW row, IsRow(row), DOMAIN row = {} PROVE row = <<>>
BY DEF IsRow

LEMMA RowAppended ==
  ASSUME NEW row, IsRow(row), NEW t \in Timelock
  PROVE  IsRow(Append(row, t)) /\ InRow(Append(row, t)) = InRow(row) + Left(t)
<1> DEFINE k == Len(row)
           row2 == Append(row, t)
           f == [i \in DOMAIN row |-> Left(row[i])]
           g == [i \in DOMAIN row2 |-> Left(row2[i])]
<1>1. /\ k \in Nat /\ IsRow(row2) /\ DOMAIN row = 1 .. k /\ DOMAIN row2 = 1 .. k + 1
      /\ \A i \in 1 .. k : row2[i] = row[i]
      /\ row2[k + 1] = t
  BY DEF IsRow
<1> HIDE DEF row2, k
<1>2. \A i \in 1 .. k + 1 : g[i] \in Int
  <2>1. \A i \in DOMAIN row2 : Left(row2[i]) \in Int
    BY <1>1, RowIs
  <2>2. QED BY <1>1, <2>1
<1>3. \A i \in 1 .. k : f[i] = g[i]
  BY <1>1
<1>4. g[k + 1] = Left(t)
  BY <1>1
<1> HIDE DEF f, g
<1>5. SumOver(g, 1 .. k + 1) = SumOver(f, 1 .. k) + g[k + 1]
  BY <1>1, <1>2, <1>3, AppendedSum
<1>6. QED BY <1>1, <1>4, <1>5 DEF f, g, InRow, row2

LEMMA RowWithOne ==
  ASSUME NEW row, IsRow(row), NEW i \in DOMAIN row, NEW t \in Timelock
  PROVE  /\ IsRow([row EXCEPT ![i] = t])
         /\ DOMAIN [row EXCEPT ![i] = t] = DOMAIN row
         /\ \A j \in DOMAIN row : [row EXCEPT ![i] = t][j] = IF j = i THEN t ELSE row[j]
         /\ InRow([row EXCEPT ![i] = t]) = InRow(row) + (Left(t) - Left(row[i]))
<1> DEFINE row2 == [row EXCEPT ![i] = t]
           D == DOMAIN row
           f == [j \in D |-> Left(row[j])]
           g == [j \in DOMAIN row2 |-> Left(row2[j])]
<1>1. /\ IsRow(row2) /\ DOMAIN row2 = D
      /\ \A j \in D : row2[j] = IF j = i THEN t ELSE row[j]
  BY DEF IsRow
<1> HIDE DEF row2
<1>2. \A j \in D : Left(row[j]) \in Int /\ Left(row2[j]) \in Int
  BY <1>1, RowIs
<1>3. f[i] = Left(row[i]) /\ g[i] = Left(t)
  BY <1>1
<1>4. IsFiniteSet(D)
  BY RowIs
<1>5. SumOver(g, D) = SumOver(f, D) + (g[i] - f[i])
  <2>1. \A j \in D : f[j] \in Int /\ g[j] \in Int
    BY <1>1, <1>2
  <2>2. \A j \in D : j # i => g[j] = f[j]
    BY <1>1
  <2>3. i \in D
    OBVIOUS
  <2> HIDE DEF D, f, g
  <2>4. QED BY <1>4, <2>1, <2>2, <2>3, SumUpdate
<1> HIDE DEF f, g
<1>6. InRow(row2) = InRow(row) + (Left(t) - Left(row[i]))
  BY <1>1, <1>3, <1>5 DEF f, g, InRow
<1>7. QED BY <1>1, <1>6 DEF row2

-----------------------------------------------------------------------------
(* Drawing on a row: each position gives what it has until there is enough *)

Gives(f, k, value) == Lesser(f[k], Greater(0, value - SumOver(f, 1 .. k - 1)))

LEMMA GivesIs ==
  ASSUME NEW f, NEW n \in Nat, \A i \in 1 .. n : f[i] \in Nat, NEW value \in Nat, NEW k \in 1 .. n
  PROVE  /\ SumOver(f, 1 .. k - 1) \in Nat
         /\ Gives(f, k, value) \in Nat /\ Gives(f, k, value) <= f[k]
<1>1. SumOver(f, 1 .. k - 1) \in Nat
  <2> DEFINE S == 1 .. k - 1
  <2>1. IsFiniteSet(S) /\ \A i \in S : f[i] \in Nat
    BY FS_Interval
  <2> HIDE DEF S
  <2>2. SumOver(f, S) \in Nat
    BY <2>1, SumNat
  <2>3. QED BY <2>2 DEF S
<1>2. f[k] \in Nat
  OBVIOUS
<1>3. QED BY <1>1, <1>2 DEF Gives, Lesser, Greater

\* Together they give the value, or all they have.
LEMMA GivenTogether ==
  ASSUME NEW f, NEW n \in Nat, \A i \in 1 .. n : f[i] \in Nat, NEW value \in Nat,
         NEW d, \A i \in 1 .. n : d[i] = Gives(f, i, value)
  PROVE  SumOver(d, 1 .. n) = Lesser(value, SumOver(f, 1 .. n))
<1> DEFINE Bad == {k \in 0 .. n : SumOver(d, 1 .. k) # Lesser(value, SumOver(f, 1 .. k))}
<1>1. SUFFICES ASSUME Bad # {} PROVE FALSE
  OBVIOUS
<1>2. PICK k \in Bad : \A j \in Bad : k <= j
  <2>1. Bad \subseteq Nat
    OBVIOUS
  <2> HIDE DEF Bad
  <2>2. QED BY <1>1, <2>1, LeastNatural
<1>3. k \in 0 .. n /\ SumOver(d, 1 .. k) # Lesser(value, SumOver(f, 1 .. k))
  BY <1>2
<1>4. CASE k = 0
  <2>1. 1 .. k = {}
    BY <1>4
  <2>2. SumOver(d, 1 .. k) = 0 /\ SumOver(f, 1 .. k) = 0
    BY <2>1, SumEmpty
  <2>3. QED BY <1>3, <2>2 DEF Lesser
<1>5. CASE k # 0
  <2> DEFINE h == k - 1
  <2>1. h \in Nat /\ h + 1 = k /\ h \in 0 .. n /\ k \in 1 .. n
    BY <1>3, <1>5
  <2>2. h \notin Bad
    BY <1>2, <2>1
  <2>3. SumOver(d, 1 .. h) = Lesser(value, SumOver(f, 1 .. h))
    BY <2>1, <2>2
  <2> HIDE DEF Bad, h
  <2>4. /\ \A i \in 1 .. h + 1 : d[i] \in Nat /\ f[i] \in Nat
        /\ d[k] = Gives(f, k, value)
    <3>1. \A i \in 1 .. n : Gives(f, i, value) \in Nat
      BY GivesIs
    <3>2. QED BY <2>1, <3>1
  <2>5. /\ SumOver(d, 1 .. k) = SumOver(d, 1 .. h) + d[k]
        /\ SumOver(f, 1 .. k) = SumOver(f, 1 .. h) + f[k]
    <3>1. SumOver(d, 1 .. h + 1) = SumOver(d, 1 .. h) + d[h + 1]
      BY <2>1, <2>4, LastSummand
    <3>2. SumOver(f, 1 .. h + 1) = SumOver(f, 1 .. h) + f[h + 1]
      BY <2>1, <2>4, LastSummand
    <3>3. QED BY <2>1, <3>1, <3>2
  <2> DEFINE a == SumOver(f, 1 .. h)
  <2>6. a \in Nat /\ d[k] = Lesser(f[k], Greater(0, value - a)) /\ f[k] \in Nat
    <3>1. SumOver(f, 1 .. k - 1) \in Nat
      BY <2>1, GivesIs
    <3>2. QED BY <2>1, <2>4, <3>1 DEF Gives, h
  <2>7. SumOver(d, 1 .. k) = Lesser(value, a) + d[k] /\ SumOver(f, 1 .. k) = a + f[k]
    BY <2>3, <2>5
  <2> HIDE DEF a
  <2>8. Lesser(value, a) + d[k] = Lesser(value, a + f[k])
    BY <2>6 DEF Lesser, Greater
  <2>9. QED BY <1>3, <2>7, <2>8
<1>6. QED BY <1>4, <1>5

\* A row that gives d has that much less left.
LEMMA RowGives ==
  ASSUME NEW row, IsRow(row), NEW d, \A i \in DOMAIN row : d[i] \in Nat,
         NEW row2, row2 = [i \in DOMAIN row |-> Paying(row[i], d[i])]
  PROVE  /\ IsRow(row2) /\ DOMAIN row2 = DOMAIN row
         /\ InRow(row2) = InRow(row) - SumOver(d, DOMAIN row)
<1> DEFINE D == DOMAIN row
           f == [i \in D |-> Left(row[i])]
           g == [i \in DOMAIN row2 |-> Left(row2[i])]
<1>1. /\ Len(row) \in Nat /\ D = 1 .. Len(row) /\ IsFiniteSet(D)
      /\ \A i \in D : row[i] \in Timelock /\ Left(row[i]) \in Int
  BY RowIs
<1>2. DOMAIN row2 = D
  OBVIOUS
<1>3. ASSUME NEW i \in D
      PROVE  row2[i] \in Timelock /\ Left(row2[i]) = Left(row[i]) - d[i]
  <2>1. row[i] \in Timelock /\ row2[i] = Paying(row[i], d[i]) /\ d[i] \in Nat
    BY <1>1
  <2>2. QED BY <2>1, PayingIs
<1>4. IsRow(row2)
  <2>1. row2 \in [1 .. Len(row) -> Timelock]
    BY <1>1, <1>2, <1>3
  <2>2. QED BY <1>1, <2>1 DEF IsRow
<1>5. \A i \in D : g[i] \in Int /\ d[i] \in Int /\ f[i] = g[i] + d[i]
  BY <1>1, <1>2, <1>3
<1> HIDE DEF f, g
<1>6. SumOver(f, D) = SumOver(g, D) + SumOver(d, D)
  <2> HIDE DEF D
  <2>1. QED BY <1>1, <1>5, SumAdd
<1>7. SumOver(g, D) \in Int /\ SumOver(d, D) \in Int
  <2> HIDE DEF D
  <2>1. QED BY <1>1, <1>5, SumInt
<1>8. InRow(row) = SumOver(f, D) /\ InRow(row2) = SumOver(g, D)
  BY <1>2 DEF f, g, InRow
<1>9. QED BY <1>2, <1>4, <1>6, <1>7, <1>8

-----------------------------------------------------------------------------
(* All the timelocks *)

Rows == [Accounts -> Seq(Timelock)]

InRows(locks) == SumOver([x \in Accounts |-> InRow(locks[x])], Accounts)

LEMMA AccountsAreFinite == IsFiniteSet(Accounts) /\ IsFiniteSet(Users)
BY AddressAssumption, FS_AddElement DEF Accounts

LEMMA RowsAre == ASSUME NEW locks \in Rows PROVE InRows(locks) \in Int
<1> DEFINE f == [x \in Accounts |-> InRow(locks[x])]
<1>1. \A x \in Accounts : f[x] \in Int
  BY RowIs DEF Rows, IsRow
<1> HIDE DEF f
<1>2. SumOver(f, Accounts) \in Int
  BY <1>1, AccountsAreFinite, SumInt
<1>3. QED BY <1>2 DEF f, InRows

LEMMA RowChanges ==
  ASSUME NEW locks \in Rows, NEW x \in Accounts, NEW row, IsRow(row)
  PROVE  /\ [locks EXCEPT ![x] = row] \in Rows
         /\ \A y \in Accounts : [locks EXCEPT ![x] = row][y] = IF y = x THEN row ELSE locks[y]
         /\ InRows([locks EXCEPT ![x] = row]) = InRows(locks) + (InRow(row) - InRow(locks[x]))
<1> DEFINE locks2 == [locks EXCEPT ![x] = row]
           f == [y \in Accounts |-> InRow(locks[y])]
           g == [y \in Accounts |-> InRow(locks2[y])]
<1>1. locks2 \in Rows /\ \A y \in Accounts : locks2[y] = IF y = x THEN row ELSE locks[y]
  BY DEF Rows, IsRow
<1> HIDE DEF locks2
<1>2. g[x] = InRow(row) /\ f[x] = InRow(locks[x])
  BY <1>1
<1>3. SumOver(g, Accounts) = SumOver(f, Accounts) + (g[x] - f[x])
  <2>1. \A y \in Accounts : InRow(locks[y]) \in Int /\ InRow(locks2[y]) \in Int
    BY <1>1, RowIs DEF Rows, IsRow
  <2>2. \A y \in Accounts : f[y] \in Int /\ g[y] \in Int
    BY <2>1
  <2>3. \A y \in Accounts : y # x => g[y] = f[y]
    BY <1>1
  <2>4. IsFiniteSet(Accounts)
    BY AccountsAreFinite
  <2> HIDE DEF f, g
  <2>5. QED BY <2>2, <2>3, <2>4, SumUpdate
<1> HIDE DEF f, g
<1>4. InRows(locks2) = InRows(locks) + (InRow(row) - InRow(locks[x]))
  BY <1>2, <1>3 DEF f, g, InRows
<1>5. QED BY <1>1, <1>4 DEF locks2

-----------------------------------------------------------------------------
(***************************************************************************)
(* The invariant of the token: schedules are as they were accepted, and    *)
(* every timelock has one and, if it fits a word, has paid in time.  What  *)
(* the contract holds beyond the timelocks and the stray tokens is a       *)
(* number no step of the token changes.                                    *)
(***************************************************************************)
ValidRules(rules) == \A i \in DOMAIN rules : ValidSchedule(rules[i])

Releases(t, rules, time) ==
  CalculateUnlocked(rules[t.scheduleId], time - t.commencement, t.total)
ReleasedBy(t, rules, time) ==
  ReleasedAfter(rules[t.scheduleId], time - t.commencement, t.total)

FitsIn(t, rules)    == ProductFits(rules[t.scheduleId], t.total)
EndFitsIn(t, rules) ==
  LET s == rules[t.scheduleId] IN s.delay + s.period * (s.releaseCount - 1) < Word

InTime(t, rules, time) ==
  FitsIn(t, rules) =>
    /\ t.transferred = t.paid \/ t.transferred = t.total
    /\ t.transferred = t.total \/ t.transferred <= Releases(t, rules, time)
    /\ EndFitsIn(t, rules) => t.paid <= ReleasedBy(t, rules, time)

Timely(t, rules, time) ==
  t.scheduleId \in DOMAIN rules /\ t.total < Word /\ InTime(t, rules, time)

RowInTime(row, rules, time) == \A i \in DOMAIN row : Timely(row[i], rules, time)

RowsInTime(locks) == \A x \in Accounts : RowInTime(locks[x], releaseSchedules, now)

LockInv == /\ TypeOK /\ SupplyIsHeld
           /\ ValidRules(releaseSchedules) /\ RowsInTime(timelocks)

Surplus == tokens[Token] - InRows(timelocks) - stray

Wallets == [Accounts -> Nat]

LEMMA LockFacts ==
  ASSUME LockInv
  PROVE  /\ tokens \in Wallets /\ timelocks \in Rows /\ now \in Nat /\ totalSupply \in Nat
         /\ stray \in Int /\ RowsInTime(timelocks) /\ Token \in Accounts
         /\ \A x \in Accounts : tokens[x] \in Nat /\ IsRow(timelocks[x])
BY DEF LockInv, TypeOK, Wallets, Rows, IsRow, Accounts

LEMMA SurplusIs ==
  ASSUME LockInv
  PROVE  Surplus \in Int /\ tokens[Token] \in Nat /\ InRows(timelocks) \in Int
BY LockFacts, RowsAre DEF Surplus

LEMMA ReleasesAre ==
  ASSUME NEW t \in Timelock, NEW rules, ValidRules(rules), t.scheduleId \in DOMAIN rules,
         NEW time \in Nat
  PROVE  /\ Releases(t, rules, time) \in Nat /\ Releases(t, rules, time) <= t.total
         /\ FitsIn(t, rules) /\ EndFitsIn(t, rules) =>
              Releases(t, rules, time) = ReleasedBy(t, rules, time)
<1>1. ValidSchedule(rules[t.scheduleId])
  BY DEF ValidRules
<1>2. time - t.commencement \in Int /\ t.total \in Nat
  BY DEF Timelock
<1>3. Releases(t, rules, time) \in Nat /\ Releases(t, rules, time) <= t.total
  BY <1>1, <1>2, UnlockedIs DEF Releases
<1>4. FitsIn(t, rules) /\ EndFitsIn(t, rules) =>
        Releases(t, rules, time) = ReleasedBy(t, rules, time)
  BY <1>1, <1>2, UnlockedIsReleased DEF Releases, ReleasedBy, FitsIn, EndFitsIn
<1>5. QED BY <1>3, <1>4

\* What a timelock adds to the balance of its holder.
WorthOf(t, rules, time) ==
  (IF t.total <= t.transferred THEN 0 ELSE t.total - Releases(t, rules, time))
    + (IF t.total <= t.transferred THEN 0 ELSE (Releases(t, rules, time) - t.transferred) % Word)

LEMMA TimelockIs ==
  ASSUME LockInv, NEW t \in Timelock, t.scheduleId \in DOMAIN releaseSchedules
  PROVE  /\ t.total \in Nat /\ t.transferred \in Nat /\ t.paid \in Nat
         /\ Left(t) = t.total - t.transferred
         /\ Releases(t, releaseSchedules, now) \in Nat
         /\ Releases(t, releaseSchedules, now) <= t.total
         /\ TotalUnlocked(t) = Releases(t, releaseSchedules, now)
         /\ LockedAmount(t) \in Nat
         /\ LockedAmount(t) = IF t.total <= t.transferred THEN 0
                              ELSE t.total - Releases(t, releaseSchedules, now)
         /\ UnlockedAmount(t) \in Nat /\ Drawable(t) \in Nat /\ UnlockedAmount(t) <= Drawable(t)
         /\ UnlockedAmount(t) = IF t.total <= t.transferred THEN 0
                                ELSE Wrapped(Releases(t, releaseSchedules, now) - t.transferred)
         /\ Drawable(t) = IF t.transferred = t.total THEN 0
                          ELSE Wrapped(Releases(t, releaseSchedules, now) - t.transferred)
         /\ LockedAmount(t) + UnlockedAmount(t) = WorthOf(t, releaseSchedules, now)
         /\ WorthOf(t, releaseSchedules, now) \in Nat
<1> DEFINE r == Releases(t, releaseSchedules, now)
           w == Wrapped(r - t.transferred)
<1>1. t.total \in Nat /\ t.transferred \in Nat /\ t.paid \in Nat /\ Left(t) = t.total - t.transferred
  BY LeftIs
<1>2. r \in Nat /\ r <= t.total
  <2>1. now \in Nat /\ ValidRules(releaseSchedules)
    BY LockFacts DEF LockInv
  <2>2. QED BY <2>1, ReleasesAre
<1>3. TotalUnlocked(t) = r
  BY DEF TotalUnlocked, Releases
<1> HIDE DEF r
<1>4. w \in Nat
  BY <1>1, <1>2, WrappedIs
<1>5. /\ LockedAmount(t) = IF t.total <= t.transferred THEN 0 ELSE t.total - r
      /\ UnlockedAmount(t) = IF t.total <= t.transferred THEN 0 ELSE w
      /\ Drawable(t) = IF t.transferred = t.total THEN 0 ELSE w
      /\ WorthOf(t, releaseSchedules, now) = IF t.total <= t.transferred THEN 0 ELSE (t.total - r) + w
  BY <1>3 DEF LockedAmount, UnlockedAmount, Drawable, WorthOf, r, Wrapped
<1> HIDE DEF w
<1>6. /\ LockedAmount(t) \in Nat /\ UnlockedAmount(t) \in Nat /\ Drawable(t) \in Nat
      /\ UnlockedAmount(t) <= Drawable(t)
      /\ LockedAmount(t) + UnlockedAmount(t) = WorthOf(t, releaseSchedules, now)
      /\ WorthOf(t, releaseSchedules, now) \in Nat
  BY <1>1, <1>2, <1>4, <1>5
<1>7. QED BY <1>1, <1>2, <1>3, <1>5, <1>6 DEF r, w

\* A timelock that was in time, and gives no more than may be drawn from it.
LEMMA StillInTime ==
  ASSUME LockInv, NEW t \in Timelock, Timely(t, releaseSchedules, now),
         NEW n \in Nat, n <= Drawable(t)
  PROVE  /\ Timely(Paying(t, n), releaseSchedules, now)
         /\ WorthOf(Paying(t, n), releaseSchedules, now) <= WorthOf(t, releaseSchedules, now)
<1> DEFINE t2 == Paying(t, n)
           r == Releases(t, releaseSchedules, now)
           w == Wrapped(r - t.transferred)
           w2 == Wrapped(r - (t.transferred + n))
<1>1. /\ t2 \in Timelock /\ t2.transferred = t.transferred + n /\ t2.paid = t.paid + n
      /\ t2.total = t.total /\ t2.scheduleId = t.scheduleId /\ t2.commencement = t.commencement
  BY PayingIs
<1> HIDE DEF t2
<1>2. t.scheduleId \in DOMAIN releaseSchedules /\ t.total < Word /\ InTime(t, releaseSchedules, now)
  BY DEF Timely
<1>3. /\ t.total \in Nat /\ t.transferred \in Nat /\ t.paid \in Nat
      /\ r \in Nat /\ r <= t.total
      /\ Drawable(t) = IF t.transferred = t.total THEN 0 ELSE w
      /\ Word \in Nat
  BY <1>2, TimelockIs, NumberAssumption
<1>4. FitsIn(t, releaseSchedules) /\ EndFitsIn(t, releaseSchedules) => r = ReleasedBy(t, releaseSchedules, now)
  <2>1. now \in Nat /\ ValidRules(releaseSchedules)
    BY LockFacts DEF LockInv
  <2>2. QED BY <1>2, <2>1, ReleasesAre
<1>5. /\ Releases(t2, releaseSchedules, now) = r
      /\ ReleasedBy(t2, releaseSchedules, now) = ReleasedBy(t, releaseSchedules, now)
      /\ FitsIn(t2, releaseSchedules) <=> FitsIn(t, releaseSchedules)
      /\ EndFitsIn(t2, releaseSchedules) <=> EndFitsIn(t, releaseSchedules)
  BY <1>1 DEF Releases, ReleasedBy, FitsIn, EndFitsIn, r
<1> HIDE DEF r
<1>6. /\ w \in Nat /\ w2 \in Nat
      /\ r >= t.transferred => w <= r - t.transferred
      /\ r < t.transferred /\ t.transferred < t.total => w = (r - t.transferred) + Word
      /\ r >= t.transferred + n => w2 <= r - (t.transferred + n)
      /\ r < t.transferred + n /\ t.transferred + n < t.total =>
           w2 = (r - (t.transferred + n)) + Word
      /\ r >= t.transferred /\ t.transferred < t.total => w = r - t.transferred
  <2>1. /\ r - t.transferred \in Int /\ r - (t.transferred + n) \in Int
        /\ t.transferred < t.total => r - t.transferred > 0 - Word /\ r - t.transferred < Word
        /\ t.transferred + n < t.total => r - (t.transferred + n) > 0 - Word
    BY <1>2, <1>3
  <2>2. /\ w \in Nat /\ (r - t.transferred >= 0 => w <= r - t.transferred)
        /\ r - t.transferred >= 0 /\ r - t.transferred < Word => w = r - t.transferred
        /\ r - t.transferred < 0 /\ r - t.transferred > 0 - Word => w = (r - t.transferred) + Word
    BY <2>1, WrappedIs
  <2>3. /\ w2 \in Nat /\ (r - (t.transferred + n) >= 0 => w2 <= r - (t.transferred + n))
        /\ r - (t.transferred + n) < 0 /\ r - (t.transferred + n) > 0 - Word =>
             w2 = (r - (t.transferred + n)) + Word
    BY <2>1, WrappedIs
  <2> HIDE DEF w, w2
  <2>4. QED BY <1>3, <2>1, <2>2, <2>3
<1>7. /\ WorthOf(t, releaseSchedules, now) = IF t.total <= t.transferred THEN 0 ELSE (t.total - r) + w
      /\ WorthOf(t2, releaseSchedules, now) =
           IF t.total <= t.transferred + n THEN 0 ELSE (t.total - r) + w2
  BY <1>1, <1>3, <1>5, <1>6 DEF WorthOf, r, Wrapped
<1> HIDE DEF w, w2
<1>8. WorthOf(t2, releaseSchedules, now) <= WorthOf(t, releaseSchedules, now)
  <2>1. CASE t.total <= t.transferred + n
    BY <1>3, <1>6, <1>7, <2>1
  <2>2. CASE t.transferred + n < t.total /\ r >= t.transferred
    BY <1>3, <1>6, <1>7, <2>2
  <2>3. CASE t.transferred + n < t.total /\ r < t.transferred
    BY <1>3, <1>6, <1>7, <2>3
  <2>4. QED BY <1>3, <2>1, <2>2, <2>3
<1>9. InTime(t2, releaseSchedules, now)
  <2>1. SUFFICES ASSUME FitsIn(t, releaseSchedules) PROVE InTime(t2, releaseSchedules, now)
    BY <1>5 DEF InTime
  <2>2. /\ t.transferred = t.paid \/ t.transferred = t.total
        /\ t.transferred = t.total \/ t.transferred <= r
        /\ EndFitsIn(t, releaseSchedules) => t.paid <= ReleasedBy(t, releaseSchedules, now)
    BY <1>2, <2>1 DEF InTime, r
  <2>3. /\ t2.transferred = t2.paid \/ t2.transferred = t2.total
        /\ t2.transferred = t2.total \/ t2.transferred <= r
        /\ EndFitsIn(t, releaseSchedules) => t2.paid <= ReleasedBy(t, releaseSchedules, now)
    <3>1. CASE t.transferred = t.total
      <4>1. n = 0
        BY <1>3, <3>1
      <4>2. QED BY <1>1, <1>3, <2>2, <3>1, <4>1
    <3>2. CASE t.transferred # t.total
      <4>1. t.transferred = t.paid /\ t.transferred + n <= r
        BY <1>3, <1>6, <2>2, <3>2
      <4>2. EndFitsIn(t, releaseSchedules) => r = ReleasedBy(t, releaseSchedules, now)
        BY <1>4, <2>1
      <4>3. QED BY <1>1, <1>3, <4>1, <4>2
    <3>3. QED BY <3>1, <3>2
  <2>4. QED BY <1>5, <2>3 DEF InTime
<1>10. Timely(t2, releaseSchedules, now)
  BY <1>1, <1>2, <1>9 DEF Timely
<1>11. QED BY <1>8, <1>10 DEF t2

\* What a row of timelocks adds to a balance.
Worth(row, rules, time) ==
  SumOver([i \in DOMAIN row |-> WorthOf(row[i], rules, time)], DOMAIN row)

LEMMA HeldIs ==
  ASSUME NEW locks, NEW x
  PROVE  Held(locks, x) = tokens[x] + Worth(locks[x], releaseSchedules, now)
BY DEF Held, LockedAmount, UnlockedAmount, TotalUnlocked, Worth, WorthOf, Releases

LEMMA RowTimely ==
  ASSUME LockInv, NEW row, IsRow(row), RowInTime(row, releaseSchedules, now), NEW i \in DOMAIN row
  PROVE  row[i] \in Timelock /\ Timely(row[i], releaseSchedules, now)
         /\ row[i].scheduleId \in DOMAIN releaseSchedules
BY RowIs DEF RowInTime, Timely

LEMMA WorthIs ==
  ASSUME LockInv, NEW row, IsRow(row), RowInTime(row, releaseSchedules, now)
  PROVE  Worth(row, releaseSchedules, now) \in Nat
<1> DEFINE D == DOMAIN row
           f == [i \in D |-> WorthOf(row[i], releaseSchedules, now)]
<1>1. IsFiniteSet(D)
  BY RowIs
<1>2. \A i \in D : f[i] \in Nat
  <2>1. ASSUME NEW i \in D PROVE WorthOf(row[i], releaseSchedules, now) \in Nat
    BY RowTimely, TimelockIs
  <2>2. QED BY <2>1
<1> HIDE DEF f
<1>3. SumOver(f, D) \in Nat
  <2> HIDE DEF D
  <2>1. QED BY <1>1, <1>2, SumNat
<1>4. QED BY <1>3 DEF f, Worth

LEMMA EmptyRowIsWorthless == ASSUME NEW rules, NEW time PROVE Worth(<<>>, rules, time) = 0
<1>1. DOMAIN <<>> = {}
  OBVIOUS
<1>2. QED BY <1>1, SumEmpty DEF Worth

\* The contract's timelocks and the others', drawn on for a value.
LEMMA DrawnIs ==
  ASSUME LockInv, NEW locks \in Rows, RowsInTime(locks), NEW x \in Accounts, NEW value \in Nat
  PROVE  /\ DrawableOf(locks, x) \in Nat /\ Taken(locks, x, value) \in Nat
         /\ Taken(locks, x, value) <= value
         /\ Drawn(locks, x, value) \in Rows /\ RowsInTime(Drawn(locks, x, value))
         /\ \A y \in Accounts : y # x => Drawn(locks, x, value)[y] = locks[y]
         /\ DOMAIN Drawn(locks, x, value)[x] = DOMAIN locks[x]
         /\ Worth(Drawn(locks, x, value)[x], releaseSchedules, now)
              <= Worth(locks[x], releaseSchedules, now)
         /\ InRow(Drawn(locks, x, value)[x]) = InRow(locks[x]) - Taken(locks, x, value)
         /\ InRows(Drawn(locks, x, value)) = InRows(locks) - Taken(locks, x, value)
<1> DEFINE row == locks[x]
           n == Len(row)
           f == [i \in DOMAIN row |-> Drawable(row[i])]
           d == [i \in DOMAIN row |-> Gives(f, i, value)]
           before(i) == SumOver([j \in 1 .. i - 1 |-> Drawable(row[j])], 1 .. i - 1)
           row2 == [i \in DOMAIN row |-> Paying(row[i], d[i])]
<1>1. IsRow(row) /\ n \in Nat /\ DOMAIN row = 1 .. n
  BY RowIs DEF Rows, IsRow
<1>2. RowInTime(row, releaseSchedules, now)
  BY DEF RowsInTime
<1>3. \A i \in 1 .. n : f[i] \in Nat
  <2>1. ASSUME NEW i \in DOMAIN row PROVE Drawable(row[i]) \in Nat
    <3> HIDE DEF row
    <3>1. QED BY <1>1, <1>2, RowTimely, TimelockIs
  <2>2. QED BY <1>1, <2>1
<1>4. \A i \in 1 .. n : d[i] = Gives(f, i, value)
  BY <1>1
<1>5. Drawn(locks, x, value) = [locks EXCEPT ![x] = row2]
  <2>1. ASSUME NEW i \in DOMAIN row
        PROVE  d[i] = Lesser(Drawable(row[i]), Greater(0, value - before(i)))
    <3> DEFINE S == 1 .. i - 1
               h == [j \in S |-> Drawable(row[j])]
    <3>1. IsFiniteSet(S) /\ \A j \in S : h[j] = f[j]
      BY <1>1, FS_Interval
    <3>2. d[i] = Gives(f, i, value) /\ f[i] = Drawable(row[i])
      OBVIOUS
    <3> HIDE DEF S, h, f, d
    <3>3. SumOver(h, S) = SumOver(f, S)
      BY <3>1, SumAgree
    <3>4. SumOver(f, S) = before(i)
      BY <3>3 DEF S, h
    <3>5. QED BY <3>2, <3>4 DEF Gives, S
  <2>2. Drawn(locks, x, value) = [locks EXCEPT ![x] = [i \in DOMAIN row |->
           Paying(row[i], Lesser(Drawable(row[i]), Greater(0, value - before(i))))]]
    BY DEF Drawn
  <2> HIDE DEF d, before
  <2>3. QED BY <2>1, <2>2
<1>6. DrawableOf(locks, x) = SumOver(f, 1 .. n)
  BY <1>1 DEF DrawableOf, f
<1>7. \A i \in DOMAIN row : f[i] = Drawable(row[i])
  OBVIOUS
<1> HIDE DEF f, d, before
<1>8. \A i \in 1 .. n : d[i] \in Nat /\ d[i] <= f[i]
  <2>1. \A i \in 1 .. n : Gives(f, i, value) \in Nat /\ Gives(f, i, value) <= f[i]
    BY <1>1, <1>3, GivesIs
  <2>2. QED BY <1>4, <2>1
<1>9. SumOver(d, 1 .. n) = Lesser(value, SumOver(f, 1 .. n)) /\ SumOver(f, 1 .. n) \in Nat
  <2>1. SumOver(d, 1 .. n) = Lesser(value, SumOver(f, 1 .. n))
    BY <1>1, <1>3, <1>4, GivenTogether
  <2>2. SumOver(f, 1 .. n) \in Nat
    <3> DEFINE S == 1 .. n
    <3>1. IsFiniteSet(S) /\ \A i \in S : f[i] \in Nat
      BY <1>1, <1>3, FS_Interval
    <3> HIDE DEF S
    <3>2. SumOver(f, S) \in Nat
      BY <3>1, SumNat
    <3>3. QED BY <3>2 DEF S
  <2>3. QED BY <2>1, <2>2
<1>10. /\ DrawableOf(locks, x) \in Nat /\ Taken(locks, x, value) \in Nat
       /\ Taken(locks, x, value) <= value /\ Taken(locks, x, value) = SumOver(d, 1 .. n)
  BY <1>6, <1>9 DEF Taken, Lesser
<1>11. \A i \in DOMAIN row : d[i] \in Nat /\ d[i] <= Drawable(row[i])
  BY <1>1, <1>7, <1>8
<1>12. /\ IsRow(row2) /\ DOMAIN row2 = DOMAIN row
       /\ InRow(row2) = InRow(row) - SumOver(d, DOMAIN row)
  <2> HIDE DEF row
  <2>1. QED BY <1>1, <1>11, RowGives
<1>13. ASSUME NEW i \in DOMAIN row
       PROVE  /\ Timely(row2[i], releaseSchedules, now)
              /\ WorthOf(row2[i], releaseSchedules, now) \in Nat
              /\ WorthOf(row[i], releaseSchedules, now) \in Nat
              /\ WorthOf(row2[i], releaseSchedules, now) <= WorthOf(row[i], releaseSchedules, now)
  <2> DEFINE t == row[i]
             m == d[i]
  <2>1. row2[i] = Paying(t, m) /\ m \in Nat /\ m <= Drawable(t)
    BY <1>11
  <2>2. row2[i] \in Timelock
    <3> HIDE DEF row2
    <3>1. QED BY <1>12, RowIs
  <2>3. t \in Timelock /\ Timely(t, releaseSchedules, now)
    <3> HIDE DEF row
    <3>1. QED BY <1>1, <1>2, RowTimely
  <2> HIDE DEF t, m
  <2>4. /\ Timely(Paying(t, m), releaseSchedules, now)
        /\ WorthOf(Paying(t, m), releaseSchedules, now) <= WorthOf(t, releaseSchedules, now)
    BY <2>1, <2>3, StillInTime
  <2>5. /\ WorthOf(Paying(t, m), releaseSchedules, now) \in Nat
        /\ WorthOf(t, releaseSchedules, now) \in Nat
    BY <2>1, <2>2, <2>3, <2>4, TimelockIs DEF Timely
  <2> HIDE DEF row2
  <2>6. QED BY <2>1, <2>4, <2>5 DEF t
<1> HIDE DEF row2
<1>14. RowInTime(row2, releaseSchedules, now)
  <2> HIDE DEF row
  <2>1. QED BY <1>12, <1>13 DEF RowInTime
<1>15. Worth(row2, releaseSchedules, now) <= Worth(row, releaseSchedules, now)
  <2> DEFINE D == DOMAIN row
             g == [i \in D |-> WorthOf(row[i], releaseSchedules, now)]
             g2 == [i \in DOMAIN row2 |-> WorthOf(row2[i], releaseSchedules, now)]
  <2>1. IsFiniteSet(D)
    BY <1>1, RowIs
  <2>2. \A i \in D : g2[i] \in Int /\ g[i] \in Int /\ g2[i] <= g[i]
    BY <1>12, <1>13
  <2> HIDE DEF g, g2
  <2>3. SumOver(g2, D) <= SumOver(g, D)
    <3> HIDE DEF D
    <3>1. QED BY <2>1, <2>2, SumMonotone
  <2>4. QED BY <1>12, <2>3 DEF Worth, g, g2, D
<1>16. /\ Drawn(locks, x, value) \in Rows
       /\ \A y \in Accounts : Drawn(locks, x, value)[y] = IF y = x THEN row2 ELSE locks[y]
       /\ InRows(Drawn(locks, x, value)) = InRows(locks) + (InRow(row2) - InRow(locks[x]))
  <2> DEFINE locks2 == [locks EXCEPT ![x] = row2]
  <2>1. IsRow(row2) /\ Drawn(locks, x, value) = locks2
    BY <1>5, <1>12
  <2>2. /\ locks2 \in Rows
        /\ \A y \in Accounts : locks2[y] = IF y = x THEN row2 ELSE locks[y]
        /\ InRows(locks2) = InRows(locks) + (InRow(row2) - InRow(locks[x]))
    BY <2>1, RowChanges
  <2> HIDE DEF locks2
  <2>3. QED BY <2>1, <2>2
<1>17. RowsInTime(Drawn(locks, x, value))
  BY <1>14, <1>16 DEF RowsInTime
<1>18. InRow(row2) = InRow(locks[x]) - Taken(locks, x, value)
  BY <1>1, <1>10, <1>12
<1>19. InRows(Drawn(locks, x, value)) = InRows(locks) - Taken(locks, x, value)
  <2>1. InRow(locks[x]) \in Int /\ InRows(locks) \in Int
    BY <1>1, RowIs, RowsAre
  <2>2. QED BY <1>10, <1>16, <1>18, <2>1
<1>20. QED BY <1>10, <1>12, <1>15, <1>16, <1>17, <1>18, <1>19

-----------------------------------------------------------------------------
(* Moving tokens *)

\* A change of two wallets, or none when the two are the same.
After(b, from, to, n, x) ==
  b[x] - (IF x = from THEN n ELSE 0) + (IF x = to THEN n ELSE 0)

LEMMA OneWallet ==
  ASSUME NEW b, b \in Wallets, NEW c, c \in Wallets, NEW x, x \in Accounts, NEW n, n \in Nat,
         SameBut(b, c, Accounts, x), c[x] = n
  PROVE  SumOver(c, Accounts) = SumOver(b, Accounts) + (n - b[x])
<1>1. IntsOn(b, Accounts) /\ IntsOn(c, Accounts)
  BY DEF Wallets, IntsOn
<1>2. IsFiniteSet(Accounts)
  BY AccountsAreFinite
<1>3. SumOver(c, Accounts) = SumOver(b, Accounts) + (c[x] - b[x])
  BY ONLY <1>1, <1>2, SameBut(b, c, Accounts, x), x \in Accounts, OneSummand
<1>4. QED BY <1>3

LEMMA WalletWith ==
  ASSUME NEW b \in Wallets, NEW x \in Accounts, NEW n \in Nat
  PROVE  /\ [b EXCEPT ![x] = n] \in Wallets
         /\ [b EXCEPT ![x] = n][x] = n
         /\ SameBut(b, [b EXCEPT ![x] = n], Accounts, x)
BY DEF Wallets, SameBut

LEMMA MovedIs ==
  ASSUME NEW b \in Wallets, NEW from \in Accounts, NEW to \in Accounts, NEW n \in Nat, b[from] >= n
  PROVE  /\ Moved(b, from, to, n) \in Wallets
         /\ \A x \in Accounts : Moved(b, from, to, n)[x] = After(b, from, to, n, x)
         /\ SumOver(Moved(b, from, to, n), Accounts) = SumOver(b, Accounts)
<1> DEFINE v == b[from] - n
           c == [b EXCEPT ![from] = v]
           w == c[to] + n
           d == [c EXCEPT ![to] = w]
<1>1. Moved(b, from, to, n) = d
  BY DEF Moved
<1>2. \A x \in Accounts : b[x] \in Nat
  BY DEF Wallets
<1>3. v \in Nat /\ v = b[from] - n
  BY <1>2
<1> HIDE DEF v
<1>4. c \in Wallets /\ c[from] = v /\ SameBut(b, c, Accounts, from)
  BY <1>3, WalletWith
<1> HIDE DEF c
<1>5. w \in Nat /\ w = c[to] + n
  BY <1>4 DEF Wallets
<1> HIDE DEF w
<1>6. d \in Wallets /\ d[to] = w /\ SameBut(c, d, Accounts, to)
  BY <1>4, <1>5, WalletWith
<1> HIDE DEF d
<1>10. /\ SumOver(c, Accounts) = SumOver(b, Accounts) + (v - b[from])
       /\ SumOver(d, Accounts) = SumOver(c, Accounts) + (w - c[to])
  BY <1>3, <1>4, <1>5, <1>6, OneWallet
<1>7. \A x \in Accounts : d[x] = After(b, from, to, n, x)
  <2>1. ASSUME NEW x \in Accounts PROVE d[x] = After(b, from, to, n, x)
    <3>1. /\ d[x] = IF x = to THEN w ELSE c[x]
          /\ c[x] = IF x = from THEN v ELSE b[x]
          /\ c[to] = IF to = from THEN v ELSE b[to]
          /\ b[x] \in Nat /\ b[to] \in Nat /\ b[from] \in Nat
      BY <1>2, <1>4, <1>6 DEF SameBut
    <3>2. QED BY <1>3, <1>5, <3>1 DEF After
  <2>2. QED BY <2>1
<1>8. SumOver(d, Accounts) = SumOver(b, Accounts)
  <2>1. SumOver(b, Accounts) \in Int
    BY <1>2, SumInt, AccountsAreFinite
  <2>2. b[from] \in Nat /\ c[to] \in Nat
    BY <1>2, <1>4 DEF Wallets
  <2>3. QED BY <1>3, <1>5, <1>10, <2>1, <2>2
<1>9. QED BY <1>1, <1>6, <1>7, <1>8

LEMMA SentIs ==
  ASSUME LockInv, NEW from \in Users, NEW to \in Accounts, NEW value \in Nat,
         Sent(from, to, value)
  PROVE  LET released == Taken(timelocks, from, value) IN
         /\ released \in Nat /\ value - released \in Nat /\ value < Word
         /\ tokens' \in Wallets /\ SumOver(tokens', Accounts) = SumOver(tokens, Accounts)
         /\ \A x \in Accounts : tokens'[x] =
              tokens[x] - (IF x = Token THEN released ELSE 0) + (IF x = to THEN value ELSE 0)
                        - (IF x = from THEN value - released ELSE 0)
         /\ \E xs \in SUBSET Accounts :
              /\ Recorded(Drawn(timelocks, from, value), xs)
              /\ \A x \in Accounts : tokens'[x] # tokens[x] => x \in xs
<1> DEFINE released == Taken(timelocks, from, value)
           simple == value - released
           b == Moved(tokens, Token, to, released)
           xs == (IF released > 0 THEN {Token, to} ELSE {}) \cup (IF simple > 0 THEN {from, to} ELSE {})
<1>1. from \in Accounts /\ Token \in Accounts /\ from # Token
  BY AddressAssumption DEF Accounts
<1>2. released \in Nat /\ released <= value
  BY <1>1, LockFacts, DrawnIs
<1>3. /\ tokens[from] + UnlockedOf(from) \in value .. Word - 1
      /\ tokens[Token] >= released /\ tokens[from] >= simple
      /\ tokens' = Moved(b, from, to, simple) /\ Recorded(Drawn(timelocks, from, value), xs)
  BY DEF Sent
<1> HIDE DEF released
<1>4. tokens \in Wallets /\ \A x \in Accounts : tokens[x] \in Nat
  BY LockFacts
<1>5. simple \in Nat /\ tokens[from] >= simple /\ value < Word
  BY <1>1, <1>2, <1>3, NumberAssumption
<1>6. /\ b \in Wallets /\ \A x \in Accounts : b[x] = After(tokens, Token, to, released, x)
      /\ SumOver(b, Accounts) = SumOver(tokens, Accounts)
  BY <1>1, <1>2, <1>3, <1>4, MovedIs
<1> HIDE DEF b
<1>7. b[from] >= simple
  BY <1>1, <1>2, <1>4, <1>5, <1>6 DEF After
<1> HIDE DEF simple
<1>8. /\ tokens' \in Wallets /\ \A x \in Accounts : tokens'[x] = After(b, from, to, simple, x)
      /\ SumOver(tokens', Accounts) = SumOver(b, Accounts)
  BY <1>1, <1>3, <1>5, <1>6, <1>7, MovedIs
<1>9. ASSUME NEW x \in Accounts
      PROVE  /\ tokens'[x] = tokens[x] - (IF x = Token THEN released ELSE 0)
                    + (IF x = to THEN value ELSE 0) - (IF x = from THEN simple ELSE 0)
             /\ tokens'[x] # tokens[x] => x \in xs
  <2>1. /\ tokens'[x] = After(b, from, to, simple, x)
        /\ b[x] = After(tokens, Token, to, released, x)
        /\ tokens[x] \in Nat
    BY <1>4, <1>6, <1>8
  <2>2. simple = value - released
    BY DEF simple
  <2>3. tokens'[x] = tokens[x] - (IF x = Token THEN released ELSE 0)
                    + (IF x = to THEN value ELSE 0) - (IF x = from THEN simple ELSE 0)
    BY <1>2, <1>5, <2>1, <2>2 DEF After
  <2>4. tokens'[x] # tokens[x] => x \in xs
    BY <1>2, <1>5, <2>1, <2>2 DEF After
  <2>5. QED BY <2>3, <2>4
<1>10. xs \in SUBSET Accounts
  BY <1>1
<1>11. QED BY <1>2, <1>3, <1>5, <1>6, <1>8, <1>9, <1>10 DEF released, simple

-----------------------------------------------------------------------------
(***************************************************************************)
(* A step that moves tokens: none is made or lost, what the contract holds *)
(* changes as what is left in the timelocks and the stray tokens do, and   *)
(* the hook is told of every wallet that changes.                          *)
(***************************************************************************)
Hooked ==
  \E locks \in Rows, xs \in SUBSET Accounts :
    /\ RowsInTime(locks) /\ Recorded(locks, xs)
    /\ \A x \in Accounts : tokens'[x] # tokens[x] => x \in xs
    /\ (\A x \in Accounts : timelocks'[x] = <<>>) =>
         \A x \in Accounts : timelocks[x] = <<>> /\ locks[x] = <<>>

Shifting ==
  /\ tokens' \in Wallets /\ SumOver(tokens', Accounts) = SumOver(tokens, Accounts)
  /\ timelocks' \in Rows /\ RowsInTime(timelocks') /\ stray' \in Int
  /\ UNCHANGED <<now, roleVars, ruleVars, totalSupply, releaseSchedules, snapshotId, supplySnapshots>>
  /\ allowance' \in [Users -> [Users -> Nat]]
  /\ Hooked

Moving ==
  /\ Shifting
  /\ tokens'[Token] - tokens[Token] = (InRows(timelocks') - InRows(timelocks)) + (stray' - stray)

Arrived ==
  \A u \in Users :
    tokens'[u] > tokens[u] =>
      /\ ~ isPaused /\ u \notin frozen
      /\ maxBalances[u] > 0 => tokens'[u] + Worth(timelocks'[u], releaseSchedules, now) <= maxBalances[u]

LEMMA PermittedIs ==
  ASSUME LockInv, NEW from, NEW to \in Accounts, NEW value, NEW held, Permitted(from, to, value, held)
  PROVE  /\ ~ isPaused /\ to # Token /\ to \notin frozen /\ maxBalances[to] \in Nat
         /\ maxBalances[to] > 0 => held + value <= maxBalances[to]
BY DEF Permitted, LockInv, TypeOK

LEMMA BalanceIs ==
  ASSUME LockInv, NEW x \in Accounts
  PROVE  /\ BalanceOf(x) \in Nat /\ Worth(timelocks[x], releaseSchedules, now) \in Nat
         /\ BalanceOf(x) = tokens[x] + Worth(timelocks[x], releaseSchedules, now)
<1>1. IsRow(timelocks[x]) /\ RowInTime(timelocks[x], releaseSchedules, now) /\ tokens[x] \in Nat
  BY LockFacts DEF RowsInTime
<1>2. Worth(timelocks[x], releaseSchedules, now) \in Nat
  BY <1>1, WorthIs
<1>3. QED BY <1>1, <1>2, HeldIs DEF BalanceOf

\* transfer and transferFrom.
LEMMA DrawMoves ==
  ASSUME LockInv, NEW from \in Users, NEW to \in Accounts, NEW value \in Nat,
         Permitted(from, to, value, BalanceOf(to)), Sent(from, to, value),
         timelocks' = Drawn(timelocks, from, value),
         UNCHANGED <<now, roleVars, ruleVars, totalSupply, releaseSchedules, snapshotId, supplySnapshots,
                     stray>>,
         allowance' \in [Users -> [Users -> Nat]]
  PROVE  Moving /\ Arrived
<1> DEFINE r == Taken(timelocks, from, value)
           locks == Drawn(timelocks, from, value)
<1>1. from \in Accounts /\ Token \in Accounts /\ from # Token
  BY AddressAssumption DEF Accounts
<1>2. /\ ~ isPaused /\ to # Token /\ to \notin frozen /\ maxBalances[to] \in Nat
      /\ maxBalances[to] > 0 => BalanceOf(to) + value <= maxBalances[to]
  BY PermittedIs
<1>3. /\ r \in Nat /\ value - r \in Nat
      /\ tokens' \in Wallets /\ SumOver(tokens', Accounts) = SumOver(tokens, Accounts)
      /\ \A x \in Accounts : tokens'[x] =
           tokens[x] - (IF x = Token THEN r ELSE 0) + (IF x = to THEN value ELSE 0)
                     - (IF x = from THEN value - r ELSE 0)
  BY SentIs
<1>4. PICK xs \in SUBSET Accounts :
        /\ Recorded(locks, xs)
        /\ \A x \in Accounts : tokens'[x] # tokens[x] => x \in xs
  BY SentIs
<1>5. /\ locks \in Rows /\ RowsInTime(locks)
      /\ \A y \in Accounts : y # from => locks[y] = timelocks[y]
      /\ DOMAIN locks[from] = DOMAIN timelocks[from]
      /\ Worth(locks[from], releaseSchedules, now) <= Worth(timelocks[from], releaseSchedules, now)
      /\ InRows(locks) = InRows(timelocks) - r
  BY <1>1, LockFacts, DrawnIs
<1>6. timelocks' = locks
  OBVIOUS
<1> HIDE DEF r, locks
<1>7. /\ \A x \in Accounts : tokens[x] \in Nat /\ IsRow(timelocks[x])
      /\ InRows(timelocks) \in Int /\ stray \in Int /\ stray' = stray
  BY LockFacts, RowsAre
<1>8. tokens'[Token] - tokens[Token] = (InRows(timelocks') - InRows(timelocks)) + (stray' - stray)
  BY <1>1, <1>2, <1>3, <1>5, <1>6, <1>7
<1>9. (\A x \in Accounts : timelocks'[x] = <<>>) =>
         \A x \in Accounts : timelocks[x] = <<>> /\ locks[x] = <<>>
  <2>1. IsRow(timelocks[from]) /\ DOMAIN timelocks'[from] = DOMAIN timelocks[from]
    BY <1>1, <1>5, <1>6, <1>7
  <2>2. timelocks'[from] = <<>> => timelocks[from] = <<>>
    <3>1. timelocks'[from] = <<>> => DOMAIN timelocks'[from] = {}
      OBVIOUS
    <3>2. QED BY <2>1, <3>1, EmptyRow
  <2>3. QED BY <1>1, <1>5, <1>6, <2>2
<1>10. Hooked
  BY <1>4, <1>5, <1>9 DEF Hooked
<1>11. Moving
  BY <1>3, <1>5, <1>6, <1>7, <1>8, <1>10 DEF Moving, Shifting
<1>12. ASSUME NEW u \in Users, tokens'[u] > tokens[u]
       PROVE  /\ ~ isPaused /\ u \notin frozen
              /\ maxBalances[u] > 0 => tokens'[u] + Worth(timelocks'[u], releaseSchedules, now) <= maxBalances[u]
  <2>1. u \in Accounts /\ u # Token /\ tokens[u] \in Nat
    BY <1>7, AddressAssumption DEF Accounts
  <2>2. u = to /\ value - r \in Nat /\ value \in Nat
    BY <1>3, <1>12, <2>1
  <2>3. /\ BalanceOf(to) = tokens[to] + Worth(timelocks[to], releaseSchedules, now)
        /\ Worth(timelocks[to], releaseSchedules, now) \in Nat
        /\ Worth(locks[to], releaseSchedules, now) \in Nat
    <3>1. IsRow(locks[to]) /\ RowInTime(locks[to], releaseSchedules, now)
      BY <1>5 DEF Rows, IsRow, RowsInTime
    <3>2. QED BY <3>1, BalanceIs, WorthIs
  <2>4. CASE to # from
    <3>1. timelocks'[to] = timelocks[to]
      BY <1>5, <1>6, <2>4
    <3>2. tokens'[to] = tokens[to] + value
      <4>1. tokens[to] \in Nat /\ tokens'[to] =
              tokens[to] - (IF to = Token THEN r ELSE 0) + (IF to = to THEN value ELSE 0)
                         - (IF to = from THEN value - r ELSE 0)
        BY <1>3, <1>7
      <4>2. QED BY <1>2, <2>2, <2>4, <4>1
    <3>3. QED BY <1>2, <1>7, <2>1, <2>2, <2>3, <3>1, <3>2
  <2>5. CASE to = from
    <3>1. /\ tokens'[to] = tokens[to] + r /\ timelocks'[to] = locks[to]
          /\ Worth(locks[to], releaseSchedules, now) <= Worth(timelocks[to], releaseSchedules, now)
      BY <1>2, <1>3, <1>5, <1>6, <1>7, <2>5
    <3>2. QED BY <1>2, <1>3, <1>7, <2>1, <2>2, <2>3, <3>1
  <2>6. QED BY <2>4, <2>5
<1>13. Arrived
  BY <1>12 DEF Arrived
<1>14. QED BY <1>11, <1>13

\* One timelock of a holder is replaced.
WithTimelock(locks, x, i, t) == [locks EXCEPT ![x] = [locks[x] EXCEPT ![i] = t]]

LEMMA OneTimelock ==
  ASSUME LockInv, NEW locks \in Rows, RowsInTime(locks),
         NEW x \in Accounts, NEW i \in DOMAIN locks[x], NEW t \in Timelock,
         Timely(t, releaseSchedules, now)
  PROVE  /\ WithTimelock(locks, x, i, t) \in Rows /\ RowsInTime(WithTimelock(locks, x, i, t))
         /\ \A y \in Accounts : y # x => WithTimelock(locks, x, i, t)[y] = locks[y]
         /\ WithTimelock(locks, x, i, t)[x] # <<>>
         /\ InRows(WithTimelock(locks, x, i, t)) = InRows(locks) + (Left(t) - Left(locks[x][i]))
         /\ Worth(WithTimelock(locks, x, i, t)[x], releaseSchedules, now)
              = Worth(locks[x], releaseSchedules, now)
                  + (WorthOf(t, releaseSchedules, now) - WorthOf(locks[x][i], releaseSchedules, now))
<1> DEFINE row == locks[x]
           row2 == [row EXCEPT ![i] = t]
           locks2 == [locks EXCEPT ![x] = row2]
           D == DOMAIN row
           f == [j \in D |-> WorthOf(row[j], releaseSchedules, now)]
           g == [j \in DOMAIN row2 |-> WorthOf(row2[j], releaseSchedules, now)]
<1>1. IsRow(row) /\ RowInTime(row, releaseSchedules, now) /\ i \in D
  BY DEF Rows, IsRow, RowsInTime
<1> HIDE DEF row
<1>2. /\ IsRow(row2) /\ DOMAIN row2 = D
      /\ \A j \in D : row2[j] = IF j = i THEN t ELSE row[j]
      /\ InRow(row2) = InRow(row) + (Left(t) - Left(row[i]))
  BY <1>1, RowWithOne
<1> HIDE DEF row2
<1>3. /\ locks2 \in Rows
      /\ \A y \in Accounts : locks2[y] = IF y = x THEN row2 ELSE locks[y]
      /\ InRows(locks2) = InRows(locks) + (InRow(row2) - InRow(row))
  BY <1>2, RowChanges DEF row
<1> HIDE DEF locks2
<1>4. RowInTime(row2, releaseSchedules, now)
  BY <1>1, <1>2 DEF RowInTime
<1>5. RowsInTime(locks2)
  BY <1>3, <1>4 DEF RowsInTime
<1>6. row2 # <<>>
  BY <1>1, <1>2
<1>7. InRow(row) \in Int /\ Left(t) \in Int /\ Left(row[i]) \in Int /\ InRows(locks) \in Int
  BY <1>1, RowIs, LeftIs, RowsAre
<1>8. Worth(row2, releaseSchedules, now) = Worth(row, releaseSchedules, now)
        + (WorthOf(t, releaseSchedules, now) - WorthOf(row[i], releaseSchedules, now))
  <2>1. IsFiniteSet(D)
    BY <1>1, RowIs
  <2>2. ASSUME NEW j \in D PROVE f[j] \in Int /\ g[j] \in Int
    <3>1. WorthOf(row[j], releaseSchedules, now) \in Nat
      BY <1>1, RowTimely, TimelockIs
    <3>2. WorthOf(row2[j], releaseSchedules, now) \in Nat
      BY <1>2, <1>4, RowTimely, TimelockIs
    <3>3. QED BY <1>2, <3>1, <3>2
  <2>3. \A j \in D : j # i => g[j] = f[j]
    BY <1>2
  <2>4. g[i] = WorthOf(t, releaseSchedules, now) /\ f[i] = WorthOf(row[i], releaseSchedules, now)
    BY <1>1, <1>2
  <2> HIDE DEF f, g
  <2>5. SumOver(g, D) = SumOver(f, D) + (g[i] - f[i])
    <3> HIDE DEF D
    <3>1. QED BY <1>1, <2>1, <2>2, <2>3, SumUpdate
  <2>6. QED BY <1>2, <2>4, <2>5 DEF Worth, f, g, D
<1>9. WithTimelock(locks, x, i, t) = locks2
  BY DEF WithTimelock, locks2, row2, row
<1>10. locks2[x] = row2 /\ row = locks[x]
  BY <1>3 DEF row
<1>11. InRows(locks2) = InRows(locks) + (Left(t) - Left(row[i]))
  BY <1>2, <1>3, <1>7
<1>12. QED BY <1>3, <1>5, <1>6, <1>8, <1>9, <1>10, <1>11

LEMMA TransferTimelockMoves ==
  ASSUME LockInv, NEW u \in Users, NEW to \in Accounts, NEW value \in Nat,
         NEW i \in DOMAIN timelocks[u], TransferTimelock(u, to, value, i)
  PROVE  Moving /\ Arrived
<1> DEFINE t == timelocks[u][i]
           t2 == Paying(t, value)
           locks == WithTimelock(timelocks, u, i, t2)
           r == Taken(locks, Token, value)
           locks2 == Drawn(locks, Token, value)
           xs == IF value > 0 THEN {Token, to} ELSE {}
<1>1. u \in Accounts /\ Token \in Accounts /\ u # Token
  BY AddressAssumption DEF Accounts
<1>2. [timelocks EXCEPT ![u][i] = Paying(@, value)] = locks
  BY DEF WithTimelock
<1>3. /\ UnlockedAmount(t) >= value
      /\ Permitted(Token, to, value, Held(locks, to))
      /\ tokens[Token] >= value
      /\ timelocks' = locks2
      /\ stray' = stray + r
      /\ tokens' = Moved(tokens, Token, to, value)
      /\ Recorded(locks2, xs)
      /\ UNCHANGED <<now, roleVars, ruleVars, totalSupply, allowance, releaseSchedules,
                 snapshotId, supplySnapshots>>
  BY <1>2 DEF TransferTimelock
<1>4. /\ t \in Timelock /\ Timely(t, releaseSchedules, now)
      /\ UnlockedAmount(t) \in Nat /\ Drawable(t) \in Nat /\ UnlockedAmount(t) <= Drawable(t)
  <2>1. IsRow(timelocks[u]) /\ RowInTime(timelocks[u], releaseSchedules, now)
    BY <1>1, LockFacts DEF RowsInTime
  <2>2. t \in Timelock /\ Timely(t, releaseSchedules, now)
    BY <2>1, RowTimely
  <2> HIDE DEF t
  <2>3. QED BY <2>2, TimelockIs DEF Timely
<1>5. /\ t2 \in Timelock /\ Timely(t2, releaseSchedules, now)
      /\ Left(t2) = Left(t) - value /\ Left(t) \in Int
      /\ WorthOf(t2, releaseSchedules, now) <= WorthOf(t, releaseSchedules, now)
      /\ WorthOf(t2, releaseSchedules, now) \in Nat /\ WorthOf(t, releaseSchedules, now) \in Nat
  <2> HIDE DEF t
  <2>1. value <= Drawable(t)
    BY <1>3, <1>4
  <2>2. Timely(t2, releaseSchedules, now)
        /\ WorthOf(t2, releaseSchedules, now) <= WorthOf(t, releaseSchedules, now)
    BY <1>4, <2>1, StillInTime
  <2>3. t2 \in Timelock /\ Left(t2) = Left(t) - value /\ Left(t) \in Int
    BY <1>4, PayingIs, LeftIs
  <2> HIDE DEF t2
  <2>4. QED BY <1>4, <2>2, <2>3, TimelockIs DEF Timely
<1> HIDE DEF t2
<1>6. /\ tokens \in Wallets /\ \A x \in Accounts : tokens[x] \in Nat /\ IsRow(timelocks[x])
      /\ InRows(timelocks) \in Int /\ stray \in Int /\ timelocks \in Rows /\ RowsInTime(timelocks)
  BY LockFacts, RowsAre
<1>7. /\ locks \in Rows /\ RowsInTime(locks)
      /\ \A y \in Accounts : y # u => locks[y] = timelocks[y]
      /\ locks[u] # <<>>
      /\ InRows(locks) = InRows(timelocks) + (Left(t2) - Left(t))
  BY <1>1, <1>5, <1>6, OneTimelock
<1> HIDE DEF locks, t
<1>8. /\ r \in Nat /\ r <= value
      /\ locks2 \in Rows /\ RowsInTime(locks2)
      /\ \A y \in Accounts : y # Token => locks2[y] = locks[y]
      /\ InRows(locks2) = InRows(locks) - r
  BY <1>1, <1>7, DrawnIs
<1> HIDE DEF locks2, r
<1>9. /\ tokens' \in Wallets /\ SumOver(tokens', Accounts) = SumOver(tokens, Accounts)
      /\ \A x \in Accounts : tokens'[x] = After(tokens, Token, to, value, x)
  BY <1>1, <1>3, <1>6, MovedIs
<1>10. /\ ~ isPaused /\ to # Token /\ to \notin frozen /\ maxBalances[to] \in Nat
       /\ maxBalances[to] > 0 => Held(locks, to) + value <= maxBalances[to]
  BY <1>3, PermittedIs
<1>11. tokens'[Token] - tokens[Token] = (InRows(timelocks') - InRows(timelocks)) + (stray' - stray)
  <2>1. tokens'[Token] = tokens[Token] - value
    BY <1>1, <1>6, <1>9, <1>10 DEF After
  <2>2. InRows(locks2) = InRows(timelocks) - value - r
    BY <1>5, <1>6, <1>7, <1>8
  <2>3. QED BY <1>1, <1>3, <1>6, <1>8, <2>1, <2>2
<1>12. Hooked
  <2>1. \A x \in Accounts : tokens'[x] # tokens[x] => x \in xs
    BY <1>6, <1>9 DEF After
  <2>2. xs \in SUBSET Accounts
    BY <1>1
  <2>3. ~ \A x \in Accounts : timelocks'[x] = <<>>
    BY <1>1, <1>3, <1>7, <1>8
  <2> HIDE DEF xs
  <2>4. QED BY <1>3, <1>8, <2>1, <2>2, <2>3 DEF Hooked
<1>13. allowance' \in [Users -> [Users -> Nat]]
  BY <1>3 DEF LockInv, TypeOK
<1>14. stray' \in Int
  BY <1>3, <1>6, <1>8
<1>15. Moving
  BY <1>3, <1>8, <1>9, <1>11, <1>12, <1>13, <1>14 DEF Moving, Shifting
<1>16. ASSUME NEW w \in Users, tokens'[w] > tokens[w]
       PROVE  /\ ~ isPaused /\ w \notin frozen
              /\ maxBalances[w] > 0 => tokens'[w] + Worth(timelocks'[w], releaseSchedules, now) <= maxBalances[w]
  <2>1. w \in Accounts /\ w # Token /\ tokens[w] \in Nat
    BY <1>6, AddressAssumption DEF Accounts
  <2>2. w = to /\ tokens'[to] = tokens[to] + value
    BY <1>9, <1>10, <1>16, <2>1 DEF After
  <2>3. Held(locks, to) = tokens[to] + Worth(locks[to], releaseSchedules, now)
        /\ Worth(locks[to], releaseSchedules, now) \in Nat
    <3>1. IsRow(locks[to]) /\ RowInTime(locks[to], releaseSchedules, now)
      BY <1>7 DEF Rows, IsRow, RowsInTime
    <3>2. QED BY <3>1, HeldIs, WorthIs
  <2>4. timelocks'[to] = locks[to]
    BY <1>3, <1>8, <1>10
  <2>5. QED BY <1>10, <2>1, <2>2, <2>3, <2>4
<1>17. Arrived
  BY <1>16 DEF Arrived
<1>18. QED BY <1>15, <1>17

LEMMA FundMoves ==
  ASSUME LockInv, NEW u \in Users, NEW to \in Accounts, NEW amount \in Nat, NEW start \in Nat,
         NEW i \in DOMAIN releaseSchedules, NEW cancelers \in SUBSET Users,
         FundReleaseSchedule(u, to, amount, start, i, cancelers)
  PROVE  Moving /\ Arrived
<1> DEFINE locks == Drawn(timelocks, u, amount)
           r == Taken(timelocks, u, amount)
           t == [scheduleId |-> i, commencement |-> start, transferred |-> 0, total |-> amount,
                 cancelableBy |-> cancelers, paid |-> 0]
           row == Append(locks[to], t)
           locks2 == [locks EXCEPT ![to] = row]
<1>1. u \in Accounts /\ Token \in Accounts /\ u # Token
  BY AddressAssumption DEF Accounts
<1>2. /\ Sent(u, Token, amount)
      /\ UNCHANGED <<now, roleVars, ruleVars, totalSupply, allowance, releaseSchedules,
                     snapshotId, supplySnapshots, stray>>
  BY DEF FundReleaseSchedule
<1>3. timelocks' = locks2
  BY DEF FundReleaseSchedule
<1>4. /\ r \in Nat /\ amount - r \in Nat /\ amount < Word
      /\ tokens' \in Wallets /\ SumOver(tokens', Accounts) = SumOver(tokens, Accounts)
      /\ \A x \in Accounts : tokens'[x] =
           tokens[x] - (IF x = Token THEN r ELSE 0) + (IF x = Token THEN amount ELSE 0)
                     - (IF x = u THEN amount - r ELSE 0)
  BY <1>1, <1>2, SentIs
<1>5. PICK xs \in SUBSET Accounts :
        /\ Recorded(locks, xs)
        /\ \A x \in Accounts : tokens'[x] # tokens[x] => x \in xs
  BY <1>1, <1>2, SentIs
<1>6. /\ locks \in Rows /\ RowsInTime(locks)
      /\ InRows(locks) = InRows(timelocks) - r
  BY <1>1, LockFacts, DrawnIs
<1> HIDE DEF locks, r
<1>7. /\ t \in Timelock /\ t.total = amount /\ t.transferred = 0 /\ t.paid = 0 /\ t.scheduleId = i
  <2>1. i \in Nat
    BY DEF LockInv, TypeOK
  <2>2. QED BY <2>1 DEF Timelock
<1>8. Left(t) = amount
  BY <1>7 DEF Left
<1>9. Timely(t, releaseSchedules, now)
  <2>1. ValidRules(releaseSchedules) /\ now \in Nat
    BY LockFacts DEF LockInv
  <2> HIDE DEF t
  <2>2. /\ Releases(t, releaseSchedules, now) \in Nat
        /\ FitsIn(t, releaseSchedules) /\ EndFitsIn(t, releaseSchedules) =>
             Releases(t, releaseSchedules, now) = ReleasedBy(t, releaseSchedules, now)
    BY <1>7, <2>1, ReleasesAre
  <2>3. InTime(t, releaseSchedules, now)
    BY <1>7, <2>2 DEF InTime
  <2>4. QED BY <1>4, <1>7, <2>3 DEF Timely
<1> HIDE DEF t
<1>10. IsRow(locks[to])
  BY <1>6 DEF Rows, IsRow
<1>11. IsRow(row) /\ InRow(row) = InRow(locks[to]) + amount
  <2>1. IsRow(row) /\ InRow(row) = InRow(locks[to]) + Left(t)
    BY <1>7, <1>10, RowAppended DEF IsRow
  <2>2. QED BY <1>8, <2>1
<1>12. RowInTime(row, releaseSchedules, now) /\ row # <<>>
  <2>1. RowInTime(locks[to], releaseSchedules, now)
    BY <1>6 DEF RowsInTime
  <2>2. /\ DOMAIN row = DOMAIN locks[to] \cup {Len(locks[to]) + 1}
        /\ \A j \in DOMAIN locks[to] : row[j] = locks[to][j]
        /\ row[Len(locks[to]) + 1] = t
    BY <1>10 DEF IsRow
  <2>3. ASSUME NEW j \in DOMAIN row PROVE Timely(row[j], releaseSchedules, now)
    <3>1. CASE j \in DOMAIN locks[to]
      BY <2>1, <2>2, <3>1 DEF RowInTime
    <3>2. CASE j = Len(locks[to]) + 1
      BY <1>9, <2>2, <3>2
    <3>3. QED BY <2>2, <3>1, <3>2
  <2>4. RowInTime(row, releaseSchedules, now)
    BY <2>3 DEF RowInTime
  <2>5. row # <<>>
    BY <2>2
  <2>6. QED BY <2>4, <2>5
<1> HIDE DEF row
<1>13. /\ locks2 \in Rows
       /\ \A y \in Accounts : locks2[y] = IF y = to THEN row ELSE locks[y]
       /\ InRows(locks2) = InRows(locks) + (InRow(row) - InRow(locks[to]))
  BY <1>6, <1>11, RowChanges
<1> HIDE DEF locks2
<1>14. RowsInTime(locks2)
  BY <1>6, <1>12, <1>13 DEF RowsInTime
<1>15. /\ \A x \in Accounts : tokens[x] \in Nat
       /\ InRows(timelocks) \in Int /\ InRow(locks[to]) \in Int
       /\ stray \in Int /\ stray' = stray
  BY <1>2, <1>10, LockFacts, RowsAre, RowIs
<1>16. tokens'[Token] - tokens[Token] = (InRows(timelocks') - InRows(timelocks)) + (stray' - stray)
  <2>1. tokens'[Token] = tokens[Token] + (amount - r)
    BY <1>1, <1>4, <1>15
  <2>2. InRows(locks2) = InRows(timelocks) - r + amount
    BY <1>6, <1>11, <1>13, <1>15, <1>4
  <2>3. QED BY <1>1, <1>3, <1>4, <1>15, <2>1, <2>2
<1>17. Hooked
  <2>1. ~ \A x \in Accounts : timelocks'[x] = <<>>
    BY <1>3, <1>12, <1>13
  <2>2. QED BY <1>5, <1>6, <2>1 DEF Hooked
<1>18. allowance' \in [Users -> [Users -> Nat]]
  BY <1>2 DEF LockInv, TypeOK
<1>19. Moving
  BY <1>2, <1>3, <1>4, <1>13, <1>14, <1>15, <1>16, <1>17, <1>18 DEF Moving, Shifting
<1>20. ASSUME NEW w \in Users PROVE ~ (tokens'[w] > tokens[w])
  <2>1. w \in Accounts /\ w # Token /\ tokens[w] \in Nat
    BY <1>15, AddressAssumption DEF Accounts
  <2>2. QED BY <1>4, <2>1
<1>21. QED BY <1>19, <1>20 DEF Arrived

\* What a cancellation may close: what it pays is what the timelock has left,
\* for a wrapped release is more than the contract can hold.
LEMMA CanceledIs ==
  ASSUME LockInv, NEW t \in Timelock, Timely(t, releaseSchedules, now), LockedAmount(t) > 0,
         tokens[Token] >= LockedAmount(t) + UnlockedAmount(t),
         NEW t2, t2 = Closing(t, UnlockedAmount(t))
  PROVE  /\ LockedAmount(t) \in Nat /\ UnlockedAmount(t) \in Nat
         /\ LockedAmount(t) + UnlockedAmount(t) = Left(t) /\ Left(t) \in Int
         /\ WorthOf(t, releaseSchedules, now) = Left(t)
         /\ t2 \in Timelock /\ Timely(t2, releaseSchedules, now) /\ Left(t2) = 0
         /\ WorthOf(t2, releaseSchedules, now) = 0
<1> DEFINE r == Releases(t, releaseSchedules, now)
           w == Wrapped(r - t.transferred)
           n == t.paid + UnlockedAmount(t)
<1>1. t.scheduleId \in DOMAIN releaseSchedules /\ t.total < Word /\ InTime(t, releaseSchedules, now)
  BY DEF Timely
<1>2. /\ t.total \in Nat /\ t.transferred \in Nat /\ t.paid \in Nat
      /\ Left(t) = t.total - t.transferred /\ r \in Nat /\ r <= t.total
      /\ LockedAmount(t) \in Nat /\ UnlockedAmount(t) \in Nat
      /\ LockedAmount(t) = IF t.total <= t.transferred THEN 0 ELSE t.total - r
      /\ UnlockedAmount(t) = IF t.total <= t.transferred THEN 0 ELSE w
      /\ LockedAmount(t) + UnlockedAmount(t) = WorthOf(t, releaseSchedules, now)
  BY <1>1, TimelockIs
<1>3. t.transferred < t.total /\ LockedAmount(t) = t.total - r /\ UnlockedAmount(t) = w
  BY <1>2
<1>4. Word \in Nat
  BY NumberAssumption
<1>5. tokens[Token] \in Nat /\ tokens[Token] < Word
  <2>1. Token \in Accounts /\ \A x \in Accounts : tokens[x] \in Nat
    BY LockFacts
  <2>2. tokens[Token] <= SumOver(tokens, Accounts)
    BY <2>1, AccountsAreFinite, SumMember
  <2>3. SumOver(tokens, Accounts) \in Nat
    BY <2>1, AccountsAreFinite, SumNat
  <2>4. SumOver(tokens, Accounts) < Word
    <3>1. totalSupply = SumOver(tokens, Accounts) /\ totalSupply <= MaxTotalSupply
      BY DEF LockInv, SupplyIsHeld
    <3>2. MaxTotalSupply \in Nat /\ MaxTotalSupply < Word
      BY NumberAssumption
    <3>3. QED BY <1>4, <2>3, <3>1, <3>2
  <2>5. QED BY <1>4, <2>1, <2>2, <2>3, <2>4
<1>6. r >= t.transferred /\ w = r - t.transferred
  <2>1. /\ r - t.transferred \in Int
        /\ r - t.transferred > 0 - Word /\ r - t.transferred < Word
    BY <1>1, <1>2, <1>3, <1>4
  <2>2. /\ r - t.transferred >= 0 => w = r - t.transferred
        /\ r - t.transferred < 0 => w = (r - t.transferred) + Word
    BY <2>1, WrappedIs
  <2>3. tokens[Token] >= (t.total - r) + w
    BY <1>3
  <2> HIDE DEF r, w
  <2>4. QED BY <1>2, <1>3, <1>4, <1>5, <2>1, <2>2, <2>3
<1>7. LockedAmount(t) + UnlockedAmount(t) = Left(t) /\ Left(t) \in Int
  BY <1>2, <1>3, <1>6
<1>8. n \in Nat
  BY <1>2
<1>9. /\ t2 \in Timelock /\ t2.transferred = t.total /\ t2.paid = n
      /\ t2.total = t.total /\ t2.scheduleId = t.scheduleId /\ t2.commencement = t.commencement
  <2> DEFINE m == t.total
  <2>1. t2 = [t EXCEPT !.transferred = m, !.paid = n]
    BY DEF Closing
  <2>2. m \in Nat /\ m = t.total
    BY <1>2
  <2> HIDE DEF m, n
  <2> DEFINE t3 == [t EXCEPT !.transferred = m, !.paid = n]
  <2>3. /\ t3 \in Timelock /\ t3.transferred = m /\ t3.paid = n
        /\ t3.total = t.total /\ t3.scheduleId = t.scheduleId /\ t3.commencement = t.commencement
    BY <1>8, <2>2 DEF Timelock
  <2> HIDE DEF t3
  <2>4. t2 = t3
    BY <2>1 DEF t3
  <2>5. QED BY <2>2, <2>3, <2>4
<1>10. Left(t2) = 0
  BY <1>2, <1>9 DEF Left
<1>11. WorthOf(t2, releaseSchedules, now) = 0
  BY <1>2, <1>9 DEF WorthOf
<1>12. /\ ReleasedBy(t2, releaseSchedules, now) = ReleasedBy(t, releaseSchedules, now)
       /\ FitsIn(t2, releaseSchedules) <=> FitsIn(t, releaseSchedules)
       /\ EndFitsIn(t2, releaseSchedules) <=> EndFitsIn(t, releaseSchedules)
  BY <1>9 DEF ReleasedBy, FitsIn, EndFitsIn
<1>13. InTime(t2, releaseSchedules, now)
  <2>1. SUFFICES ASSUME FitsIn(t, releaseSchedules), EndFitsIn(t, releaseSchedules)
                 PROVE  n <= ReleasedBy(t, releaseSchedules, now)
    BY <1>9, <1>12 DEF InTime
  <2>2. r = ReleasedBy(t, releaseSchedules, now)
    <3>1. now \in Nat /\ ValidRules(releaseSchedules)
      BY LockFacts DEF LockInv
    <3>2. QED BY <1>1, <2>1, <3>1, ReleasesAre
  <2>3. t.transferred = t.paid
    BY <1>1, <1>2, <1>3, <2>1 DEF InTime
  <2> HIDE DEF r, w
  <2>4. n = r
    BY <1>2, <1>3, <1>6, <2>3
  <2>5. QED BY <1>2, <2>2, <2>4
<1>14. Timely(t2, releaseSchedules, now)
  BY <1>1, <1>9, <1>13 DEF Timely
<1>15. QED BY <1>2, <1>7, <1>9, <1>10, <1>11, <1>14

LEMMA CancelMoves ==
  ASSUME LockInv, NEW u \in Users, NEW target \in Accounts, NEW i \in DOMAIN timelocks[target],
         NEW reclaimTo \in Accounts, CancelTimelock(u, target, i, reclaimTo)
  PROVE  Moving /\ Arrived
<1> DEFINE t == timelocks[target][i]
           canceled == LockedAmount(t)
           paid == UnlockedAmount(t)
           first == Drawn(timelocks, Token, canceled)
           second == Drawn(first, Token, paid)
           r1 == Taken(timelocks, Token, canceled)
           r2 == Taken(first, Token, paid)
           t2 == Closing(t, paid)
           locks == WithTimelock(second, target, i, t2)
           b == Moved(tokens, Token, reclaimTo, canceled)
           xs == {Token, reclaimTo} \cup (IF paid > 0 THEN {target} ELSE {})
           besides == IF reclaimTo = target THEN canceled ELSE 0
<1>1. /\ canceled > 0
      /\ Permitted(Token, reclaimTo, canceled, BalanceOf(reclaimTo))
      /\ Permitted(Token, target, paid, BalanceOf(target) + besides)
      /\ tokens[Token] >= canceled + paid
      /\ tokens' = Moved(b, Token, target, paid)
      /\ Recorded(first, xs)
      /\ timelocks' = [second EXCEPT ![target][i] = Closing(@, paid)]
      /\ stray' = stray + r1 + r2
      /\ UNCHANGED <<now, roleVars, ruleVars, totalSupply, allowance, releaseSchedules,
                 snapshotId, supplySnapshots>>
  BY DEF CancelTimelock
<1>2. target # Token /\ Token \in Accounts
  BY <1>1, PermittedIs, LockFacts
<1>3. /\ tokens \in Wallets /\ \A x \in Accounts : tokens[x] \in Nat /\ IsRow(timelocks[x])
      /\ InRows(timelocks) \in Int /\ timelocks \in Rows /\ RowsInTime(timelocks) /\ stray \in Int
  BY LockFacts, RowsAre
<1>4. t \in Timelock /\ Timely(t, releaseSchedules, now)
  <2>1. IsRow(timelocks[target]) /\ RowInTime(timelocks[target], releaseSchedules, now)
    BY <1>3 DEF RowsInTime
  <2>2. QED BY <2>1, RowTimely
<1>5. /\ canceled \in Nat /\ paid \in Nat /\ canceled + paid = Left(t)
      /\ WorthOf(t, releaseSchedules, now) = Left(t)
      /\ t2 \in Timelock /\ Timely(t2, releaseSchedules, now) /\ Left(t2) = 0
      /\ WorthOf(t2, releaseSchedules, now) = 0
  <2> HIDE DEF t
  <2>1. QED BY <1>1, <1>4, CanceledIs
<1> HIDE DEF canceled, paid
<1>6. /\ r1 \in Nat /\ first \in Rows /\ RowsInTime(first)
      /\ \A y \in Accounts : y # Token => first[y] = timelocks[y]
      /\ InRows(first) = InRows(timelocks) - r1
  BY <1>2, <1>3, <1>5, DrawnIs
<1> HIDE DEF first, r1
<1>7. /\ r2 \in Nat /\ second \in Rows /\ RowsInTime(second)
      /\ \A y \in Accounts : y # Token => second[y] = first[y]
      /\ InRows(second) = InRows(first) - r2
  BY <1>2, <1>5, <1>6, DrawnIs
<1> HIDE DEF second, r2
<1>8. second[target] = timelocks[target] /\ second[target][i] = t /\ i \in DOMAIN second[target]
  BY <1>2, <1>6, <1>7
<1>9. timelocks' = locks
  <2> HIDE DEF t
  <2>1. QED BY <1>1, <1>8 DEF WithTimelock
<1> HIDE DEF t2, t
<1>10. /\ locks \in Rows /\ RowsInTime(locks)
       /\ \A y \in Accounts : y # target => locks[y] = second[y]
       /\ locks[target] # <<>>
       /\ InRows(locks) = InRows(second) + (0 - (canceled + paid))
       /\ Worth(locks[target], releaseSchedules, now)
            = Worth(timelocks[target], releaseSchedules, now) + (0 - (canceled + paid))
  <2>1. /\ locks \in Rows /\ RowsInTime(locks)
        /\ \A y \in Accounts : y # target => locks[y] = second[y]
        /\ locks[target] # <<>>
        /\ InRows(locks) = InRows(second) + (Left(t2) - Left(second[target][i]))
        /\ Worth(locks[target], releaseSchedules, now) = Worth(second[target], releaseSchedules, now)
             + (WorthOf(t2, releaseSchedules, now) - WorthOf(second[target][i], releaseSchedules, now))
    BY <1>5, <1>7, <1>8, OneTimelock
  <2>2. QED BY <1>5, <1>8, <2>1
<1> HIDE DEF locks
<1>11. /\ ~ isPaused /\ reclaimTo # Token /\ reclaimTo \notin frozen /\ maxBalances[reclaimTo] \in Nat
       /\ maxBalances[reclaimTo] > 0 => BalanceOf(reclaimTo) + canceled <= maxBalances[reclaimTo]
  BY <1>1, PermittedIs
<1>12. /\ target \notin frozen /\ maxBalances[target] \in Nat
       /\ maxBalances[target] > 0 => BalanceOf(target) + besides + paid <= maxBalances[target]
  BY <1>1, PermittedIs
<1>13. /\ b \in Wallets /\ \A x \in Accounts : b[x] = After(tokens, Token, reclaimTo, canceled, x)
       /\ SumOver(b, Accounts) = SumOver(tokens, Accounts)
  <2>1. tokens[Token] >= canceled
    BY <1>1, <1>2, <1>3, <1>5
  <2>2. QED BY <1>2, <1>3, <1>5, <2>1, MovedIs
<1> HIDE DEF b
<1>14. b[Token] >= paid
  BY <1>1, <1>2, <1>3, <1>5, <1>11, <1>13 DEF After
<1>15. /\ tokens' \in Wallets /\ \A x \in Accounts : tokens'[x] = After(b, Token, target, paid, x)
       /\ SumOver(tokens', Accounts) = SumOver(b, Accounts)
  BY <1>1, <1>2, <1>5, <1>13, <1>14, MovedIs
<1>16. ASSUME NEW x \in Accounts
       PROVE  tokens'[x] = tokens[x] - (IF x = Token THEN canceled + paid ELSE 0)
                             + (IF x = reclaimTo THEN canceled ELSE 0) + (IF x = target THEN paid ELSE 0)
  <2>1. /\ tokens'[x] = After(b, Token, target, paid, x)
        /\ b[x] = After(tokens, Token, reclaimTo, canceled, x)
        /\ tokens[x] \in Nat
    BY <1>3, <1>13, <1>15
  <2>2. QED BY <1>5, <2>1 DEF After
<1>17. tokens'[Token] - tokens[Token] = (InRows(timelocks') - InRows(timelocks)) + (stray' - stray)
  <2>1. tokens'[Token] = tokens[Token] - (canceled + paid)
    BY <1>2, <1>3, <1>5, <1>11, <1>16
  <2>2. InRows(timelocks') = InRows(timelocks) - r1 - r2 - (canceled + paid)
    BY <1>3, <1>5, <1>6, <1>7, <1>9, <1>10
  <2>3. QED BY <1>1, <1>2, <1>3, <1>5, <1>6, <1>7, <2>1, <2>2
<1>18. Hooked
  <2>1. \A x \in Accounts : tokens'[x] # tokens[x] => x \in xs
    BY <1>3, <1>5, <1>16
  <2>2. xs \in SUBSET Accounts
    BY <1>2
  <2>3. ~ \A x \in Accounts : timelocks'[x] = <<>>
    BY <1>9, <1>10
  <2> HIDE DEF xs
  <2>4. QED BY <1>1, <1>6, <2>1, <2>2, <2>3 DEF Hooked
<1>19. allowance' \in [Users -> [Users -> Nat]] /\ stray' \in Int
  <2>1. allowance' = allowance /\ allowance \in [Users -> [Users -> Nat]]
    BY <1>1 DEF LockInv, TypeOK
  <2>2. stray' = stray + r1 + r2
    BY <1>1
  <2>3. QED BY <1>3, <1>6, <1>7, <2>1, <2>2
<1>20. SumOver(tokens', Accounts) = SumOver(tokens, Accounts)
  BY <1>13, <1>15
<1>21. Moving
  BY <1>1, <1>9, <1>10, <1>15, <1>17, <1>18, <1>19, <1>20 DEF Moving, Shifting
<1>22. ASSUME NEW w \in Users, tokens'[w] > tokens[w]
       PROVE  /\ ~ isPaused /\ w \notin frozen
              /\ maxBalances[w] > 0 => tokens'[w] + Worth(timelocks'[w], releaseSchedules, now) <= maxBalances[w]
  <2>1. w \in Accounts /\ w # Token /\ tokens[w] \in Nat
    BY <1>3, AddressAssumption DEF Accounts
  <2>2. w \in {reclaimTo, target}
    BY <1>5, <1>16, <1>22, <2>1
  <2>3. /\ BalanceOf(w) = tokens[w] + Worth(timelocks[w], releaseSchedules, now)
        /\ Worth(timelocks[w], releaseSchedules, now) \in Nat
    BY <2>1, BalanceIs
  <2>4. tokens'[w] = tokens[w] + (IF w = reclaimTo THEN canceled ELSE 0) + (IF w = target THEN paid ELSE 0)
    BY <1>5, <1>16, <2>1
  <2> DEFINE h == Worth(timelocks'[w], releaseSchedules, now)
             o == Worth(timelocks[w], releaseSchedules, now)
  <2>5. CASE w = target
    <3>1. h = o - (canceled + paid)
      BY <1>5, <1>9, <1>10, <2>3, <2>5
    <3> HIDE DEF h, o
    <3>2. BalanceOf(w) = tokens[w] + o /\ o \in Nat
      BY <2>3 DEF o
    <3>3. tokens'[w] + h <= BalanceOf(w)
      BY <1>5, <2>1, <2>4, <2>5, <3>1, <3>2
    <3>4. /\ maxBalances[w] > 0 => BalanceOf(w) + besides + paid <= maxBalances[w]
          /\ maxBalances[w] \in Nat /\ besides \in Nat
      BY <1>5, <1>12, <2>5
    <3>5. tokens'[w] + h \in Int /\ BalanceOf(w) \in Nat
      BY <1>5, <2>1, <2>4, <3>1, <3>2
    <3> HIDE DEF besides
    <3>6. maxBalances[w] > 0 => tokens'[w] + h <= maxBalances[w]
      BY <1>5, <3>3, <3>4, <3>5
    <3>7. QED BY <1>11, <1>12, <2>5, <3>6 DEF h
  <2>6. CASE w # target
    <3>1. w = reclaimTo /\ timelocks'[w] = timelocks[w] /\ tokens'[w] = tokens[w] + canceled
      BY <1>5, <1>6, <1>7, <1>9, <1>10, <2>1, <2>2, <2>4, <2>6
    <3>2. h = o
      BY <3>1
    <3> HIDE DEF h, o
    <3>3. BalanceOf(w) = tokens[w] + o /\ o \in Nat
      BY <2>3 DEF o
    <3>4. maxBalances[w] > 0 => tokens'[w] + h <= maxBalances[w]
      BY <1>5, <1>11, <2>1, <3>1, <3>2, <3>3
    <3>5. QED BY <1>11, <3>1, <3>4 DEF h
  <2>7. QED BY <2>5, <2>6
<1>23. Arrived
  BY <1>22 DEF Arrived
<1>24. QED BY <1>21, <1>23

-----------------------------------------------------------------------------
(* What a step of each kind keeps *)

LEMMA RecordedIs ==
  ASSUME LockInv, NEW locks \in Rows, RowsInTime(locks), NEW xs, Recorded(locks, xs)
  PROVE  snapshots' \in [Accounts -> [SnapshotIds -> Nat \cup {Unset}]]
<1>1. ASSUME NEW x \in Accounts
      PROVE  /\ snapshots[x] \in [SnapshotIds -> Nat \cup {Unset}]
             /\ [snapshots[x] EXCEPT ![snapshotId] = Held(locks, x)] \in [SnapshotIds -> Nat \cup {Unset}]
  <2>1. snapshots[x] \in [SnapshotIds -> Nat \cup {Unset}]
    BY DEF LockInv, TypeOK
  <2>2. Held(locks, x) \in Nat
    <3>1. IsRow(locks[x]) /\ tokens[x] \in Nat /\ RowInTime(locks[x], releaseSchedules, now)
      BY LockFacts DEF Rows, IsRow, RowsInTime
    <3>2. Worth(locks[x], releaseSchedules, now) \in Nat
      BY <3>1, WorthIs
    <3>3. QED BY <3>1, <3>2, HeldIs
  <2>3. QED BY <2>1, <2>2
<1>2. snapshots' = [x \in Accounts |->
        IF x \in xs /\ snapshotId > 0 /\ snapshots[x][snapshotId] = Unset
        THEN [snapshots[x] EXCEPT ![snapshotId] = Held(locks, x)]
        ELSE snapshots[x]]
  BY DEF Recorded
<1>3. QED BY <1>1, <1>2

LEMMA ShiftingKeeps == ASSUME LockInv, Shifting PROVE LockInv'
<1>1. snapshots' \in [Accounts -> [SnapshotIds -> Nat \cup {Unset}]]
  BY RecordedIs DEF Shifting, Hooked
<1>2. TypeOK'
  BY <1>1 DEF LockInv, TypeOK, Shifting, Rows, Wallets, roleVars, ruleVars
<1>3. SupplyIsHeld'
  BY DEF LockInv, SupplyIsHeld, Shifting
<1>4. ValidRules(releaseSchedules)'
  BY DEF LockInv, ValidRules, Shifting
<1>5. RowsInTime(timelocks)'
  BY DEF Shifting, RowsInTime
<1>6. QED BY <1>2, <1>3, <1>4, <1>5 DEF LockInv

\* A burn or a mint; at the contract's own address it is of stray tokens.
Issuing ==
  /\ tokens' \in Wallets /\ totalSupply' = SumOver(tokens', Accounts)
  /\ totalSupply' \in Nat /\ totalSupply' <= MaxTotalSupply
  /\ stray' \in Int /\ tokens'[Token] - tokens[Token] = stray' - stray
  /\ \E xs \in SUBSET Accounts :
       Recorded(timelocks, xs) /\ \A x \in Accounts : tokens'[x] # tokens[x] => x \in xs
  /\ SupplyRecorded
  /\ UNCHANGED <<now, roleVars, ruleVars, allowance, releaseSchedules, timelocks, snapshotId>>
  /\ \A u \in Users : tokens'[u] > tokens[u] => totalSupply' > totalSupply

LEMMA WalletIssues ==
  ASSUME LockInv, NEW u \in Accounts, NEW n \in Nat,
         tokens' = [tokens EXCEPT ![u] = n],
         stray' = IF u = Token THEN stray + (n - tokens[u]) ELSE stray,
         totalSupply' = totalSupply + (n - tokens[u]), totalSupply' <= MaxTotalSupply,
         Recorded(timelocks, {u}), SupplyRecorded,
         UNCHANGED <<now, roleVars, ruleVars, allowance, releaseSchedules, timelocks, snapshotId>>
  PROVE  Issuing
<1>1. Token \in Accounts /\ {u} \in SUBSET Accounts
  BY LockFacts
<1>2. tokens \in Wallets /\ (\A x \in Accounts : tokens[x] \in Nat) /\ stray \in Int
  BY LockFacts
<1> DEFINE c == [tokens EXCEPT ![u] = n]
<1>3. c \in Wallets /\ c[u] = n /\ SameBut(tokens, c, Accounts, u)
  BY <1>1, <1>2, WalletWith
<1> HIDE DEF c
<1>4. SumOver(c, Accounts) = SumOver(tokens, Accounts) + (n - tokens[u])
  BY <1>1, <1>2, <1>3, OneWallet
<1>5. tokens' = c /\ \A x \in Accounts : x # u => c[x] = tokens[x]
  BY <1>3 DEF c, SameBut
<1>6. totalSupply' = SumOver(c, Accounts) /\ totalSupply \in Nat
  BY <1>4, LockFacts DEF LockInv, SupplyIsHeld
<1>7. SumOver(c, Accounts) \in Nat
  <2>1. \A x \in Accounts : c[x] \in Nat
    BY <1>3 DEF Wallets
  <2>2. QED BY <2>1, AccountsAreFinite, SumNat
<1>8. \A x \in Accounts : tokens'[x] # tokens[x] => x \in {u}
  BY <1>5
<1>9. \A w \in Users : tokens'[w] > tokens[w] => totalSupply' > totalSupply
  <2>1. ASSUME NEW w \in Users, tokens'[w] > tokens[w] PROVE totalSupply' > totalSupply
    <3>1. w \in Accounts
      BY DEF Accounts
    <3>2. w = u
      BY <1>2, <1>5, <2>1, <3>1
    <3>3. QED BY <1>1, <1>2, <1>3, <1>5, <1>6, <2>1, <3>2
  <2>2. QED BY <2>1
<1>10. stray' \in Int /\ tokens'[Token] - tokens[Token] = stray' - stray
  <2>1. CASE u = Token
    <3>1. stray' = stray + (n - tokens[Token]) /\ tokens'[Token] = n
      BY <1>3, <1>5, <2>1
    <3>2. tokens[Token] \in Nat /\ stray \in Int
      BY <1>1, <1>2
    <3>3. QED BY <3>1, <3>2
  <2>2. CASE u # Token
    <3>1. stray' = stray /\ tokens'[Token] = tokens[Token]
      BY <1>1, <1>5, <2>2
    <3>2. tokens[Token] \in Nat /\ stray \in Int
      BY <1>1, <1>2
    <3>3. QED BY <3>1, <3>2
  <2>3. QED BY <2>1, <2>2
<1>11. QED BY <1>1, <1>3, <1>5, <1>6, <1>7, <1>8, <1>9, <1>10 DEF Issuing

LEMMA IssuingKeeps == ASSUME LockInv, Issuing PROVE LockInv' /\ Surplus' = Surplus
<1>1. snapshots' \in [Accounts -> [SnapshotIds -> Nat \cup {Unset}]]
  BY RecordedIs, LockFacts DEF Issuing
<1>2. supplySnapshots' \in [SnapshotIds -> Nat \cup {Unset}]
  <2>1. supplySnapshots \in [SnapshotIds -> Nat \cup {Unset}] /\ totalSupply \in Nat
    BY DEF LockInv, TypeOK
  <2>2. QED BY <2>1 DEF Issuing, SupplyRecorded
<1>3. TypeOK'
  BY <1>1, <1>2 DEF LockInv, TypeOK, Issuing, Wallets, roleVars, ruleVars
<1>4. SupplyIsHeld'
  BY DEF SupplyIsHeld, Issuing
<1>5. ValidRules(releaseSchedules)'
  BY DEF LockInv, ValidRules, Issuing
<1>6. RowsInTime(timelocks)'
  BY DEF LockInv, Issuing, RowsInTime
<1>7. Surplus' = Surplus
  <2>1. InRows(timelocks)' = InRows(timelocks) /\ tokens'[Token] \in Nat
    BY LockFacts DEF Issuing, Wallets
  <2>2. QED BY <2>1, SurplusIs, LockFacts DEF Surplus, Issuing
<1>8. QED BY <1>3, <1>4, <1>5, <1>6, <1>7 DEF LockInv

\* A step that touches neither tokens nor timelocks.
Quiet ==
  /\ UNCHANGED <<tokens, totalSupply, timelocks, stray, snapshots, supplySnapshots>>
  /\ snapshotId' = snapshotId \/ (snapshotId' = snapshotId + 1 /\ snapshotId < MaxSnapshots)

LEMMA RulesOnlyKeep ==
  ASSUME LockInv, Quiet, UNCHANGED <<now, releaseSchedules>>, TypeOK'
  PROVE  LockInv' /\ Surplus' = Surplus
<1>1. SupplyIsHeld'
  BY DEF LockInv, SupplyIsHeld, Quiet
<1>2. ValidRules(releaseSchedules)'
  BY DEF LockInv, ValidRules
<1>3. RowsInTime(timelocks)'
  BY DEF LockInv, RowsInTime, Quiet
<1>4. Surplus' = Surplus
  BY DEF Surplus, Quiet
<1>5. QED BY <1>1, <1>2, <1>3, <1>4 DEF LockInv

\* A timelock that was in time stays so.
LEMMA LaterInTime ==
  ASSUME LockInv, NEW t \in Timelock, Timely(t, releaseSchedules, now)
  PROVE  Timely(t, releaseSchedules, now + 1)
<1> DEFINE s == releaseSchedules[t.scheduleId]
           e == now - t.commencement
           f == (now + 1) - t.commencement
           r == Releases(t, releaseSchedules, now)
           q == Releases(t, releaseSchedules, now + 1)
<1>1. t.scheduleId \in DOMAIN releaseSchedules /\ t.total < Word /\ InTime(t, releaseSchedules, now)
  BY DEF Timely
<1>2. now \in Nat /\ now + 1 \in Nat /\ ValidRules(releaseSchedules)
  BY LockFacts DEF LockInv
<1>3. t.transferred \in Nat /\ t.paid \in Nat /\ t.total \in Nat /\ t.commencement \in Nat
  BY DEF Timelock
<1>4. r \in Nat /\ q \in Nat
  BY <1>1, <1>2, ReleasesAre
<1>5. FitsIn(t, releaseSchedules) => r <= q
  <2>1. SUFFICES ASSUME FitsIn(t, releaseSchedules) PROVE r <= q
    OBVIOUS
  <2>2. ValidSchedule(s)
    BY <1>1, <1>2 DEF ValidRules
  <2>3. e \in Int /\ f \in Int /\ e <= f
    BY <1>2, <1>3
  <2>4. ProductFits(s, t.total)
    BY <2>1 DEF FitsIn
  <2> HIDE DEF s, e, f
  <2>5. CalculateUnlocked(s, e, t.total) <= CalculateUnlocked(s, f, t.total)
    BY <1>3, <2>2, <2>3, <2>4, UnlockedGrows
  <2>6. QED BY <2>5 DEF Releases, s, e, f
<1>6. FitsIn(t, releaseSchedules) /\ EndFitsIn(t, releaseSchedules) =>
        r = ReleasedBy(t, releaseSchedules, now) /\ q = ReleasedBy(t, releaseSchedules, now + 1)
  BY <1>1, <1>2, ReleasesAre
<1> HIDE DEF r, q
<1>7. InTime(t, releaseSchedules, now + 1)
  <2>1. SUFFICES ASSUME FitsIn(t, releaseSchedules) PROVE InTime(t, releaseSchedules, now + 1)
    BY DEF InTime
  <2>2. /\ t.transferred = t.paid \/ t.transferred = t.total
        /\ t.transferred = t.total \/ t.transferred <= r
        /\ EndFitsIn(t, releaseSchedules) => t.paid <= ReleasedBy(t, releaseSchedules, now)
    BY <1>1, <2>1 DEF InTime, r
  <2>3. t.transferred = t.total \/ t.transferred <= q
    BY <1>3, <1>4, <1>5, <2>1, <2>2
  <2>4. EndFitsIn(t, releaseSchedules) => t.paid <= ReleasedBy(t, releaseSchedules, now + 1)
    BY <1>3, <1>4, <1>5, <1>6, <2>1, <2>2
  <2>5. QED BY <2>2, <2>3, <2>4 DEF InTime, q
<1>8. QED BY <1>1, <1>7 DEF Timely

\* Time passes: what was in time stays in time.
LEMMA TickKeeps == ASSUME LockInv, Tick PROVE LockInv' /\ Surplus' = Surplus /\ Quiet
<1>1. now \in Nat /\ now' = now + 1
  BY LockFacts DEF Tick
<1>2. TypeOK'
  BY <1>1 DEF LockInv, TypeOK, Tick, roleVars, ruleVars, tokenVars, lockVars, snapshotVars
<1>3. SupplyIsHeld'
  BY DEF LockInv, SupplyIsHeld, Tick, tokenVars
<1>4. ValidRules(releaseSchedules)' /\ ValidRules(releaseSchedules)
  BY DEF LockInv, ValidRules, Tick, lockVars
<1>5. RowsInTime(timelocks)'
  <2>1. ASSUME NEW x \in Accounts, NEW i \in DOMAIN timelocks[x]
        PROVE  Timely(timelocks[x][i], releaseSchedules, now + 1)
    <3> DEFINE t == timelocks[x][i]
    <3>1. t \in Timelock /\ Timely(t, releaseSchedules, now)
      <4>1. IsRow(timelocks[x]) /\ RowInTime(timelocks[x], releaseSchedules, now)
        BY LockFacts DEF RowsInTime
      <4>2. QED BY <4>1, RowTimely
    <3> HIDE DEF t
    <3>2. Timely(t, releaseSchedules, now + 1)
      BY <3>1, LaterInTime
    <3>3. QED BY <3>2 DEF t
  <2>2. UNCHANGED <<timelocks, releaseSchedules>>
    BY DEF Tick, lockVars
  <2>3. QED BY <1>1, <2>1, <2>2 DEF RowsInTime, RowInTime
<1>6. Surplus' = Surplus
  BY DEF Surplus, Tick, tokenVars, lockVars
<1>7. Quiet
  BY DEF Quiet, Tick, tokenVars, lockVars, snapshotVars
<1>8. QED BY <1>2, <1>3, <1>4, <1>5, <1>6, <1>7 DEF LockInv

LEMMA ScheduleKeeps ==
  ASSUME LockInv, NEW s \in Schedules, CreateReleaseSchedule(s)
  PROVE  LockInv' /\ Surplus' = Surplus /\ Quiet
<1>1. releaseSchedules \in Seq(Schedule) /\ s \in Schedule
  BY NumberAssumption DEF LockInv, TypeOK
<1>2. /\ releaseSchedules' = Append(releaseSchedules, s)
      /\ UNCHANGED <<now, roleVars, ruleVars, tokenVars, timelocks, stray, snapshotVars>>
  BY DEF CreateReleaseSchedule
<1>3. ValidSchedule(s)
  BY <1>1 DEF CreateReleaseSchedule, ValidSchedule
<1>4. /\ releaseSchedules' \in Seq(Schedule)
      /\ DOMAIN releaseSchedules' = DOMAIN releaseSchedules \cup {Len(releaseSchedules) + 1}
      /\ \A i \in DOMAIN releaseSchedules : releaseSchedules'[i] = releaseSchedules[i]
      /\ releaseSchedules'[Len(releaseSchedules) + 1] = s
  BY <1>1, <1>2
<1>5. TypeOK'
  BY <1>2, <1>4 DEF LockInv, TypeOK, roleVars, ruleVars, tokenVars, snapshotVars
<1>6. SupplyIsHeld'
  BY <1>2 DEF LockInv, SupplyIsHeld, tokenVars
<1>7. ValidRules(releaseSchedules)'
  BY <1>3, <1>4 DEF LockInv, ValidRules
<1>8. RowsInTime(timelocks)'
  <2>1. ASSUME NEW x \in Accounts, NEW i \in DOMAIN timelocks[x]
        PROVE  Timely(timelocks[x][i], releaseSchedules', now)
    <3> DEFINE t == timelocks[x][i]
    <3>1. t.scheduleId \in DOMAIN releaseSchedules /\ t.total < Word /\ InTime(t, releaseSchedules, now)
      <4>1. IsRow(timelocks[x]) /\ RowInTime(timelocks[x], releaseSchedules, now)
        BY LockFacts DEF RowsInTime
      <4>2. QED BY <4>1, RowTimely DEF Timely
    <3> HIDE DEF t
    <3>2. releaseSchedules'[t.scheduleId] = releaseSchedules[t.scheduleId]
      BY <1>4, <3>1
    <3>3. /\ Releases(t, releaseSchedules', now) = Releases(t, releaseSchedules, now)
          /\ ReleasedBy(t, releaseSchedules', now) = ReleasedBy(t, releaseSchedules, now)
          /\ FitsIn(t, releaseSchedules') <=> FitsIn(t, releaseSchedules)
          /\ EndFitsIn(t, releaseSchedules') <=> EndFitsIn(t, releaseSchedules)
      BY <3>2 DEF Releases, ReleasedBy, FitsIn, EndFitsIn
    <3>4. InTime(t, releaseSchedules', now)
      BY <3>1, <3>3 DEF InTime
    <3>5. QED BY <1>4, <3>1, <3>4 DEF t, Timely
  <2>2. QED BY <1>2, <2>1 DEF RowsInTime, RowInTime
<1>9. Surplus' = Surplus
  BY <1>2 DEF Surplus, tokenVars
<1>10. Quiet
  BY <1>2 DEF Quiet, tokenVars, snapshotVars
<1>11. QED BY <1>5, <1>6, <1>7, <1>8, <1>9, <1>10 DEF LockInv

LEMMA GrantKeeps ==
  ASSUME LockInv, NEW u, NEW v \in Grantees, NEW roles \in Grants,
         GrantRole(u, v, roles) \/ RevokeRole(u, v, roles)
  PROVE  LockInv' /\ Surplus' = Surplus /\ Quiet
<1>1. v \in Users /\ roles \subseteq Roles
  BY AddressAssumption
<1>2. UNCHANGED <<now, ruleVars, tokenVars, lockVars, snapshotVars>>
  BY DEF GrantRole, RevokeRole
<1>3. admins \in [Users -> SUBSET Roles] /\ contractAdminCount \in Nat
  BY DEF LockInv, TypeOK
<1>4. contractAdminCount' \in Nat
  BY <1>3 DEF GrantRole, RevokeRole
<1>5. admins' \in [Users -> SUBSET Roles]
  BY <1>1, <1>3 DEF GrantRole, RevokeRole
<1>6. TypeOK'
  BY <1>2, <1>4, <1>5 DEF LockInv, TypeOK, ruleVars, tokenVars, lockVars, snapshotVars
<1>7. Quiet /\ UNCHANGED <<now, releaseSchedules>>
  BY <1>2 DEF Quiet, tokenVars, lockVars, snapshotVars
<1>8. QED BY <1>6, <1>7, RulesOnlyKeep

LEMMA RuleStepKeeps ==
  ASSUME LockInv,
         UNCHANGED <<now, roleVars, tokenVars, lockVars, snapshotVars>>,
         isPaused' \in BOOLEAN, frozen' \subseteq Accounts,
         maxBalances' \in [Accounts -> Nat], transferGroups' \in [Accounts -> Groups],
         allowGroupTransfers' \in [Groups \X Groups -> Nat]
  PROVE  LockInv' /\ Surplus' = Surplus /\ Quiet
<1>1. TypeOK'
  BY DEF LockInv, TypeOK, roleVars, tokenVars, lockVars, snapshotVars
<1>2. Quiet /\ UNCHANGED <<now, releaseSchedules>>
  BY DEF Quiet, tokenVars, lockVars, snapshotVars
<1>3. QED BY <1>1, <1>2, RulesOnlyKeep

\* The administrators' settings.
RuleStep(u) ==
  \/ \E x \in Managed, n \in Caps : SetMaxBalance(u, x, n)
  \/ \E x \in Managed, g \in Groups : SetTransferGroup(u, x, g)
  \/ \E x \in Managed, status \in BOOLEAN : Freeze(u, x, status)
  \/ \E x \in Managed, g \in Groups, n \in Caps, status \in BOOLEAN :
       SetAddressPermissions(u, x, g, n, status)
  \/ \E lane \in Lanes, time \in LaneTimes : SetAllowGroupTransfer(u, lane, time)
  \/ \E status \in BOOLEAN : SetPaused(u, status)

LEMMA RulesKeep ==
  ASSUME LockInv, NEW u, RuleStep(u)
  PROVE  LockInv' /\ Surplus' = Surplus /\ Quiet
<1>1. /\ isPaused \in BOOLEAN /\ frozen \subseteq Accounts
      /\ maxBalances \in [Accounts -> Nat] /\ transferGroups \in [Accounts -> Groups]
      /\ allowGroupTransfers \in [Groups \X Groups -> Nat]
  BY DEF LockInv, TypeOK
<1>2. /\ Managed \subseteq Accounts /\ Caps \subseteq Nat /\ LaneTimes \subseteq Nat
      /\ Lanes \subseteq Groups \X Groups
  BY AddressAssumption, NumberAssumption
<1>3. CASE \E x \in Managed, n \in Caps : SetMaxBalance(u, x, n)
  BY <1>1, <1>2, <1>3, RuleStepKeeps DEF SetMaxBalance
<1>4. CASE \E x \in Managed, g \in Groups : SetTransferGroup(u, x, g)
  BY <1>1, <1>2, <1>4, RuleStepKeeps DEF SetTransferGroup
<1>5. CASE \E x \in Managed, status \in BOOLEAN : Freeze(u, x, status)
  BY <1>1, <1>2, <1>5, RuleStepKeeps DEF Freeze, Frozen
<1>6. CASE \E x \in Managed, g \in Groups, n \in Caps, status \in BOOLEAN :
       SetAddressPermissions(u, x, g, n, status)
  BY <1>1, <1>2, <1>6, RuleStepKeeps DEF SetAddressPermissions, Frozen
<1>7. CASE \E lane \in Lanes, time \in LaneTimes : SetAllowGroupTransfer(u, lane, time)
  BY <1>1, <1>2, <1>7, RuleStepKeeps DEF SetAllowGroupTransfer
<1>8. CASE \E status \in BOOLEAN : SetPaused(u, status)
  BY <1>1, <1>2, <1>8, RuleStepKeeps DEF SetPaused
<1>9. QED BY <1>3, <1>4, <1>5, <1>6, <1>7, <1>8 DEF RuleStep

LEMMA ApproveKeeps ==
  ASSUME LockInv, NEW u \in Users, NEW v \in Users, NEW n \in Nat, Approve(u, v, n)
  PROVE  LockInv' /\ Surplus' = Surplus /\ Quiet
<1>1. allowance' \in [Users -> [Users -> Nat]]
  BY DEF Approve, LockInv, TypeOK
<1>2. UNCHANGED <<now, roleVars, ruleVars, tokens, totalSupply, lockVars, snapshotVars>>
  BY DEF Approve
<1>3. TypeOK'
  BY <1>1, <1>2 DEF LockInv, TypeOK, roleVars, ruleVars, lockVars, snapshotVars
<1>4. Quiet /\ UNCHANGED <<now, releaseSchedules>>
  BY <1>2 DEF Quiet, lockVars, snapshotVars
<1>5. QED BY <1>3, <1>4, RulesOnlyKeep

LEMMA SnapshotKeeps ==
  ASSUME LockInv, NEW u, Snapshot(u)
  PROVE  LockInv' /\ Surplus' = Surplus /\ Quiet
<1>1. snapshotId' \in Nat
  BY DEF Snapshot, LockInv, TypeOK
<1>2. UNCHANGED <<now, roleVars, ruleVars, tokenVars, lockVars, snapshots, supplySnapshots>>
  BY DEF Snapshot
<1>3. TypeOK'
  BY <1>1, <1>2 DEF LockInv, TypeOK, roleVars, ruleVars, tokenVars, lockVars
<1>4. Quiet /\ UNCHANGED <<now, releaseSchedules>>
  BY <1>2 DEF Quiet, Snapshot, tokenVars, lockVars
<1>5. QED BY <1>3, <1>4, RulesOnlyKeep

-----------------------------------------------------------------------------
(* Every step of the token, and what follows for all its executions *)

ArrivalsOf ==
  \A u \in Users :
    tokens'[u] > tokens[u] =>
      \/ totalSupply' > totalSupply
      \/ /\ ~ isPaused /\ u \notin frozen
         /\ maxBalances[u] > 0 => BalanceOf(u)' <= maxBalances[u]

LEMMA MovingArrives ==
  ASSUME LockInv, Moving, Arrived
  PROVE  LockInv' /\ Surplus' = Surplus /\ Shifting /\ ArrivalsOf
<1>1. LockInv' /\ Shifting
  BY ShiftingKeeps DEF Moving
<1>2. Surplus' = Surplus
  <2>1. /\ tokens[Token] \in Nat /\ tokens'[Token] \in Nat
        /\ InRows(timelocks) \in Int /\ InRows(timelocks') \in Int
        /\ stray \in Int /\ stray' \in Int
    BY LockFacts, RowsAre DEF Moving, Shifting, Wallets
  <2>2. tokens'[Token] - tokens[Token] = (InRows(timelocks') - InRows(timelocks)) + (stray' - stray)
    BY DEF Moving
  <2>3. Surplus' = tokens'[Token] - InRows(timelocks') - stray'
    BY DEF Surplus, InRows, InRow, Left
  <2>4. QED BY <2>1, <2>2, <2>3 DEF Surplus
<1>3. \A u \in Users : BalanceOf(u)' = tokens'[u] + Worth(timelocks'[u], releaseSchedules', now')
  BY DEF BalanceOf, Held, LockedAmount, UnlockedAmount, TotalUnlocked, Worth, WorthOf, Releases
<1>4. releaseSchedules' = releaseSchedules /\ now' = now
  BY DEF Moving, Shifting
<1>5. ArrivalsOf
  BY <1>3, <1>4 DEF Arrived, ArrivalsOf
<1>6. QED BY <1>1, <1>2, <1>5

LEMMA QuietArrives == ASSUME LockInv, Quiet PROVE ArrivalsOf
<1>1. \A u \in Users : tokens'[u] = tokens[u] /\ tokens[u] \in Nat
  BY LockFacts DEF Quiet, Accounts
<1>2. QED BY <1>1 DEF ArrivalsOf

LEMMA AdminSteps ==
  ASSUME LockInv, NEW u \in Users, AdminStep(u)
  PROVE  LockInv' /\ Surplus' = Surplus /\ ArrivalsOf /\ (Issuing \/ Quiet)
<1>1. CASE \E v \in Grantees, roles \in Grants : GrantRole(u, v, roles) \/ RevokeRole(u, v, roles)
  BY <1>1, GrantKeeps, QuietArrives
<1>2. CASE RuleStep(u)
  BY <1>2, RulesKeep, QuietArrives
<1>3. ASSUME NEW v \in Accounts, NEW n \in Amounts, Burn(u, v, n)
      PROVE  Issuing
  <2>1. /\ n \in Nat /\ tokens[v] \in Nat /\ totalSupply \in Nat /\ stray \in Int
        /\ totalSupply <= MaxTotalSupply /\ MaxTotalSupply \in Nat
    BY LockFacts, NumberAssumption DEF LockInv, SupplyIsHeld
  <2> DEFINE m == tokens[v] - n
  <2>2. /\ n <= tokens[v] /\ tokens' = [tokens EXCEPT ![v] = m]
        /\ totalSupply' = totalSupply - n
        /\ stray' = IF v = Token THEN stray - n ELSE stray
        /\ Recorded(timelocks, {v}) /\ SupplyRecorded
        /\ UNCHANGED <<now, roleVars, ruleVars, allowance, releaseSchedules, timelocks, snapshotId>>
    BY <1>3 DEF Burn
  <2>3. m \in Nat /\ m - tokens[v] = 0 - n
    BY <2>1, <2>2
  <2> HIDE DEF m
  <2>4. totalSupply' = totalSupply + (m - tokens[v]) /\ totalSupply' <= MaxTotalSupply
    BY <2>1, <2>2, <2>3
  <2>5. stray' = IF v = Token THEN stray + (m - tokens[v]) ELSE stray
    BY <2>1, <2>2, <2>3
  <2>6. QED BY <2>2, <2>3, <2>4, <2>5, WalletIssues
<1>4. ASSUME NEW v \in Accounts, NEW n \in Amounts, Mint(u, v, n)
      PROVE  Issuing
  <2>1. n \in Nat /\ tokens[v] \in Nat /\ totalSupply \in Nat /\ stray \in Int
    BY LockFacts, NumberAssumption
  <2> DEFINE m == tokens[v] + n
  <2>2. /\ tokens' = [tokens EXCEPT ![v] = m]
        /\ totalSupply' = totalSupply + n /\ totalSupply' <= MaxTotalSupply
        /\ stray' = IF v = Token THEN stray + n ELSE stray
        /\ Recorded(timelocks, {v}) /\ SupplyRecorded
        /\ UNCHANGED <<now, roleVars, ruleVars, allowance, releaseSchedules, timelocks, snapshotId>>
    BY <1>4 DEF Mint
  <2>3. m \in Nat /\ m - tokens[v] = n
    BY <2>1
  <2> HIDE DEF m
  <2>4. /\ totalSupply' = totalSupply + (m - tokens[v])
        /\ stray' = IF v = Token THEN stray + (m - tokens[v]) ELSE stray
    BY <2>2, <2>3
  <2>5. QED BY <2>2, <2>3, <2>4, WalletIssues
<1>5. CASE Snapshot(u)
  BY <1>5, SnapshotKeeps, QuietArrives
<1>6. ASSUME Issuing PROVE LockInv' /\ Surplus' = Surplus /\ ArrivalsOf
  BY <1>6, IssuingKeeps DEF Issuing, ArrivalsOf
<1>7. QED BY <1>1, <1>2, <1>3, <1>4, <1>5, <1>6 DEF AdminStep, RuleStep

LEMMA HolderSteps ==
  ASSUME LockInv, NEW u \in Users, HolderStep(u)
  PROVE  LockInv' /\ Surplus' = Surplus /\ ArrivalsOf /\ (Shifting \/ Quiet)
<1>1. /\ Amounts \subseteq Nat /\ Spenders \subseteq Users /\ Cancelers \subseteq SUBSET Users
      /\ Starts \subseteq Nat /\ now \in Nat /\ Users \subseteq Accounts
      /\ allowance \in [Users -> [Users -> Nat]]
  BY AddressAssumption, NumberAssumption DEF Accounts, LockInv, TypeOK
<1>2. CASE \E to \in Accounts, n \in Amounts : Transfer(u, to, n)
  <2>1. PICK to \in Accounts, n \in Amounts : Transfer(u, to, n)
    BY <1>2
  <2>2. /\ Permitted(u, to, n, BalanceOf(to)) /\ Sent(u, to, n) /\ timelocks' = Drawn(timelocks, u, n)
        /\ UNCHANGED <<now, roleVars, ruleVars, totalSupply, allowance, releaseSchedules,
                       snapshotId, supplySnapshots, stray>>
    BY <2>1 DEF Transfer
  <2>3. allowance' \in [Users -> [Users -> Nat]]
    BY <1>1, <2>2
  <2>4. Moving /\ Arrived
    BY <1>1, <2>2, <2>3, DrawMoves
  <2>5. QED BY <2>4, MovingArrives
<1>3. CASE \E v \in Spenders \ {u}, n \in Amounts : Approve(u, v, n)
  BY <1>1, <1>3, ApproveKeeps, QuietArrives
<1>4. CASE \E from \in Users, to \in Accounts, n \in Amounts : TransferFrom(u, from, to, n)
  <2>1. PICK from \in Users, to \in Accounts, n \in Amounts : TransferFrom(u, from, to, n)
    BY <1>4
  <2>2. /\ Permitted(from, to, n, BalanceOf(to)) /\ Sent(from, to, n)
        /\ timelocks' = Drawn(timelocks, from, n) /\ n <= allowance[from][u]
        /\ allowance' = [allowance EXCEPT ![from][u] = @ - n]
        /\ UNCHANGED <<now, roleVars, ruleVars, totalSupply, releaseSchedules,
                       snapshotId, supplySnapshots, stray>>
    BY <2>1 DEF TransferFrom
  <2>3. allowance' \in [Users -> [Users -> Nat]]
    <3>1. allowance[from][u] \in Nat /\ n \in Nat
      BY <1>1
    <3>2. allowance[from][u] - n \in Nat
      BY <2>2, <3>1
    <3>3. QED BY <1>1, <2>2, <3>2
  <2>4. Moving /\ Arrived
    BY <1>1, <2>2, <2>3, DrawMoves
  <2>5. QED BY <2>4, MovingArrives
<1>5. CASE \E to \in Accounts, n \in Amounts : \E i \in DOMAIN timelocks[u] : TransferTimelock(u, to, n, i)
  BY <1>1, <1>5, TransferTimelockMoves, MovingArrives
<1>6. CASE \E s \in Schedules : CreateReleaseSchedule(s)
  BY <1>6, ScheduleKeeps, QuietArrives
<1>7. CASE \E to \in Accounts, n \in Amounts, start \in Starts, cancelers \in Cancelers :
       \E i \in DOMAIN releaseSchedules : FundReleaseSchedule(u, to, n, start, i, cancelers)
  <2>1. PICK to \in Accounts, n \in Amounts, start \in Starts, cancelers \in Cancelers :
       \E i \in DOMAIN releaseSchedules : FundReleaseSchedule(u, to, n, start, i, cancelers)
    BY <1>7
  <2>2. n \in Nat /\ start \in Nat /\ cancelers \in SUBSET Users
    BY <1>1
  <2>3. QED BY <2>1, <2>2, FundMoves, MovingArrives
<1>8. CASE \E v, to \in Accounts :
       \E i \in DOMAIN timelocks[v] : CancelTimelock(u, v, i, to)
  BY <1>8, CancelMoves, MovingArrives
<1>9. QED BY <1>2, <1>3, <1>4, <1>5, <1>6, <1>7, <1>8 DEF HolderStep

LEMMA LockupSteps ==
  ASSUME LockInv, LockupNext
  PROVE  LockInv' /\ Surplus' = Surplus /\ ArrivalsOf /\ (Shifting \/ Issuing \/ Quiet)
<1>1. CASE Tick
  BY <1>1, TickKeeps, QuietArrives
<1>2. CASE \E u \in Users : AdminStep(u) \/ HolderStep(u)
  BY <1>2, AdminSteps, HolderSteps
<1>3. QED BY <1>1, <1>2 DEF LockupNext

LEMMA LockupStutters ==
  ASSUME LockInv, UNCHANGED lockupVars
  PROVE  LockInv' /\ Surplus' = Surplus /\ ArrivalsOf /\ Quiet
<1>1. Quiet
  BY DEF Quiet, lockupVars, tokenVars, lockVars, snapshotVars
<1>2. TypeOK'
  BY DEF LockInv, TypeOK, lockupVars, roleVars, ruleVars, tokenVars, lockVars, snapshotVars
<1>3. UNCHANGED <<now, releaseSchedules>>
  BY DEF lockupVars, lockVars
<1>4. QED BY <1>1, <1>2, <1>3, RulesOnlyKeep, QuietArrives

LEMMA InitLock == Init => LockInv /\ Surplus = 0
<1> SUFFICES ASSUME Init PROVE LockInv /\ Surplus = 0
  OBVIOUS
<1>1. Token \notin Users /\ Issuer \in Users /\ Issuer \in Accounts /\ Token \in Accounts
  BY AddressAssumption DEF Accounts
<1>2. /\ InitialSupply \in Nat /\ InitialSupply <= MaxTotalSupply
  BY NumberAssumption
<1>3. TypeOK
  <2>1. /\ now \in Nat /\ admins \in [Users -> SUBSET Roles] /\ contractAdminCount \in Nat
        /\ isPaused \in BOOLEAN /\ frozen \subseteq Accounts
    BY DEF Init, Roles
  <2>2. /\ maxBalances \in [Accounts -> Nat] /\ transferGroups \in [Accounts -> Groups]
        /\ allowGroupTransfers \in [Groups \X Groups -> Nat]
    BY AddressAssumption DEF Init
  <2>3. /\ tokens \in [Accounts -> Nat] /\ totalSupply \in Nat
        /\ allowance \in [Users -> [Users -> Nat]]
    BY <1>2 DEF Init
  <2>4. /\ releaseSchedules \in Seq(Schedule) /\ timelocks \in [Accounts -> Seq(Timelock)]
    BY DEF Init
  <2>5. /\ snapshotId \in Nat
        /\ snapshots \in [Accounts -> [SnapshotIds -> Nat \cup {Unset}]]
        /\ supplySnapshots \in [SnapshotIds -> Nat \cup {Unset}]
        /\ stray \in Int
    BY DEF Init
  <2>6. QED BY <2>1, <2>2, <2>3, <2>4, <2>5 DEF TypeOK
<1>4. SupplyIsHeld
  <2> DEFINE z == [x \in Accounts |-> 0]
             c == [x \in Accounts |-> IF x = Issuer THEN InitialSupply ELSE 0]
  <2>1. /\ z \in Wallets /\ c \in Wallets /\ SameBut(z, c, Accounts, Issuer)
        /\ c[Issuer] = InitialSupply /\ z[Issuer] = 0 /\ \A x \in Accounts : z[x] = 0
    BY <1>1, <1>2 DEF Wallets, SameBut
  <2>2. tokens = c /\ totalSupply = InitialSupply
    BY DEF Init
  <2> HIDE DEF z, c
  <2>3. SumOver(z, Accounts) = 0
    BY <2>1, SumZero, AccountsAreFinite
  <2>4. SumOver(c, Accounts) = SumOver(z, Accounts) + (InitialSupply - z[Issuer])
    BY <1>1, <1>2, <2>1, OneWallet
  <2>5. SumOver(c, Accounts) = InitialSupply
    BY <1>2, <2>1, <2>3, <2>4
  <2>6. QED BY <1>2, <2>2, <2>5 DEF SupplyIsHeld
<1>5. ValidRules(releaseSchedules) /\ RowsInTime(timelocks)
  BY DEF Init, ValidRules, RowsInTime, RowInTime
<1>6. Surplus = 0
  <2> DEFINE f == [x \in Accounts |-> InRow(timelocks[x])]
  <2>1. \A x \in Accounts : InRow(timelocks[x]) = 0
    <3>1. ASSUME NEW x \in Accounts PROVE InRow(timelocks[x]) = 0
      <4>1. timelocks[x] = <<>>
        BY DEF Init
      <4>2. DOMAIN timelocks[x] = {}
        BY <4>1
      <4>3. QED BY <4>2, SumEmpty DEF InRow
    <3>2. QED BY <3>1
  <2>2. \A x \in Accounts : f[x] = 0
    BY <2>1
  <2> HIDE DEF f
  <2>3. SumOver(f, Accounts) = 0
    BY <2>2, SumZero, AccountsAreFinite
  <2>4. InRows(timelocks) = 0 /\ tokens[Token] = 0 /\ stray = 0
    BY <1>1, <2>3 DEF InRows, f, Init
  <2>5. QED BY <2>4 DEF Surplus
<1>7. QED BY <1>3, <1>4, <1>5, <1>6 DEF LockInv

\* The base token holds its timelocks' tokens and the stray ones, no others.
Exact == LockInv /\ Surplus = 0

LEMMA InvariantOfTheToken == LockupSpec => []Exact
<1>1. Init => Exact
  BY InitLock DEF Exact
<1>2. Exact /\ [LockupNext]_lockupVars => Exact'
  BY LockupSteps, LockupStutters DEF Exact
<1>3. QED BY <1>1, <1>2, PTL DEF LockupSpec

\* Every value keeps its type, the recorded balances included, in every
\* execution of the base token (RestrictedLockupToken.sol).
THEOREM TokenTyping == LockupSpec => []TypeOK
<1>1. Exact => TypeOK
  BY DEF Exact, LockInv
<1>2. QED BY <1>1, InvariantOfTheToken, PTL

\* For any holders, the contract itself among them, any schedules and amounts:
\* the supply is what the accounts hold, and the contract's own balance is what
\* is left in all the timelocks and the stray tokens, through transfers that
\* draw on them, the contract's own included, funding, cancellation, burns and
\* mints at its address and releases that wrap around.
THEOREM EveryTimelockIsBacked == LockupSpec => []TimelocksBacked
<1>1. Exact => TimelocksBacked
  <2> SUFFICES ASSUME Exact PROVE TimelocksBacked
    OBVIOUS
  <2>1. tokens[Token] \in Nat /\ InRows(timelocks) \in Int /\ stray \in Int
    BY LockFacts, SurplusIs DEF Exact
  <2>2. tokens[Token] = InRows(timelocks) + stray
    BY <2>1 DEF Exact, Surplus
  <2>3. SupplyIsHeld
    BY DEF Exact, LockInv
  <2>4. QED BY <2>2, <2>3 DEF TimelocksBacked, InRows, InRow, InTimelocks
<1>2. QED BY <1>1, InvariantOfTheToken, PTL

\* For any schedules, amounts, order of draws and width of the word: a timelock
\* whose release fits a word and is still open was never drawn on beyond what
\* is released, which the unchecked subtractions rely on; and where its end
\* fits too, it has paid no more than its schedule released, closed or not.
THEOREM TimelocksPayInTime == LockupSpec => []ReleasedInTime
<1>1. Exact => ReleasedInTime
  <2> SUFFICES ASSUME Exact, NEW x \in Accounts, NEW i \in DOMAIN timelocks[x]
               PROVE  LET t == timelocks[x][i] IN
                      Fits(t) =>
                        /\ t.transferred = t.total \/ t.transferred <= TotalUnlocked(t)
                        /\ EndFits(t) => t.paid <= Released(t)
    BY DEF ReleasedInTime
  <2> DEFINE t == timelocks[x][i]
  <2>1. t \in Timelock /\ Timely(t, releaseSchedules, now) /\ now \in Nat
    <3>1. LockInv /\ IsRow(timelocks[x]) /\ RowInTime(timelocks[x], releaseSchedules, now)
      BY LockFacts DEF Exact, RowsInTime
    <3>2. QED BY <3>1, RowTimely, LockFacts
  <2> HIDE DEF t
  <2>2. InTime(t, releaseSchedules, now) /\ t.scheduleId \in DOMAIN releaseSchedules
    BY <2>1 DEF Timely
  <2>3. TotalUnlocked(t) = Releases(t, releaseSchedules, now)
    BY DEF TotalUnlocked, Releases
  <2>4. Fits(t) = FitsIn(t, releaseSchedules) /\ EndFits(t) = EndFitsIn(t, releaseSchedules)
    BY DEF Fits, FitsIn, ProductFits, EndFits, EndFitsIn
  <2>5. Released(t) = ReleasedBy(t, releaseSchedules, now)
    <3> DEFINE s == releaseSchedules[t.scheduleId]
    <3>1. s.delay \in Nat /\ t.commencement \in Nat
      <4>1. ValidRules(releaseSchedules)
        BY DEF Exact, LockInv
      <4>2. s \in Schedule
        BY <2>2, <4>1 DEF ValidRules, ValidSchedule
      <4> HIDE DEF s
      <4>3. QED BY <2>1, <4>2 DEF Schedule, Timelock
    <3>2. now < t.commencement + s.delay <=> now - t.commencement < s.delay
      <4> HIDE DEF s
      <4>1. QED BY <2>1, <3>1
    <3>3. QED BY <3>2 DEF Released, ReleasedBy, ReleasedAfter
  <2>6. QED BY <2>2, <2>3, <2>4, <2>5 DEF InTime, t
<1>2. QED BY <1>1, InvariantOfTheToken, PTL

\* No step brings tokens into a paused, frozen or full wallet, save a mint.
THEOREM ArrivalsObeyTheRules == LockupSpec => ArrivalsAreAllowed
<1>1. Exact /\ [LockupNext]_lockupVars =>
        [\A u \in Users :
           tokens'[u] > tokens[u] =>
             \/ totalSupply' > totalSupply
             \/ /\ ~ isPaused /\ u \notin frozen
                /\ maxBalances[u] > 0 => BalanceOf(u)' <= maxBalances[u]]_lockupVars
  BY LockupSteps DEF Exact, ArrivalsOf
<1>2. QED BY <1>1, InvariantOfTheToken, PTL DEF LockupSpec, ArrivalsAreAllowed

-----------------------------------------------------------------------------
(***************************************************************************)
(* The deployed token.  What the open swaps and the dividends keep in the  *)
(* contract, as totals that change by one summand.                         *)
(***************************************************************************)
IsBook(book) == book \in Seq(Swap)

SellOf(swap) == IF swap.status = "sell" THEN swap.amount ELSE 0
BuyOf(swap)  == IF swap.status = "buy" THEN swap.price ELSE 0

OpenSells(book) == SumOver([n \in DOMAIN book |-> SellOf(book[n])], DOMAIN book)
OpenBuys(book)  == SumOver([n \in DOMAIN book |-> BuyOf(book[n])], DOMAIN book)

LEMMA SwapIs ==
  ASSUME NEW swap \in Swap
  PROVE  /\ swap.amount \in Nat /\ swap.price \in Nat /\ swap.seller \in Users /\ swap.buyer \in Users
         /\ SellOf(swap) \in Nat /\ BuyOf(swap) \in Nat
BY DEF Swap, SellOf, BuyOf

LEMMA BookIs ==
  ASSUME NEW book, IsBook(book)
  PROVE  /\ Len(book) \in Nat /\ DOMAIN book = 1 .. Len(book) /\ IsFiniteSet(DOMAIN book)
         /\ \A n \in DOMAIN book : book[n] \in Swap
         /\ OpenSells(book) \in Nat /\ OpenBuys(book) \in Nat
<1> DEFINE D == DOMAIN book
           f == [n \in D |-> SellOf(book[n])]
           g == [n \in D |-> BuyOf(book[n])]
<1>1. Len(book) \in Nat /\ D = 1 .. Len(book) /\ \A n \in D : book[n] \in Swap
  BY DEF IsBook
<1>2. IsFiniteSet(D)
  BY <1>1, FS_Interval
<1>3. \A n \in D : f[n] \in Nat /\ g[n] \in Nat
  BY <1>1, SwapIs
<1> HIDE DEF f, g, D
<1>4. SumOver(f, D) \in Nat /\ SumOver(g, D) \in Nat
  BY <1>2, <1>3, SumNat
<1>5. QED BY <1>1, <1>2, <1>4 DEF f, g, D, OpenSells, OpenBuys

LEMMA BookAppended ==
  ASSUME NEW book, IsBook(book), NEW swap \in Swap
  PROVE  /\ IsBook(Append(book, swap))
         /\ OpenSells(Append(book, swap)) = OpenSells(book) + SellOf(swap)
         /\ OpenBuys(Append(book, swap)) = OpenBuys(book) + BuyOf(swap)
<1> DEFINE k == Len(book)
           book2 == Append(book, swap)
           f == [n \in DOMAIN book |-> SellOf(book[n])]
           f2 == [n \in DOMAIN book2 |-> SellOf(book2[n])]
           g == [n \in DOMAIN book |-> BuyOf(book[n])]
           g2 == [n \in DOMAIN book2 |-> BuyOf(book2[n])]
<1>1. /\ k \in Nat /\ IsBook(book2) /\ DOMAIN book = 1 .. k /\ DOMAIN book2 = 1 .. k + 1
      /\ \A n \in 1 .. k : book2[n] = book[n]
      /\ book2[k + 1] = swap
  BY DEF IsBook
<1> HIDE DEF book2, k
<1>2. \A n \in 1 .. k + 1 : f2[n] \in Int /\ g2[n] \in Int
  <2>1. \A n \in DOMAIN book2 : SellOf(book2[n]) \in Nat /\ BuyOf(book2[n]) \in Nat
    BY <1>1, BookIs, SwapIs
  <2>2. QED BY <1>1, <2>1
<1>3. \A n \in 1 .. k : f[n] = f2[n] /\ g[n] = g2[n]
  BY <1>1
<1>4. f2[k + 1] = SellOf(swap) /\ g2[k + 1] = BuyOf(swap)
  BY <1>1
<1> HIDE DEF f, g, f2, g2
<1>5. SumOver(f2, 1 .. k + 1) = SumOver(f, 1 .. k) + f2[k + 1]
  BY <1>1, <1>2, <1>3, AppendedSum
<1>6. SumOver(g2, 1 .. k + 1) = SumOver(g, 1 .. k) + g2[k + 1]
  BY <1>1, <1>2, <1>3, AppendedSum
<1>7. QED BY <1>1, <1>4, <1>5, <1>6 DEF f, g, f2, g2, OpenSells, OpenBuys, book2

LEMMA BookEnds ==
  ASSUME NEW book, IsBook(book), NEW n \in DOMAIN book, NEW status \in {"complete", "canceled"}
  PROVE  /\ IsBook([book EXCEPT ![n].status = status])
         /\ OpenSells([book EXCEPT ![n].status = status]) = OpenSells(book) - SellOf(book[n])
         /\ OpenBuys([book EXCEPT ![n].status = status]) = OpenBuys(book) - BuyOf(book[n])
<1> DEFINE D == DOMAIN book
           swap == [book[n] EXCEPT !.status = status]
           book2 == [book EXCEPT ![n] = swap]
           f == [m \in D |-> SellOf(book[m])]
           f2 == [m \in DOMAIN book2 |-> SellOf(book2[m])]
           g == [m \in D |-> BuyOf(book[m])]
           g2 == [m \in DOMAIN book2 |-> BuyOf(book2[m])]
<1>1. [book EXCEPT ![n].status = status] = book2
  OBVIOUS
<1>2. book[n] \in Swap /\ IsFiniteSet(D)
  BY BookIs
<1>3. swap \in Swap /\ swap.status = status
  BY <1>2 DEF Swap
<1>4. SellOf(swap) = 0 /\ BuyOf(swap) = 0
  BY <1>3 DEF SellOf, BuyOf
<1> HIDE DEF swap
<1>5. /\ IsBook(book2) /\ DOMAIN book2 = D
      /\ \A m \in D : book2[m] = IF m = n THEN swap ELSE book[m]
  BY <1>3 DEF IsBook
<1> HIDE DEF book2
<1>6. \A m \in D : /\ SellOf(book[m]) \in Nat /\ SellOf(book2[m]) \in Nat
                   /\ BuyOf(book[m]) \in Nat /\ BuyOf(book2[m]) \in Nat
  BY <1>5, BookIs, SwapIs
<1>7. /\ f[n] = SellOf(book[n]) /\ f2[n] = 0 /\ g[n] = BuyOf(book[n]) /\ g2[n] = 0
  BY <1>4, <1>5
<1>8. /\ \A m \in D : f[m] \in Int /\ f2[m] \in Int /\ g[m] \in Int /\ g2[m] \in Int
      /\ \A m \in D : m # n => f2[m] = f[m] /\ g2[m] = g[m]
  BY <1>5, <1>6
<1>9. n \in D
  OBVIOUS
<1> HIDE DEF D, f, g, f2, g2
<1>10. SumOver(f2, D) = SumOver(f, D) + (f2[n] - f[n])
  BY <1>2, <1>8, <1>9, SumUpdate
<1>11. SumOver(g2, D) = SumOver(g, D) + (g2[n] - g[n])
  BY <1>2, <1>8, <1>9, SumUpdate
<1>12. /\ SellOf(book[n]) \in Nat /\ BuyOf(book[n]) \in Nat
       /\ SumOver(f, D) \in Int /\ SumOver(g, D) \in Int
  BY <1>2, <1>8, SumInt, SwapIs
<1>13. /\ OpenSells(book2) = OpenSells(book) - SellOf(book[n])
       /\ OpenBuys(book2) = OpenBuys(book) - BuyOf(book[n])
  BY <1>5, <1>7, <1>10, <1>11, <1>12 DEF f, g, f2, g2, D, OpenSells, OpenBuys
<1>14. QED BY <1>1, <1>5, <1>13

\* What each snapshot was funded with and has not paid.
Kept(f, c, w) == SumOver([s \in SnapshotIds |-> f[s] - SumOver(c[s], Users) - w[s]], SnapshotIds)

Claims == [SnapshotIds -> [Users -> Nat]]
Sums   == [SnapshotIds -> Nat]

PartOf(f, c, w, s) == f[s] - SumOver(c[s], Users) - w[s]

LEMMA PartIs ==
  ASSUME NEW f \in Sums, NEW c \in Claims, NEW w \in Sums, NEW s \in SnapshotIds
  PROVE  SumOver(c[s], Users) \in Nat /\ PartOf(f, c, w, s) \in Int
<1>1. \A u \in Users : c[s][u] \in Nat
  BY DEF Claims
<1>2. SumOver(c[s], Users) \in Nat
  BY <1>1, AccountsAreFinite, SumNat
<1>3. f[s] \in Nat /\ w[s] \in Nat
  BY DEF Sums
<1>4. QED BY <1>2, <1>3 DEF PartOf

LEMMA KeptChanges ==
  ASSUME NEW f \in Sums, NEW c \in Claims, NEW w \in Sums,
         NEW f2 \in Sums, NEW c2 \in Claims, NEW w2 \in Sums, NEW s \in SnapshotIds,
         \A r \in SnapshotIds : r # s => f2[r] = f[r] /\ c2[r] = c[r] /\ w2[r] = w[r]
  PROVE  /\ Kept(f, c, w) \in Int
         /\ Kept(f2, c2, w2) = Kept(f, c, w) + (PartOf(f2, c2, w2, s) - PartOf(f, c, w, s))
<1> DEFINE S == SnapshotIds
           g == [r \in S |-> PartOf(f, c, w, r)]
           g2 == [r \in S |-> PartOf(f2, c2, w2, r)]
<1>1. IsFiniteSet(S) /\ s \in S
  BY NumberAssumption, FS_Interval DEF SnapshotIds
<1>2. \A r \in S : g[r] \in Int /\ g2[r] \in Int
  BY PartIs
<1>3. \A r \in S : r # s => g2[r] = g[r]
  BY DEF PartOf
<1>4. Kept(f, c, w) = SumOver(g, S) /\ Kept(f2, c2, w2) = SumOver(g2, S)
  BY DEF Kept, PartOf
<1>5. g[s] = PartOf(f, c, w, s) /\ g2[s] = PartOf(f2, c2, w2, s)
  OBVIOUS
<1> HIDE DEF S, g, g2
<1>6. SumOver(g2, S) = SumOver(g, S) + (g2[s] - g[s])
  BY <1>1, <1>2, <1>3, SumUpdate
<1>7. SumOver(g, S) \in Int
  BY <1>1, <1>2, SumInt
<1>8. QED BY <1>4, <1>5, <1>6, <1>7

PlusAt(f, s, n) == [f EXCEPT ![s] = f[s] + n]

LEMMA KeptFunded ==
  ASSUME NEW f \in Sums, NEW c \in Claims, NEW w \in Sums, NEW s \in SnapshotIds, NEW n \in Nat
  PROVE  /\ PlusAt(f, s, n) \in Sums
         /\ Kept(f, c, w) \in Int
         /\ Kept(PlusAt(f, s, n), c, w) = Kept(f, c, w) + n
<1> DEFINE m == f[s] + n
           f2 == [f EXCEPT ![s] = m]
<1>1. m \in Nat /\ f[s] \in Nat /\ m = f[s] + n
  BY DEF Sums
<1> HIDE DEF m
<1>2. f2 \in Sums /\ f2[s] = m /\ \A r \in SnapshotIds : r # s => f2[r] = f[r]
  BY <1>1 DEF Sums
<1> HIDE DEF f2
<1>3. /\ Kept(f, c, w) \in Int
      /\ Kept(f2, c, w) = Kept(f, c, w) + (PartOf(f2, c, w, s) - PartOf(f, c, w, s))
  BY <1>2, KeptChanges
<1>4. PartOf(f2, c, w, s) - PartOf(f, c, w, s) = n
  <2>1. SumOver(c[s], Users) \in Nat /\ w[s] \in Nat
    BY PartIs DEF Sums
  <2>2. QED BY <1>1, <1>2, <2>1 DEF PartOf
<1>5. QED BY <1>2, <1>3, <1>4 DEF PlusAt, f2, m

LEMMA KeptWithdrawn ==
  ASSUME NEW f \in Sums, NEW c \in Claims, NEW w \in Sums, NEW s \in SnapshotIds, NEW n \in Nat
  PROVE  /\ PlusAt(w, s, n) \in Sums
         /\ Kept(f, c, w) \in Int
         /\ Kept(f, c, PlusAt(w, s, n)) = Kept(f, c, w) - n
<1> DEFINE m == w[s] + n
           w2 == [w EXCEPT ![s] = m]
<1>1. m \in Nat /\ w[s] \in Nat /\ m = w[s] + n
  BY DEF Sums
<1> HIDE DEF m
<1>2. w2 \in Sums /\ w2[s] = m /\ \A r \in SnapshotIds : r # s => w2[r] = w[r]
  BY <1>1 DEF Sums
<1> HIDE DEF w2
<1>3. /\ Kept(f, c, w) \in Int
      /\ Kept(f, c, w2) = Kept(f, c, w) + (PartOf(f, c, w2, s) - PartOf(f, c, w, s))
  BY <1>2, KeptChanges
<1>4. PartOf(f, c, w2, s) - PartOf(f, c, w, s) = 0 - n
  <2>1. SumOver(c[s], Users) \in Nat /\ f[s] \in Nat
    BY PartIs DEF Sums
  <2>2. QED BY <1>1, <1>2, <2>1 DEF PartOf
<1>5. QED BY <1>2, <1>3, <1>4 DEF PlusAt, w2, m

\* One more claim; EXCEPT ![s][u] written in two steps.
WithClaim(c, s, u, n) == [c EXCEPT ![s] = [c[s] EXCEPT ![u] = c[s][u] + n]]

LEMMA KeptClaimed ==
  ASSUME NEW f \in Sums, NEW c \in Claims, NEW w \in Sums, NEW s \in SnapshotIds, NEW n \in Nat,
         NEW u \in Users
  PROVE  /\ WithClaim(c, s, u, n) \in Claims
         /\ \A r \in SnapshotIds, v \in Users :
              WithClaim(c, s, u, n)[r][v] = c[r][v] + (IF r = s /\ v = u THEN n ELSE 0)
         /\ Kept(f, c, w) \in Int
         /\ Kept(f, WithClaim(c, s, u, n), w) = Kept(f, c, w) - n
<1> DEFINE b == c[s]
           m == b[u] + n
           b2 == [b EXCEPT ![u] = m]
           c2 == [c EXCEPT ![s] = b2]
<1>1. b \in [Users -> Nat] /\ \A r \in SnapshotIds : c[r] \in [Users -> Nat]
  BY DEF Claims
<1>2. m \in Nat /\ b[u] \in Nat /\ m = b[u] + n
  BY <1>1
<1>3. WithClaim(c, s, u, n) = c2
  BY DEF WithClaim
<1> HIDE DEF m
<1>4. b2 \in [Users -> Nat] /\ \A v \in Users : b2[v] = IF v = u THEN m ELSE b[v]
  BY <1>1, <1>2
<1> HIDE DEF b2
<1>5. c2 \in Claims /\ \A r \in SnapshotIds : c2[r] = IF r = s THEN b2 ELSE c[r]
  BY <1>4 DEF Claims
<1> HIDE DEF c2
<1>6. \A r \in SnapshotIds, v \in Users : c2[r][v] = c[r][v] + (IF r = s /\ v = u THEN n ELSE 0)
  BY <1>1, <1>2, <1>4, <1>5
<1>7. SumOver(b2, Users) = SumOver(b, Users) + n
  <2>1. \A v \in Users : b[v] \in Int /\ b2[v] \in Int
    BY <1>1, <1>4
  <2>2. \A v \in Users : v # u => b2[v] = b[v]
    BY <1>4
  <2>3. IsFiniteSet(Users)
    BY AccountsAreFinite
  <2> HIDE DEF b
  <2>4. SumOver(b2, Users) = SumOver(b, Users) + (b2[u] - b[u])
    BY <2>1, <2>2, <2>3, SumUpdate
  <2>5. b2[u] - b[u] = n
    BY <1>2, <1>4
  <2>6. QED BY <2>4, <2>5
<1>8. /\ Kept(f, c, w) \in Int
      /\ Kept(f, c2, w) = Kept(f, c, w) + (PartOf(f, c2, w, s) - PartOf(f, c, w, s))
  <2>1. \A r \in SnapshotIds : r # s => c2[r] = c[r]
    BY <1>5
  <2>2. QED BY <1>5, <2>1, KeptChanges
<1>9. PartOf(f, c2, w, s) - PartOf(f, c, w, s) = 0 - n
  <2>1. SumOver(c[s], Users) \in Nat /\ f[s] \in Nat /\ w[s] \in Nat
    BY PartIs DEF Sums
  <2>2. SumOver(c2[s], Users) = SumOver(c[s], Users) + n
    BY <1>5, <1>7
  <2>3. QED BY <2>1, <2>2 DEF PartOf
<1>10. QED BY <1>3, <1>5, <1>6, <1>8, <1>9

-----------------------------------------------------------------------------
(* What a snapshot answers *)

Later(recorded, s, id) == {k \in s .. id : recorded[k] # Unset}

Earliest(later) == CHOOSE k \in later : \A l \in later : k <= l

AtOf(recorded, current, s, id) ==
  IF Later(recorded, s, id) = {} THEN current ELSE recorded[Earliest(Later(recorded, s, id))]

LEMMA AtIs == ASSUME NEW recorded, NEW current, NEW s
              PROVE  At(recorded, current, s) = AtOf(recorded, current, s, snapshotId)
BY DEF At, AtOf, Later, Earliest

LEMMA NothingLater ==
  ASSUME NEW recorded, NEW current, NEW s \in Nat, NEW id \in Nat,
         \A k \in s .. id : recorded[k] = Unset
  PROVE  AtOf(recorded, current, s, id) = current
BY DEF AtOf, Later

LEMMA FirstLater ==
  ASSUME NEW recorded, NEW current, NEW s \in Nat, NEW id \in Nat, NEW k \in s .. id,
         recorded[k] # Unset, \A l \in s .. id : l < k => recorded[l] = Unset
  PROVE  AtOf(recorded, current, s, id) = recorded[k]
<1> DEFINE later == {l \in s .. id : recorded[l] # Unset}
           first == CHOOSE l \in later : \A m \in later : l <= m
<1>1. k \in later /\ \A m \in later : k <= m
  OBVIOUS
<1>2. first \in later /\ \A m \in later : first <= m
  BY <1>1
<1>3. \A m \in later : m \in Int
  OBVIOUS
<1>4. AtOf(recorded, current, s, id) = recorded[first]
  BY <1>1 DEF AtOf, Later, Earliest
<1> HIDE DEF later, first
<1>5. first <= k /\ k <= first
  BY <1>1, <1>2
<1>6. first = k
  BY <1>1, <1>2, <1>3, <1>5
<1>7. QED BY <1>4, <1>6

\* Either nothing was recorded since, or there is a first record.
LEMMA LaterOrNot ==
  ASSUME NEW recorded, NEW s \in Nat, NEW id \in Nat
  PROVE  \/ \A k \in s .. id : recorded[k] = Unset
         \/ \E k \in s .. id : recorded[k] # Unset /\ \A l \in s .. id : l < k => recorded[l] = Unset
<1> DEFINE later == {k \in s .. id : recorded[k] # Unset}
<1>1. SUFFICES ASSUME later # {}
               PROVE  \E k \in s .. id : recorded[k] # Unset /\ \A l \in s .. id : l < k => recorded[l] = Unset
  OBVIOUS
<1>2. later \subseteq Nat
  OBVIOUS
<1>3. PICK k \in later : \A m \in later : k <= m
  <2> HIDE DEF later
  <2>1. QED BY <1>1, <1>2, LeastNatural
<1>4. ASSUME NEW l \in s .. id, l < k PROVE recorded[l] = Unset
  <2>1. l \in later => k <= l
    BY <1>3
  <2>2. l \in Int /\ k \in Int
    BY <1>2, <1>3
  <2>3. l \notin later
    BY <1>4, <2>1, <2>2
  <2>4. QED BY <2>3
<1>5. QED BY <1>3, <1>4

Record == [SnapshotIds -> Nat \cup {Unset}]

LEMMA AnswerIs ==
  ASSUME NEW recorded \in Record, NEW current \in Nat, NEW s \in SnapshotIds, NEW id \in Nat,
         id <= MaxSnapshots
  PROVE  AtOf(recorded, current, s, id) \in Nat
<1>1. s \in Nat /\ s >= 1 /\ MaxSnapshots \in Nat
  BY NumberAssumption DEF SnapshotIds
<1>2. CASE \A k \in s .. id : recorded[k] = Unset
  BY <1>1, <1>2, NothingLater
<1>3. ASSUME NEW k \in s .. id, recorded[k] # Unset, \A l \in s .. id : l < k => recorded[l] = Unset
      PROVE  AtOf(recorded, current, s, id) \in Nat
  <2>1. k \in SnapshotIds
    BY <1>1 DEF SnapshotIds
  <2>2. recorded[k] \in Nat
    BY <1>3, <2>1 DEF Record
  <2>3. AtOf(recorded, current, s, id) = recorded[k]
    BY <1>1, <1>3, FirstLater
  <2>4. QED BY <2>2, <2>3
<1>4. QED BY <1>1, <1>2, <1>3, LaterOrNot

\* Once something is recorded for the current snapshot, what holds now no longer matters.
LEMMA AnswerIsFixed ==
  ASSUME NEW recorded, NEW current, NEW current2, NEW s \in Nat, NEW id \in Nat, s <= id,
         recorded[id] # Unset
  PROVE  AtOf(recorded, current2, s, id) = AtOf(recorded, current, s, id)
<1>1. id \in s .. id
  OBVIOUS
<1>2. {k \in s .. id : recorded[k] # Unset} # {}
  BY <1>1
<1>3. QED BY <1>2 DEF AtOf, Later

\* Recording what holds now changes no answer, whatever holds next.
LEMMA RecordingIsSound ==
  ASSUME NEW recorded \in Record, NEW current \in Nat, NEW current2, NEW s \in SnapshotIds,
         NEW id \in SnapshotIds, s <= id, recorded[id] = Unset
  PROVE  AtOf([recorded EXCEPT ![id] = current], current2, s, id) = AtOf(recorded, current, s, id)
<1> DEFINE recorded2 == [recorded EXCEPT ![id] = current]
<1>1. s \in Nat /\ id \in Nat /\ id \in s .. id /\ \A k \in s .. id : k \in SnapshotIds
  BY NumberAssumption DEF SnapshotIds
<1>2. \A k \in SnapshotIds : recorded2[k] = IF k = id THEN current ELSE recorded[k]
  BY DEF Record
<1>3. current # Unset
  BY DEF Unset
<1> HIDE DEF recorded2
<1>4. CASE \A k \in s .. id : recorded[k] = Unset
  <2>1. AtOf(recorded, current, s, id) = current
    BY <1>1, <1>4, NothingLater
  <2>2. recorded2[id] # Unset /\ \A l \in s .. id : l < id => recorded2[l] = Unset
    BY <1>1, <1>2, <1>3, <1>4
  <2>3. AtOf(recorded2, current2, s, id) = recorded2[id]
    BY <1>1, <2>2, FirstLater
  <2>4. QED BY <1>2, <2>1, <2>3 DEF recorded2
<1>5. ASSUME NEW k \in s .. id, recorded[k] # Unset, \A l \in s .. id : l < k => recorded[l] = Unset
      PROVE  AtOf(recorded2, current2, s, id) = AtOf(recorded, current, s, id)
  <2>1. AtOf(recorded, current, s, id) = recorded[k]
    BY <1>1, <1>5, FirstLater
  <2>2. k # id /\ k < id
    BY <1>1, <1>5
  <2>3. /\ recorded2[k] = recorded[k] /\ recorded2[k] # Unset
        /\ \A l \in s .. id : l < k => recorded2[l] = Unset
    BY <1>1, <1>2, <1>5, <2>2
  <2>4. AtOf(recorded2, current2, s, id) = recorded2[k]
    BY <1>1, <1>5, <2>3, FirstLater
  <2>5. QED BY <2>1, <2>3, <2>4
<1>6. QED BY <1>1, <1>4, <1>5, LaterOrNot DEF recorded2

\* A new snapshot changes no answer about an older one.
LEMMA SnapshotIsSound ==
  ASSUME NEW recorded, NEW current, NEW s \in Nat, NEW id \in Nat, s <= id, recorded[id + 1] = Unset
  PROVE  AtOf(recorded, current, s, id + 1) = AtOf(recorded, current, s, id)
<1>1. Later(recorded, s, id + 1) = Later(recorded, s, id)
  <2>1. s .. id + 1 = (s .. id) \cup {id + 1}
    OBVIOUS
  <2>2. QED BY <2>1 DEF Later
<1>2. QED BY <1>1 DEF AtOf

-----------------------------------------------------------------------------
(* What a holder is awarded *)

Share(b, supply)        == (b * Precision) \div supply
Award(f, b, supply)     == IF supply = 0 THEN 0 ELSE (f * Share(b, supply)) \div Precision

LEMMA ShareIs ==
  ASSUME NEW b \in Nat, NEW supply \in Nat, supply # 0
  PROVE  Share(b, supply) \in Nat /\ Share(b, supply) * supply <= b * Precision
<1> DEFINE m == b * Precision
<1>1. Precision \in Nat
  BY PaymentAssumption
<1>2. m \in Nat
  BY <1>1, TimesIsNat
<1> HIDE DEF m
<1>3. m \div supply \in Nat /\ (m \div supply) * supply <= m
  BY <1>2, QuotientIsFloor
<1>4. QED BY <1>3 DEF Share, m

LEMMA AwardIs ==
  ASSUME NEW f \in Nat, NEW b \in Nat, NEW supply \in Nat
  PROVE  Award(f, b, supply) \in Nat /\ supply * Award(f, b, supply) <= f * b
<1>1. Precision \in Nat /\ Precision > 0
  BY PaymentAssumption
<1>2. CASE supply = 0
  <2>1. f * b \in Nat /\ 0 * 0 = 0
    BY TimesIsNat
  <2>2. Award(f, b, supply) = 0
    BY <1>2 DEF Award
  <2>3. QED BY <1>2, <2>1, <2>2
<1>3. CASE supply # 0
  <2> DEFINE q == Share(b, supply)
             m == f * q
             a == m \div Precision
  <2>1. q \in Nat /\ q * supply <= b * Precision
    BY <1>3, ShareIs
  <2> HIDE DEF q
  <2>2. m \in Nat
    BY <2>1, TimesIsNat
  <2>3. m = f * q
    OBVIOUS
  <2> HIDE DEF m
  <2>4. a \in Nat /\ a * Precision <= m
    BY <1>1, <2>2, QuotientIsFloor
  <2>5. Award(f, b, supply) = a
    BY <1>3 DEF Award, a, m, q
  <2> HIDE DEF a
  <2>6. f * (q * supply) <= f * (b * Precision)
    <3>1. q * supply \in Nat /\ b * Precision \in Nat
      BY <1>1, <2>1, TimesIsNat
    <3>2. QED BY <2>1, <3>1, ProductsGrow
  <2>7. (a * Precision) * supply <= m * supply
    <3>1. a * Precision \in Nat
      BY <1>1, <2>4, TimesIsNat
    <3>2. QED BY <2>2, <2>4, <3>1, ProductsGrow
  <2>8. m * supply = f * (q * supply)
    BY <2>1, <2>3, Z3
  <2>9. (supply * a) * Precision = (a * Precision) * supply /\ f * (b * Precision) = (f * b) * Precision
    BY <1>1, <2>4, Z3
  <2>10. supply * a \in Nat /\ f * b \in Nat
    BY <2>4, TimesIsNat
  <2> DEFINE left == supply * a
             right == f * b
  <2>11. left * Precision <= right * Precision
    <3>1. /\ (a * Precision) * supply \in Nat /\ m * supply \in Nat /\ f * (b * Precision) \in Nat
      BY <1>1, <2>2, <2>4, TimesIsNat
    <3>2. QED BY <2>6, <2>7, <2>8, <2>9, <3>1
  <2>12. left \in Nat /\ right \in Nat
    BY <2>10
  <2> HIDE DEF left, right
  <2>13. left <= right
    BY <1>1, <2>11, <2>12, Z3
  <2>14. QED BY <2>4, <2>5, <2>13 DEF left, right
<1>4. QED BY <1>2, <1>3

\* A later fund makes no award smaller.
LEMMA AwardGrows ==
  ASSUME NEW f \in Nat, NEW n \in Nat, NEW b \in Nat, NEW supply \in Nat
  PROVE  Award(f, b, supply) <= Award(f + n, b, supply)
<1>1. Precision \in Nat /\ Precision # 0
  BY PaymentAssumption
<1>2. CASE supply = 0
  BY <1>2 DEF Award
<1>3. CASE supply # 0
  <2> DEFINE q == Share(b, supply)
             m == f * q
             m2 == (f + n) * q
  <2>1. q \in Nat
    BY <1>3, ShareIs
  <2> HIDE DEF q
  <2>2. m \in Nat /\ m2 \in Nat /\ m <= m2
    <3>1. f + n \in Nat /\ f <= f + n
      OBVIOUS
    <3>2. QED BY <2>1, <3>1, ProductsGrow, TimesIsNat
  <2>3. /\ Award(f, b, supply) = m \div Precision
        /\ Award(f + n, b, supply) = m2 \div Precision
    BY <1>3 DEF Award, m, m2, q
  <2> HIDE DEF m, m2
  <2>4. m \div Precision <= m2 \div Precision
    BY <1>1, <2>2, QuotientsGrow
  <2>5. QED BY <2>3, <2>4
<1>4. QED BY <1>2, <1>3

-----------------------------------------------------------------------------
(***************************************************************************)
(* The invariant of the deployed token.  Its contract keeps what the open  *)
(* swaps and the dividends have put there, beyond the timelocks and the    *)
(* stray tokens, but for what completions crossed over.  The snapshots'    *)
(* part may be less than nothing here; the theorem tells dues from debts.  *)
(***************************************************************************)
SwapInv == LockInv /\ SwapTypeOK /\ snapshotId <= MaxSnapshots

Escrow ==
  /\ Surplus = OpenSells(swaps) + crossedTokens
  /\ payments[Token] = OpenBuys(swaps) + Kept(funded, claimed, withdrawn) + crossedPayments

LEMMA SwapFacts ==
  ASSUME SwapInv
  PROVE  /\ LockInv /\ payments \in Wallets /\ payments[Token] \in Nat
         /\ funded \in Sums /\ unused \in Sums /\ claimed \in Claims /\ withdrawn \in Sums
         /\ IsBook(swaps) /\ crossedTokens \in Int /\ crossedPayments \in Int /\ Surplus \in Int
         /\ Kept(funded, claimed, withdrawn) \in Int
         /\ OpenSells(swaps) \in Nat /\ OpenBuys(swaps) \in Nat
<1>1. /\ LockInv /\ payments \in Wallets
      /\ funded \in Sums /\ unused \in Sums /\ claimed \in Claims /\ withdrawn \in Sums
      /\ IsBook(swaps) /\ crossedTokens \in Int /\ crossedPayments \in Int
  BY DEF SwapInv, SwapTypeOK, Wallets, Sums, Claims, IsBook
<1>2. Token \in Accounts
  BY DEF Accounts
<1>3. payments[Token] \in Nat
  BY <1>1, <1>2 DEF Wallets
<1>4. Surplus \in Int
  BY <1>1, SurplusIs
<1>5. Kept(funded, claimed, withdrawn) \in Int
  <2> DEFINE g == [s \in SnapshotIds |-> PartOf(funded, claimed, withdrawn, s)]
  <2>1. \A s \in SnapshotIds : g[s] \in Int
    BY <1>1, PartIs
  <2>2. IsFiniteSet(SnapshotIds)
    BY NumberAssumption, FS_Interval DEF SnapshotIds
  <2>3. Kept(funded, claimed, withdrawn) = SumOver(g, SnapshotIds)
    BY DEF Kept, PartOf
  <2> HIDE DEF g
  <2>4. QED BY <2>1, <2>2, <2>3, SumInt
<1>6. QED BY <1>1, <1>3, <1>4, <1>5, BookIs

LEMMA InitSwap == SwapInit => SwapInv /\ Escrow
<1> SUFFICES ASSUME SwapInit PROVE SwapInv /\ Escrow
  OBVIOUS
<1>1. LockInv /\ Surplus = 0 /\ snapshotId = 0 /\ swaps = <<>>
      /\ crossedTokens = 0 /\ crossedPayments = 0
  BY InitLock DEF SwapInit, Init
<1>2. /\ payments \in [Accounts -> Nat]
      /\ funded \in [SnapshotIds -> Nat] /\ unused \in [SnapshotIds -> Nat]
      /\ claimed \in [SnapshotIds -> [Users -> Nat]] /\ withdrawn \in [SnapshotIds -> Nat]
      /\ payments[Token] = 0
  BY PaymentAssumption, AddressAssumption DEF SwapInit, InitDividends, Accounts
<1>3. SwapInv
  <2>1. 0 <= MaxSnapshots
    BY NumberAssumption
  <2>2. <<>> \in Seq(Swap)
    OBVIOUS
  <2>3. SwapTypeOK
    BY <1>1, <1>2, <2>2 DEF SwapTypeOK, LockInv
  <2>4. QED BY <1>1, <2>1, <2>3 DEF SwapInv
<1>4. OpenSells(swaps) = 0 /\ OpenBuys(swaps) = 0
  <2>1. DOMAIN swaps = {}
    BY <1>1
  <2>2. QED BY <2>1, SumEmpty DEF OpenSells, OpenBuys
<1>5. Kept(funded, claimed, withdrawn) = 0
  <2> DEFINE g == [s \in SnapshotIds |-> PartOf(funded, claimed, withdrawn, s)]
  <2>1. ASSUME NEW s \in SnapshotIds PROVE PartOf(funded, claimed, withdrawn, s) = 0
    <3> DEFINE c == claimed[s]
    <3>1. \A u \in Users : c[u] = 0
      BY DEF SwapInit, InitDividends
    <3> HIDE DEF c
    <3>2. SumOver(c, Users) = 0
      BY <3>1, SumZero, AccountsAreFinite
    <3>3. funded[s] = 0 /\ withdrawn[s] = 0
      BY DEF SwapInit, InitDividends
    <3>4. QED BY <3>2, <3>3 DEF PartOf, c
  <2>2. \A s \in SnapshotIds : g[s] = 0
    BY <2>1
  <2>3. IsFiniteSet(SnapshotIds)
    BY NumberAssumption, FS_Interval DEF SnapshotIds
  <2>4. Kept(funded, claimed, withdrawn) = SumOver(g, SnapshotIds)
    BY DEF Kept, PartOf
  <2> HIDE DEF g
  <2>5. QED BY <2>2, <2>3, <2>4, SumZero
<1>6. QED BY <1>1, <1>2, <1>3, <1>4, <1>5 DEF Escrow

\* The steps of the base token move nothing that is in escrow.
LEMMA LockupKeepsSwaps ==
  ASSUME SwapInv, Escrow, Shifting \/ Issuing \/ Quiet, LockInv', Surplus' = Surplus,
         UNCHANGED <<dividendVars, swapVars>>
  PROVE  SwapInv' /\ Escrow'
<1>1. UNCHANGED <<payments, funded, unused, claimed, withdrawn, swaps, crossedTokens, crossedPayments>>
  BY DEF dividendVars, swapVars
<1>2. snapshotId' <= MaxSnapshots
  <2>1. snapshotId \in Nat /\ snapshotId <= MaxSnapshots /\ MaxSnapshots \in Nat
    BY NumberAssumption DEF SwapInv, LockInv, TypeOK
  <2>2. snapshotId' = snapshotId \/ (snapshotId' = snapshotId + 1 /\ snapshotId < MaxSnapshots)
    BY DEF Shifting, Issuing, Quiet
  <2>3. QED BY <2>1, <2>2
<1>3. SwapTypeOK'
  BY <1>1 DEF SwapInv, SwapTypeOK, LockInv
<1>4. Escrow'
  <2>1. /\ OpenSells(swaps)' = OpenSells(swaps) /\ OpenBuys(swaps)' = OpenBuys(swaps)
        /\ Kept(funded, claimed, withdrawn)' = Kept(funded, claimed, withdrawn)
    BY <1>1 DEF OpenSells, OpenBuys, SellOf, BuyOf, Kept
  <2>2. /\ Surplus' = OpenSells(swaps)' + crossedTokens'
        /\ payments'[Token] = OpenBuys(swaps)' + Kept(funded, claimed, withdrawn)' + crossedPayments'
    BY <1>1, <2>1 DEF Escrow
  <2>3. QED BY <2>2 DEF Escrow
<1>5. QED BY <1>2, <1>3, <1>4 DEF SwapInv

LEMMA DepositShifts ==
  ASSUME LockInv, NEW from \in Accounts, NEW to \in Accounts, NEW n \in Nat, Deposit(from, to, n)
  PROVE  /\ Shifting /\ LockInv'
         /\ \A x \in Accounts : tokens'[x] = After(tokens, from, to, n, x)
         /\ Surplus' = Surplus - (IF from = Token THEN n ELSE 0) + (IF to = Token THEN n ELSE 0)
<1>1. /\ tokens \in Wallets /\ timelocks \in Rows /\ Token \in Accounts
      /\ (\A x \in Accounts : tokens[x] \in Nat) /\ stray \in Int
  BY LockFacts DEF Accounts
<1>2. /\ tokens[from] >= n /\ tokens' = Moved(tokens, from, to, n) /\ Recorded(timelocks, {from, to})
      /\ UNCHANGED <<now, roleVars, ruleVars, totalSupply, allowance, lockVars,
                     snapshotId, supplySnapshots>>
  BY DEF Deposit
<1>3. /\ tokens' \in Wallets /\ SumOver(tokens', Accounts) = SumOver(tokens, Accounts)
      /\ \A x \in Accounts : tokens'[x] = After(tokens, from, to, n, x)
  BY <1>1, <1>2, MovedIs
<1>4. timelocks' = timelocks /\ releaseSchedules' = releaseSchedules /\ stray' = stray
  BY <1>2 DEF lockVars
<1>5. Hooked
  <2>1. \A x \in Accounts : tokens'[x] # tokens[x] => x \in {from, to}
    BY <1>1, <1>3 DEF After
  <2>2. QED BY <1>1, <1>2, <1>4, <2>1, LockFacts DEF Hooked
<1>6. Shifting
  <2>1. allowance' \in [Users -> [Users -> Nat]]
    BY <1>2 DEF LockInv, TypeOK
  <2>2. RowsInTime(timelocks')
    BY <1>4, LockFacts
  <2>3. QED BY <1>1, <1>2, <1>3, <1>4, <1>5, <2>1, <2>2 DEF Shifting
<1>7. Surplus' = Surplus - (IF from = Token THEN n ELSE 0) + (IF to = Token THEN n ELSE 0)
  <2>1. InRows(timelocks) \in Int /\ InRows(timelocks)' = InRows(timelocks)
    BY <1>1, <1>4, RowsAre DEF InRows, InRow
  <2>2. tokens'[Token] = tokens[Token] - (IF Token = from THEN n ELSE 0) + (IF Token = to THEN n ELSE 0)
    BY <1>1, <1>3 DEF After
  <2>3. tokens[Token] \in Nat
    BY <1>1
  <2>4. QED BY <1>1, <1>4, <2>1, <2>2, <2>3 DEF Surplus
<1>8. QED BY <1>3, <1>6, <1>7, ShiftingKeeps

LEMMA PaymentMoves ==
  ASSUME payments \in Wallets, NEW from \in Accounts, NEW to \in Accounts, NEW n \in Nat,
         payments[from] >= n, MovedPayment(from, to, n)
  PROVE  payments' \in Wallets /\ \A x \in Accounts : payments'[x] = After(payments, from, to, n, x)
<1>1. payments' = Moved(payments, from, to, n)
  BY DEF MovedPayment
<1>2. QED BY <1>1, MovedIs

LEMMA LockupUnchanged ==
  ASSUME LockInv, UNCHANGED lockupVars
  PROVE  LockInv' /\ Surplus' = Surplus /\ snapshotId' = snapshotId
BY LockupStutters DEF lockupVars, snapshotVars

\* A step on the book of swaps.
LEMMA BookStep ==
  ASSUME SwapInv, LockInv', snapshotId' = snapshotId, payments' \in Wallets, IsBook(swaps'),
         crossedTokens' \in Int, crossedPayments' \in Int, UNCHANGED <<funded, unused, claimed, withdrawn>>
  PROVE  /\ SwapInv'
         /\ Kept(funded, claimed, withdrawn)' = Kept(funded, claimed, withdrawn)
<1>1. SwapTypeOK'
  BY DEF SwapInv, SwapTypeOK, LockInv, Wallets, IsBook
<1>2. QED BY <1>1 DEF SwapInv, Kept

-----------------------------------------------------------------------------
(* The swaps, step by step *)

SettlesOf(n) ==
  LET swap == swaps[n] IN
  swaps'[n].status # swap.status =>
    /\ swap.status \in {"sell", "buy"}
    /\ swaps'[n].status = "complete" =>
         /\ payments'[swap.seller] = payments[swap.seller] + swap.price
         /\ swap.seller # swap.buyer => tokens'[swap.buyer] = tokens[swap.buyer] + swap.amount
    /\ swaps'[n].status = "canceled" =>
         /\ payments'[swap.buyer] - payments[swap.buyer] = OpenFor(n, "buy", swap.price)
         /\ tokens'[swap.seller] - tokens[swap.seller] = OpenFor(n, "sell", swap.amount)

Settles == \A n \in DOMAIN swaps : SettlesOf(n)

LEMMA ConfiguredIs ==
  ASSUME SwapInv, NEW seller \in Users, NEW buyer \in Users, NEW amount \in Nat, NEW price \in Nat,
         NEW status \in {"sell", "buy"}, Configured(seller, buyer, amount, price, status)
  PROVE  /\ IsBook(swaps') /\ UNCHANGED <<crossedTokens, crossedPayments>> /\ Settles
         /\ OpenSells(swaps)' = OpenSells(swaps) + (IF status = "sell" THEN amount ELSE 0)
         /\ OpenBuys(swaps)' = OpenBuys(swaps) + (IF status = "buy" THEN price ELSE 0)
<1> DEFINE swap == [seller |-> seller, buyer |-> buyer, amount |-> amount, price |-> price,
                    status |-> status]
<1>1. swaps' = Append(swaps, swap) /\ UNCHANGED <<crossedTokens, crossedPayments>>
  BY DEF Configured
<1>2. swap \in Swap /\ SellOf(swap) = (IF status = "sell" THEN amount ELSE 0)
      /\ BuyOf(swap) = (IF status = "buy" THEN price ELSE 0)
  BY DEF Swap, SellOf, BuyOf
<1> HIDE DEF swap
<1>3. IsBook(swaps)
  BY SwapFacts
<1>4. /\ IsBook(swaps') /\ OpenSells(swaps') = OpenSells(swaps) + SellOf(swap)
      /\ OpenBuys(swaps') = OpenBuys(swaps) + BuyOf(swap)
  BY <1>1, <1>2, <1>3, BookAppended
<1>5. OpenSells(swaps)' = OpenSells(swaps') /\ OpenBuys(swaps)' = OpenBuys(swaps')
  BY DEF OpenSells, OpenBuys, SellOf, BuyOf
<1>6. Settles
  <2>1. \A n \in DOMAIN swaps : swaps'[n] = swaps[n]
    BY <1>1, <1>3 DEF IsBook
  <2>2. QED BY <2>1 DEF Settles, SettlesOf
<1>7. QED BY <1>1, <1>2, <1>4, <1>5, <1>6

\* The contract's counts, from what a step puts in the book and crosses over.
Counted(sells, buys, overTokens, overPayments) ==
  /\ OpenSells(swaps)' = OpenSells(swaps) + sells /\ OpenBuys(swaps)' = OpenBuys(swaps) + buys
  /\ Surplus' = Surplus + (sells + overTokens)
  /\ payments'[Token] = payments[Token] + (buys + overPayments)
  /\ crossedTokens' = crossedTokens + overTokens
  /\ crossedPayments' = crossedPayments + overPayments

LEMMA CountsAgree ==
  ASSUME SwapInv, Escrow, NEW a \in Int, NEW b \in Int, NEW c \in Int, NEW d \in Int,
         Counted(a, b, c, d), UNCHANGED <<funded, claimed, withdrawn>>
  PROVE  Escrow'
<1>1. Kept(funded, claimed, withdrawn)' = Kept(funded, claimed, withdrawn)
  BY DEF Kept
<1>2. /\ payments[Token] \in Nat /\ Surplus \in Int /\ Kept(funded, claimed, withdrawn) \in Int
      /\ OpenSells(swaps) \in Nat /\ OpenBuys(swaps) \in Nat
      /\ crossedTokens \in Int /\ crossedPayments \in Int
  BY SwapFacts
<1>3. Surplus' = OpenSells(swaps)' + crossedTokens'
  BY <1>2 DEF Escrow, Counted
<1>4. payments'[Token] = OpenBuys(swaps)' + Kept(funded, claimed, withdrawn)' + crossedPayments'
  BY <1>1, <1>2 DEF Escrow, Counted
<1>5. QED BY <1>3, <1>4 DEF Escrow

LEMMA SellIsConfigured ==
  ASSUME SwapInv, Escrow, NEW u \in Users, NEW amount \in Nat, NEW buyer \in Users, NEW price \in Nat,
         ConfigureSell(u, amount, buyer, price)
  PROVE  SwapInv' /\ Escrow' /\ Settles
<1>1. /\ Configured(u, buyer, amount, price, "sell") /\ Deposit(u, Token, amount)
      /\ UNCHANGED <<payments, funded, unused, claimed, withdrawn>>
  BY DEF ConfigureSell, dividendVars
<1>2. /\ IsBook(swaps') /\ UNCHANGED <<crossedTokens, crossedPayments>> /\ Settles
      /\ OpenSells(swaps)' = OpenSells(swaps) + amount
      /\ OpenBuys(swaps)' = OpenBuys(swaps) + 0
  BY <1>1, ConfiguredIs
<1>3. u \in Accounts /\ Token \in Accounts /\ u # Token
  BY AddressAssumption DEF Accounts
<1>4. /\ LockInv /\ payments \in Wallets /\ Surplus \in Int
      /\ crossedTokens \in Int /\ crossedPayments \in Int
      /\ payments[Token] \in Nat
  BY SwapFacts
<1>5. /\ LockInv' /\ Shifting
      /\ Surplus' = Surplus - (IF u = Token THEN amount ELSE 0) + (IF Token = Token THEN amount ELSE 0)
  BY <1>1, <1>3, <1>4, DepositShifts
<1>6. SwapInv'
  BY <1>1, <1>2, <1>4, <1>5, BookStep DEF Shifting
<1>7. Counted(amount, 0, 0, 0)
  BY <1>1, <1>2, <1>3, <1>4, <1>5 DEF Counted
<1>8. QED BY <1>1, <1>2, <1>6, <1>7, CountsAgree

LEMMA BuyIsConfigured ==
  ASSUME SwapInv, Escrow, NEW u \in Users, NEW amount \in Nat, NEW seller \in Users, NEW price \in Nat,
         ConfigureBuy(u, amount, seller, price)
  PROVE  SwapInv' /\ Escrow' /\ Settles
<1>1. /\ Configured(seller, u, amount, price, "buy") /\ MovedPayment(u, Token, price)
      /\ payments[u] >= price
      /\ UNCHANGED lockupVars /\ UNCHANGED <<funded, unused, claimed, withdrawn>>
  BY DEF ConfigureBuy
<1>2. /\ IsBook(swaps') /\ UNCHANGED <<crossedTokens, crossedPayments>> /\ Settles
      /\ OpenSells(swaps)' = OpenSells(swaps) + 0
      /\ OpenBuys(swaps)' = OpenBuys(swaps) + price
  BY <1>1, ConfiguredIs
<1>3. u \in Accounts /\ Token \in Accounts /\ u # Token
  BY AddressAssumption DEF Accounts
<1>4. /\ LockInv /\ payments \in Wallets /\ Surplus \in Int
      /\ crossedTokens \in Int /\ crossedPayments \in Int
      /\ payments[Token] \in Nat
  BY SwapFacts
<1>5. LockInv' /\ Surplus' = Surplus /\ snapshotId' = snapshotId
  BY <1>1, <1>4, LockupUnchanged
<1>6. payments' \in Wallets /\ payments'[Token] = After(payments, u, Token, price, Token)
  BY <1>1, <1>3, <1>4, PaymentMoves
<1>7. SwapInv'
  BY <1>1, <1>2, <1>4, <1>5, <1>6, BookStep
<1>8. Counted(0, price, 0, 0)
  BY <1>2, <1>3, <1>4, <1>5, <1>6 DEF Counted, After
<1>9. QED BY <1>1, <1>2, <1>7, <1>8, CountsAgree

LEMMA EndedAmounts ==
  ASSUME SwapInv, NEW n, Open(n)
  PROVE  swaps[n].amount \in Nat /\ swaps[n].price \in Nat
BY SwapFacts, BookIs, SwapIs DEF Open

\* A swap that is open, and what its end takes out of the book.
LEMMA EndedIs ==
  ASSUME SwapInv, NEW n, Open(n), NEW status \in {"complete", "canceled"},
         swaps' = [swaps EXCEPT ![n].status = status]
  PROVE  LET swap == swaps[n] IN
         /\ n \in DOMAIN swaps /\ swap \in Swap /\ swap.status \in {"sell", "buy"}
         /\ swap.seller \in Users /\ swap.buyer \in Users
         /\ swap.amount \in Nat /\ swap.price \in Nat
         /\ IsBook(swaps') /\ swaps'[n].status = status
         /\ \A m \in DOMAIN swaps : m # n => swaps'[m] = swaps[m]
         /\ OpenSells(swaps)' = OpenSells(swaps) - (IF swap.status = "sell" THEN swap.amount ELSE 0)
         /\ OpenBuys(swaps)' = OpenBuys(swaps) - (IF swap.status = "buy" THEN swap.price ELSE 0)
<1>1. n \in DOMAIN swaps /\ swaps[n].status \notin {"complete", "canceled"} /\ IsBook(swaps)
  BY SwapFacts DEF Open
<1>2. swaps[n] \in Swap
  BY <1>1, BookIs
<1>3. swaps[n].status \in {"sell", "buy"}
  BY <1>1, <1>2 DEF Swap
<1>4. swaps'[n].status = status /\ \A m \in DOMAIN swaps : m # n => swaps'[m] = swaps[m]
  BY <1>1, <1>2 DEF IsBook, Swap
<1>5. /\ IsBook(swaps') /\ OpenSells(swaps') = OpenSells(swaps) - SellOf(swaps[n])
      /\ OpenBuys(swaps') = OpenBuys(swaps) - BuyOf(swaps[n])
  BY <1>1, BookEnds
<1>6. OpenSells(swaps)' = OpenSells(swaps') /\ OpenBuys(swaps)' = OpenBuys(swaps')
  BY DEF OpenSells, OpenBuys, SellOf, BuyOf
<1>7. QED BY <1>1, <1>2, <1>3, <1>4, <1>5, <1>6, SwapIs DEF SellOf, BuyOf

LEMMA PaidCompletes ==
  ASSUME SwapInv, Escrow, NEW u \in Users, NEW n, CompleteSwapWithPaymentToken(u, n)
  PROVE  SwapInv' /\ Escrow' /\ Settles
<1> DEFINE swap == swaps[n]
           seller == swap.seller
           amount == swap.amount
           price == swap.price
<1>1. /\ Open(n) /\ u = swap.buyer /\ swap.seller # swap.buyer /\ payments[u] >= price
      /\ MovedPayment(u, seller, price) /\ Deposit(Token, u, amount)
      /\ swaps' = [swaps EXCEPT ![n].status = "complete"]
      /\ crossedTokens' = crossedTokens + (IF swap.status = "sell" THEN 0 ELSE 0 - amount)
      /\ crossedPayments' = crossedPayments + (IF swap.status = "sell" THEN 0 ELSE price)
      /\ UNCHANGED <<funded, unused, claimed, withdrawn>>
  <2>1. swap.amount \in Nat
    BY EndedAmounts DEF CompleteSwapWithPaymentToken
  <2>2. -swap.amount = 0 - swap.amount
    BY <2>1
  <2>3. QED BY <2>2 DEF CompleteSwapWithPaymentToken, Completed
<1>2. /\ n \in DOMAIN swaps /\ swap.status \in {"sell", "buy"}
      /\ seller \in Users /\ amount \in Nat /\ price \in Nat
      /\ IsBook(swaps') /\ swaps'[n].status = "complete"
      /\ \A m \in DOMAIN swaps : m # n => swaps'[m] = swaps[m]
      /\ OpenSells(swaps)' = OpenSells(swaps) - (IF swap.status = "sell" THEN amount ELSE 0)
      /\ OpenBuys(swaps)' = OpenBuys(swaps) - (IF swap.status = "buy" THEN price ELSE 0)
  BY <1>1, EndedIs
<1>3. /\ u \in Accounts /\ seller \in Accounts /\ Token \in Accounts /\ u # Token /\ seller # Token
      /\ u # seller
  BY <1>1, <1>2, AddressAssumption DEF Accounts
<1>4. /\ LockInv /\ payments \in Wallets /\ Surplus \in Int
      /\ crossedTokens \in Int /\ crossedPayments \in Int
      /\ payments[Token] \in Nat /\ OpenSells(swaps) \in Nat /\ OpenBuys(swaps) \in Nat
  BY SwapFacts
<1>5. \A x \in Accounts : tokens[x] \in Nat /\ payments[x] \in Nat
  BY <1>4, LockFacts DEF Wallets
<1> HIDE DEF price, amount, seller
<1>6. /\ LockInv' /\ Shifting /\ \A x \in Accounts : tokens'[x] = After(tokens, Token, u, amount, x)
      /\ Surplus' = Surplus - (IF Token = Token THEN amount ELSE 0) + (IF u = Token THEN amount ELSE 0)
  BY <1>1, <1>2, <1>3, <1>4, DepositShifts
<1>7. payments' \in Wallets /\ \A x \in Accounts : payments'[x] = After(payments, u, seller, price, x)
  BY <1>1, <1>2, <1>3, <1>4, PaymentMoves
<1>8. SwapInv'
  <2>1. crossedTokens' \in Int /\ crossedPayments' \in Int
    BY <1>1, <1>2, <1>4
  <2>2. QED BY <1>1, <1>2, <1>4, <1>6, <1>7, <2>1, BookStep DEF Shifting
<1>9. payments'[Token] = payments[Token] + 0 /\ Surplus' = Surplus + (0 - amount)
  BY <1>2, <1>3, <1>4, <1>6, <1>7 DEF After
<1> DEFINE status == swap.status
<1>10. /\ status \in {"sell", "buy"}
       /\ crossedTokens' = crossedTokens + (IF status = "sell" THEN 0 ELSE 0 - amount)
       /\ crossedPayments' = crossedPayments + (IF status = "sell" THEN 0 ELSE price)
       /\ OpenSells(swaps)' = OpenSells(swaps) - (IF status = "sell" THEN amount ELSE 0)
       /\ OpenBuys(swaps)' = OpenBuys(swaps) - (IF status = "buy" THEN price ELSE 0)
       /\ UNCHANGED <<funded, claimed, withdrawn>>
  BY <1>1, <1>2
<1> HIDE DEF status
<1>11. Escrow'
  <2>1. CASE status = "sell"
    <3>1. Counted(0 - amount, 0, 0, 0) /\ 0 - amount \in Int
      BY <1>2, <1>4, <1>9, <1>10, <2>1 DEF Counted
    <3>2. QED BY <1>10, <3>1, CountsAgree
  <2>2. CASE status # "sell"
    <3>1. status = "buy" /\ 0 - amount \in Int /\ 0 - price \in Int /\ price \in Int
      BY <1>2, <1>10, <2>2
    <3>2. Counted(0, 0 - price, 0 - amount, price)
      BY <1>2, <1>4, <1>9, <1>10, <3>1 DEF Counted
    <3>3. QED BY <1>10, <3>1, <3>2, CountsAgree
  <2>3. QED BY <2>1, <2>2
<1>12. Settles
  <2>1. payments'[seller] = payments[seller] + price /\ tokens'[u] = tokens[u] + amount
    BY <1>2, <1>3, <1>5, <1>6, <1>7 DEF After
  <2>2. SettlesOf(n)
    BY <1>1, <1>2, <2>1 DEF SettlesOf, seller, price, amount
  <2>3. QED BY <1>2, <2>2 DEF Settles, SettlesOf
<1>13. QED BY <1>8, <1>11, <1>12

LEMMA DeliveredCompletes ==
  ASSUME SwapInv, Escrow, NEW u \in Users, NEW n, CompleteSwapWithRestrictedToken(u, n)
  PROVE  SwapInv' /\ Escrow' /\ Settles
<1> DEFINE swap == swaps[n]
           buyer == swap.buyer
           amount == swap.amount
           price == swap.price
<1>1. /\ Open(n) /\ u = swap.seller /\ payments[Token] >= price
      /\ MovedPayment(Token, u, price) /\ Deposit(u, buyer, amount)
      /\ swaps' = [swaps EXCEPT ![n].status = "complete"]
      /\ crossedTokens' = crossedTokens + (IF swap.status = "buy" THEN 0 ELSE amount)
      /\ crossedPayments' = crossedPayments + (IF swap.status = "buy" THEN 0 ELSE 0 - price)
      /\ UNCHANGED <<funded, unused, claimed, withdrawn>>
  <2>1. swap.price \in Nat
    BY EndedAmounts DEF CompleteSwapWithRestrictedToken
  <2>2. -swap.price = 0 - swap.price
    BY <2>1
  <2>3. QED BY <2>2 DEF CompleteSwapWithRestrictedToken, Completed
<1>2. /\ n \in DOMAIN swaps /\ swap.status \in {"sell", "buy"}
      /\ buyer \in Users /\ amount \in Nat /\ price \in Nat
      /\ IsBook(swaps') /\ swaps'[n].status = "complete"
      /\ \A m \in DOMAIN swaps : m # n => swaps'[m] = swaps[m]
      /\ OpenSells(swaps)' = OpenSells(swaps) - (IF swap.status = "sell" THEN amount ELSE 0)
      /\ OpenBuys(swaps)' = OpenBuys(swaps) - (IF swap.status = "buy" THEN price ELSE 0)
  BY <1>1, EndedIs
<1>3. u \in Accounts /\ buyer \in Accounts /\ Token \in Accounts /\ u # Token /\ buyer # Token
  BY <1>1, <1>2, AddressAssumption DEF Accounts
<1>4. /\ LockInv /\ payments \in Wallets /\ Surplus \in Int
      /\ crossedTokens \in Int /\ crossedPayments \in Int
      /\ payments[Token] \in Nat /\ OpenSells(swaps) \in Nat /\ OpenBuys(swaps) \in Nat
  BY SwapFacts
<1>5. \A x \in Accounts : tokens[x] \in Nat /\ payments[x] \in Nat
  BY <1>4, LockFacts DEF Wallets
<1> HIDE DEF price, amount, buyer
<1>6. /\ LockInv' /\ Shifting /\ \A x \in Accounts : tokens'[x] = After(tokens, u, buyer, amount, x)
      /\ Surplus' = Surplus - (IF u = Token THEN amount ELSE 0) + (IF buyer = Token THEN amount ELSE 0)
  BY <1>1, <1>2, <1>3, <1>4, DepositShifts
<1>7. payments' \in Wallets /\ \A x \in Accounts : payments'[x] = After(payments, Token, u, price, x)
  BY <1>1, <1>2, <1>3, <1>4, PaymentMoves
<1>8. SwapInv'
  <2>1. crossedTokens' \in Int /\ crossedPayments' \in Int
    BY <1>1, <1>2, <1>4
  <2>2. QED BY <1>1, <1>2, <1>4, <1>6, <1>7, <2>1, BookStep DEF Shifting
<1>9. payments'[Token] = payments[Token] + (0 - price) /\ Surplus' = Surplus + 0
  BY <1>2, <1>3, <1>4, <1>6, <1>7 DEF After
<1> DEFINE status == swap.status
<1>10. /\ status \in {"sell", "buy"}
       /\ crossedTokens' = crossedTokens + (IF status = "buy" THEN 0 ELSE amount)
       /\ crossedPayments' = crossedPayments + (IF status = "buy" THEN 0 ELSE 0 - price)
       /\ OpenSells(swaps)' = OpenSells(swaps) - (IF status = "sell" THEN amount ELSE 0)
       /\ OpenBuys(swaps)' = OpenBuys(swaps) - (IF status = "buy" THEN price ELSE 0)
       /\ UNCHANGED <<funded, claimed, withdrawn>>
  BY <1>1, <1>2
<1> HIDE DEF status
<1>11. Escrow'
  <2>1. CASE status = "buy"
    <3>1. Counted(0, 0 - price, 0, 0) /\ 0 - price \in Int
      BY <1>2, <1>4, <1>9, <1>10, <2>1 DEF Counted
    <3>2. QED BY <1>10, <3>1, CountsAgree
  <2>2. CASE status # "buy"
    <3>1. status = "sell" /\ 0 - amount \in Int /\ 0 - price \in Int /\ amount \in Int
      BY <1>2, <1>10, <2>2
    <3>2. Counted(0 - amount, 0, amount, 0 - price)
      BY <1>2, <1>4, <1>9, <1>10, <3>1 DEF Counted
    <3>3. QED BY <1>10, <3>1, <3>2, CountsAgree
  <2>3. QED BY <2>1, <2>2
<1>12. Settles
  <2>1. payments'[u] = payments[u] + price
    BY <1>2, <1>3, <1>5, <1>7 DEF After
  <2>2. u # buyer => tokens'[buyer] = tokens[buyer] + amount
    BY <1>2, <1>3, <1>5, <1>6 DEF After
  <2>3. SettlesOf(n)
    BY <1>1, <1>2, <2>1, <2>2 DEF SettlesOf, buyer, price, amount
  <2>4. QED BY <1>2, <2>3 DEF Settles, SettlesOf
<1>13. QED BY <1>8, <1>11, <1>12

LEMMA CancelSettles ==
  ASSUME SwapInv, Escrow, NEW u \in Users, NEW n, CancelSell(u, n)
  PROVE  SwapInv' /\ Escrow' /\ Settles
<1> DEFINE swap == swaps[n]
           amount == swap.amount
           price == swap.price
<1>1. /\ Open(n) /\ swaps' = [swaps EXCEPT ![n].status = "canceled"]
      /\ UNCHANGED <<crossedTokens, crossedPayments>>
      /\ \/ /\ swap.status = "sell" /\ u = swap.seller
            /\ Deposit(Token, u, amount)
            /\ UNCHANGED <<payments, funded, unused, claimed, withdrawn>>
         \/ /\ swap.status = "buy" /\ u = swap.buyer /\ payments[Token] >= price
            /\ MovedPayment(Token, u, price)
            /\ UNCHANGED lockupVars /\ UNCHANGED <<funded, unused, claimed, withdrawn>>
  BY DEF CancelSell, Canceled, dividendVars
<1>2. /\ n \in DOMAIN swaps /\ swap.status \in {"sell", "buy"}
      /\ swap.seller \in Users /\ swap.buyer \in Users /\ amount \in Nat /\ price \in Nat
      /\ IsBook(swaps') /\ swaps'[n].status = "canceled"
      /\ \A m \in DOMAIN swaps : m # n => swaps'[m] = swaps[m]
      /\ OpenSells(swaps)' = OpenSells(swaps) - (IF swap.status = "sell" THEN amount ELSE 0)
      /\ OpenBuys(swaps)' = OpenBuys(swaps) - (IF swap.status = "buy" THEN price ELSE 0)
  BY <1>1, EndedIs
<1>3. /\ u \in Accounts /\ Token \in Accounts /\ u # Token
      /\ swap.seller \in Accounts /\ swap.buyer \in Accounts
  BY <1>2, AddressAssumption DEF Accounts
<1>4. /\ LockInv /\ payments \in Wallets /\ Surplus \in Int
      /\ crossedTokens \in Int /\ crossedPayments \in Int
      /\ payments[Token] \in Nat /\ OpenSells(swaps) \in Nat /\ OpenBuys(swaps) \in Nat
  BY SwapFacts
<1>5. \A x \in Accounts : tokens[x] \in Nat /\ payments[x] \in Nat
  BY <1>4, LockFacts DEF Wallets
<1>6. CASE /\ swap.status = "sell" /\ u = swap.seller
           /\ Deposit(Token, u, amount)
           /\ UNCHANGED <<payments, funded, unused, claimed, withdrawn>>
  <2> HIDE DEF amount
  <2>1. /\ LockInv' /\ Shifting /\ \A x \in Accounts : tokens'[x] = After(tokens, Token, u, amount, x)
        /\ Surplus' = Surplus - (IF Token = Token THEN amount ELSE 0) + (IF u = Token THEN amount ELSE 0)
    BY <1>2, <1>3, <1>4, <1>6, DepositShifts
  <2>2. SwapInv'
    BY <1>1, <1>2, <1>4, <1>6, <2>1, BookStep DEF Shifting
  <2>3. Counted(0 - amount, 0, 0, 0) /\ 0 - amount \in Int
    BY <1>1, <1>2, <1>3, <1>4, <1>6, <2>1 DEF Counted
  <2>4. Escrow'
    BY <1>1, <1>6, <2>3, CountsAgree
  <2>5. tokens'[u] - tokens[u] = amount /\ payments'[swap.buyer] - payments[swap.buyer] = 0
    BY <1>2, <1>3, <1>5, <1>6, <2>1 DEF After
  <2>6. SettlesOf(n)
    BY <1>2, <1>6, <2>5 DEF SettlesOf, OpenFor, amount
  <2>7. QED BY <1>2, <2>2, <2>4, <2>6 DEF Settles, SettlesOf
<1>7. CASE /\ swap.status = "buy" /\ u = swap.buyer /\ payments[Token] >= price
           /\ MovedPayment(Token, u, price)
           /\ UNCHANGED lockupVars /\ UNCHANGED <<funded, unused, claimed, withdrawn>>
  <2> HIDE DEF price
  <2>1. LockInv' /\ Surplus' = Surplus /\ snapshotId' = snapshotId /\ tokens' = tokens
    BY <1>4, <1>7, LockupUnchanged DEF lockupVars, tokenVars
  <2>2. payments' \in Wallets /\ \A x \in Accounts : payments'[x] = After(payments, Token, u, price, x)
    BY <1>2, <1>3, <1>4, <1>7, PaymentMoves
  <2>3. SwapInv'
    BY <1>1, <1>2, <1>4, <1>7, <2>1, <2>2, BookStep
  <2>4. Counted(0, 0 - price, 0, 0) /\ 0 - price \in Int
    BY <1>1, <1>2, <1>3, <1>4, <1>7, <2>1, <2>2 DEF Counted, After
  <2>5. Escrow'
    <3>1. UNCHANGED <<funded, claimed, withdrawn>>
      BY <1>7
    <3>2. QED BY ONLY SwapInv, Escrow, <2>4, <3>1, CountsAgree
  <2>6. payments'[u] - payments[u] = price /\ tokens'[swap.seller] - tokens[swap.seller] = 0
    BY <1>2, <1>3, <1>5, <2>1, <2>2 DEF After
  <2>7. SettlesOf(n)
    BY <1>2, <1>7, <2>6 DEF SettlesOf, OpenFor, price
  <2>8. QED BY <1>2, <2>3, <2>5, <2>7 DEF Settles, SettlesOf
<1>8. QED BY <1>1, <1>6, <1>7

-----------------------------------------------------------------------------
(* The dividends, step by step *)

LEMMA AwardedIs ==
  ASSUME SwapInv, NEW s \in SnapshotIds
  PROVE  /\ \A x \in Accounts : BalanceAt(x, s) \in Nat
         /\ SupplyAt(s) \in Nat
         /\ \A u \in Users : /\ Awarded(u, s) = Award(funded[s], BalanceAt(u, s), SupplyAt(s))
                             /\ Awarded(u, s) \in Nat /\ Unclaimed(u, s) \in Nat
                             /\ claimed[s][u] <= Awarded(u, s) =>
                                  Unclaimed(u, s) <= Awarded(u, s) - claimed[s][u]
<1>1. /\ snapshotId \in Nat /\ snapshotId <= MaxSnapshots /\ totalSupply \in Nat
      /\ supplySnapshots \in Record /\ \A x \in Accounts : snapshots[x] \in Record
  BY DEF SwapInv, LockInv, TypeOK, Record
<1>2. ASSUME NEW x \in Accounts PROVE BalanceAt(x, s) \in Nat
  <2>1. BalanceOf(x) \in Nat
    BY BalanceIs DEF SwapInv
  <2>2. QED BY <1>1, <2>1, AnswerIs, AtIs DEF BalanceAt
<1>3. SupplyAt(s) \in Nat
  BY <1>1, AnswerIs, AtIs DEF SupplyAt
<1>4. ASSUME NEW u \in Users
      PROVE  /\ Awarded(u, s) = Award(funded[s], BalanceAt(u, s), SupplyAt(s))
             /\ Awarded(u, s) \in Nat /\ Unclaimed(u, s) \in Nat
             /\ claimed[s][u] <= Awarded(u, s) => Unclaimed(u, s) <= Awarded(u, s) - claimed[s][u]
  <2>1. Awarded(u, s) = Award(funded[s], BalanceAt(u, s), SupplyAt(s))
    BY DEF Awarded, Award, Share
  <2>2. funded[s] \in Nat /\ BalanceAt(u, s) \in Nat /\ claimed[s][u] \in Nat
    BY <1>2, SwapFacts DEF Accounts, Sums, Claims
  <2>3. Awarded(u, s) \in Nat
    BY <1>3, <2>1, <2>2, AwardIs
  <2>4. Unclaimed(u, s) = Wrapped(Awarded(u, s) - claimed[s][u])
    BY DEF Unclaimed, Wrapped
  <2>5. /\ Wrapped(Awarded(u, s) - claimed[s][u]) \in Nat
        /\ Awarded(u, s) - claimed[s][u] >= 0 =>
             Wrapped(Awarded(u, s) - claimed[s][u]) <= Awarded(u, s) - claimed[s][u]
    BY <2>2, <2>3, WrappedIs
  <2>6. QED BY <2>1, <2>2, <2>3, <2>4, <2>5
<1>5. QED BY <1>2, <1>3, <1>4

\* A step on the dividends, when what the contract owns and what it has to keep
\* change alike.
LEMMA DividendKeeps ==
  ASSUME SwapInv, Escrow, UNCHANGED lockupVars, UNCHANGED swapVars, payments' \in Wallets,
         funded' \in Sums, unused' \in Sums, claimed' \in Claims, withdrawn' \in Sums,
         NEW n \in Int, payments'[Token] = payments[Token] + n,
         Kept(funded', claimed', withdrawn') = Kept(funded, claimed, withdrawn) + n
  PROVE  SwapInv' /\ Escrow' /\ Settles
<1>1. LockInv' /\ Surplus' = Surplus /\ snapshotId' = snapshotId
  BY LockupUnchanged, SwapFacts
<1>2. UNCHANGED <<swaps, crossedTokens, crossedPayments>>
  BY DEF swapVars
<1>3. SwapTypeOK'
  BY <1>1, <1>2 DEF SwapInv, SwapTypeOK, LockInv, Wallets, Sums, Claims
<1>4. SwapInv'
  BY <1>1, <1>3 DEF SwapInv
<1>5. Escrow'
  <2>1. /\ OpenSells(swaps)' = OpenSells(swaps) /\ OpenBuys(swaps)' = OpenBuys(swaps)
        /\ Kept(funded, claimed, withdrawn)' = Kept(funded', claimed', withdrawn')
    BY <1>2 DEF OpenSells, OpenBuys, SellOf, BuyOf, Kept
  <2>2. /\ payments[Token] \in Nat /\ Kept(funded, claimed, withdrawn) \in Int
        /\ OpenBuys(swaps) \in Nat /\ crossedPayments \in Int
    BY SwapFacts
  <2> HIDE DEF Kept
  <2>3. payments[Token] = OpenBuys(swaps) + Kept(funded, claimed, withdrawn) + crossedPayments
    BY DEF Escrow
  <2>4. payments'[Token] = OpenBuys(swaps)' + Kept(funded, claimed, withdrawn)' + crossedPayments'
    BY <1>2, <2>1, <2>2, <2>3
  <2>5. Surplus' = OpenSells(swaps)' + crossedTokens'
    BY <1>1, <1>2, <2>1 DEF Escrow
  <2>6. QED BY <2>4, <2>5 DEF Escrow
<1>6. Settles
  BY <1>2 DEF Settles, SettlesOf
<1>7. QED BY <1>4, <1>5, <1>6

LEMMA FundIs ==
  ASSUME SwapInv, NEW u \in Users, NEW n \in Nat, NEW s \in SnapshotIds, FundDividend(u, n, s)
  PROVE  /\ payments' \in Wallets /\ funded' \in Sums /\ unused' \in Sums
         /\ UNCHANGED lockupVars /\ UNCHANGED <<claimed, withdrawn>>
         /\ payments'[Token] = payments[Token] + n
         /\ Kept(funded', claimed, withdrawn) = Kept(funded, claimed, withdrawn) + n
         /\ \A r \in SnapshotIds : funded'[r] = funded[r] + (IF r = s THEN n ELSE 0)
<1>1. /\ payments[u] >= n /\ MovedPayment(u, Token, n)
      /\ funded' = PlusAt(funded, s, n)
      /\ unused' = PlusAt(unused, s, n)
      /\ UNCHANGED lockupVars /\ UNCHANGED <<claimed, withdrawn>>
  BY DEF FundDividend, PlusAt
<1>2. u \in Accounts /\ Token \in Accounts /\ u # Token
  BY AddressAssumption DEF Accounts
<1>3. /\ payments \in Wallets /\ payments[Token] \in Nat
      /\ funded \in Sums /\ unused \in Sums /\ claimed \in Claims /\ withdrawn \in Sums
  BY SwapFacts
<1>4. payments' \in Wallets /\ payments'[Token] = After(payments, u, Token, n, Token)
  BY <1>1, <1>2, <1>3, PaymentMoves
<1>5. payments'[Token] = payments[Token] + n
  BY <1>2, <1>3, <1>4 DEF After
<1>6. /\ funded' \in Sums /\ unused' \in Sums
      /\ Kept(funded', claimed, withdrawn) = Kept(funded, claimed, withdrawn) + n
  BY <1>1, <1>3, KeptFunded
<1>7. \A r \in SnapshotIds : funded'[r] = funded[r] + (IF r = s THEN n ELSE 0)
  BY <1>1, <1>3 DEF Sums, PlusAt
<1>8. QED BY <1>1, <1>4, <1>5, <1>6, <1>7

LEMMA ClaimIs ==
  ASSUME SwapInv, NEW u \in Users, NEW s \in SnapshotIds, ClaimDividend(u, s)
  PROVE  LET n == Unclaimed(u, s) IN
         /\ payments' \in Wallets /\ claimed' \in Claims /\ unused' \in Sums
         /\ UNCHANGED lockupVars /\ UNCHANGED <<funded, withdrawn>>
         /\ n \in Nat /\ s <= snapshotId
         /\ payments'[Token] = payments[Token] - n
         /\ Kept(funded, claimed', withdrawn) = Kept(funded, claimed, withdrawn) - n
         /\ \A r \in SnapshotIds, v \in Users :
              claimed'[r][v] = claimed[r][v] + (IF r = s /\ v = u THEN n ELSE 0)
<1> DEFINE n == Unclaimed(u, s)
<1>1. /\ s <= snapshotId /\ payments[Token] >= n /\ MovedPayment(Token, u, n)
      /\ claimed' = WithClaim(claimed, s, u, n)
      /\ unused' = [unused EXCEPT ![s] = Wrapped(unused[s] - n)]
      /\ UNCHANGED lockupVars /\ UNCHANGED <<funded, withdrawn>>
  BY DEF ClaimDividend, WithClaim, Wrapped
<1>2. u \in Accounts /\ Token \in Accounts /\ u # Token
  BY AddressAssumption DEF Accounts
<1>3. /\ payments \in Wallets /\ payments[Token] \in Nat
      /\ funded \in Sums /\ unused \in Sums /\ claimed \in Claims /\ withdrawn \in Sums
  BY SwapFacts
<1>4. n \in Nat
  BY AwardedIs
<1> HIDE DEF n
<1>5. payments' \in Wallets /\ payments'[Token] = After(payments, Token, u, n, Token)
  BY <1>1, <1>2, <1>3, <1>4, PaymentMoves
<1>6. payments'[Token] = payments[Token] - n
  BY <1>2, <1>3, <1>4, <1>5 DEF After
<1>7. /\ claimed' \in Claims
      /\ Kept(funded, claimed', withdrawn) = Kept(funded, claimed, withdrawn) - n
      /\ \A r \in SnapshotIds, v \in Users :
           claimed'[r][v] = claimed[r][v] + (IF r = s /\ v = u THEN n ELSE 0)
  BY <1>1, <1>3, <1>4, KeptClaimed
<1>8. unused' \in Sums
  <2>1. unused[s] - n \in Int
    BY <1>3, <1>4 DEF Sums
  <2>2. Wrapped(unused[s] - n) \in Nat
    BY <2>1, WrappedIs
  <2>3. QED BY <1>1, <1>3, <2>2 DEF Sums
<1>9. QED BY <1>1, <1>4, <1>5, <1>6, <1>7, <1>8 DEF n

LEMMA WithdrawalIs ==
  ASSUME SwapInv, NEW u \in Users, NEW s \in SnapshotIds, WithdrawalRemains(u, s)
  PROVE  LET n == unused[s] IN
         /\ payments' \in Wallets /\ withdrawn' \in Sums /\ unused' \in Sums
         /\ UNCHANGED lockupVars /\ UNCHANGED <<funded, claimed>>
         /\ n \in Nat
         /\ payments'[Token] = payments[Token] - n
         /\ Kept(funded, claimed, withdrawn') = Kept(funded, claimed, withdrawn) - n
<1> DEFINE n == unused[s]
<1>1. /\ payments[Token] >= n /\ MovedPayment(Token, u, n)
      /\ withdrawn' = PlusAt(withdrawn, s, n)
      /\ unused' = [unused EXCEPT ![s] = 0]
      /\ UNCHANGED lockupVars /\ UNCHANGED <<funded, claimed>>
  BY DEF WithdrawalRemains, PlusAt
<1>2. u \in Accounts /\ Token \in Accounts /\ u # Token
  BY AddressAssumption DEF Accounts
<1>3. /\ payments \in Wallets /\ payments[Token] \in Nat
      /\ funded \in Sums /\ unused \in Sums /\ claimed \in Claims /\ withdrawn \in Sums
  BY SwapFacts
<1>4. n \in Nat
  BY <1>3 DEF Sums
<1> HIDE DEF n
<1>5. payments' \in Wallets /\ payments'[Token] = After(payments, Token, u, n, Token)
  BY <1>1, <1>2, <1>3, <1>4, PaymentMoves
<1>6. payments'[Token] = payments[Token] - n
  BY <1>2, <1>3, <1>4, <1>5 DEF After
<1>7. /\ withdrawn' \in Sums
      /\ Kept(funded, claimed, withdrawn') = Kept(funded, claimed, withdrawn) - n
  BY <1>1, <1>3, <1>4, KeptWithdrawn
<1>8. unused' \in Sums
  BY <1>1, <1>3 DEF Sums
<1>9. QED BY <1>1, <1>4, <1>5, <1>6, <1>7, <1>8 DEF n

LEMMA DividendSteps ==
  ASSUME SwapInv, Escrow, NEW u \in Users, DividendStep(u), UNCHANGED swapVars
  PROVE  SwapInv' /\ Escrow' /\ Settles
<1>1. /\ payments[Token] \in Nat /\ Kept(funded, claimed, withdrawn) \in Int
      /\ funded \in Sums /\ unused \in Sums /\ claimed \in Claims /\ withdrawn \in Sums
      /\ Payments \subseteq Nat
  BY SwapFacts, PaymentAssumption
<1>2. ASSUME NEW s \in SnapshotIds, NEW n \in Payments, FundDividend(u, n, s)
      PROVE  SwapInv' /\ Escrow' /\ Settles
  <2>1. /\ n \in Int /\ n \in Nat
    BY <1>1
  <2>2. /\ payments' \in Wallets /\ funded' \in Sums /\ unused' \in Sums
        /\ UNCHANGED lockupVars /\ UNCHANGED <<claimed, withdrawn>>
        /\ payments'[Token] = payments[Token] + n
        /\ Kept(funded', claimed, withdrawn) = Kept(funded, claimed, withdrawn) + n
    BY <1>2, <2>1, FundIs
  <2>3. /\ claimed' \in Claims /\ withdrawn' \in Sums
        /\ Kept(funded', claimed', withdrawn') = Kept(funded, claimed, withdrawn) + n
    BY <1>1, <2>2
  <2>4. QED BY <2>1, <2>2, <2>3, DividendKeeps
<1>3. ASSUME NEW s \in SnapshotIds, ClaimDividend(u, s)
      PROVE  SwapInv' /\ Escrow' /\ Settles
  <2> DEFINE n == Unclaimed(u, s)
             m == 0 - n
  <2>1. /\ payments' \in Wallets /\ claimed' \in Claims /\ unused' \in Sums
        /\ UNCHANGED lockupVars /\ UNCHANGED <<funded, withdrawn>>
        /\ n \in Nat
        /\ payments'[Token] = payments[Token] - n
        /\ Kept(funded, claimed', withdrawn) = Kept(funded, claimed, withdrawn) - n
    BY <1>3, ClaimIs
  <2> HIDE DEF n
  <2>2. /\ funded' \in Sums /\ withdrawn' \in Sums
        /\ Kept(funded', claimed', withdrawn') = Kept(funded, claimed, withdrawn) + m
        /\ payments'[Token] = payments[Token] + m /\ m \in Int
    BY <1>1, <2>1
  <2> HIDE DEF m
  <2>3. QED BY <2>1, <2>2, DividendKeeps
<1>4. ASSUME NEW s \in SnapshotIds, WithdrawalRemains(u, s)
      PROVE  SwapInv' /\ Escrow' /\ Settles
  <2> DEFINE n == unused[s]
             m == 0 - n
  <2>1. /\ payments' \in Wallets /\ withdrawn' \in Sums /\ unused' \in Sums
        /\ UNCHANGED lockupVars /\ UNCHANGED <<funded, claimed>>
        /\ n \in Nat
        /\ payments'[Token] = payments[Token] - n
        /\ Kept(funded, claimed, withdrawn') = Kept(funded, claimed, withdrawn) - n
    BY <1>4, WithdrawalIs
  <2> HIDE DEF n
  <2>2. /\ funded' \in Sums /\ claimed' \in Claims
        /\ Kept(funded', claimed', withdrawn') = Kept(funded, claimed, withdrawn) + m
        /\ payments'[Token] = payments[Token] + m /\ m \in Int
    BY <1>1, <2>1
  <2> HIDE DEF m
  <2>3. QED BY <2>1, <2>2, DividendKeeps
<1>5. QED BY <1>2, <1>3, <1>4 DEF DividendStep

-----------------------------------------------------------------------------
(* Every step of the deployed token *)

LEMMA SwapSteps ==
  ASSUME SwapInv, Escrow, NEW u \in Users, SwapStep(u)
  PROVE  SwapInv' /\ Escrow' /\ Settles
<1>1. Pieces \subseteq Nat /\ Payments \subseteq Nat
  BY SwapAssumption, PaymentAssumption
<1>2. CASE \E v \in Users, n \in Pieces, p \in Payments :
             ConfigureSell(u, n, v, p) \/ ConfigureBuy(u, n, v, p)
  <2>1. PICK v \in Users, n \in Pieces, p \in Payments :
             ConfigureSell(u, n, v, p) \/ ConfigureBuy(u, n, v, p)
    BY <1>2
  <2>2. n \in Nat /\ p \in Nat
    BY <1>1
  <2>3. QED BY <2>1, <2>2, SellIsConfigured, BuyIsConfigured
<1>3. CASE \E n \in DOMAIN swaps :
             \/ CompleteSwapWithPaymentToken(u, n) \/ CompleteSwapWithRestrictedToken(u, n)
             \/ CancelSell(u, n)
  BY <1>3, PaidCompletes, DeliveredCompletes, CancelSettles
<1>4. QED BY <1>2, <1>3 DEF SwapStep

LEMMA NextSteps == ASSUME SwapInv, Escrow, Next PROVE SwapInv' /\ Escrow' /\ Settles
<1>1. CASE LockupNext /\ UNCHANGED <<dividendVars, swapVars>>
  <2>1. LockInv' /\ Surplus' = Surplus /\ (Shifting \/ Issuing \/ Quiet)
    BY <1>1, LockupSteps, SwapFacts
  <2>2. Settles
    BY <1>1 DEF Settles, SettlesOf, swapVars
  <2>3. QED BY <1>1, <2>1, <2>2, LockupKeepsSwaps
<1>2. CASE \E u \in Users : \/ DividendStep(u) /\ UNCHANGED swapVars
                            \/ SwapStep(u)
  BY <1>2, DividendSteps, SwapSteps
<1>3. QED BY <1>1, <1>2 DEF Next

LEMMA DeployedStutters == ASSUME SwapInv, Escrow, UNCHANGED vars PROVE SwapInv' /\ Escrow'
<1>1. UNCHANGED lockupVars /\ UNCHANGED <<dividendVars, swapVars>>
  BY DEF vars
<1>2. LockInv' /\ Surplus' = Surplus /\ Quiet
  BY <1>1, LockupStutters, SwapFacts
<1>3. QED BY <1>1, <1>2, LockupKeepsSwaps

LEMMA InvariantOfTheDeployed == Spec => [](SwapInv /\ Escrow)
<1>1. SwapInv /\ Escrow /\ [Next]_vars => SwapInv' /\ Escrow'
  BY NextSteps, DeployedStutters
<1>2. QED BY <1>1, InitSwap, PTL DEF Spec

\* Every value of the deployed token keeps its type: the base token's, the
\* dividends' totals, computed modulo the word, and the swaps.
THEOREM DeployedTyping == Spec => []SwapTypeOK
<1>1. SwapInv => SwapTypeOK
  BY DEF SwapInv
<1>2. QED BY <1>1, InvariantOfTheDeployed, PTL

\* For any swaps, users, schedules and numbers: the contract's tokens are those
\* of the timelocks, the stray ones and the open sells', and its payments the
\* open buys' and what each snapshot still owes, but for what completions
\* crossed over and what snapshots were overdrawn after a withdrawal of their
\* remains: nothing else ever spends what another swap has in escrow.
THEOREM EscrowIsKept == Spec => []EscrowIsAccounted
<1>1. SwapInv /\ Escrow => EscrowIsAccounted
  <2> SUFFICES ASSUME SwapInv, Escrow PROVE EscrowIsAccounted
    OBVIOUS
  <2>1. /\ OpenSells(swaps) =
             SumOver([n \in DOMAIN swaps |-> OpenFor(n, "sell", swaps[n].amount)], DOMAIN swaps)
        /\ OpenBuys(swaps) =
             SumOver([n \in DOMAIN swaps |-> OpenFor(n, "buy", swaps[n].price)], DOMAIN swaps)
    BY DEF OpenSells, OpenBuys, SellOf, BuyOf, OpenFor
  <2>2. InRows(timelocks) = SumOver([x \in Accounts |-> InTimelocks(x)], Accounts)
    BY DEF InRows, InRow, InTimelocks
  <2> DEFINE kept == Kept(funded, claimed, withdrawn)
             dues == SumOver([s \in SnapshotIds |-> Dues(s)], SnapshotIds)
             over == SumOver([s \in SnapshotIds |-> Overdrawn(s)], SnapshotIds)
  <2>3. kept + over = dues /\ kept \in Int /\ over \in Int /\ dues \in Int
    <3> DEFINE f == [s \in SnapshotIds |-> PartOf(funded, claimed, withdrawn, s)]
               g == [s \in SnapshotIds |-> Overdrawn(s)]
               h == [s \in SnapshotIds |-> Dues(s)]
    <3>1. ASSUME NEW s \in SnapshotIds
          PROVE  /\ f[s] \in Int /\ g[s] \in Int /\ h[s] \in Int /\ h[s] = f[s] + g[s]
      <4>1. PartOf(funded, claimed, withdrawn, s) \in Int
        BY SwapFacts, PartIs
      <4>2. Owed(s) = PartOf(funded, claimed, withdrawn, s)
        BY DEF Owed, PartOf
      <4> DEFINE o == Owed(s)
      <4>3. o \in Int /\ Dues(s) = Greater(0, o) /\ Overdrawn(s) = Greater(0, -o)
        BY <4>1, <4>2 DEF Dues, Overdrawn
      <4> HIDE DEF o
      <4>4. Dues(s) \in Int /\ Overdrawn(s) \in Int /\ Dues(s) = o + Overdrawn(s)
        BY <4>3 DEF Greater
      <4>5. f[s] = o /\ g[s] = Overdrawn(s) /\ h[s] = Dues(s)
        BY <4>2 DEF o
      <4>6. QED BY <4>3, <4>4, <4>5
    <3>2. IsFiniteSet(SnapshotIds)
      BY NumberAssumption, FS_Interval DEF SnapshotIds
    <3>3. kept = SumOver(f, SnapshotIds)
      BY DEF Kept, PartOf
    <3>4. over = SumOver(g, SnapshotIds) /\ dues = SumOver(h, SnapshotIds)
      OBVIOUS
    <3> HIDE DEF f, g, h, kept, over, dues
    <3>5. SumOver(h, SnapshotIds) = SumOver(f, SnapshotIds) + SumOver(g, SnapshotIds)
      BY <3>1, <3>2, SumAdd
    <3>6. SumOver(f, SnapshotIds) \in Int /\ SumOver(g, SnapshotIds) \in Int
      BY <3>1, <3>2, SumInt
    <3>7. QED BY <3>3, <3>4, <3>5, <3>6
  <2>4. payments[Token] = OpenBuys(swaps) + kept + crossedPayments
    BY DEF Escrow
  <2> HIDE DEF kept, over, dues
  <2>5. payments[Token] + over = OpenBuys(swaps) + dues + crossedPayments
    <3>1. OpenBuys(swaps) \in Nat /\ crossedPayments \in Int
      BY SwapFacts
    <3>2. QED BY <2>3, <2>4, <3>1
  <2>6. tokens[Token] = InRows(timelocks) + stray + OpenSells(swaps) + crossedTokens
    <3>1. /\ tokens[Token] \in Nat /\ InRows(timelocks) \in Int /\ stray \in Int
          /\ OpenSells(swaps) \in Nat /\ crossedTokens \in Int
      BY LockFacts, SurplusIs, SwapFacts
    <3>2. tokens[Token] - InRows(timelocks) - stray = OpenSells(swaps) + crossedTokens
      BY DEF Escrow, Surplus
    <3>3. QED BY <3>1, <3>2
  <2>7. QED BY <2>1, <2>2, <2>5, <2>6 DEF EscrowIsAccounted, over, dues
<1>2. QED BY <1>1, InvariantOfTheDeployed, PTL

\* A swap ends once, and its end pays each side what the swap says and no more,
\* in the same step: completed, the seller has its price and the buyer its
\* tokens; canceled, only who had funded it has anything back.
THEOREM SwapsEndOnce == Spec => SwapsSettle
<1>1. SwapInv /\ Escrow /\ [Next]_vars =>
        [\A n \in DOMAIN swaps :
           LET swap == swaps[n] IN
           swaps'[n].status # swap.status =>
             /\ swap.status \in {"sell", "buy"}
             /\ swaps'[n].status = "complete" =>
                  /\ payments'[swap.seller] = payments[swap.seller] + swap.price
                  /\ swap.seller # swap.buyer => tokens'[swap.buyer] = tokens[swap.buyer] + swap.amount
             /\ swaps'[n].status = "canceled" =>
                  /\ payments'[swap.buyer] - payments[swap.buyer] = OpenFor(n, "buy", swap.price)
                  /\ tokens'[swap.seller] - tokens[swap.seller] = OpenFor(n, "sell", swap.amount)]_vars
  BY NextSteps DEF Settles, SettlesOf
<1>2. QED BY <1>1, InvariantOfTheDeployed, PTL DEF Spec, SwapsSettle

-----------------------------------------------------------------------------
(***************************************************************************)
(* What the holders claim.  Nothing is recorded for a snapshot that was    *)
(* not taken, nor claimed; and while there are no timelocks the answers    *)
(* about every snapshot that was taken stay what they were, so that each   *)
(* holder claims at most the share of a supply that they add up to.        *)
(***************************************************************************)
Unrecorded ==
  \A k \in SnapshotIds : k > snapshotId =>
    /\ supplySnapshots[k] = Unset /\ \A x \in Accounts : snapshots[x][k] = Unset
    /\ \A u \in Users : claimed[k][u] = 0

Divided ==
  NoTimelocks => \A s \in 1 .. snapshotId :
    SnapshotAddsUp(s) /\ \A u \in Users : claimed[s][u] <= Awarded(u, s)

\* One account's record through a step that may record what it held.
RecordedAt(recorded, id, current) ==
  IF recorded[id] = Unset THEN [recorded EXCEPT ![id] = current] ELSE recorded

LEMMA RecordStep ==
  ASSUME NEW recorded \in Record, NEW current \in Nat, NEW current2, NEW s \in SnapshotIds,
         NEW id \in SnapshotIds, s <= id
  PROVE  AtOf(RecordedAt(recorded, id, current), current2, s, id) = AtOf(recorded, current, s, id)
<1>1. s \in Nat /\ id \in Nat
  BY DEF SnapshotIds
<1>2. CASE recorded[id] = Unset
  BY <1>2, RecordingIsSound DEF RecordedAt
<1>3. CASE recorded[id] # Unset
  BY <1>1, <1>3, AnswerIsFixed DEF RecordedAt
<1>4. QED BY <1>2, <1>3

LEMMA AnswersAre ==
  ASSUME LockInv, NoTimelocks, NEW s
  PROVE  /\ \A x \in Accounts : BalanceAt(x, s) = AtOf(snapshots[x], tokens[x], s, snapshotId)
         /\ SupplyAt(s) = AtOf(supplySnapshots, totalSupply, s, snapshotId)
<1>1. ASSUME NEW x \in Accounts PROVE BalanceOf(x) = tokens[x]
  <2>1. timelocks[x] = <<>>
    BY DEF NoTimelocks
  <2>2. Worth(timelocks[x], releaseSchedules, now) = 0
    BY <2>1, EmptyRowIsWorthless
  <2>3. tokens[x] \in Nat /\ BalanceOf(x) = tokens[x] + Worth(timelocks[x], releaseSchedules, now)
    BY LockFacts, BalanceIs
  <2>4. QED BY <2>2, <2>3
<1>2. QED BY <1>1, AtIs DEF BalanceAt, SupplyAt

LEMMA RecordedRows ==
  ASSUME LockInv, NEW locks, \A x \in Accounts : locks[x] = <<>>, NEW xs, Recorded(locks, xs),
         NEW x \in Accounts, snapshotId > 0
  PROVE  snapshots'[x] = IF x \in xs THEN RecordedAt(snapshots[x], snapshotId, tokens[x]) ELSE snapshots[x]
<1>1. Held(locks, x) = tokens[x]
  <2>1. Worth(locks[x], releaseSchedules, now) = 0
    BY EmptyRowIsWorthless
  <2>2. tokens[x] \in Nat /\ Held(locks, x) = tokens[x] + Worth(locks[x], releaseSchedules, now)
    BY LockFacts, HeldIs
  <2>3. QED BY <2>1, <2>2
<1>2. snapshots'[x] = IF x \in xs /\ snapshotId > 0 /\ snapshots[x][snapshotId] = Unset
                      THEN [snapshots[x] EXCEPT ![snapshotId] = Held(locks, x)]
                      ELSE snapshots[x]
  BY DEF Recorded
<1>3. QED BY <1>1, <1>2 DEF RecordedAt

\* What the steps of tokens do to the records and to the answers they give.
LEMMA AnswersStay ==
  ASSUME SwapInv, LockInv', Shifting \/ Issuing \/ Quiet, Unrecorded, NoTimelocks'
  PROVE  /\ NoTimelocks
         /\ \A s \in 1 .. snapshotId :
              /\ \A x \in Accounts : AtOf(snapshots'[x], tokens'[x], s, snapshotId')
                                       = AtOf(snapshots[x], tokens[x], s, snapshotId)
              /\ AtOf(supplySnapshots', totalSupply', s, snapshotId')
                   = AtOf(supplySnapshots, totalSupply, s, snapshotId)
<1>1. /\ LockInv /\ snapshotId \in Nat /\ MaxSnapshots \in Nat /\ snapshotId <= MaxSnapshots
      /\ supplySnapshots \in Record /\ \A x \in Accounts : snapshots[x] \in Record
      /\ totalSupply \in Nat /\ totalSupply' \in Nat
      /\ \A x \in Accounts : tokens[x] \in Nat /\ tokens'[x] \in Nat
  BY NumberAssumption DEF SwapInv, LockInv, TypeOK, Record
<1>2. \A s \in 1 .. snapshotId : s \in SnapshotIds /\ snapshotId \in SnapshotIds /\ s <= snapshotId
                                  /\ snapshotId > 0 /\ s \in Nat
  BY <1>1 DEF SnapshotIds
<1>3. CASE Shifting
  <2>1. PICK locks \in Rows, xs \in SUBSET Accounts :
          /\ Recorded(locks, xs)
          /\ \A x \in Accounts : tokens'[x] # tokens[x] => x \in xs
          /\ (\A x \in Accounts : timelocks'[x] = <<>>) =>
               \A x \in Accounts : timelocks[x] = <<>> /\ locks[x] = <<>>
    BY <1>3 DEF Shifting, Hooked
  <2>2. \A x \in Accounts : timelocks[x] = <<>> /\ locks[x] = <<>>
    BY <2>1 DEF NoTimelocks
  <2>3. UNCHANGED <<totalSupply, snapshotId, supplySnapshots>>
    BY <1>3 DEF Shifting
  <2>4. ASSUME NEW s \in 1 .. snapshotId, NEW x \in Accounts
        PROVE  AtOf(snapshots'[x], tokens'[x], s, snapshotId') = AtOf(snapshots[x], tokens[x], s, snapshotId)
    <3>1. snapshots'[x] = IF x \in xs THEN RecordedAt(snapshots[x], snapshotId, tokens[x]) ELSE snapshots[x]
      BY <1>1, <1>2, <2>1, <2>2, RecordedRows
    <3>2. tokens'[x] # tokens[x] => x \in xs
      BY <2>1
    <3>3. AtOf(RecordedAt(snapshots[x], snapshotId, tokens[x]), tokens'[x], s, snapshotId)
            = AtOf(snapshots[x], tokens[x], s, snapshotId)
      BY <1>1, <1>2, RecordStep
    <3>4. QED BY <2>3, <3>1, <3>2, <3>3
  <2>5. QED BY <2>2, <2>3, <2>4 DEF NoTimelocks
<1>4. CASE Issuing
  <2>1. PICK xs \in SUBSET Accounts :
          Recorded(timelocks, xs) /\ \A x \in Accounts : tokens'[x] # tokens[x] => x \in xs
    BY <1>4 DEF Issuing
  <2>2. UNCHANGED <<timelocks, snapshotId>> /\ SupplyRecorded
    BY <1>4 DEF Issuing
  <2>3. \A x \in Accounts : timelocks[x] = <<>>
    BY <2>2 DEF NoTimelocks
  <2>4. ASSUME NEW s \in 1 .. snapshotId, NEW x \in Accounts
        PROVE  AtOf(snapshots'[x], tokens'[x], s, snapshotId') = AtOf(snapshots[x], tokens[x], s, snapshotId)
    <3>1. snapshots'[x] = IF x \in xs THEN RecordedAt(snapshots[x], snapshotId, tokens[x]) ELSE snapshots[x]
      BY <1>1, <1>2, <2>1, <2>3, RecordedRows
    <3>2. tokens'[x] # tokens[x] => x \in xs
      BY <2>1
    <3>3. AtOf(RecordedAt(snapshots[x], snapshotId, tokens[x]), tokens'[x], s, snapshotId)
            = AtOf(snapshots[x], tokens[x], s, snapshotId)
      BY <1>1, <1>2, RecordStep
    <3>4. QED BY <2>2, <3>1, <3>2, <3>3
  <2>5. ASSUME NEW s \in 1 .. snapshotId
        PROVE  AtOf(supplySnapshots', totalSupply', s, snapshotId')
                 = AtOf(supplySnapshots, totalSupply, s, snapshotId)
    <3>1. supplySnapshots' = RecordedAt(supplySnapshots, snapshotId, totalSupply)
      BY <1>2, <2>2 DEF SupplyRecorded, RecordedAt
    <3>2. AtOf(RecordedAt(supplySnapshots, snapshotId, totalSupply), totalSupply', s, snapshotId)
            = AtOf(supplySnapshots, totalSupply, s, snapshotId)
      BY <1>1, <1>2, RecordStep
    <3>3. QED BY <2>2, <3>1, <3>2
  <2>6. QED BY <2>3, <2>4, <2>5 DEF NoTimelocks
<1>5. CASE Quiet
  <2>1. /\ UNCHANGED <<tokens, totalSupply, timelocks, snapshots, supplySnapshots>>
        /\ snapshotId' = snapshotId \/ (snapshotId' = snapshotId + 1 /\ snapshotId < MaxSnapshots)
    BY <1>5 DEF Quiet
  <2>2. CASE snapshotId' = snapshotId
    BY <2>1, <2>2 DEF NoTimelocks
  <2>3. CASE snapshotId' = snapshotId + 1 /\ snapshotId < MaxSnapshots
    <3>1. supplySnapshots[snapshotId + 1] = Unset /\ \A x \in Accounts : snapshots[x][snapshotId + 1] = Unset
      <4>1. snapshotId + 1 \in SnapshotIds /\ snapshotId + 1 > snapshotId
        BY <1>1, <2>3 DEF SnapshotIds
      <4>2. QED BY <4>1 DEF Unrecorded
    <3>2. \A s \in 1 .. snapshotId :
            /\ \A x \in Accounts : AtOf(snapshots[x], tokens[x], s, snapshotId + 1)
                                     = AtOf(snapshots[x], tokens[x], s, snapshotId)
            /\ AtOf(supplySnapshots, totalSupply, s, snapshotId + 1)
                 = AtOf(supplySnapshots, totalSupply, s, snapshotId)
      BY <1>1, <1>2, <3>1, SnapshotIsSound
    <3>3. QED BY <2>1, <2>3, <3>2 DEF NoTimelocks
  <2>4. QED BY <2>1, <2>2, <2>3
<1>6. QED BY <1>3, <1>4, <1>5

LEMMA RecordsOnlyTheCurrent ==
  ASSUME SwapInv, Unrecorded, Shifting \/ Issuing \/ Quiet, claimed' = claimed
  PROVE  Unrecorded'
<1>1. /\ snapshotId \in Nat /\ SnapshotIds \subseteq Nat
      /\ supplySnapshots \in Record /\ \A x \in Accounts : snapshots[x] \in Record
  BY DEF SwapInv, LockInv, TypeOK, Record, SnapshotIds
<1>2. snapshotId' \in Nat /\ snapshotId' >= snapshotId
  BY <1>1 DEF Shifting, Issuing, Quiet
<1>3. ASSUME NEW k \in SnapshotIds, k > snapshotId'
      PROVE  /\ supplySnapshots'[k] = Unset /\ \A x \in Accounts : snapshots'[x][k] = Unset
             /\ \A u \in Users : claimed'[k][u] = 0
  <2>1. k > snapshotId /\ k # snapshotId
    BY <1>1, <1>2, <1>3
  <2>2. /\ supplySnapshots[k] = Unset /\ \A x \in Accounts : snapshots[x][k] = Unset
        /\ \A u \in Users : claimed[k][u] = 0
    BY <2>1 DEF Unrecorded
  <2>3. supplySnapshots'[k] = supplySnapshots[k]
    BY <1>1, <2>1 DEF Shifting, Issuing, Quiet, SupplyRecorded, Record
  <2>4. ASSUME NEW x \in Accounts PROVE snapshots'[x][k] = snapshots[x][k]
    <3>1. CASE Quiet
      BY <3>1 DEF Quiet
    <3>2. ASSUME NEW locks, NEW xs, Recorded(locks, xs) PROVE snapshots'[x][k] = snapshots[x][k]
      <4>1. snapshots'[x] = IF x \in xs /\ snapshotId > 0 /\ snapshots[x][snapshotId] = Unset
                            THEN [snapshots[x] EXCEPT ![snapshotId] = Held(locks, x)]
                            ELSE snapshots[x]
        BY <3>2 DEF Recorded
      <4> DEFINE r == snapshots[x]
                 h == Held(locks, x)
      <4>2. r \in Record
        BY <1>1
      <4> HIDE DEF r, h
      <4>3. [r EXCEPT ![snapshotId] = h][k] = r[k]
        BY <2>1, <4>2 DEF Record
      <4>4. QED BY <4>1, <4>3 DEF r, h
    <3>3. CASE Shifting
      BY <3>2, <3>3 DEF Shifting, Hooked
    <3>4. CASE Issuing
      BY <3>2, <3>4 DEF Issuing
    <3>5. QED BY <3>1, <3>3, <3>4
  <2>5. QED BY <2>2, <2>3, <2>4
<1>4. QED BY <1>3 DEF Unrecorded

\* Answers that stay keep what was divided divided, and a new snapshot divides
\* the supply of its time.
LEMMA TokensKeepDivided ==
  ASSUME SwapInv, SwapInv', Unrecorded, Divided, Shifting \/ Issuing \/ Quiet,
         UNCHANGED <<funded, claimed>>
  PROVE  Divided'
<1> SUFFICES ASSUME NoTimelocks'
             PROVE  \A s \in 1 .. snapshotId' :
                      SnapshotAddsUp(s)' /\ \A u \in Users : claimed'[s][u] <= Awarded(u, s)'
  BY DEF Divided
<1>1. LockInv /\ LockInv'
  BY DEF SwapInv
<1>2. /\ NoTimelocks
      /\ \A s \in 1 .. snapshotId :
           /\ \A x \in Accounts : AtOf(snapshots'[x], tokens'[x], s, snapshotId')
                                    = AtOf(snapshots[x], tokens[x], s, snapshotId)
           /\ AtOf(supplySnapshots', totalSupply', s, snapshotId')
                = AtOf(supplySnapshots, totalSupply, s, snapshotId)
  BY <1>1, AnswersStay
<1>3. \A s : /\ \A x \in Accounts : BalanceAt(x, s) = AtOf(snapshots[x], tokens[x], s, snapshotId)
             /\ SupplyAt(s) = AtOf(supplySnapshots, totalSupply, s, snapshotId)
  BY <1>1, <1>2, AnswersAre
<1>4. \A s : /\ \A x \in Accounts : BalanceAt(x, s)' = AtOf(snapshots'[x], tokens'[x], s, snapshotId')
             /\ SupplyAt(s)' = AtOf(supplySnapshots', totalSupply', s, snapshotId')
  <2>1. ASSUME NEW x \in Accounts PROVE BalanceOf(x)' = tokens'[x]
    <3>1. timelocks'[x] = <<>>
      BY DEF NoTimelocks
    <3>2. Worth(timelocks'[x], releaseSchedules', now') = 0
      BY <3>1, EmptyRowIsWorthless
    <3>3. BalanceOf(x)' = tokens'[x] + Worth(timelocks'[x], releaseSchedules', now')
      BY DEF BalanceOf, Held, LockedAmount, UnlockedAmount, TotalUnlocked, Worth, WorthOf, Releases
    <3>4. tokens'[x] \in Nat
      BY <1>1 DEF LockInv, TypeOK
    <3>5. QED BY <3>2, <3>3, <3>4
  <2>2. \A s, x : BalanceAt(x, s)' = AtOf(snapshots'[x], BalanceOf(x)', s, snapshotId')
    BY DEF BalanceAt, At, AtOf, Later, Earliest
  <2>3. \A s : SupplyAt(s)' = AtOf(supplySnapshots', totalSupply', s, snapshotId')
    BY DEF SupplyAt, At, AtOf, Later, Earliest
  <2>4. QED BY <2>1, <2>2, <2>3
<1>5. ASSUME NEW s \in 1 .. snapshotId
      PROVE  SnapshotAddsUp(s)' /\ \A u \in Users : claimed'[s][u] <= Awarded(u, s)'
  <2>1. (\A x \in Accounts : BalanceAt(x, s)' = BalanceAt(x, s)) /\ SupplyAt(s)' = SupplyAt(s)
    BY <1>2, <1>3, <1>4
  <2>2. SnapshotAddsUp(s) /\ \A u \in Users : claimed[s][u] <= Awarded(u, s)
    BY <1>2 DEF Divided
  <2>3. SnapshotAddsUp(s)'
    <3>1. [x \in Accounts |-> BalanceAt(x, s)]' = [x \in Accounts |-> BalanceAt(x, s)]
      BY <2>1
    <3>2. QED BY <2>1, <2>2, <3>1 DEF SnapshotAddsUp
  <2>4. \A u \in Users : Awarded(u, s)' = Awarded(u, s)
    <3>1. ASSUME NEW u \in Users PROVE Awarded(u, s)' = Awarded(u, s)
      <4>1. BalanceAt(u, s)' = BalanceAt(u, s)
        BY <2>1 DEF Accounts
      <4>2. /\ Awarded(u, s) = Award(funded[s], BalanceAt(u, s), SupplyAt(s))
            /\ Awarded(u, s)' = Award(funded'[s], BalanceAt(u, s)', SupplyAt(s)')
        BY DEF Awarded, Award, Share
      <4>3. QED BY <2>1, <4>1, <4>2
    <3>2. QED BY <3>1
  <2>5. QED BY <2>2, <2>3, <2>4
<1>6. ASSUME NEW s, snapshotId' = snapshotId + 1, s = snapshotId + 1, Quiet
      PROVE  SnapshotAddsUp(s)' /\ \A u \in Users : claimed'[s][u] <= Awarded(u, s)'
  <2>1. /\ snapshotId \in Nat /\ s \in Nat /\ s \in SnapshotIds /\ s > snapshotId
    <3>1. snapshotId \in Nat /\ MaxSnapshots \in Nat
      BY <1>1, NumberAssumption DEF LockInv, TypeOK
    <3>2. s <= MaxSnapshots
      BY <1>6 DEF SwapInv
    <3>3. QED BY <1>6, <3>1, <3>2 DEF SnapshotIds
  <2>2. /\ supplySnapshots[s] = Unset /\ \A x \in Accounts : snapshots[x][s] = Unset
        /\ \A u \in Users : claimed[s][u] = 0
    BY <2>1 DEF Unrecorded
  <2>3. UNCHANGED <<tokens, totalSupply, snapshots, supplySnapshots>>
    BY <1>6 DEF Quiet
  <2>4. s .. snapshotId' = {s}
    BY <1>6, <2>1
  <2>5. (\A x \in Accounts : BalanceAt(x, s)' = tokens'[x]) /\ SupplyAt(s)' = totalSupply'
    <3>1. snapshotId' \in Nat /\ \A k \in s .. snapshotId' : k = s
      BY <1>6, <2>1, <2>4
    <3>2. \A x \in Accounts : AtOf(snapshots'[x], tokens'[x], s, snapshotId') = tokens'[x]
      BY <2>1, <2>2, <2>3, <3>1, NothingLater
    <3>3. AtOf(supplySnapshots', totalSupply', s, snapshotId') = totalSupply'
      BY <2>1, <2>2, <2>3, <3>1, NothingLater
    <3>4. QED BY <1>4, <3>2, <3>3
  <2>6. SnapshotAddsUp(s)'
    <3>1. [x \in Accounts |-> BalanceAt(x, s)]' = tokens'
      <4>1. tokens' \in [Accounts -> Nat]
        BY <1>1 DEF LockInv, TypeOK
      <4>2. QED BY <2>5, <4>1
    <3>2. totalSupply' = SumOver(tokens', Accounts)
      BY <1>1 DEF LockInv, SupplyIsHeld
    <3>3. QED BY <2>5, <3>1, <3>2 DEF SnapshotAddsUp
  <2>7. ASSUME NEW u \in Users PROVE claimed'[s][u] <= Awarded(u, s)'
    <3>1. Awarded(u, s)' = Award(funded'[s], BalanceAt(u, s)', SupplyAt(s)')
      BY DEF Awarded, Award, Share
    <3>2. BalanceAt(u, s)' = tokens'[u] /\ tokens'[u] \in Nat /\ totalSupply' \in Nat
      BY <1>1, <2>5 DEF Accounts, LockInv, TypeOK
    <3>3. funded'[s] \in Nat
      BY <2>1, SwapFacts DEF Sums
    <3>4. Awarded(u, s)' \in Nat
      BY <2>5, <3>1, <3>2, <3>3, AwardIs
    <3>5. QED BY <2>2, <3>4
  <2>8. QED BY <2>6, <2>7
<1>7. snapshotId' = snapshotId \/ (snapshotId' = snapshotId + 1 /\ Quiet)
  BY DEF Shifting, Issuing, Quiet
<1>8. \A s \in 1 .. snapshotId' : s \in 1 .. snapshotId \/ (snapshotId' = snapshotId + 1 /\ s = snapshotId + 1)
  BY <1>1, <1>7 DEF LockInv, TypeOK
<1>9. QED BY <1>5, <1>6, <1>7, <1>8

\* A swap's step moves tokens as the hook is told, or none.
LEMMA SwapsShift ==
  ASSUME SwapInv, NEW u \in Users, SwapStep(u)
  PROVE  (Shifting \/ Quiet) /\ UNCHANGED <<funded, claimed>>
<1>1. /\ Pieces \subseteq Nat /\ LockInv /\ Token \in Accounts /\ u \in Accounts
  BY SwapAssumption, SwapFacts DEF Accounts
<1>2. UNCHANGED lockupVars => Quiet
  BY <1>1, LockupStutters
<1>3. ASSUME NEW v \in Users, NEW n \in Pieces, NEW p \in Payments, ConfigureSell(u, n, v, p)
      PROVE  Shifting /\ UNCHANGED <<funded, claimed>>
  <2>1. Deposit(u, Token, n) /\ n \in Nat /\ UNCHANGED <<funded, claimed>>
    BY <1>1, <1>3 DEF ConfigureSell, dividendVars
  <2>2. QED BY <1>1, <2>1, DepositShifts
<1>4. ASSUME NEW v \in Users, NEW n \in Pieces, NEW p \in Payments, ConfigureBuy(u, n, v, p)
      PROVE  Quiet /\ UNCHANGED <<funded, claimed>>
  BY <1>2, <1>4 DEF ConfigureBuy
<1>5. ASSUME NEW n \in DOMAIN swaps
      PROVE  /\ swaps[n].amount \in Nat /\ swaps[n].seller \in Accounts /\ swaps[n].buyer \in Accounts
  BY SwapFacts, BookIs, SwapIs DEF Accounts
<1>6. ASSUME NEW n \in DOMAIN swaps, CompleteSwapWithPaymentToken(u, n)
      PROVE  Shifting /\ UNCHANGED <<funded, claimed>>
  <2>1. Deposit(Token, u, swaps[n].amount) /\ UNCHANGED <<funded, claimed>>
    BY <1>6 DEF CompleteSwapWithPaymentToken
  <2>2. QED BY <1>1, <1>5, <2>1, DepositShifts
<1>7. ASSUME NEW n \in DOMAIN swaps, CompleteSwapWithRestrictedToken(u, n)
      PROVE  Shifting /\ UNCHANGED <<funded, claimed>>
  <2>1. Deposit(u, swaps[n].buyer, swaps[n].amount) /\ UNCHANGED <<funded, claimed>>
    BY <1>7 DEF CompleteSwapWithRestrictedToken
  <2>2. QED BY <1>1, <1>5, <2>1, DepositShifts
<1>8. ASSUME NEW n \in DOMAIN swaps, CancelSell(u, n)
      PROVE  (Shifting \/ Quiet) /\ UNCHANGED <<funded, claimed>>
  <2>1. /\ UNCHANGED <<funded, claimed>>
        /\ Deposit(Token, u, swaps[n].amount) \/ UNCHANGED lockupVars
    BY <1>8 DEF CancelSell, dividendVars
  <2>2. QED BY <1>1, <1>2, <1>5, <2>1, DepositShifts
<1>9. QED BY <1>3, <1>4, <1>6, <1>7, <1>8 DEF SwapStep

\* A step on the dividends changes no answer; funds only grow, and a claim is
\* of no more than what is left of the award.
LEMMA DividendsKeepDivided ==
  ASSUME SwapInv, Unrecorded, Divided, NEW u \in Users, DividendStep(u)
  PROVE  Unrecorded' /\ Divided'
<1>1. /\ funded \in Sums /\ claimed \in Claims /\ Payments \subseteq Nat /\ LockInv
      /\ snapshotId \in Nat /\ SnapshotIds \subseteq Nat /\ snapshotId <= MaxSnapshots
      /\ MaxSnapshots \in Nat
  BY SwapFacts, PaymentAssumption, NumberAssumption DEF SwapInv, LockInv, TypeOK, SnapshotIds
<1>2. PICK s \in SnapshotIds :
        \/ \E n \in Payments : FundDividend(u, n, s)
        \/ ClaimDividend(u, s) \/ WithdrawalRemains(u, s)
  BY DEF DividendStep
<1>3. /\ UNCHANGED lockupVars
      /\ \A r \in SnapshotIds : funded'[r] \in Nat /\ funded'[r] >= funded[r]
      /\ \A r \in SnapshotIds, v \in Users :
           claimed'[r][v] = claimed[r][v] + (IF r = s /\ v = u /\ ClaimDividend(u, s) THEN Unclaimed(u, s) ELSE 0)
      /\ ClaimDividend(u, s) => s <= snapshotId /\ funded' = funded
  <2>1. \A r \in SnapshotIds : funded[r] \in Nat /\ \A v \in Users : claimed[r][v] \in Nat
    BY <1>1 DEF Sums, Claims
  <2>2. CASE ClaimDividend(u, s)
    BY <2>1, <2>2, ClaimIs
  <2>3. CASE ~ ClaimDividend(u, s) /\ \E n \in Payments : FundDividend(u, n, s)
    <3>1. PICK n \in Payments : FundDividend(u, n, s)
      BY <2>3
    <3>2. n \in Nat
      BY <1>1
    <3>3. /\ UNCHANGED lockupVars /\ claimed' = claimed
          /\ \A r \in SnapshotIds : funded'[r] = funded[r] + (IF r = s THEN n ELSE 0)
      BY <3>1, <3>2, FundIs
    <3>4. QED BY <2>1, <2>3, <3>2, <3>3
  <2>4. CASE ~ ClaimDividend(u, s) /\ WithdrawalRemains(u, s)
    <3>1. UNCHANGED lockupVars /\ claimed' = claimed /\ funded' = funded
      BY <2>4, WithdrawalIs
    <3>2. QED BY <2>1, <2>4, <3>1
  <2>5. QED BY <1>2, <2>2, <2>3, <2>4
<1>4. /\ UNCHANGED <<snapshotId, timelocks, supplySnapshots, snapshots>>
      /\ \A r : SnapshotAddsUp(r)' <=> SnapshotAddsUp(r)
      /\ \A r, x : BalanceAt(x, r)' = BalanceAt(x, r)
      /\ \A r : SupplyAt(r)' = SupplyAt(r)
  <2>1. UNCHANGED <<snapshotId, tokens, totalSupply, timelocks, supplySnapshots, snapshots>>
    BY <1>3 DEF lockupVars, tokenVars, lockVars, snapshotVars
  <2>2. \A x : BalanceOf(x)' = BalanceOf(x)
    BY <1>3, <2>1 DEF BalanceOf, Held, lockupVars, lockVars, LockedAmount, UnlockedAmount, TotalUnlocked
  <2>3. \A r, x : BalanceAt(x, r)' = BalanceAt(x, r)
    BY <2>1, <2>2 DEF BalanceAt, At
  <2>4. \A r : SupplyAt(r)' = SupplyAt(r)
    BY <2>1 DEF SupplyAt, At
  <2>5. \A r : SnapshotAddsUp(r)' <=> SnapshotAddsUp(r)
    BY <2>3, <2>4 DEF SnapshotAddsUp
  <2>6. QED BY <2>1, <2>3, <2>4, <2>5
<1>5. Unrecorded'
  <2>1. ASSUME NEW k \in SnapshotIds, k > snapshotId, NEW v \in Users PROVE claimed'[k][v] = 0
    <3>1. claimed[k][v] = 0
      BY <2>1 DEF Unrecorded
    <3>2. ~ (k = s /\ ClaimDividend(u, s))
      BY <1>1, <1>3, <2>1
    <3>3. QED BY <1>3, <3>1, <3>2
  <2>2. QED BY <1>4, <2>1 DEF Unrecorded
<1>6. ASSUME NoTimelocks', NEW r \in 1 .. snapshotId
      PROVE  SnapshotAddsUp(r)' /\ \A v \in Users : claimed'[r][v] <= Awarded(v, r)'
  <2>1. NoTimelocks /\ r \in SnapshotIds
    BY <1>1, <1>4, <1>6 DEF NoTimelocks, SnapshotIds
  <2>2. SnapshotAddsUp(r) /\ \A v \in Users : claimed[r][v] <= Awarded(v, r)
    BY <2>1 DEF Divided
  <2>3. ASSUME NEW v \in Users PROVE claimed'[r][v] <= Awarded(v, r)'
    <3>1. /\ Awarded(v, r) = Award(funded[r], BalanceAt(v, r), SupplyAt(r))
          /\ BalanceAt(v, r) \in Nat /\ SupplyAt(r) \in Nat /\ funded[r] \in Nat
          /\ claimed[r][v] \in Nat /\ Awarded(v, r) \in Nat /\ Unclaimed(v, r) \in Nat
          /\ Unclaimed(v, r) <= Awarded(v, r) - claimed[r][v]
      BY <1>1, <2>1, <2>2, AwardedIs DEF Accounts, Sums, Claims
    <3>2. Awarded(v, r)' = Award(funded'[r], BalanceAt(v, r), SupplyAt(r))
      <4>1. Awarded(v, r)' = Award(funded'[r], BalanceAt(v, r)', SupplyAt(r)')
        BY DEF Awarded, Award, Share
      <4>2. QED BY <1>4, <4>1
    <3>3. /\ Awarded(v, r) <= Awarded(v, r)' /\ Awarded(v, r)' \in Nat
      <4> DEFINE n == funded'[r] - funded[r]
      <4>1. n \in Nat /\ funded'[r] = funded[r] + n
        BY <1>3, <2>1, <3>1
      <4> HIDE DEF n
      <4>2. Award(funded[r], BalanceAt(v, r), SupplyAt(r)) <= Award(funded[r] + n, BalanceAt(v, r), SupplyAt(r))
        BY <3>1, <4>1, AwardGrows
      <4>3. Award(funded'[r], BalanceAt(v, r), SupplyAt(r)) \in Nat
        BY <1>3, <2>1, <3>1, AwardIs
      <4>4. QED BY <3>1, <3>2, <4>1, <4>2, <4>3
    <3>4. claimed'[r][v] <= Awarded(v, r)
      BY <1>3, <2>1, <2>2, <3>1
    <3>5. claimed'[r][v] \in Nat
      BY <1>3, <2>1, <3>1
    <3>6. QED BY <3>1, <3>3, <3>4, <3>5
  <2>4. QED BY <1>4, <2>2, <2>3
<1>7. QED BY <1>4, <1>5, <1>6 DEF Divided

LEMMA InitDivided == SwapInit => Unrecorded /\ Divided
<1> SUFFICES ASSUME SwapInit PROVE Unrecorded /\ Divided
  OBVIOUS
<1>1. /\ snapshotId = 0
      /\ \A k \in SnapshotIds : supplySnapshots[k] = Unset
      /\ \A x \in Accounts, k \in SnapshotIds : snapshots[x][k] = Unset
  BY DEF SwapInit, Init
<1>2. \A k \in SnapshotIds, u \in Users : claimed[k][u] = 0
  BY DEF SwapInit, InitDividends
<1>3. 1 .. snapshotId = {}
  BY <1>1
<1>4. QED BY <1>1, <1>2, <1>3 DEF Unrecorded, Divided

LEMMA NextDivides ==
  ASSUME SwapInv, Escrow, Unrecorded, Divided, [Next]_vars
  PROVE  Unrecorded' /\ Divided'
<1>1. SwapInv'
  BY NextSteps, DeployedStutters
<1>2. ASSUME Shifting \/ Issuing \/ Quiet, UNCHANGED <<funded, claimed>>
      PROVE  Unrecorded' /\ Divided'
  BY <1>1, <1>2, RecordsOnlyTheCurrent, TokensKeepDivided
<1>3. CASE LockupNext /\ UNCHANGED <<dividendVars, swapVars>>
  <2>1. Shifting \/ Issuing \/ Quiet
    BY <1>3, LockupSteps, SwapFacts
  <2>2. UNCHANGED <<funded, claimed>>
    BY <1>3 DEF dividendVars
  <2>3. QED BY <1>2, <2>1, <2>2
<1>4. ASSUME NEW u \in Users, SwapStep(u) PROVE Unrecorded' /\ Divided'
  BY <1>2, <1>4, SwapsShift
<1>5. ASSUME NEW u \in Users, DividendStep(u) PROVE Unrecorded' /\ Divided'
  BY <1>5, DividendsKeepDivided
<1>6. CASE UNCHANGED vars
  <2>1. UNCHANGED lockupVars /\ UNCHANGED <<funded, claimed>>
    BY <1>6 DEF vars, dividendVars
  <2>2. Quiet
    BY <2>1, LockupStutters, SwapFacts
  <2>3. QED BY <1>2, <2>1, <2>2
<1>7. QED BY <1>3, <1>4, <1>5, <1>6 DEF Next

\* Shares of one supply, each rounded down, come to no more than the fund.
LEMMA SharesFit ==
  ASSUME NEW f \in Nat, NEW supply \in Nat, NEW b, NEW c,
         \A u \in Users : b[u] \in Nat /\ c[u] \in Nat /\ c[u] <= Award(f, b[u], supply),
         SumOver(b, Users) <= supply
  PROVE  SumOver(c, Users) <= f
<1>1. IsFiniteSet(Users)
  BY AccountsAreFinite
<1>2. SumOver(c, Users) \in Nat /\ SumOver(b, Users) \in Nat
  BY <1>1, SumNat
<1>3. CASE supply = 0
  <2>1. \A u \in Users : c[u] = 0
    BY <1>3 DEF Award
  <2>2. SumOver(c, Users) = 0
    BY <1>1, <2>1, SumZero
  <2>3. QED BY <2>2
<1>4. CASE supply # 0
  <2> DEFINE left  == [u \in Users |-> supply * c[u]]
             right == [u \in Users |-> f * b[u]]
  <2>1. ASSUME NEW u \in Users
        PROVE  left[u] \in Nat /\ right[u] \in Nat /\ left[u] <= right[u]
    <3>1. b[u] \in Nat /\ c[u] \in Nat /\ c[u] <= Award(f, b[u], supply)
      OBVIOUS
    <3>2. Award(f, b[u], supply) \in Nat /\ supply * Award(f, b[u], supply) <= f * b[u]
      BY <3>1, AwardIs
    <3>3. supply * c[u] <= supply * Award(f, b[u], supply)
      BY <3>1, <3>2, ProductsGrow
    <3>4. supply * c[u] \in Nat /\ supply * Award(f, b[u], supply) \in Nat /\ f * b[u] \in Nat
      BY <3>1, <3>2, TimesIsNat
    <3>5. supply * c[u] <= f * b[u]
      BY <3>2, <3>3, <3>4
    <3>6. QED BY <3>4, <3>5
  <2>2. /\ \A u \in Users : left[u] = supply * c[u]
        /\ \A u \in Users : right[u] = f * b[u]
    OBVIOUS
  <2> HIDE DEF left, right
  <2>3. SumOver(left, Users) <= SumOver(right, Users)
    BY <1>1, <2>1, SumMonotone
  <2>4. SumOver(left, Users) = supply * SumOver(c, Users)
    BY <1>1, <2>2, SumScaled
  <2>5. SumOver(right, Users) = f * SumOver(b, Users)
    BY <1>1, <2>2, SumScaled
  <2> DEFINE total == SumOver(c, Users)
             held  == SumOver(b, Users)
  <2>6. total \in Nat /\ held \in Nat /\ held <= supply /\ supply * total <= f * held
    BY <1>2, <2>3, <2>4, <2>5
  <2> HIDE DEF total, held
  <2>7. f * held <= f * supply
    BY <2>6, ProductsGrow
  <2>8. supply * total \in Nat /\ f * held \in Nat /\ f * supply \in Nat
    BY <2>6, TimesIsNat
  <2>9. supply * total <= f * supply
    BY <2>6, <2>7, <2>8
  <2>10. total <= f
    BY <1>4, <2>6, <2>9, Z3
  <2>11. QED BY <2>10 DEF total
<1>5. QED BY <1>3, <1>4

\* While there are no timelocks, a snapshot divides the supply of its time
\* among the accounts whatever moved since, and its holders together have
\* claimed no more than was funded for it: as long as its remains are not
\* withdrawn, no claim is paid from another fund or from an open buy.
THEOREM ClaimsStayFunded == Spec => []ClaimsAreFunded
<1>1. SwapInv /\ Escrow /\ Unrecorded /\ Divided /\ [Next]_vars => Unrecorded' /\ Divided'
  BY NextDivides
<1>2. SwapInv /\ Unrecorded /\ Divided => ClaimsAreFunded
  <2> SUFFICES ASSUME SwapInv, Unrecorded, Divided, NoTimelocks
               PROVE  /\ \A s \in 1 .. snapshotId : SnapshotAddsUp(s)
                      /\ \A s \in SnapshotIds : SumOver(claimed[s], Users) <= funded[s]
    BY DEF ClaimsAreFunded
  <2>1. /\ \A s \in SnapshotIds : funded[s] \in Nat /\ \A u \in Users : claimed[s][u] \in Nat
        /\ snapshotId \in Nat /\ SnapshotIds \subseteq Nat /\ \A s \in SnapshotIds : s >= 1
    <3>1. funded \in Sums /\ claimed \in Claims /\ LockInv
      BY SwapFacts
    <3>2. snapshotId \in Nat
      BY <3>1 DEF LockInv, TypeOK
    <3>3. QED BY <3>1, <3>2 DEF Sums, Claims, SnapshotIds
  <2>2. \A s \in 1 .. snapshotId : SnapshotAddsUp(s) /\ \A u \in Users : claimed[s][u] <= Awarded(u, s)
    BY DEF Divided
  <2>3. ASSUME NEW s \in SnapshotIds, s > snapshotId PROVE SumOver(claimed[s], Users) <= funded[s]
    <3> DEFINE c == claimed[s]
    <3>1. \A u \in Users : c[u] = 0
      BY <2>3 DEF Unrecorded
    <3>2. IsFiniteSet(Users)
      BY AccountsAreFinite
    <3> HIDE DEF c
    <3>3. SumOver(c, Users) = 0
      BY <3>1, <3>2, SumZero
    <3>4. QED BY <2>1, <3>3 DEF c
  <2>4. ASSUME NEW s \in SnapshotIds, s <= snapshotId PROVE SumOver(claimed[s], Users) <= funded[s]
    <3> DEFINE c == claimed[s]
               b == [x \in Accounts |-> BalanceAt(x, s)]
               f == funded[s]
               supply == SupplyAt(s)
    <3>1. /\ \A x \in Accounts : b[x] \in Nat
          /\ supply \in Nat /\ f \in Nat
          /\ \A u \in Users : c[u] \in Nat /\ Awarded(u, s) = Award(f, b[u], supply)
      BY <2>1, AwardedIs DEF Accounts
    <3>2. s \in 1 .. snapshotId
      BY <2>1, <2>4
    <3>3. SumOver(b, Accounts) = supply /\ \A u \in Users : c[u] <= Awarded(u, s)
      BY <2>2, <3>2 DEF SnapshotAddsUp
    <3> HIDE DEF c, b, f, supply
    <3>4. \A u \in Users : b[u] \in Nat /\ c[u] \in Nat /\ c[u] <= Award(f, b[u], supply)
      BY <3>1, <3>3 DEF Accounts
    <3>5. SumOver(b, Users) <= supply
      <4>1. /\ IsFiniteSet(Users) /\ Token \notin Users /\ Accounts = Users \cup {Token}
            /\ \A x \in Users \cup {Token} : b[x] \in Int
        BY <3>1, AccountsAreFinite, AddressAssumption DEF Accounts
      <4>2. SumOver(b, Users \cup {Token}) = SumOver(b, Users) + b[Token]
        BY <4>1, SumInsert
      <4>3. SumOver(b, Users) \in Nat /\ b[Token] \in Nat
        BY <3>1, <3>4, <4>1, SumNat
      <4>4. QED BY <3>1, <3>3, <4>1, <4>2, <4>3
    <3>6. SumOver(c, Users) <= f
      BY <3>1, <3>4, <3>5, SharesFit
    <3>7. QED BY <3>6 DEF c, f
  <2>5. QED BY <2>1, <2>2, <2>3, <2>4
<1>3. QED BY <1>1, <1>2, InitDivided, InvariantOfTheDeployed, PTL DEF Spec
=============================================================================
