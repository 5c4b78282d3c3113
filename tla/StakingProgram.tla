--------------------------- MODULE StakingProgram ---------------------------
(***************************************************************************)
(* The template Staking.sol: tokens are locked for a period the staker     *)
(* chooses, points are earned at once and taken away again from who leaves *)
(* early, and after the program a fund is divided by the points and vests. *)
(* The fund has been paid in (setPoolToken).  One action is one            *)
(* transaction.                                                            *)
(***************************************************************************)
EXTENDS Sums, FiniteSets

CONSTANTS
  Lockers,
  LockAmounts, LockPeriods,
  ProgramEnd,          \* stakingProgramEndsBlock
  Fund,                \* stakingFundAmount
  VestingBlocks        \* vestingDuration

ASSUME ProgramAssumption ==
  /\ IsFiniteSet(Lockers)
  /\ LockAmounts \subseteq Nat \ {0} /\ LockPeriods \subseteq Nat \ {0}
  /\ ProgramEnd \in Nat /\ Fund \in Nat /\ VestingBlocks \in Nat \ {0}

VARIABLES
  height,              \* block.number
  locks,               \* stakes
  rewardPoints,        \* rewardPointsEarned
  totalRewardPoints,
  granted, released,   \* grantedTokens, releasedTokens
  fundHoldings         \* the fund's tokens the contract holds

programVars == <<height, locks, rewardPoints, totalRewardPoints, granted, released, fundHoldings>>

Unlocked == [amount |-> 0, period |-> 0, start |-> 0, points |-> 0]
Zeros == [u \in Lockers |-> 0]

ProgramInit ==
  /\ height = 0
  /\ locks = [u \in Lockers |-> Unlocked]
  /\ rewardPoints = Zeros /\ totalRewardPoints = 0
  /\ granted = Zeros /\ released = Zeros
  /\ fundHoldings = Fund

EndsInTime(k) == k <= ProgramEnd /\ height <= ProgramEnd - k

LockTokens(u, n, k) ==
  LET points == n * k * k IN
  /\ EndsInTime(k) /\ locks[u].amount = 0
  /\ locks' = [locks EXCEPT ![u] = [amount |-> n, period |-> k, start |-> height, points |-> points]]
  /\ totalRewardPoints' = totalRewardPoints + points
  /\ rewardPoints' = [rewardPoints EXCEPT ![u] = @ + points]
  /\ UNCHANGED <<height, granted, released, fundHoldings>>

\* The points an unlocking staker loses.
Penalty(u) ==
  IF height < locks[u].start + locks[u].period THEN locks[u].points ELSE 0

\* Variant: who unlocks early keeps the points that are taken from the total.
UnlockKeepsPoints(u) ==
  /\ locks[u].amount # 0 /\ height > locks[u].start
  /\ totalRewardPoints' = totalRewardPoints - Penalty(u)
  /\ locks' = [locks EXCEPT ![u] = Unlocked]
  /\ UNCHANGED <<height, rewardPoints, granted, released, fundHoldings>>

UnlockTokens(u) ==
  /\ locks[u].amount # 0 /\ height > locks[u].start
  /\ rewardPoints' = [rewardPoints EXCEPT ![u] = @ - Penalty(u)]
  /\ totalRewardPoints' = totalRewardPoints - Penalty(u)
  /\ locks' = [locks EXCEPT ![u] = Unlocked]
  /\ UNCHANGED <<height, granted, released, fundHoldings>>

GetRewards(u) ==
  /\ height > ProgramEnd /\ locks[u].amount = 0 /\ rewardPoints[u] > 0
  /\ LET earned == (Fund * rewardPoints[u]) \div totalRewardPoints IN
       earned > 0 /\ granted' = [granted EXCEPT ![u] = earned]
  /\ rewardPoints' = [rewardPoints EXCEPT ![u] = 0]
  /\ UNCHANGED <<height, locks, totalRewardPoints, released, fundHoldings>>

\* _vestedAmount.
VestedOf(u) ==
  IF height >= ProgramEnd + VestingBlocks THEN granted[u]
  ELSE (granted[u] * (height - ProgramEnd)) \div VestingBlocks

Release(u) ==
  LET releasable == VestedOf(u) - released[u] IN
  /\ height >= ProgramEnd /\ releasable > 0 /\ fundHoldings >= releasable
  /\ released' = [released EXCEPT ![u] = @ + releasable]
  /\ fundHoldings' = fundHoldings - releasable
  /\ UNCHANGED <<height, locks, rewardPoints, totalRewardPoints, granted>>

BlockMined ==
  /\ height < ProgramEnd + VestingBlocks
  /\ height' = height + 1
  /\ UNCHANGED <<locks, rewardPoints, totalRewardPoints, granted, released, fundHoldings>>

ProgramNext ==
  \/ \E u \in Lockers :
       \/ \E n \in LockAmounts, k \in LockPeriods : LockTokens(u, n, k)
       \/ UnlockTokens(u) \/ GetRewards(u) \/ Release(u)
  \/ BlockMined

ProgramSpec == ProgramInit /\ [][ProgramNext]_programVars

-----------------------------------------------------------------------------
\* What u may still be granted.
Outstanding(u) ==
  IF totalRewardPoints = 0 THEN 0 ELSE (Fund * rewardPoints[u]) \div totalRewardPoints

\* Once the program is over, the fund covers what was granted and not released
\* yet, and the shares of all who have not come for theirs: the shares do not
\* depend on who comes first, because nobody's points can change any more.
GrantsFitTheFund ==
  height > ProgramEnd =>
    fundHoldings >= SumOver([u \in Lockers |-> granted[u] - released[u] + Outstanding(u)], Lockers)
=============================================================================
