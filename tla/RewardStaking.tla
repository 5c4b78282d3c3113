---------------------------- MODULE RewardStaking ----------------------------
(***************************************************************************)
(* The template SingleStaking.sol: stakers share a reward that is paid out *)
(* evenly over a period.  What one has earned is not stored but derived    *)
(* from rewardPerToken, the reward of one staked unit since the beginning. *)
(* One reward token is considered, each has its own record, and it is not  *)
(* the token that is staked.  One action is one transaction.               *)
(***************************************************************************)
EXTENDS Sums, FiniteSets

CONSTANTS
  Stakers,
  Stakes, Rewards,     \* the amounts staked or withdrawn, and notified
  Durations,           \* the lengths a period may be given
  FirstDuration,       \* addReward's
  RewardScale,         \* the 1e18 of rewardPerToken
  MaxStaked,           \* bound: all that is ever staked at a time
  MaxNotified,         \* bound: the calls of notifyRewardAmount
  LastSecond           \* bound: the last block timestamp

ASSUME StakingAssumption ==
  /\ IsFiniteSet(Stakers)
  /\ Stakes \subseteq Nat \ {0} /\ Rewards \subseteq Nat
  /\ Durations \subseteq Nat \ {0} /\ FirstDuration \in Nat \ {0}
  /\ RewardScale \in Nat \ {0} /\ LastSecond \in Nat

VARIABLES
  second,              \* block.timestamp
  staked,              \* _balances; _totalSupply is their sum
  duration, periodFinish, rewardRate, lastUpdateTime, rewardPerTokenStored,
  userPaid,            \* userRewardPerTokenPaid
  rewards,
  rewardHoldings,      \* the reward tokens the contract holds
  notified

rewardData  == <<duration, periodFinish, rewardRate>>
checkpoints == <<lastUpdateTime, rewardPerTokenStored, userPaid>>
stakingVars == <<second, staked, rewardData, checkpoints, rewards, rewardHoldings, notified>>

StakingInit ==
  /\ second = 1
  /\ staked = [u \in Stakers |-> 0]
  /\ duration = FirstDuration /\ periodFinish = 0 /\ rewardRate = 0
  /\ lastUpdateTime = 0 /\ rewardPerTokenStored = 0
  /\ userPaid = [u \in Stakers |-> 0] /\ rewards = [u \in Stakers |-> 0]
  /\ rewardHoldings = 0 /\ notified = 0

StakedInAll == SumOver(staked, Stakers)

LastTimeRewardApplicable == IF second < periodFinish THEN second ELSE periodFinish

RewardPerToken ==
  IF StakedInAll = 0 THEN rewardPerTokenStored
  ELSE rewardPerTokenStored
         + ((LastTimeRewardApplicable - lastUpdateTime) * rewardRate * RewardScale) \div StakedInAll

EarnedBy(u) == (staked[u] * (RewardPerToken - userPaid[u])) \div RewardScale + rewards[u]

\* updateReward: before a transaction of u's, or of nobody's stake.
Checkpoint ==
  /\ rewardPerTokenStored' = RewardPerToken
  /\ lastUpdateTime' = LastTimeRewardApplicable

CheckpointOf(u) == Checkpoint /\ userPaid' = [userPaid EXCEPT ![u] = RewardPerToken]

Settled(u) == [rewards EXCEPT ![u] = EarnedBy(u)]

StakeTokens(u, n) ==
  /\ StakedInAll + n <= MaxStaked
  /\ CheckpointOf(u) /\ rewards' = Settled(u)
  /\ staked' = [staked EXCEPT ![u] = @ + n]
  /\ UNCHANGED <<second, rewardData, rewardHoldings, notified>>

WithdrawStake(u, n) ==
  /\ staked[u] >= n
  /\ CheckpointOf(u) /\ rewards' = Settled(u)
  /\ staked' = [staked EXCEPT ![u] = @ - n]
  /\ UNCHANGED <<second, rewardData, rewardHoldings, notified>>

\* Pays what has been earned, if that can be paid.
PayReward(u) ==
  /\ rewardHoldings >= EarnedBy(u)
  /\ CheckpointOf(u) /\ rewards' = [rewards EXCEPT ![u] = 0]
  /\ rewardHoldings' = rewardHoldings - EarnedBy(u)

GetReward(u) == PayReward(u) /\ UNCHANGED <<second, staked, rewardData, notified>>

\* exit: withdraw, and getReward in the same block.
Exit(u) ==
  /\ staked[u] > 0
  /\ PayReward(u)
  /\ staked' = [staked EXCEPT ![u] = 0]
  /\ UNCHANGED <<second, rewardData, notified>>

\* Variant: what was paid out of the running period is distributed again.
RateOverWholePeriod(reward) ==
  IF second >= periodFinish THEN reward \div duration
  ELSE (reward + duration * rewardRate) \div duration

\* What is left of a running period is added to the next one.
RateWith(reward) ==
  IF second >= periodFinish THEN reward \div duration
  ELSE (reward + (periodFinish - second) * rewardRate) \div duration

NotifyReward(reward) ==
  /\ notified < MaxNotified
  /\ rewardPerTokenStored' = RewardPerToken
  /\ rewardRate' = RateWith(reward)
  /\ lastUpdateTime' = second
  /\ periodFinish' = second + duration
  /\ rewardHoldings' = rewardHoldings + reward
  /\ notified' = notified + 1
  /\ UNCHANGED <<second, staked, duration, userPaid, rewards>>

SetRewardsDuration(d) ==
  /\ second > periodFinish
  /\ duration' = d
  /\ UNCHANGED <<second, staked, periodFinish, rewardRate, checkpoints, rewards,
                 rewardHoldings, notified>>

SecondPasses ==
  /\ second < LastSecond
  /\ second' = second + 1
  /\ UNCHANGED <<staked, rewardData, checkpoints, rewards, rewardHoldings, notified>>

StakingNext ==
  \/ \E u \in Stakers :
       \/ \E n \in Stakes : StakeTokens(u, n) \/ WithdrawStake(u, n)
       \/ GetReward(u) \/ Exit(u)
  \/ \E reward \in Rewards : NotifyReward(reward)
  \/ \E d \in Durations : SetRewardsDuration(d)
  \/ SecondPasses

StakingSpec == StakingInit /\ [][StakingNext]_stakingVars

-----------------------------------------------------------------------------
\* What the rest of the period will distribute.
ToCome == (periodFinish - LastTimeRewardApplicable) * rewardRate

\* The contract holds what all stakers have earned and what the running period
\* still distributes, whoever stakes, leaves or fetches when, and however often
\* a reward is added to a period that runs: nobody's reward depends on others
\* not having fetched theirs.
RewardsAreFunded ==
  rewardHoldings >= SumOver([u \in Stakers |-> EarnedBy(u)], Stakers) + ToCome
=============================================================================
