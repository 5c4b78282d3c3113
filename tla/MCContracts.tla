----------------------------- MODULE MCContracts -----------------------------
(* One of the platform's contracts that stand on their own, on a small      *)
(* instance: which one is chosen by the initial state.                      *)
EXTENDS LiquidityPool, OrbitalPool, RewardStaking, StakingProgram, LinearVesting, TLC

CONSTANTS Deployable, alice, bob, gold, wbtc, eth, amm, nobody,
          coinA, coinB, coinC, ada, eve, nowhere

VARIABLE deployed

\* alice provides most of the liquidity, bob trades.
FundsOf == [a \in Assets |-> [u \in Users |->
              IF a = wbtc THEN (IF u = alice THEN 2 ELSE 0) ELSE IF u = alice THEN 5 ELSE 3]]
GoldTaxed == [a \in Assets |-> IF a = gold THEN 1 ELSE 0]
TwoPools == {{gold, eth}, {gold, wbtc}}

\* A deposit in equal parts, and one short of a coin.
Offered(a, b, c) == (coinA :> a) @@ (coinB :> b) @@ (coinC :> c)
Offers == {Offered(1000, 1000, 1000), Offered(500, 400, 500)}

Alike == Permutations({ada, eve})

ContractsInit ==
  /\ deployed \in Deployable
  /\ Init /\ OrbitalInit /\ StakingInit /\ ProgramInit /\ VestingInit
  /\ deployed # "orbital" => \A p \in Concentrations : concentration <= p

ContractsNext ==
  /\ UNCHANGED deployed
  /\ \/ /\ deployed = "market" /\ Next
        /\ UNCHANGED <<orbitalVars, stakingVars, programVars, vestingVars>>
     \/ /\ deployed = "orbital" /\ OrbitalNext
        /\ UNCHANGED <<vars, stakingVars, programVars, vestingVars>>
     \/ /\ deployed = "staking" /\ StakingNext
        /\ UNCHANGED <<vars, orbitalVars, programVars, vestingVars>>
     \/ /\ deployed = "program" /\ ProgramNext
        /\ UNCHANGED <<vars, orbitalVars, stakingVars, vestingVars>>
     \/ /\ deployed = "vesting" /\ VestingNext
        /\ UNCHANGED <<vars, orbitalVars, stakingVars, programVars>>

ContractsSpec ==
  ContractsInit /\ [][ContractsNext]_<<deployed, vars, orbitalVars, stakingVars, programVars, vestingVars>>
=============================================================================
