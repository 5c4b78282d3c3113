---------------------------- MODULE LinearVesting ----------------------------
(***************************************************************************)
(* The template LinearVesting.sol: an owner escrows an amount for each     *)
(* beneficiary, who draws it down at an even rate between a start and an   *)
(* end, once a cliff has passed; after the end the owner may take tokens   *)
(* out.  The owner stays the same.  One action is one transaction.         *)
(***************************************************************************)
EXTENDS Sums, FiniteSets

CONSTANTS
  Beneficiaries,
  VestingAmounts,
  VestingStart, VestingEnd, CliffDuration,
  LastMoment           \* bound: the last block timestamp

ASSUME VestingAssumption ==
  /\ IsFiniteSet(Beneficiaries) /\ VestingAmounts \subseteq Nat \ {0}
  /\ VestingStart \in Nat \ {0} /\ VestingEnd \in Nat /\ VestingStart < VestingEnd
  /\ CliffDuration \in Nat /\ LastMoment \in Nat

VARIABLES
  moment,              \* block.timestamp
  vestedAmount, totalDrawn, lastDrawnAt,
  escrowed,            \* the tokens the contract holds
  takenByOwner         \* history: what the owner has taken out

vestingVars == <<moment, vestedAmount, totalDrawn, lastDrawnAt, escrowed, takenByOwner>>

VestingInit ==
  /\ moment = 1
  /\ vestedAmount = [b \in Beneficiaries |-> 0]
  /\ totalDrawn = [b \in Beneficiaries |-> 0]
  /\ lastDrawnAt = [b \in Beneficiaries |-> 0]
  /\ escrowed = 0 /\ takenByOwner = 0

CreateVestingSchedule(b, n) ==
  /\ vestedAmount[b] = 0
  /\ vestedAmount' = [vestedAmount EXCEPT ![b] = n]
  /\ escrowed' = escrowed + n
  /\ UNCHANGED <<moment, totalDrawn, lastDrawnAt, takenByOwner>>

\* Variant: every time is counted from the start.
SinceStart(b) == moment - VestingStart

SinceLastDrawn(b) ==
  moment - (IF lastDrawnAt[b] = 0 THEN VestingStart ELSE lastDrawnAt[b])

\* _availableDrawDownAmount.
Available(b) ==
  IF moment <= VestingStart + CliffDuration THEN 0
  ELSE IF moment > VestingEnd THEN vestedAmount[b] - totalDrawn[b]
  ELSE SinceLastDrawn(b) * (vestedAmount[b] \div (VestingEnd - VestingStart))

DrawDown(b) ==
  /\ vestedAmount[b] > 0 /\ Available(b) > 0
  /\ totalDrawn[b] + Available(b) <= vestedAmount[b]
  /\ escrowed >= Available(b)
  /\ lastDrawnAt' = [lastDrawnAt EXCEPT ![b] = moment]
  /\ totalDrawn' = [totalDrawn EXCEPT ![b] = @ + Available(b)]
  /\ escrowed' = escrowed - Available(b)
  /\ UNCHANGED <<moment, vestedAmount, takenByOwner>>

\* _transferBalanceToOwner, which is public.
TransferBalanceToOwner(n) ==
  /\ moment > VestingEnd /\ escrowed >= n
  /\ escrowed' = escrowed - n
  /\ takenByOwner' = takenByOwner + n
  /\ UNCHANGED <<moment, vestedAmount, totalDrawn, lastDrawnAt>>

MomentPasses ==
  /\ moment < LastMoment
  /\ moment' = moment + 1
  /\ UNCHANGED <<vestedAmount, totalDrawn, lastDrawnAt, escrowed, takenByOwner>>

VestingNext ==
  \/ \E b \in Beneficiaries :
       DrawDown(b) \/ \E n \in VestingAmounts : CreateVestingSchedule(b, n)
  \/ \E n \in VestingAmounts : TransferBalanceToOwner(n)
  \/ MomentPasses

VestingSpec == VestingInit /\ [][VestingNext]_vestingVars

-----------------------------------------------------------------------------
\* What a beneficiary has drawn, or could draw now, is never beyond the straight
\* line from the start to the end, however often and at whatever times it is
\* drawn; and until the owner takes something all that is not drawn is there.
DrawnOnSchedule ==
  /\ \A b \in Beneficiaries :
       /\ totalDrawn[b] + Available(b) <= vestedAmount[b]
       /\ moment <= VestingEnd =>
            (totalDrawn[b] + Available(b)) * (VestingEnd - VestingStart)
              <= vestedAmount[b] * (IF moment > VestingStart THEN moment - VestingStart ELSE 0)
  /\ escrowed + takenByOwner
       = SumOver([b \in Beneficiaries |-> vestedAmount[b] - totalDrawn[b]], Beneficiaries)
=============================================================================
