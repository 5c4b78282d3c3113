-------------------------- MODULE MCRestrictedSwap --------------------------
(* Small instances of the deployed security token.                         *)
EXTENDS RestrictedSwap

CONSTANTS issuer, investor, token, anyone, accredited

ContractGrant == {{"contract"}, {"wallets", "transfer"}}
OpenLane == {<<anyone, anyone>>}
PayFunds == [u \in Users |-> 2]

\* Stray tokens are explored apart from what is allowed to spenders and what is
\* recorded in snapshots.
Apart == stray # 0 => snapshotId = 0 /\ \A u, v \in Users : allowance[u][v] = 0
=============================================================================
