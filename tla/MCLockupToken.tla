--------------------------- MODULE MCLockupToken ---------------------------
(* Small instances of the security token's base contract.                  *)
EXTENDS LockupToken

CONSTANTS issuer, investor, token, anyone, accredited

\* A cliff; a portion at once and the rest in two periods; the same in periods
\* whose end wraps to the start; three periods whose product with 4 wraps in
\* the second; a schedule the contract refuses.
AllSchedules ==
  {[releaseCount |-> 1, delay |-> 1, initialBips |-> 100, period |-> 0],
   [releaseCount |-> 3, delay |-> 0, initialBips |-> 50, period |-> 1],
   [releaseCount |-> 3, delay |-> 0, initialBips |-> 50, period |-> 4],
   [releaseCount |-> 4, delay |-> 0, initialBips |-> 0, period |-> 1],
   [releaseCount |-> 3, delay |-> 0, initialBips |-> 50, period |-> 0]}
SomeGrants == {{"wallets", "transfer"}}
SomeLanes == {<<anyone, anyone>>}

\* Timelocks are explored once the issuer may change the rules and while nothing
\* is allowed to spenders or recorded in snapshots; those two are explored apart.
\* So are stray tokens, timelocks of the contract's own and releases that do not
\* fit a word: with the rules as they were opened, and with two timelocks.
\* Beside timelocks, one token is burned at a time.
Allowed == \E u, v \in Users : allowance[u][v] > 0
Odd     == \/ stray # 0 \/ timelocks[token] # <<>>
           \/ \E x \in Accounts : \E i \in DOMAIN timelocks[x] : ~ Fits(timelocks[x][i])
Tamed   == isPaused \/ frozen # {} \/ maxBalances[investor] # 0

Count   == Len(timelocks[token]) + Len(timelocks[issuer]) + Len(timelocks[investor])

Apart ==
  /\ Odd => ~ Tamed /\ ~ Allowed /\ snapshotId = 0 /\ Count <= 2
  /\ releaseSchedules # <<>> => totalSupply >= InitialSupply - 1
  /\ releaseSchedules # <<>> => ~ Allowed /\ snapshotId = 0 /\ HasRole(issuer, "transfer")
  /\ ~ Allowed \/ snapshotId = 0
=============================================================================
