----------------------------- MODULE LockupToken -----------------------------
(***************************************************************************)
(* The security token's base contract, RestrictedLockupToken.sol, with the *)
(* rules it consults (TransferRules.sol), its roles                        *)
(* (EasyAccessControl.sol) and the snapshots it inherits (ERC20Snapshot,   *)
(* whose hook reads the overridden balanceOf).                             *)
(*                                                                         *)
(* An account's tokens are its ERC-20 balance and its timelocks, which the *)
(* contract itself holds: a transfer draws on what the timelocks have      *)
(* released first.  The contract also calls its own transfer, as a sender  *)
(* of its own, and may itself be the holder of timelocks.  One action is   *)
(* one transaction that does not revert.                                   *)
(***************************************************************************)
EXTENDS Sums, Sequences, FiniteSets

CONSTANTS
  Users,              \* accounts that call the contract
  Token,              \* address(this)
  Issuer,             \* the constructor's contract and reserve admin
  Grants,             \* the sets of roles that are granted and revoked together
  Grantees,           \* users whose roles change
  Managed,            \* accounts whose permissions the admins set
  Groups,             \* transfer groups; every account starts in Ungrouped
  Ungrouped,
  Lanes,              \* pairs of groups whose transfers the admins time
  LaneTimes,          \* the times they set, 0 for never
  Caps,               \* the maximum balances they set, 0 for no maximum
  Amounts,            \* the amounts callers pass
  Spenders,           \* users that others approve
  Cancelers,          \* the lists of cancelers that funders name
  Starts,             \* the times at which funders let a schedule commence
  InitialSupply,      \* totalSupply_
  MaxTotalSupply,     \* maxTotalSupply
  MinTimelock,        \* minTimelockAmount
  MaxReleaseDelay,    \* maxReleaseDelay
  Schedules,          \* the release schedules callers propose
  Bips,               \* BIPS_PRECISION
  Word,               \* 2^256, where unchecked arithmetic wraps around
  MaxSchedules,       \* bound: release schedules ever created
  MaxTimelocks,       \* bound: timelocks per account
  MaxSnapshots,       \* bound: snapshots ever taken
  MaxTime             \* bound: the last block timestamp

Accounts    == Users \cup {Token}
Roles       == {"contract", "reserve", "wallets", "transfer"}
SnapshotIds == 1 .. MaxSnapshots
Schedule    == [releaseCount : Nat, delay : Nat, initialBips : Nat, period : Nat]

ASSUME AddressAssumption ==
  /\ Token \notin Users /\ Issuer \in Users /\ IsFiniteSet(Users)
  /\ Spenders \subseteq Users /\ Cancelers \subseteq SUBSET Users
  /\ Grantees \subseteq Users /\ Managed \subseteq Accounts
  /\ Ungrouped \in Groups /\ Lanes \subseteq Groups \X Groups
  /\ Grants \subseteq (SUBSET Roles) \ {{}}

ASSUME NumberAssumption ==
  /\ LaneTimes \subseteq Nat /\ Starts \subseteq Nat /\ Caps \subseteq Nat /\ Amounts \subseteq Nat
  /\ InitialSupply \in Nat /\ MaxTotalSupply \in Nat /\ InitialSupply <= MaxTotalSupply
  /\ MaxTotalSupply < Word
  /\ MinTimelock \in Nat \ {0} /\ MaxReleaseDelay \in Nat
  /\ Schedules \subseteq Schedule /\ Bips \in Nat \ {0} /\ Word \in Nat \ {0}
  /\ MaxSchedules \in Nat /\ MaxTimelocks \in Nat /\ MaxSnapshots \in Nat /\ MaxTime \in Nat

VARIABLES
  now,                       \* block.timestamp
  admins,                    \* the roles of each user
  contractAdminCount,
  isPaused, frozen,
  maxBalances, transferGroups, allowGroupTransfers,
  tokens,                    \* ERC-20 balances, the contract's own included
  totalSupply, allowance,
  releaseSchedules, timelocks,
  snapshotId,                \* the current one, 0 before the first
  snapshots,                 \* what each account held, by snapshot, where recorded
  supplySnapshots,
  stray                      \* history: tokens that came to the contract for no timelock,
                             \* less what was burned there

roleVars     == <<admins, contractAdminCount>>
ruleVars     == <<isPaused, frozen, maxBalances, transferGroups, allowGroupTransfers>>
tokenVars    == <<tokens, totalSupply, allowance>>
lockVars     == <<releaseSchedules, timelocks, stray>>
snapshotVars == <<snapshotId, snapshots, supplySnapshots>>
lockupVars   == <<now, roleVars, ruleVars, tokenVars, lockVars, snapshotVars>>

\* The last field is history: what was paid out of it, a cancellation's
\* reclaimed part left out.
Timelock == [scheduleId : Nat, commencement : Nat, transferred : Nat, total : Nat,
             cancelableBy : SUBSET Users, paid : Nat]

Unset == -1

Init ==
  /\ now = 1
  /\ admins = [u \in Users |-> IF u = Issuer THEN {"contract", "reserve"} ELSE {}]
  /\ contractAdminCount = 1
  /\ isPaused = FALSE /\ frozen = {}
  /\ maxBalances = [x \in Accounts |-> 0]
  /\ transferGroups = [x \in Accounts |-> Ungrouped]
  /\ allowGroupTransfers = [l \in Groups \X Groups |-> 0]
  /\ tokens = [x \in Accounts |-> IF x = Issuer THEN InitialSupply ELSE 0]
  /\ totalSupply = InitialSupply
  /\ allowance = [u \in Users |-> [v \in Users |-> 0]]
  /\ releaseSchedules = <<>>
  /\ timelocks = [x \in Accounts |-> <<>>]
  /\ snapshotId = 0
  /\ snapshots = [x \in Accounts |-> [s \in SnapshotIds |-> Unset]]
  /\ supplySnapshots = [s \in SnapshotIds |-> Unset]
  /\ stray = 0

-----------------------------------------------------------------------------
(* Roles *)

HasRole(u, r) == r \in admins[u]

GrantRole(by, u, roles) ==
  /\ HasRole(by, "contract")
  /\ contractAdminCount' = contractAdminCount
       + (IF "contract" \in roles \ admins[u] THEN 1 ELSE 0)
  /\ admins' = [admins EXCEPT ![u] = @ \cup roles]
  /\ UNCHANGED <<now, ruleVars, tokenVars, lockVars, snapshotVars>>

RevokeRole(by, u, roles) ==
  /\ HasRole(by, "contract")
  /\ roles \subseteq admins[u]
  /\ "contract" \in roles => contractAdminCount > 1
  /\ contractAdminCount' = contractAdminCount - (IF "contract" \in roles THEN 1 ELSE 0)
  /\ admins' = [admins EXCEPT ![u] = @ \ roles]
  /\ UNCHANGED <<now, ruleVars, tokenVars, lockVars, snapshotVars>>

-----------------------------------------------------------------------------
(* Timelocks *)

\* The part released with the first release.
Initial(s, amount) == (amount * s.initialBips) \div Bips

\* calculateUnlocked: what of `amount` a schedule has released.  The end of
\* the schedule and the product of the periods are computed unchecked, and
\* periods of no length end it at once.  The first product is checked: where
\* it does not fit a word the code reverts for good, and the model goes on.
CalculateUnlocked(s, elapsed, amount) ==
  LET initial == Initial(s, amount)
      periods == (elapsed - s.delay) \div s.period
  IN IF elapsed < 0 THEN 0
     ELSE IF elapsed >= (s.delay + s.period * (s.releaseCount - 1)) % Word THEN amount
     ELSE IF elapsed < s.delay THEN 0
     ELSE initial + (((amount - initial) * periods) % Word) \div (s.releaseCount - 1)

TotalUnlocked(t) ==
  CalculateUnlocked(releaseSchedules[t.scheduleId], now - t.commencement, t.total)

\* lockedAmountOfTimelock is the part of a timelock not released,
\* unlockedAmountOfTimelock what is left of the rest, subtracted unchecked.
LockedAmount(t)   == IF t.total <= t.transferred THEN 0 ELSE t.total - TotalUnlocked(t)
UnlockedAmount(t) ==
  IF t.total <= t.transferred THEN 0 ELSE (TotalUnlocked(t) - t.transferred) % Word

\* What validateTransfer takes for it.
Drawable(t) ==
  IF t.transferred = t.total THEN 0 ELSE (TotalUnlocked(t) - t.transferred) % Word

UnlockedOf(x) ==
  SumOver([i \in DOMAIN timelocks[x] |-> UnlockedAmount(timelocks[x][i])], DOMAIN timelocks[x])
DrawableOf(locks, x) ==
  SumOver([i \in DOMAIN locks[x] |-> Drawable(locks[x][i])], DOMAIN locks[x])

\* balanceOf, with timelocks as in `locks`: tokens, locked and unlocked.
Held(locks, x) ==
  tokens[x] + SumOver([i \in DOMAIN locks[x] |-> LockedAmount(locks[x][i]) + UnlockedAmount(locks[x][i])],
                      DOMAIN locks[x])
BalanceOf(x) == Held(timelocks, x)

Lesser(m, n)  == IF m < n THEN m ELSE n
Greater(m, n) == IF m > n THEN m ELSE n

\* n is paid out of a timelock.
Paying(t, n) == [t EXCEPT !.transferred = @ + n, !.paid = @ + n]

\* n is paid out of a timelock, which is closed.
Closing(t, n) == [t EXCEPT !.transferred = t.total, !.paid = @ + n]

\* validateTransfer: `locks` after x's were drawn on for `value`, each for what
\* it has released until there is enough.
Drawn(locks, x, value) ==
  LET row       == locks[x]
      before(i) == SumOver([j \in 1 .. i - 1 |-> Drawable(row[j])], 1 .. i - 1)
      given(i)  == Lesser(Drawable(row[i]), Greater(0, value - before(i)))
  IN [locks EXCEPT ![x] = [i \in DOMAIN row |-> Paying(row[i], given(i))]]

\* What it took of them.
Taken(locks, x, value) == Lesser(value, DrawableOf(locks, x))

-----------------------------------------------------------------------------
(* Snapshots *)

\* The hook _beforeTokenTransfer: the first time that an account's tokens move
\* after a snapshot, what balanceOf answers is recorded for it.  The timelocks
\* are as the transfer has already changed them.  The balance is added up,
\* checked, whether it is recorded or not, as is what a timelock transferred.
Recorded(locks, xs) ==
  /\ \A x \in xs : Held(locks, x) < Word
  /\ \A x \in Accounts : \A i \in DOMAIN locks[x] : locks[x][i].transferred < Word
  /\ snapshots' = [x \in Accounts |->
       IF x \in xs /\ snapshotId > 0 /\ snapshots[x][snapshotId] = Unset
       THEN [snapshots[x] EXCEPT ![snapshotId] = Held(locks, x)]
       ELSE snapshots[x]]

SupplyRecorded ==
  supplySnapshots' =
    IF snapshotId > 0 /\ supplySnapshots[snapshotId] = Unset
    THEN [supplySnapshots EXCEPT ![snapshotId] = totalSupply]
    ELSE supplySnapshots

Snapshot(u) ==
  /\ HasRole(u, "contract") /\ snapshotId < MaxSnapshots
  /\ snapshotId' = snapshotId + 1
  /\ UNCHANGED <<now, roleVars, ruleVars, tokenVars, lockVars, snapshots, supplySnapshots>>

-----------------------------------------------------------------------------
(* Transfers *)

\* Variant: the maximum is compared with what is held, not with what will be.
PermittedOnce(from, to, value, held) ==
  /\ ~ isPaused
  /\ to # Token
  /\ from \notin frozen /\ to \notin frozen
  /\ maxBalances[to] > 0 => held <= maxBalances[to]
  /\ LET time == allowGroupTransfers[<<transferGroups[from], transferGroups[to]>>]
     IN time # 0 /\ now >= time

\* detectTransferRestriction answers SUCCESS; `held` is what the recipient has
\* when it is asked.
Permitted(from, to, value, held) ==
  /\ ~ isPaused
  /\ to # Token
  /\ from \notin frozen /\ to \notin frozen
  /\ maxBalances[to] > 0 => held + value <= maxBalances[to]
  /\ LET time == allowGroupTransfers[<<transferGroups[from], transferGroups[to]>>]
     IN time # 0 /\ now >= time
  /\ tokens[from] + UnlockedOf(from) < Word
  /\ ~ (tokens[from] + UnlockedOf(from) < value /\ BalanceOf(from) > value)

Moved(b, from, to, n) == LET taken == [b EXCEPT ![from] = @ - n] IN [taken EXCEPT ![to] = @ + n]

\* validateTransfer and the moves after it: released tokens go from the
\* contract's balance, the rest from the sender's.
Sent(from, to, value) ==
  LET released == Taken(timelocks, from, value)
      simple   == value - released
  IN
  /\ tokens[from] + UnlockedOf(from) \in value .. Word - 1
  /\ tokens[Token] >= released /\ tokens[from] >= simple
  /\ tokens' = Moved(Moved(tokens, Token, to, released), from, to, simple)
  /\ Recorded(Drawn(timelocks, from, value),
              (IF released > 0 THEN {Token, to} ELSE {})
                \cup (IF simple > 0 THEN {from, to} ELSE {}))

Transfer(u, to, value) ==
  /\ Permitted(u, to, value, BalanceOf(to))
  /\ Sent(u, to, value)
  /\ timelocks' = Drawn(timelocks, u, value)
  /\ UNCHANGED <<now, roleVars, ruleVars, totalSupply, allowance, releaseSchedules,
                 snapshotId, supplySnapshots, stray>>

Approve(u, spender, value) ==
  /\ allowance' = [allowance EXCEPT ![u][spender] = value]
  /\ UNCHANGED <<now, roleVars, ruleVars, tokens, totalSupply, lockVars, snapshotVars>>

TransferFrom(spender, from, to, value) ==
  /\ value <= allowance[from][spender]
  /\ Permitted(from, to, value, BalanceOf(to))
  /\ Sent(from, to, value)
  /\ timelocks' = Drawn(timelocks, from, value)
  /\ allowance' = [allowance EXCEPT ![from][spender] = @ - value]
  /\ UNCHANGED <<now, roleVars, ruleVars, totalSupply, releaseSchedules,
                 snapshotId, supplySnapshots, stray>>

\* What a timelock has left; less than nothing if more was drawn than it had.
Left(t) == t.total - t.transferred

\* Variant: what is left may be sent, released or not.
TransferTimelockLeft(u, to, value, i) ==
  LET locks == [timelocks EXCEPT ![u][i] = Paying(@, value)] IN
  /\ i \in DOMAIN timelocks[u]
  /\ Left(timelocks[u][i]) >= value
  /\ Permitted(Token, to, value, Held(locks, to))
  /\ tokens[Token] >= value
  /\ timelocks' = locks
  /\ tokens' = Moved(tokens, Token, to, value)
  /\ Recorded(locks, {Token, to})
  /\ UNCHANGED <<now, roleVars, ruleVars, totalSupply, allowance, releaseSchedules,
                 snapshotId, supplySnapshots, stray>>

\* Released tokens of one timelock, sent by the contract as msg.sender of its
\* own transfer: the rules see the contract, not the holder, and what the
\* contract's own timelocks have released is drawn on as well.
TransferTimelock(u, to, value, i) ==
  LET locks == [timelocks EXCEPT ![u][i] = Paying(@, value)] IN
  /\ i \in DOMAIN timelocks[u]
  /\ UnlockedAmount(timelocks[u][i]) >= value
  /\ Permitted(Token, to, value, Held(locks, to))
  /\ tokens[Token] >= value
  /\ timelocks' = Drawn(locks, Token, value)
  /\ stray' = stray + Taken(locks, Token, value)
  /\ tokens' = Moved(tokens, Token, to, value)
  /\ Recorded(Drawn(locks, Token, value), IF value > 0 THEN {Token, to} ELSE {})
  /\ UNCHANGED <<now, roleVars, ruleVars, totalSupply, allowance, releaseSchedules,
                 snapshotId, supplySnapshots>>

-----------------------------------------------------------------------------
(* Schedules and their timelocks *)

CreateReleaseSchedule(s) ==
  /\ Len(releaseSchedules) < MaxSchedules
  /\ s.delay <= MaxReleaseDelay /\ s.releaseCount >= 1 /\ s.initialBips <= Bips
  /\ s.releaseCount > 1 => s.period > 0
  /\ s.releaseCount = 1 => s.initialBips = Bips
  /\ releaseSchedules' = Append(releaseSchedules, s)
  /\ UNCHANGED <<now, roleVars, ruleVars, tokenVars, timelocks, stray, snapshotVars>>

\* The funder's tokens move to the contract by the private _transfer, which
\* asks no rules, and the recipient gets a timelock on them.
FundReleaseSchedule(u, to, amount, start, i, cancelers) ==
  LET locks == Drawn(timelocks, u, amount) IN
  /\ i \in DOMAIN releaseSchedules /\ Len(timelocks[to]) < MaxTimelocks
  /\ amount >= MinTimelock /\ amount >= releaseSchedules[i].releaseCount
  /\ start + releaseSchedules[i].delay <= now + MaxReleaseDelay
  /\ Sent(u, Token, amount)
  /\ timelocks' = [locks EXCEPT ![to] = Append(@,
       [scheduleId |-> i, commencement |-> start, transferred |-> 0, total |-> amount,
        cancelableBy |-> cancelers, paid |-> 0])]
  /\ UNCHANGED <<now, roleVars, ruleVars, totalSupply, allowance, releaseSchedules,
                 snapshotId, supplySnapshots, stray>>

\* Variant: what was released and not yet drawn stays in the contract.
CancelUnpaid(u, target, i, reclaimTo) ==
  LET t        == timelocks[target][i]
      canceled == LockedAmount(t)
  IN
  /\ i \in DOMAIN timelocks[target] /\ u \in t.cancelableBy /\ canceled > 0
  /\ Permitted(Token, reclaimTo, canceled, BalanceOf(reclaimTo))
  /\ tokens[Token] >= canceled
  /\ tokens' = Moved(tokens, Token, reclaimTo, canceled)
  /\ Recorded(timelocks, {Token, reclaimTo})
  /\ timelocks' = [timelocks EXCEPT ![target][i].transferred = t.total]
  /\ UNCHANGED <<now, roleVars, ruleVars, totalSupply, allowance, releaseSchedules,
                 snapshotId, supplySnapshots, stray>>

\* Two transfers by the contract, while the timelock still counts as full: of
\* what is locked to whoever the canceler names, of what is released to the
\* holder.  The second one's rules see the first one's effect, and each draws
\* on the contract's own timelocks as well.
CancelTimelock(u, target, i, reclaimTo) ==
  LET t        == timelocks[target][i]
      canceled == LockedAmount(t)
      paid     == UnlockedAmount(t)
      first    == Drawn(timelocks, Token, canceled)
      second   == Drawn(first, Token, paid)
  IN
  /\ i \in DOMAIN timelocks[target] /\ u \in t.cancelableBy /\ canceled > 0
  /\ Permitted(Token, reclaimTo, canceled, BalanceOf(reclaimTo))
  /\ Permitted(Token, target, paid,
               BalanceOf(target) + (IF reclaimTo = target THEN canceled ELSE 0))
  /\ tokens[Token] >= canceled + paid
  /\ tokens' = Moved(Moved(tokens, Token, reclaimTo, canceled), Token, target, paid)
  /\ Recorded(first, {Token, reclaimTo} \cup (IF paid > 0 THEN {target} ELSE {}))
  /\ timelocks' = [second EXCEPT ![target][i] = Closing(@, paid)]
  /\ stray' = stray + Taken(timelocks, Token, canceled) + Taken(first, Token, paid)
  /\ UNCHANGED <<now, roleVars, ruleVars, totalSupply, allowance, releaseSchedules,
                 snapshotId, supplySnapshots>>

-----------------------------------------------------------------------------
(* Administration *)

SetMaxBalance(u, x, n) ==
  /\ HasRole(u, "wallets")
  /\ maxBalances' = [maxBalances EXCEPT ![x] = n]
  /\ UNCHANGED <<now, roleVars, isPaused, frozen, transferGroups, allowGroupTransfers,
                 tokenVars, lockVars, snapshotVars>>

SetTransferGroup(u, x, g) ==
  /\ HasRole(u, "wallets")
  /\ transferGroups' = [transferGroups EXCEPT ![x] = g]
  /\ UNCHANGED <<now, roleVars, isPaused, frozen, maxBalances, allowGroupTransfers,
                 tokenVars, lockVars, snapshotVars>>

Frozen(x, status) == IF status THEN frozen \cup {x} ELSE frozen \ {x}

Freeze(u, x, status) ==
  /\ HasRole(u, "wallets") \/ HasRole(u, "reserve")
  /\ frozen' = Frozen(x, status)
  /\ UNCHANGED <<now, roleVars, isPaused, maxBalances, transferGroups, allowGroupTransfers,
                 tokenVars, lockVars, snapshotVars>>

SetAddressPermissions(u, x, g, n, status) ==
  /\ HasRole(u, "wallets")
  /\ transferGroups' = [transferGroups EXCEPT ![x] = g]
  /\ maxBalances' = [maxBalances EXCEPT ![x] = n]
  /\ frozen' = Frozen(x, status)
  /\ UNCHANGED <<now, roleVars, isPaused, allowGroupTransfers, tokenVars, lockVars, snapshotVars>>

SetAllowGroupTransfer(u, lane, time) ==
  /\ HasRole(u, "transfer")
  /\ allowGroupTransfers' = [allowGroupTransfers EXCEPT ![lane] = time]
  /\ UNCHANGED <<now, roleVars, isPaused, frozen, maxBalances, transferGroups,
                 tokenVars, lockVars, snapshotVars>>

SetPaused(u, status) ==
  /\ HasRole(u, "contract")
  /\ isPaused' = status
  /\ UNCHANGED <<now, roleVars, frozen, maxBalances, transferGroups, allowGroupTransfers,
                 tokenVars, lockVars, snapshotVars>>

\* The check is on balanceOf, timelocks included; _burn's own is on the tokens.
Burn(u, from, value) ==
  /\ HasRole(u, "reserve")
  /\ value <= BalanceOf(from) /\ value <= tokens[from]
  /\ tokens' = [tokens EXCEPT ![from] = @ - value]
  /\ totalSupply' = totalSupply - value
  /\ Recorded(timelocks, {from}) /\ SupplyRecorded
  /\ stray' = IF from = Token THEN stray - value ELSE stray
  /\ UNCHANGED <<now, roleVars, ruleVars, allowance, releaseSchedules, timelocks, snapshotId>>

Mint(u, to, value) ==
  /\ HasRole(u, "reserve")
  /\ totalSupply + value <= MaxTotalSupply
  /\ tokens' = [tokens EXCEPT ![to] = @ + value]
  /\ totalSupply' = totalSupply + value
  /\ Recorded(timelocks, {to}) /\ SupplyRecorded
  /\ stray' = IF to = Token THEN stray + value ELSE stray
  /\ UNCHANGED <<now, roleVars, ruleVars, allowance, releaseSchedules, timelocks, snapshotId>>

Tick ==
  /\ now < MaxTime
  /\ now' = now + 1
  /\ UNCHANGED <<roleVars, ruleVars, tokenVars, lockVars, snapshotVars>>

-----------------------------------------------------------------------------
AdminStep(u) ==
  \/ \E v \in Grantees, roles \in Grants : GrantRole(u, v, roles) \/ RevokeRole(u, v, roles)
  \/ \E x \in Managed, n \in Caps : SetMaxBalance(u, x, n)
  \/ \E x \in Managed, g \in Groups : SetTransferGroup(u, x, g)
  \/ \E x \in Managed, status \in BOOLEAN : Freeze(u, x, status)
  \/ \E x \in Managed, g \in Groups, n \in Caps, status \in BOOLEAN :
       SetAddressPermissions(u, x, g, n, status)
  \/ \E lane \in Lanes, time \in LaneTimes : SetAllowGroupTransfer(u, lane, time)
  \/ \E status \in BOOLEAN : SetPaused(u, status)
  \/ \E x \in Accounts, n \in Amounts : Burn(u, x, n) \/ Mint(u, x, n)
  \/ Snapshot(u)

HolderStep(u) ==
  \/ \E to \in Accounts, n \in Amounts : Transfer(u, to, n)
  \/ \E v \in Spenders \ {u}, n \in Amounts : Approve(u, v, n)
  \/ \E from \in Users, to \in Accounts, n \in Amounts : TransferFrom(u, from, to, n)
  \/ \E to \in Accounts, n \in Amounts : \E i \in DOMAIN timelocks[u] : TransferTimelock(u, to, n, i)
  \/ \E s \in Schedules : CreateReleaseSchedule(s)
  \/ \E to \in Accounts, n \in Amounts, start \in Starts, cancelers \in Cancelers :
       \E i \in DOMAIN releaseSchedules : FundReleaseSchedule(u, to, n, start, i, cancelers)
  \/ \E x, to \in Accounts :
       \E i \in DOMAIN timelocks[x] : CancelTimelock(u, x, i, to)

LockupNext == Tick \/ \E u \in Users : AdminStep(u) \/ HolderStep(u)

LockupSpec == Init /\ [][LockupNext]_lockupVars

-----------------------------------------------------------------------------
(* What holders and the issuer rely on *)

TypeOK ==
  /\ now \in Nat
  /\ admins \in [Users -> SUBSET Roles] /\ contractAdminCount \in Nat
  /\ isPaused \in BOOLEAN /\ frozen \subseteq Accounts
  /\ maxBalances \in [Accounts -> Nat] /\ transferGroups \in [Accounts -> Groups]
  /\ allowGroupTransfers \in [Groups \X Groups -> Nat]
  /\ tokens \in [Accounts -> Nat] /\ totalSupply \in Nat
  /\ allowance \in [Users -> [Users -> Nat]]
  /\ releaseSchedules \in Seq(Schedule) /\ timelocks \in [Accounts -> Seq(Timelock)]
  /\ snapshotId \in Nat
  /\ snapshots \in [Accounts -> [SnapshotIds -> Nat \cup {Unset}]]
  /\ supplySnapshots \in [SnapshotIds -> Nat \cup {Unset}]
  /\ stray \in Int

\* Tokens are neither made nor lost by a transfer, whichever of its two sources
\* it draws on, and never exceed the hard cap.
SupplyIsHeld ==
  /\ totalSupply = SumOver(tokens, Accounts)
  /\ totalSupply <= MaxTotalSupply

InTimelocks(x) == SumOver([i \in DOMAIN timelocks[x] |-> Left(timelocks[x][i])], DOMAIN timelocks[x])

\* What a timelock releases by its schedule, in numbers of any size.
Released(t) ==
  LET s       == releaseSchedules[t.scheduleId]
      later   == s.releaseCount - 1
      steps   == (now - t.commencement - s.delay) \div s.period
      initial == Initial(s, t.total)
  IN IF now < t.commencement + s.delay THEN 0
     ELSE IF later = 0 \/ steps >= later THEN t.total
     ELSE initial + ((t.total - initial) * steps) \div later

\* The two products of a release fit a word: of its periods, and of its end.
Fits(t) ==
  LET s == releaseSchedules[t.scheduleId]
  IN (t.total - Initial(s, t.total)) * (s.releaseCount - 1) < Word
EndFits(t) ==
  LET s == releaseSchedules[t.scheduleId] IN s.delay + s.period * (s.releaseCount - 1) < Word

\* The contract's own balance is exactly what is left in the timelocks of all
\* holders, and the stray tokens: those minted to its own address, and those of
\* its own timelocks that its payments to others drew on, less what was burned
\* there.  So no holder of a timelock that fits a word is paid from another one's
\* (by ReleasedInTime none of them has less than nothing left), and the backing
\* goes down only by a burn of the contract's balance and by what timelocks that
\* do not fit are overdrawn.
TimelocksBacked ==
  /\ SupplyIsHeld
  /\ tokens[Token] = SumOver([x \in Accounts |-> InTimelocks(x)], Accounts) + stray

\* No timelock whose release fits a word was drawn on beyond what the contract
\* takes for released (the unchecked subtractions "by invariant"), unless it is
\* closed; and if its end fits too, none has paid its holder more than its
\* schedule released, the closed and the canceled ones included.
ReleasedInTime ==
  \A x \in Accounts : \A i \in DOMAIN timelocks[x] :
    LET t == timelocks[x][i] IN
    Fits(t) =>
      /\ t.transferred = t.total \/ t.transferred <= TotalUnlocked(t)
      /\ EndFits(t) => t.paid <= Released(t)

\* Tokens arrive in a wallet only with a mint, or while transfers are not
\* paused, the wallet is not frozen and within its maximum: transfers,
\* withdrawals from timelocks and both payments of a cancellation alike.
ArrivalsAreAllowed ==
  [][\A u \in Users :
       tokens'[u] > tokens[u] =>
         \/ totalSupply' > totalSupply
         \/ /\ ~ isPaused /\ u \notin frozen
            /\ maxBalances[u] > 0 => BalanceOf(u)' <= maxBalances[u]]_lockupVars
=============================================================================
