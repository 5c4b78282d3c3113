# Formal models of the Fueki tokenization platform

TLA+ models of the parts of this repository in which the order of events
matters: the on-chain markets, the security token with its timelocks, swaps and
dividends, the templates that distribute a fund over time, the desks that approve
requests, the copy of the chain's valuations in the database, the sessions of an
account on the server, and the authentication of a browser tab. TLC checks them on
small instances; TLAPS proves the safety properties those runs check, and that the
two approval desks implement their abstract specification, for every value of the
constants. One property that says a call is ENABLED, and the liveness properties,
are left to TLC.

`PROJECT.json` lists the components, the runs, the sensitivity variants, the
lines every definition stands for, the disagreements between code and
documentation, the hazards, and the theorems.

## 1. The system

The repository holds Solidity contracts (`contracts/`), a backend of Express and
Prisma over PostgreSQL (`backend/src/`), and a React frontend (`src/`).

| Part | State it keeps | Operations | What is hard |
| --- | --- | --- | --- |
| `AssetBackedExchange.sol` | orders with their fills, ETH credits, owner, pause, emergency requests | create, fill (two ways), cancel, withdraw ETH, list, owner and emergency functions | rounding, escrows of many orders in one balance, timelock, calls to foreign contracts |
| `LiquidityPoolAMM.sol` | pools, shares, ETH credits, price accumulator | create, add, remove, swap, withdraw | rounding, first deposit, wrap-around |
| `orbital/` | pools of n tokens, shares, fees, reserves summed over time; factory and router | swap, multi-hop, add, remove, collect, pause, recover dust | fixed-point roots and powers, rounding of shares |
| `security-token/` | balances with timelocks, transfer groups, roles, snapshots, swaps, dividends | transfer, mint, burn, lock, cancel, swap, fund, claim | many rules per transfer, two-sided swaps, one balance for all escrows |
| `NAVOracle.sol`, `services/nav.ts` | attestations on chain, drafts and records in the database | draft, publish, finalize, read, supersede | two stores that must agree, and every request that reads copies |
| `templates/` | contracts that users deploy | staking, vesting, auctions, escrow | rates and shares that change while users come and go |
| `routes/mintRequests.ts` | request, its two action links, notes with the transaction | submit, approve or reject by mail, mark minted | handlers interleave at every await, mail can fail, links expire |
| `routes/securityTokenRequests.ts` | the same pattern on its own tables | submit, approve or reject by mail | the same |
| `services/auth.ts`, `routes/auth.ts` | sessions, password, reset links, revocation | login, refresh, logout, reset, change, revoke | several statements per handler, many tabs |
| `services/kyc.ts`, `routes/admin.ts` | KYC record and status, links, roles, revocation | submit, decide in the panel or by link | two updates without a transaction |
| `services/userWallets.ts`, `deployments.ts` | wallet links, deployments | link, record | little |
| `lib/api/client.ts`, `authStore.ts` | access token in memory, marker in storage, queue of requests, session operation | interceptors, silent refresh, initialize, login, logout | answers in any order, timeouts, operations that supersede each other |
| wallet stores, `WalletConnectionController` | connection, chain, account | connect, switch | late answers |
| `lib/rpc/` | health of endpoints, caches | pick, strike, cool down, deduplicate | cached choices that are stale |
| parsers, charts, pages | views | | no concurrency of their own |

How they interact: pages call the API through `apiClient`, which adds the access
token and refreshes it silently with the refresh cookie; the backend reads and
writes PostgreSQL, one statement per `await`, and asks chain endpoints to verify
a mint; administrators act through links in mails; users send transactions to
the contracts from their wallets, and the backend learns of them by their hash.

What makes each part correct, as stated by the properties below:

- exchange: nobody is paid out of another one's escrow; makers get their price;
  exits stay open; an emergency withdrawal was announced; the pages list what can
  be filled, each order once;
- liquidity pool and Orbital pool: the books are backed by what is held, shares are
  worth what was put in and never lose by what others do, a round trip gains
  nothing, a pool that has liquidity keeps some of every coin, and the price
  accumulator is the integral of the price, until a scaled reserve overflows;
- templates: what is promised to all is there for all, whoever comes first;
- security token: what timelocks hold is there and is released on schedule where the
  numbers fit a word; by the token's own functions, tokens arrive only in wallets that
  pause, freeze and cap let them into (completions and cancellations of swaps deliver
  past these rules); a swap is settled once, and what escrows and dividends are owed
  is in the contract but for what is named: completions from the wrong side, and
  claims after the remains were withdrawn; claims on a dividend are funded;
- approval of mints and deployments: only a decision that was taken while the
  request was pending is written, and a pending one can be decided, unless its own
  submission broke off; a request is minted after an approval and by a mint of the
  token that was asked for, and at no time are two requests recorded with one
  transaction (over time they may be: a late click of an overlapping decision puts
  a minted request back to approved and forgets its transaction);
- identity checks: a link decides only what is still pending;
- valuations: a reader who is alone sees the newest one, and the database becomes
  the chain's again after overlaps and failures;
- sessions: a login keeps one session however many tabs refresh; a replaced
  password and a revocation end sessions, but for overlaps that are named;
- tab: a signed-out user stays out, and every request and operation ends.

## 2. Modules

```
Sums            finite sums of a function over a set, as a fold
SumsProofs        their algebra, and that of products and quotients, proved
Exchange        AssetBackedExchange.sol            (EXTENDS Sums)
ExchangeViews   getActiveOrders over its states     (EXTENDS Exchange)
ExchangeProofs    theorems                          (EXTENDS ExchangeViews, SumsProofs)
LiquidityPool   LiquidityPoolAMM.sol               (EXTENDS Sums)
OrbitalPool     orbital/*.sol                      (EXTENDS Sums)
RewardStaking   templates/staking/SingleStaking.sol (EXTENDS Sums)
StakingProgram  templates/staking/Staking.sol      (EXTENDS Sums)
LinearVesting   templates/staking/LinearVesting.sol (EXTENDS Sums)
ContractsProofs   theorems about those five         (EXTENDS them, SumsProofs)
LockupToken     RestrictedLockupToken.sol with its rules and roles
Dividends       Dividends.sol                      (EXTENDS LockupToken)
RestrictedSwap  RestrictedSwap.sol, the deployed token (EXTENDS Dividends)
SecurityTokenProofs  theorems about the three       (EXTENDS RestrictedSwap, SumsProofs)
Approval        what an approval promises: the abstract specification
MintApproval    routes/mintRequests.ts, implements Approval
MintApprovalProofs   theorems                       (EXTENDS MintApproval)
SecurityTokenRequests  routes/securityTokenRequests.ts, an INSTANCE of MintApproval's
                statements on other tables, implements Approval
KycReview       services/kyc.ts and the decisions of routes/admin.ts
ApprovalsProofs   theorems about the two; those about deployments are an INSTANCE of
                MintApprovalProofs
NavPublication  services/nav.ts over NAVOracle.sol
NavProofs         theorems                          (EXTENDS NavPublication)
AuthSessions    services/auth.ts, routes/auth.ts, updateUserAccess
AuthClient      lib/api/client.ts and store/authStore.ts
AuthProofs        theorems about both ends          (EXTENDS AuthSessions, AuthClient)
MC*             the instances TLC checks
```

`MCContracts` and `MCApprovals` put modules side by side that share no state: the
initial state chooses one contract, or one desk, and every step is a step of that
one. `RestrictedSwap` is a real composition: the Solidity contracts inherit from
each other, and a swap, a claim and a transfer change the same balances.

Operators marked "Variant" in a comment are sensitivity variants: what the code
would be with a plausible mistake. Each property of each passing run has one,
listed in `PROJECT.json` as a mutant, under which TLC finds the property violated.

### Exchange

One action is one transaction that does not revert. The state is the storage of
the contract (`orders`, `ethBalances`, `emergencyRequests`, owner, pause), what
every account holds of every asset, and the time. `swept` is a history variable:
what emergency withdrawals took. `CreateOrder` stands for both `createOrder` and
`createOrderSellETH`; `FillOrder` and `FillOrderWithETH` share `Priced`, `FillSell`
and `Filled`, as the functions share their arithmetic. Products above `MaxUint`
revert. Users in `RejectsEth` cannot receive ETH. `Donate` is somebody sending
tokens to the contract: the exchange must not take it for its own. `Heirs` are
the users an owner may transfer to.

Not in this module: a foreign contract that calls back in the middle of a
function (all functions that move assets carry one guard, so such a call can
only reach functions that write other variables), and tokens that take a fee.

`ExchangeViews` evaluates the loop of `getActiveOrders` as a function over the
number of orders it has looked at, for every pair and page. What a page should be is
said without a loop: the listed orders that have as many listed ones before them as
the offset and the page's size allow, in ascending order.

### LiquidityPool

One action is one transaction that does not revert: `CreatePool`, `AddLiquidity`,
`RemoveLiquidity` and `Swap` with their ETH forms, which differ only in how the
asset moves, `WithdrawEth`, and the owner's functions. A token may tax a transfer
(`Tax`), so what is received is less than what is sent, as `_safeTransferIn`
measures it; a receiver of ETH may refuse, and is credited. `Sqrt` is
Newton's iteration of `_sqrt`, as a recursive function of its variable. The
accumulator wraps at `Word`, and so does the product of a reserve with the precision
(`Product`) before `Price` divides it, for both are unchecked. The history `integral`
is the price in numbers of any size; it becomes `Lost` in the step that adds a price
whose product did not fit, and `TwapIsIntegral` speaks of the others. `Donate` is a
transfer outside the functions.

### OrbitalPool

One pool of `Coins`. `WadPow` and
`WadRoot` repeat the code's fixed-point multiplications and Babylonian roots,
rounding for rounding, with `Wad` for 1e18, for each of the powers of 2 that the
code allows; `Root` is the iteration. `Hop` is `swap` on a record of reserves, and
`Route` a recursive function along the path, so a revert in the middle undoes all
of it. Minimums and deadlines a caller passes only make a call revert. `SendCoins` is
a transfer outside the functions, so the pool may hold more than its books say. The
router has no state in the model: it passes on what a trade yields; what it keeps
of an uneven deposit is left out (see the remarks in section 3).

### Templates

`RewardStaking` derives what a staker has earned from `RewardPerToken`, as the code
does, with the two divisions where the code has them. `StakingProgram` keeps the
points that are granted in advance, and the fund that is divided by them after the
end. `LinearVesting` keeps the draws of each beneficiary; `TransferBalanceToOwner`
is a public function the owner may call after the end.

### LockupToken, Dividends, RestrictedSwap

`LockupToken` is the restricted token: roles, the rules of `TransferRules` (`Permitted`)
with groups, lanes that open at a time, caps, freezing and pause; schedules and
timelocks; transfers that draw on unlocked parts of timelocks first (`Drawn`);
cancellation by those a timelock names; snapshots of balances. Any account may have
timelocks, the contract itself too, for the code refuses only the zero address;
whenever the contract transfers (`TransferTimelock`, `CancelTimelock`), what its own
timelocks have released is drawn on as well. Mint and burn take any address, the
contract's included. The history `stray` counts the tokens that are in the contract
for no timelock: those minted there and those its own timelocks released to it, less
those burned there, so it may be negative. `paid` of a timelock is history too: what
was paid out of it to its holder.

`CalculateUnlocked` repeats the code's arithmetic: the end of a schedule and the
product of its periods are unchecked and wrap at `Word`, so that a release may come
too early or fall again, and more may be drawn than there is (`Drawable`, whose
subtraction wraps as well). `Released` is the schedule in numbers of any size, `Fits`
and `EndFits` say that the two products fit. The product of the initial portion is
checked in the code: where it overflows every call on that timelock reverts, and the
model, which goes on, has more behaviours than the code. Sums of balances are checked,
and are guards here.

`Dividends` funds a snapshot, pays claims and returns what remains; a claim after that
is still served, from whatever the contract holds, and `unused` wraps. `RestrictedSwap`
configures a swap of either kind, completes it by either side and cancels it. A
completion from the side that had funded the swap pays out what others put there and
leaves what this one did; the histories `crossedTokens` and `crossedPayments` count
both, and `Overdrawn` what a snapshot paid beyond its fund. The three are one deployed
contract.

### Approval, MintApproval, SecurityTokenRequests

`Approval` says what the desks promise whatever handlers do: a decision is *taken*
while the request is pending, *settled* later, in between another one may be taken
and settled too; only an approved request is executed, and nothing reopens one.
Handlers that hold a decision are the abstract `taken`, a deleted row is
"withdrawn", a minted one is "executed" (`Asked`, `Reviewed`). That overlapping clicks
both take effect is allowed by it, because the code does it; that a link of a decided
request has an effect is not.

An action is what a handler does between two awaits. `/submit` is `SubmitLookup`,
`SubmitCreate`, `SubmitLink`, `SubmitMail`, `SubmitUndo`; `/action/:token` is
`ClickCheck`, `ClickApply`; `/mark-minted` is `MarkRead`, `MarkVerify`, `MarkLock`,
`MarkUpdate`. The transaction of `/mark-minted` is two actions, for the database
runs it at read committed: its second statement sees what others committed after
its first. The advisory lock is held by the handlers in phase "update". Notes are
reduced to the transaction they record: a decision writes new notes and so
forgets it. The form posted to `/action/:token` changes nothing for a mint
request, and a `findFirst` that finds something leaves no trace: neither is an
action. A statement that fails ends its handler with what it has committed:
`SubmitFail` at every statement of a submission; a failing click or report leaves no
trace, as if it had not been made; `Crash` ends all handlers. The history `broken`
names the requests whose submission broke off. Such a request stays pending for good:
nobody was asked to decide it, or its links are gone, and `SubmitLookup` answers every new
submission of it with the old row.

`SecurityTokenRequests` is an instance of the same statements: the two files were
compared statement by statement, and differ in tables and texts only. There is no
report of a deployment, so it has no third handler.

### KycReview

Each of the handlers' statements is an action; nothing is a transaction. `raced`
says of a handler that read the status that another one has written it since.
Links reach an administrator when the mail does, with the number of the submission
they were sent for, and are not bound to it.

### NavPublication

There is no indexer: every request that reads valuations first runs
`syncNavOracleHistory`, and one action is what it does between two awaits. A block
is a unit of time, an attestation is the block it was mined in, and a row is its
status. `raced` marks a read that another request overlapped. `Fail` is any error or
restart: what was committed stays. The chain asks for no draft: `PublishNAV` needs the
interval alone. The transaction that stores a breakdown deletes the row its `draftId`
names, and does not ask whether that is a draft: `StoreDraft` deletes a draft,
`StoreOver` an indexed row of the same token, `StoreElsewhere` is such a report of another
token, and `StoreNothing` a transaction that fails. A row so deleted
comes back with the next read that finds no new event, for it then asks for all of them;
`drafts` only counts drafts. Figures and their validation are left out, but
for the interval, which is a question of time and of other requests.

### AuthSessions

One account; accounts share nothing. A handler is a request the server works on:
its operation, place, and what it read. A refresh token is modelled by the second
it was signed in, because the JWT holds the user and the second and nothing else;
two tokens of one second are equal, and `Session.refreshToken` is unique. `fam` of
a session is the login it descends from, `pw` the password of that login, and
`raced` that its creation overlapped a deletion that should have hit it; these are
history. `Purge` is `invalidateAllSessions` of every route that calls it;
`RevokeAccess` is the transaction of the administrator. Answers are delivered in
any order, or lost (`Deliver`), and set or clear the cookie of their browser.

Left out because they only make a request have no effect: the expiry of reset
links and of access tokens in `authenticate`, rate limits, validation. The demo
flags, registration and preferences do not touch sessions, apart from the first
session of a registration, which is a login here.

### AuthClient

One tab, one task at a time; `jar` is the refresh cookie of its browser. A request is in `req` under who makes it: a page, a
store operation that awaits it, the logout that nobody awaits, or the silent
refresh. `Receive` is the response interceptor, `ReceiveHeld` its 401 branch,
`SilentSucceeds` and `SilentFails` the two ends of the refresh, with `processQueue`
and the listener of `fueki:session-expired`. Store operations are numbered in the
code and compared with the latest number; `current` holds the latest one, and
"none" or "out" after `clearAuth`. A store operation goes on in the same turn of
the event loop as its answer, before any other task (`Turn`, `Continue*`).

The server is an environment that rotates atomically; its own interleavings are
in `AuthSessions`. The page that waits for approval is not behind
`ProtectedRoute`: it polls and offers a logout at any time, so `Call` and `Logout`
ask for neither `isAuthenticated` nor `isInitialized`; the login form is behind
`AuthRedirect` and asks for both. Left out: registration (the shape of `login`),
the demo and profile operations, a reload (a new initial state), other tabs
(`EndElsewhere` stands for what they do to the session).

## 3. What the runs check

| Run | Instance | Properties |
| --- | --- | --- |
| exchange_trading | 2 users, 1 token, ETH, 2 orders, amounts 2 and 3, one deadline, one user who cannot receive ETH, change of owner, all pages | TypeOK, MakerPrice, Solvent, ExitAlwaysOpen, PagesAreFaithful, FairExchange |
| exchange_emergency | 2 tokens traded for each other, 1 order, 2 emergency requests, donations | SweptWasAnnounced |
| approvals | mint: 2 tokens, 2 submissions, 2 clicks and 2 reports of 1 transaction at once, failing statements, 1 restart; deployment: 2 submissions, 2 clicks, failing statements, 1 restart; identity: 2 submissions, 2 reviewers | TypeOK, TxFinalizesOne, PendingIsDecidable, MintIsVerified, OnlyApprovedIsMinted, ImplementsApproval, DeployImplementsApproval, LinksDecidePending |
| contracts | liquidity pool: 2 pools sharing a taxed token, 3 blocks; Orbital: 3 coins, also sent to it, p of 2 and 4, 4 transactions; staking, program, vesting: 2 accounts each | Backed, SharesAreBacked, ShareNeverLoses, TwapIsIntegral, OrbitalIsBacked, ReservesStayPositive, RoundTripPaysNoMore, RewardsAreFunded, GrantsFitTheFund, DrawnOnSchedule |
| security_token | 2 accounts and the contract, 5 kinds of schedule, 2 timelocks, 4 blocks, all changes of rules and roles | TimelocksBacked, ReleasedInTime, ArrivalsAreAllowed |
| security_swap | 1 swap of either kind, completed from either side, 1 snapshot with its dividend, roles that change | ClaimsAreFunded, EscrowIsAccounted, SwapsSettle |
| nav | 2 requests at once, 2 attestations, 3 blocks, 1 report or status by hand | LoneReadIsFresh, ReadsEndInTheChain |
| auth_sessions | 2 requests at once from the tabs of a browser, a reset link, revocation, 1 restart, 2 seconds | TypeOK, RotationIsLinear, OldPasswordOnlyByOverlap, RevokedOnlyByOverlap |
| auth_client | 1 page request, initialize, login, logout, 1 token issued after the first, fairness | SignedOutStays, CallsSettle, OperationsSettle |

The bounds, and why they are enough to show the interesting cases:

- Exchange: amounts 2 and 3 do not divide each other, so fills round and leave
  remainders; two orders over one token share a balance; time passes deadlines
  and the timelock; `MaxUint` is small enough that a product overflows.
- Liquidity pool: a price accumulator of 7 values wraps, and so do some of the
  products of a reserve; two pools share a
  token, so that one could be paid from the other; a minimum of 1 locked share and
  deposits of 2 and 5 make the roots and the shares round.
- Orbital: `Wad` of 1000 against reserves of 1000 rounds in every power and root;
  an uneven deposit, one of half a pool and swaps of a tenth; four transactions are
  a deposit, two others' moves and an exit. The fee of 1 % is the highest allowed.
- Templates: the reward of 7 over periods of 2 and 3 and stakes of 1 and 2 divides
  nowhere; two notifications are a running period that is extended; amounts 5 and 9
  over 3 units of vesting round each draw.
- Security token: with a `Word` of 8, periods of 4 times 2 end at 0, and the product of
  4 tokens and 2 periods is 0 as well, so a schedule ends at once or its release falls.
  The other schedules have a cliff, an initial portion and two periods, and a period
  of 0 that the contract refuses. `Starts` is one time for all, after the lanes opened;
  two timelocks are one that is drawn on before the other. The state constraint
  `Apart` of `MCLockupToken` explores timelocks once the issuer may change the rules,
  and allowances and snapshots without timelocks, each apart; what is `Odd`, stray tokens,
  timelocks of the contract's own and releases that wrap, is explored with the rules
  as they were opened, and beside timelocks one token is burned at a time.
  `MCRestrictedSwap` has a constraint of that name: stray tokens are
  explored apart from allowances and snapshots. `RestrictedSwap` explores the rest
  together, but without timelocks; the proofs have all of it at once.
- Approvals: two reports are the smallest number that race for a transaction, two
  rows let it be claimed twice, two clicks overlap; for more there are the proofs.
- NAV: two requests overlap in every way, and each may fail at every await; two
  attestations make one superseded and one missing. The interval is one block.
  `MaxDrafts` is 1: drafts are only counted.
- Sessions: two handlers give every pair of operations in every interleaving; for
  more tabs and browsers there is the proof. `MaxSessions` counts sessions ever
  created, `MaxNow` seconds, `MaxPassword` replacements.
- Tab: `MaxTokens` 2 lets one refresh or login succeed after the page was loaded,
  and makes later ones fail; what a tab does after a second success it also does
  after the first. The access token that the first refresh token came with was
  lost with the page, so it counts as expired.

Submissions, clicks, reports, session handlers and the two users of the templates are
symmetric where a cfg says SYMMETRY: nothing tells two of them apart, and no run with
symmetry checks liveness.

Runs whose cfg says CHECK_DEADLOCK FALSE can really stop: all orders, times,
transactions and requests of the instance are used up. In `auth_client` a tab that
stops is what the two liveness properties look for.

### Disagreements between the code and what it says of itself

Each is a run that checks one statement of a comment, document or page, and that
TLC refutes; the lines are in `PROJECT.json`.

| Run | Statement | What happens |
| --- | --- | --- |
| nav_report | a valuation cannot be published until an interval after the one before | a report of one that *is* published is refused for that reason, once another request has copied it: it is compared with itself. Its breakdown is not stored unless the publisher reports it again later |
| orbital_impact | larger trades cause greater price impact | the curve of constant sum of powers is bent the other way: of two equal swaps the second buys more, and a swap towards balance may revert because the normalised sum falls |
| orbital_fees | the fees of swaps stay in the pool and reward all of its shareholders | they are booked apart from the reserves, no share has a part in them, and all of them go to the fee collector |

The models have other behaviours that a reader of the code may not expect. Those
of the first group are in the models and have no run of their own:

- `getActiveOrders` looks at the whole book: `MAX_SCAN_LIMIT` bounds only the page.
  At its deadline an order can be filled and is not listed.
- Fills that round can pay an order in full and leave a remainder that is listed,
  that nobody can buy, and that the maker can get back by cancelling.
- Two clicks that overlap on the links of a request both take effect. The later one may
  put a request that was minted in between back to approved; its transaction is then
  forgotten, and may finalize another request.
- `publishNAV` needs no draft, and the `draftId` of a report (nav.ts:999-1028) may be the id
  of any row: an indexed valuation, of another token too, is then deleted. It comes back with the next
  read that finds no new event and fewer rows than the chain has.
- A request whose links have expired is still pending, and a new submission of it is
  answered with the old one, which nobody can decide any more.
- A refresh or a login that overlaps a password reset leaves a session of before;
  a logout that overlaps a refresh of another tab leaves the rotated session; of two
  tabs that refresh at once, the one that fails clears the other one's cookie.
- Two refresh tokens signed in one second are equal; the second rotation deletes
  its session and then fails to create the new one.
- A rejected login starts a silent refresh, because the interceptor does not ask
  `shouldAttemptSilentRefresh`; a silent refresh that ends after a logout stores its
  access token; a refresh that fails while initialize fetches the profile leaves a
  user who is signed in without a token.
- The removal of Orbital liquidity does not update the sums of the oracle.
- Swaps of security tokens can be completed with either function, whatever kind
  they are; one completed with the wrong one spends the escrow of others. They and the
  cancellation of a sell deliver tokens past pause, freeze and caps.
- After `withdrawalRemains` claims are still served, from whatever payments the contract
  holds, the escrow of open swaps included. The comment at Dividends.sol:180-181 that an
  unchecked subtraction is safe, for a claim is a portion of what is unused, is not so then.
- A timelock may be held for the token contract itself, and tokens may be minted and burned
  at its address: the admin of the reserve can burn what backs the timelocks.
- Timelocks release without the hook of the snapshots, so the snapshots of
  accounts that have some need not add up. The rules for holders do not apply to a
  timelock that is transferred or funded.
- The notes of an identity check may speak of another decision than its status.
- The owner of a vesting contract can take out, after the end, what beneficiaries
  have not drawn yet.

These were met while choosing what to model, and are in no model: an `initialize` that
a logout supersedes leaves the loader on; `EscrowWithAgent.revertEscrow` has a guard
that no state satisfies; `Escrow.withdraw` clears the token's address; `Lottery`
keeps its players after a draw; `Presale` does not lower `totalDistributed` when tokens
are redeemed; `DutchAuction` ignores `endingAt`, and its price underflows long after
the start; no link of a mint or deployment request leads to the confirmation form
that `POST /action/:token` expects, though both mails say that "These links open a
confirmation page. No action is applied until you explicitly confirm it." (email.ts:440
and 604): the GET of the link decides at once, which is how it is modelled. The router
of the Orbital pools keeps what a deposit offers beyond the pool's proportion, though
OrbitalRouter.sol:18 says it holds no tokens between calls; and it asks the factory of
no pool a caller names, though line 19 says that all are validated, so that what it
keeps is not safe until its owner recovers it.

### Fairness

Two models have liveness properties. `NavPublication`: `WF(Serve(h))`, the event loop
goes on with a request the server works on; reads keep coming only as the premise
of `ReadsEndInTheChain`, and nothing is assumed of publishers, the chain or of
failures, which may end any request at any await.

`AuthClient`: `WF(Start)`: React runs the effect that calls `initialize`. `WF(Continue)`: an operation that has its answer goes on. No
request stays out for ever: axios ends it after 15 seconds, and the browser runs
the task that is due. This last assumption is stated of the state
(`[]<>(req[r].at \notin {"sent", "answered"})`) because `Turn` forbids the task
while the store goes on, again and again, so weak fairness of the task would say
nothing, and strong fairness of eight tasks is what the formula amounts to, at a
cost TLC cannot pay. Nothing is assumed of users, pages, expiry or the server.

The other models have no fairness: a handler may stay where it is for ever, and
a transaction may never be sent. Their properties are safety properties.

## 4. What is proved

All theorems are of the form `Spec => []P`, `Spec => [][A]_vars` or
`Spec => Abstract!Spec`, and three of the frontend are about liveness, for every value of the constants under the assumptions of
the modules: the sets of users, coins, handlers and so on are finite where they are
summed over; numbers are naturals; sentinels are no addresses; a fee is less than the
whole; a period is not 0 where the code refuses that. No bound is used but as a
number: nothing depends on how large it is. `PROJECT.json` lists the theorems with
the properties they state.

**Sums.** `SumOver` is a fold, and folds are defined by a choice of elements.
`SumsProofs` shows that the choice does not matter (`FoldsAgree`) and from it that
changing a function at one point changes the sum by the difference
(`SumUpdate`), that sums add, scale and grow with their parts (`SumAdd`, `SumScaled`,
`SumMonotone`), and what is needed of products and quotients (`QuotientIsFloor`,
`ProductsGrow`). Everything about escrows rests on these.

**Recursion.** Induction rules of the library take an operator as a parameter, which
the provers cannot instantiate. The loops are proved nevertheless, each with a loop
invariant written as a set of numbers for which it fails: if that set had an element
it would have a least one (`LeastNatural`), and the step before that one contradicts
it. `FoldsAgree`, `RouteIsFollowed` (routes of the Orbital pool), `ScanIsFollowed`
(pages of the exchange) and `DescentEndsBelow` (the square root of the liquidity pool)
are of this kind. For a function that recurses by other steps than its predecessor
one must also show that it exists; for the root, that is the smallest set closed
under the iteration (`Orbit`).

**Exchange.** `IInv` of `ExchangeProofs` is the types, and for every order
`filledSell * amountBuy <= filledBuy * amountSell` with both sides within their
amounts. The inequality is needed to show that the unfilled part is natural, and
is inductive because each fill rounds down: `FillKeepsPrice` adds the inequality
of one fill to the one before. From it follow `Typing` and `MakersGetTheirPrice`.
`SlackInv` says that the slack, what is held and swept less what is owed, is
natural for each asset and zero for ETH; every step leaves it as it is, but for a
donation, which only adds to it, and so `EscrowIsCovered`, `EthIsAccounted` and, of both, `ContractIsSolvent`.
No invariant about single orders would do: the contract has one balance for all.
`EveryExitIsFunded` follows: while nothing of an asset was swept, a cancellation and a
withdrawal of ETH find what they pay out. `FillsAreTrades` splits the accounts into
taker, maker and the rest. `WithdrawalsAreAnnounced` needs that ids of requests are
handed out in order (`RequestsInOrder`), so that a new one overwrites none.
`PagesTileTheBook` is the loop invariant `ScanIsRight`: while the page is not full
everything that matched was counted, and once it is, the rest lies behind it.
Three theorems speak of users rather than of books. `OrdersAreFinal`: terms never change,
fills only grow, what is filled or cancelled stays so, and only the maker cancels.
`NobodyPaysForOthers`: who has less of an asset after a step, ETH credited to them counted,
took that step. `ShortfallIsAnnounced` joins `EscrowIsCovered` and `WithdrawalsAreAnnounced` and
drops the history variable `swept`: of the contract's own state, what is owed and
missing was announced.

**Liquidity pool.** Deposits, withdrawals and swaps are all cases of `PoolChange`: the
contract's balances move at least as far as what it owes, and no share loses. The four
properties are kept by any such change; that each function is one is where the
rounding of the code comes in (`AddIsChange`, `RemoveIsChange`, `SwapIsChange`). The
first deposit needs that the root is not too large, which `SqrtIsBelow` says. The
invariant adds that a pool which was not created is empty, that shares add up to
their total, and that an observation lies in the past. `EveryoneCanLeave` adds up what all
shares of all pools are worth, each rounded down (`RoundedShares`): while nothing was swept,
no run on the contract fails. `NothingGainedBySwappingBack` needs only that the
product does not fall by a swap; `NobodyPaysForOthers` and `ShortfallIsAnnounced` are as for the
exchange, the second with an emergency withdrawal's own invariant, since no run states it.

**Orbital pool.** Along a route `KeepsAll` says that reserves, fees and what is still
to be paid out are what was there with what was paid in, and that every coin is
left; it is kept by each hop, whatever the powers and roots round to, because a swap
reverts unless the curve leaves some of the coin that is paid out. `LockedForGood` says that the
lock of the first deposit is among the shares. A round trip rounds twice, both
times against the caller (`RoundedTwice`). `LiquidityIsNotDiluted` compares, coin by coin, what all
shares together stand for before and after: what a deposit pays in of a coin is
rounded like its shares, not up, so that less than a unit can be lost.

**Templates.** Vesting: what was drawn is the rate times the time of the last draw,
until a draw after the end takes the rest (`DrawnSoFar`). Program: shares of the fund
are rounded down, and the points of those who have come are those of nobody else
(`Granting`; `PointsFitTheFund`). Staking: the debt to all stakers, scaled as the code
scales it, and what is still to be distributed do not exceed what is held
(`RewardInv`); both divisions of the code only lower the debt.

**Security token.** `LockInv` strengthens `ReleasedInTime` and the supply: schedules that
were accepted are valid, and of a timelock whose product fits a word what was drawn is
what was paid, or it is closed; it has drawn no more than its schedule releases now, and
paid no more than the schedule in numbers of any size (`InTime`). Releases that fit
grow with time (`UnlockedGrows`) and, where the end fits too, are those of the schedule
(`UnlockedIsReleased`); one that does not fit may fall, and nothing is said of it. A
transfer draws on a row of timelocks exactly what it takes from their sum, whatever
wraps (`RowGives`, `DrawnIs`). `Surplus` is what the contract holds beyond what is left
in all timelocks and what is `stray`; it is 0 for the base token, and no step of the
token changes it. Every step of the token is one of `Moving`, `Issuing` or
`Quiet`, from which `ArrivalsObeyTheRules`. On top of it `SwapInv` and `Escrow` say
of the deployed contract that this surplus is what open sells put there, and that its
payment tokens are those of open buys and of what the snapshots keep, both up to what
completions from the wrong side crossed over. `EscrowIsKept` tells, of what a snapshot
keeps, the dues from the overdraft: a snapshot is overdrawn by claims after its remains
were withdrawn, and that is counted on the other side of the equation, so that escrow
which is spent is seen to be spent. `SwapsEndOnce` falls out of the same case analysis. `ClaimsStayFunded` rests on
`AnswersStay`: while there are no timelocks no later move changes what a
snapshot answers, so the holders of a snapshot add up to its supply and the
rounded shares to no more than the fund. `ClaimsAreFunded` keeps its premise, no
timelocks, for the code does not keep the promise without it.

**MintApproval.** `Typing` includes that a handler which works on a request has
one. `LockInv` is that of two handlers in phase "update" no two have the same
transaction, and that for a handler there no other request has its transaction
recorded: the search under the lock stays true until the update, because whoever
records that transaction holds the lock. From it follows `OneRequestPerMint`;
`MintedFromApproved` follows from the condition of the update. `MintsAreVerified` carries
the chain's answer through the lock (`Verified`), and `PendingCanBeDecided` that links are
written before they are mailed (`LinksFirst`), for every request but those whose own
submission broke off. `InHand` says which row a submission
works on; with it a request moves along one of few ways (`Moves`). `LinksGetSpent` says of
both links what `ClickApply` does to them, which is an invariant only because no submission
writes links after its mail (`SpentInv`); `DecisionsAreFinal`, that once the clicks under way
are done nothing but the mint follows, or the removal by a submission whose mail
seemed to fail. `DeployDecisionsAreFinal` is both, of the other desk.

**The refinement.** `HandlersImplementApproval` maps each statement of each handler to a
step of `Approval` or to a stutter: what a handler holds is `taken`, and what it
writes is `settled`. For deployments the invariants are those of `MintApprovalProofs`,
instantiated (`DeploySteps`), with `NoneMinted`; the refinement is proved again, because its
map has no executed state.

**KycReview.** What the handler of a link has read is still so, unless the status was
written in between (`SeenPending`); hence `LinksDecideWhatIsPending`.

**NavPublication.** `Knows` says, for each place of a read that raced nobody, what it knows of
the newest valuation at the time it began: that the chain's count includes it, that
the block it asks up to does, that it is among the rows or about to be.
`LoneReadsAreFresh` is that of the last place, with what marking the others
superseded leaves behind: one current valuation, the highest. `RowsAreOfTheChain` bounds the
database by the chain from the other side (`OfTheChain`).

**AuthSessions.** `Safe` strengthens the three properties with what handlers carry:
a family of a session or of a rotating handler is at most `made` (`RowsOK`,
`HandlersOK`), so a new login founds a new family; and a handler on its way to a
session has a password and a mark `raced` that fit the property the session must
have (`Holds`). From it follow `OneSessionPerLogin`, `OldPasswordsAreOut` and
`RevocationHolds`, for any number of tabs, handlers, passwords and crashes.

**AuthClient.** `ClientInv` is the types and three facts: whoever is held back is
behind a leader whose silent refresh is out (`QueueIsServed`), an operation of the store
has the request it awaits and no other (`AwaitsItsRequest`), and one that was overtaken by a
sign-out is not the latest one (`OvertakenIsOver`). `SignedOutIsOut` rests on the last, and
`NobodyWaitsInVain` is the first: the part of `CallsSettle` that is a safety property.
`NoOperationIsStuck`, of the first two, is that of `OperationsSettle`.
Some liveness is proved from it, with the temporal prover alone. What a theorem needs
of the fairness stands in it as a premise, for the requests concerned, because
the prover does not instantiate a quantified temporal formula; the premises are
conjuncts of `Fairness`. `HeldBackAreLetGo`: who is held back is let go. `LeadersComeToAnEnd`: a request
that started a refresh is sent once more and then ends. `RequestsGoOn`: any request
ends, or a further token has been delivered meanwhile; at most `MaxTokens` are
(`DeliveriesAreBounded`).

Only model-checked:

- `ExitAlwaysOpen`, because it uses ENABLED. `EveryExitIsFunded` is what it asks of the
  contract's balance; the other guards are those of the two calls.
- `CallsSettle`: its step is `RequestsGoOn` and its bound `DeliveriesAreBounded`; the induction
  over the number of tokens, and the quantifier over requests, are left to TLC.
- `OperationsSettle` and `ReadsEndInTheChain`: they use weak fairness of actions, that is
  ENABLED, which the prover does not expand.
- The three statements that TLC refutes.
- That what `Root` of the Orbital pool computes is the root: its theorems need only that
  it is a natural number, for they hold whatever the powers round to.

## 5. Plan

Proofs: whether the premise of `ClaimsAreFunded` could be weaker, and
what the curve of the Orbital pool promises beyond its books. With a prover that
expands ENABLED: `ExitAlwaysOpen`, `OperationsSettle` and `ReadsEndInTheChain`.

Models: `RpcEndpoints` and `TxRecovery`, the frontend's other state that survives a
call; a call back into the exchange in the middle of a function.

## 6. Not modelled, and why

Generated code (`artifacts/`, `typechain-types/`, `cache/`), ABIs and bytecode, scripts
and configuration, which are most of the repository's lines; rendering, charts,
forms and parsers, which have no state that interleaves; the wrappers that encode
calls of contracts; mail, file storage, encryption and proxies of market data,
which are input and output; the older `AssetExchange.sol`, superseded; ERC-20 tokens,
which are the environment of the contracts; the templates that hold one deposit or
follow one rule per call (auction, presale, escrow, lottery) or come from a library
(`PaymentSplitter`); the administration of factories and of the oracle. The component
list of `PROJECT.json` names what is left out of the parts that are modelled.
