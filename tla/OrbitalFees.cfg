SPECIFICATION ContractsSpec
CONSTANTS
  Deployable = {"orbital"}
  alice = alice  bob = bob  gold = gold  eth = eth wbtc = wbtc  amm = amm  nobody = nobody
  Users = {alice, bob}
  Tokens = {gold, wbtc}
  ETH = eth
  Amm = amm
  NoOne = nobody
  FirstOwner = alice
  Heirs = {alice}
  RejectsEth = {bob}
  Funds <- FundsOf
  Tax <- GoldTaxed
  Amounts = {2, 5}
  Minimums = {0, 2}
  Gifts = {2}
  Pools <- TwoPools
  MinimumLiquidity = 1
  FeeNumerator = 3
  FeeDenominator = 1000
  Precision = 2
  Word = 7
  Timelock = 1
  MaxRequests = 1
  MaxTime = 2
  coinA = coinA  coinB = coinB  coinC = coinC  ada = ada  eve = eve  nowhere = nowhere
  Callers = {ada, eve}
  Coins = {coinA, coinB, coinC}
  Nowhere = nowhere
  Concentrations = {2, 4}
  SwapFee = 100
  FeeUnit = 10000
  Wad = 1000
  LockedShares = 10
  Deposits <- Offers
  SwapAmounts = {100}
  ShareAmounts = {100}
  MaxHops = 2
  LastBlock = 1
  MaxCalls = 4
  Stakers = {ada, eve}
  Stakes = {1, 2}
  Rewards = {7}
  Durations = {3}
  FirstDuration = 2
  RewardScale = 10
  MaxStaked = 3
  MaxNotified = 2
  LastSecond = 4
  Lockers = {ada, eve}
  LockAmounts = {1, 3}
  LockPeriods = {1, 2}
  ProgramEnd = 3
  Fund = 10
  VestingBlocks = 2
  Beneficiaries = {ada, eve}
  VestingAmounts = {5, 9}
  VestingStart = 2
  VestingEnd = 5
  CliffDuration = 1
  LastMoment = 6
CHECK_DEADLOCK FALSE
PROPERTIES FeesStayInThePool
