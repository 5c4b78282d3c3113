SPECIFICATION Spec
CONSTANTS
  alice = alice
  bob = bob
  gold = gold
  wbtc = wbtc
  eth = eth
  exchange = exchange
  nobody = nobody
  Users = {alice, bob}
  Tokens = {gold}
  ETH = eth
  Exchange = exchange
  NoOne = nobody
  FirstOwner = alice
  Heirs = {bob}
  RejectsEth = {bob}
  Funds <- Funds3
  Amounts = {2, 3}
  Gifts = {}
  Deadlines = {0, 2}
  Timelock = 2
  MaxUint = 8
  MaxOrders = 2
  MaxRequests = 0
  MaxTime = 3
  MaxScanLimit = 2
  DefaultLimit = 1
  Offsets = {0, 1}
  Limits = {1}
INVARIANTS TypeOK MakerPrice Solvent ExitAlwaysOpen PagesAreFaithful
PROPERTIES FairExchange
CHECK_DEADLOCK FALSE
