SPECIFICATION Spec
CONSTANTS
  alice = alice
  bob = bob
  gold = gold
  wbtc = wbtc
  eth = eth
  exchange = exchange
  nobody = nobody
  Users = {alice, bob}
  Tokens = {gold, wbtc}
  ETH = eth
  Exchange = exchange
  NoOne = nobody
  FirstOwner = alice
  Heirs = {}
  RejectsEth = {bob}
  Funds <- Apart
  Amounts = {2, 3}
  Gifts = {1}
  Deadlines = {0}
  Timelock = 1
  MaxUint = 8
  MaxOrders = 1
  MaxRequests = 2
  MaxTime = 2
  MaxScanLimit = 2
  DefaultLimit = 1
  Offsets = {0, 1}
  Limits = {1}
INVARIANTS SweptWasAnnounced
CHECK_DEADLOCK FALSE
