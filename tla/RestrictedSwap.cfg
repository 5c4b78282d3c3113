SPECIFICATION Spec
CONSTANTS
  issuer = issuer  investor = investor  token = token  anyone = anyone  accredited = accredited
  Users = {issuer, investor}
  Token = token
  Issuer = issuer
  Grants = {{"contract","transfer"}}
  Grantees = {issuer, investor}
  Managed = {}
  Groups = {anyone}
  Ungrouped = anyone
  Lanes <- OpenLane
  LaneTimes = {1}
  Caps = {}
  Amounts = {2}
  Spenders = {issuer}
  Cancelers = {}
  Starts = {1}
  InitialSupply = 4
  MaxTotalSupply = 4
  MinTimelock = 1
  MaxReleaseDelay = 2
  Schedules = {}
  Bips = 100
  Word = 16
  MaxSchedules = 0
  MaxTimelocks = 0
  MaxSnapshots = 1
  MaxTime = 1
  PaymentFunds <- PayFunds
  Payments = {2}
  Precision = 100
  MaxFunded = 4
  MaxSwaps = 1
  Pieces = {2}
INVARIANTS ClaimsAreFunded EscrowIsAccounted
PROPERTIES SwapsSettle
CONSTRAINT Apart
