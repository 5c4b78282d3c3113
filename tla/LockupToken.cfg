SPECIFICATION LockupSpec
CONSTANTS
  issuer = issuer  investor = investor  token = token  anyone = anyone  accredited = accredited
  Users = {issuer, investor}
  Token = token
  Issuer = issuer
  Grants <- SomeGrants
  Grantees = {issuer}
  Managed = {investor}
  Groups = {anyone}
  Ungrouped = anyone
  Lanes <- SomeLanes
  LaneTimes = {2}
  Caps = {2}
  Amounts = {1, 4}
  Spenders = {issuer}
  Cancelers = {{issuer}}
  Starts = {2}
  InitialSupply = 4
  MaxTotalSupply = 4
  MinTimelock = 1
  MaxReleaseDelay = 2
  Schedules <- AllSchedules
  Bips = 100
  Word = 8
  MaxSchedules = 1
  MaxTimelocks = 2
  MaxSnapshots = 1
  MaxTime = 4
INVARIANTS TimelocksBacked ReleasedInTime 
PROPERTIES ArrivalsAreAllowed
CONSTRAINT Apart
