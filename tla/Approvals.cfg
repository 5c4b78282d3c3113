SPECIFICATION DesksSpec
CONSTANTS
  ann = ann
  house = house
  ship = ship
  tx1 = tx1
  s1 = s1
  s2 = s2
  c1 = c1
  c2 = c2
  m1 = m1
  m2 = m2
  null = null
  Users = {ann}
  Configs = {house, ship}
  Txs = {tx1}
  MintOf <- SameToken
  Submits = {s1, s2}
  Clicks = {c1, c2}
  Marks = {m1, m2}
  Nothing = null
  MaxRows = 2
  MaxCrashes = 1
  Applicants = {ann}
  Submitters = {s1, s2}
  Reviewers = {c1, c2}
  NoOne = null
  MaxSubmissions = 2
SYMMETRY Alike
INVARIANTS TypeOK TxFinalizesOne PendingIsDecidable MintIsVerified
PROPERTIES OnlyApprovedIsMinted ImplementsApproval DeployImplementsApproval LinksDecidePending
CHECK_DEADLOCK FALSE
