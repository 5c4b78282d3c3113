SPECIFICATION Spec
CONSTANTS
  h1 = h1
  h2 = h2
  laptop = laptop
  mail1 = mail1
  null = null
  Handlers = {h1, h2}
  Browsers = {laptop}
  Links = {mail1}
  None = null
  Ttl = 1
  MaxNow = 1
  MaxSessions = 3
  MaxPassword = 1
  MaxCrashes = 1
SYMMETRY Alike
INVARIANTS TypeOK RotationIsLinear OldPasswordOnlyByOverlap RevokedOnlyByOverlap
