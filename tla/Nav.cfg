SPECIFICATION FairSpec
CONSTANTS
  h1 = h1
  h2 = h2
  Handlers = {h1, h2}
  Marks = {"DISPUTED"}
  Interval = 1
  MaxAttestations = 2
  MaxBlock = 3
  MaxDrafts = 1
  MaxWrites = 1
INVARIANTS LoneReadIsFresh
PROPERTIES ReadsEndInTheChain
