SPECIFICATION FairClientSpec
CONSTANTS
  prices = prices
  profile = profile
  null = null
  Calls = {prices}
  Null = null
  MaxTokens = 2
PROPERTIES SignedOutStays CallsSettle OperationsSettle
CHECK_DEADLOCK FALSE
