SPECIFICATION FairSpec
CONSTANTS
  NumUsers = 2
  GoListed = {1}
  InitialRWA = 4
  Amounts = {2, 3}
  MAX_QUEUE_SIZE = 1
  MAX_WITHDRAW_FEE = 3
  WithdrawFeeDenominator = 8
  usdcMantissa = 2
  indexMantissa = 4
  Ceilings = {3}
  UserCeilings = {}
  FeeTiers = {}
  VeNAOSAmounts = {}
  IndexPoolStates <- MCDryThenTwo
  Shortfalls = {0, 2}
  MaxEntries = 3
PROPERTY
  EveryEntryIsServed
