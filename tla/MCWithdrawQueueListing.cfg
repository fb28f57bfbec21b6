SPECIFICATION Spec
CONSTANTS
  NumUsers = 2
  GoListed = {1}
  InitialRWA = 4
  Amounts = {1, 3}
  MAX_QUEUE_SIZE = 2
  MAX_WITHDRAW_FEE = 3
  WithdrawFeeDenominator = 8
  usdcMantissa = 2
  indexMantissa = 4
  Ceilings = {3}
  UserCeilings = {}
  FeeTiers = {}
  VeNAOSAmounts = {}
  IndexPoolStates <- MCDryThenOne
  Shortfalls = {0, 1}
  MaxEntries = 3
INVARIANT
  OneLiveEntryPerUser
