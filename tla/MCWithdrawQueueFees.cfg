SPECIFICATION Spec
CONSTANTS
  NumUsers = 2
  GoListed = {1}
  InitialRWA = 8
  Amounts = {8}
  MAX_QUEUE_SIZE = 1
  MAX_WITHDRAW_FEE = 3
  WithdrawFeeDenominator = 8
  usdcMantissa = 2
  indexMantissa = 4
  Ceilings = {}
  UserCeilings = {8}
  FeeTiers <- MCFeeTiers
  VeNAOSAmounts = {1, 2}
  IndexPoolStates <- MCFewPoolStates
  Shortfalls = {0, 1}
  MaxEntries = 1
INVARIANTS
  FeesFallWithStake
PROPERTY
  ClaimsPayTierFee
