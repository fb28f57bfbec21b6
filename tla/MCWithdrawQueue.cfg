SPECIFICATION Spec
CONSTANTS
  NumUsers = 2
  GoListed = {1}
  InitialRWA = 5
  Amounts = {2, 5}
  MAX_QUEUE_SIZE = 2
  MAX_WITHDRAW_FEE = 1
  WithdrawFeeDenominator = 4
  usdcMantissa = 2
  indexMantissa = 4
  Ceilings = {5}
  UserCeilings = {}
  FeeTiers = {}
  VeNAOSAmounts = {}
  IndexPoolStates <- MCIndexPoolStates
  Shortfalls = {0, 1}
  MaxEntries = 3
INVARIANTS
  TypeOK
  RegisteredIsConserved
  ClaimsAreFunded
  PayoutsAreAccounted
  PassedEntriesAreDrained
  ListingNamesOwnLiveEntry
  FullPaymentIsDistributed
PROPERTIES
  ServedInOrder
  PaidAtSharePrice
