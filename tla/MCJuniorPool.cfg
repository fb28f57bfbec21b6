SPECIFICATION Spec
CONSTANTS
  FP_SCALING_FACTOR = 1000
  INTEREST_DECIMALS = 4
  SECONDS_PER_DAY = 1
  DAYS_PER_YEAR = 4
  LATENESS_GRACE_PERIOD_IN_DAYS = 1
  Terms <- MCLargeLoan
  juniorFeePercent = 20
  ReserveDenominator = 10
  DrawdownPeriod = 1
  LatenessMaxDays = 1
  MaxSlices = 1
  JuniorDeposits = {30}
  SeniorDeposits = {40}
  Withdrawals = {20}
  Drawdowns = {50}
  Payments = {40}
  Limits = {}
  FundableTimes = {0}
  MayPause = FALSE
  MaxTokens = 2
  MaxCreditLineUsdc = 40
  MaxPrincipalOwed = 80
  MaxTime = 5
INVARIANTS
  TypeOK
  SharePricesAreFunded
  DeployedIsTheLoan
  JuniorBehindSenior
  SeniorInterestIsCapped
  PaymentsAreAccepted
PROPERTIES
  LockedTranchesAreFrozen
