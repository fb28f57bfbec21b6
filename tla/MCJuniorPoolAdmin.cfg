SPECIFICATION Spec
CONSTANTS
  FP_SCALING_FACTOR = 120
  INTEREST_DECIMALS = 4
  SECONDS_PER_DAY = 1
  DAYS_PER_YEAR = 4
  LATENESS_GRACE_PERIOD_IN_DAYS = 1
  Terms <- MCMigrations
  juniorFeePercent = 20
  ReserveDenominator = 10
  DrawdownPeriod = 6
  LatenessMaxDays = 1
  MaxSlices = 1
  JuniorDeposits = {}
  SeniorDeposits = {4}
  Withdrawals = {}
  Drawdowns = {2}
  Payments = {2}
  Limits = {}
  FundableTimes = {0}
  MayPause = TRUE
  MaxTokens = 1
  MaxCreditLineUsdc = 2
  MaxPrincipalOwed = 8
  MaxTime = 5
INVARIANTS
  PaymentsAreAccepted
PROPERTIES
  OnlyNewTermsDisorderTimes
  PaidUpIsNotLate
  InterestIsChargedOnce
