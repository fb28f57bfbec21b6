SPECIFICATION Spec
CONSTANTS
  FP_SCALING_FACTOR = 120
  INTEREST_DECIMALS = 4
  SECONDS_PER_DAY = 1
  DAYS_PER_YEAR = 4
  LATENESS_GRACE_PERIOD_IN_DAYS = 1
  Terms <- MCLoan
  juniorFeePercent = 20
  ReserveDenominator = 10
  DrawdownPeriod = 1
  LatenessMaxDays = 1
  MaxSlices = 1
  JuniorDeposits = {}
  SeniorDeposits = {8}
  Withdrawals = {4}
  Drawdowns = {4}
  Payments = {3}
  Limits = {}
  FundableTimes = {0}
  MayPause = FALSE
  MaxTokens = 1
  MaxCreditLineUsdc = 3
  MaxPrincipalOwed = 8
  MaxTime = 5
INVARIANTS
  InterestIsSharedByDeposits
