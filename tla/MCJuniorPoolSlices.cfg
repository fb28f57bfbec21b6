SPECIFICATION Spec
CONSTANTS
  FP_SCALING_FACTOR = 100
  INTEREST_DECIMALS = 4
  SECONDS_PER_DAY = 1
  DAYS_PER_YEAR = 4
  LATENESS_GRACE_PERIOD_IN_DAYS = 1
  Terms <- MCLoan
  juniorFeePercent = 20
  ReserveDenominator = 10
  DrawdownPeriod = 5
  LatenessMaxDays = 1
  MaxSlices = 2
  JuniorDeposits = {2}
  SeniorDeposits = {4}
  Withdrawals = {}
  Drawdowns = {4}
  Payments = {4}
  Limits = {8}
  FundableTimes = {0}
  MayPause = FALSE
  MaxTokens = 3
  MaxCreditLineUsdc = 4
  MaxPrincipalOwed = 8
  MaxTime = 4
INVARIANTS
  SharePricesAreFunded
  DeployedIsTheLoan
  SeniorInterestIsCapped
