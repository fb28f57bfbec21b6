----------------------------- MODULE JuniorPool -----------------------------
(***************************************************************************)
(* A junior pool: one loan, its depositors and its borrower                *)
(* (src/contracts/protocol/core/JuniorPool.sol), with the pool tokens of   *)
(* its depositors (PoolTokens.sol: mint and redeem) and its credit line.   *)
(*                                                                         *)
(* Junior depositors fund a slice; the borrower or an admin locks it; the  *)
(* index pool adds senior capital; locking the pool opens the drawdown     *)
(* period.  Payments collect in the credit line and, once due, raise the   *)
(* share prices of the tranches, from which depositors withdraw.           *)
(*                                                                         *)
(* Every external call is one transaction, hence one action; require() and *)
(* the checked arithmetic of SafeMath are conjuncts of its guard.  Callers *)
(* are on the go-list and own the token they withdraw from.  The share of  *)
(* interest that goes to the reserve leaves the model.                     *)
(***************************************************************************)
EXTENDS TranchingLogic, CreditLine

CONSTANTS
  Terms,                  \* the terms of a loan, at its start or in a migration
  juniorFeePercent,
  ReserveDenominator,     \* NAOSConfig.getReserveDenominator
  DrawdownPeriod,         \* NAOSConfig.getDrawdownPeriodInSeconds
  LatenessMaxDays,        \* NAOSConfig.getLatenessMaxDays
  MaxSlices,              \* 5 in the code
  JuniorDeposits, SeniorDeposits,  \* amounts a depositor may bring
  Withdrawals,            \* amounts a depositor may ask for
  Drawdowns,              \* amounts the borrower may ask for
  Payments,               \* amounts that may be paid
  Limits,                 \* limits an admin may set
  FundableTimes,          \* times from which a slice may be funded
  MayPause,               \* whether the admin pauses
  MaxTokens,              \* bound: deposits in one behaviour
  MaxCreditLineUsdc,      \* bound: USDC that waits in the credit line
  MaxPrincipalOwed,       \* bound: principal that fell due
  MaxTime                 \* bound: time

ASSUME TermsAssumption == Terms \subseteq LoanTerms
ASSUME ShareAssumption ==
  /\ juniorFeePercent \in Nat
  /\ ReserveDenominator \in Nat \ {0}
  /\ juniorFeePercent + ONE_HUNDRED \div ReserveDenominator <= ONE_HUNDRED
ASSUME PeriodAssumption == DrawdownPeriod \in Nat /\ LatenessMaxDays \in Nat
ASSUME DepositAssumption ==
  /\ JuniorDeposits \subseteq Nat /\ SeniorDeposits \subseteq Nat
  /\ Withdrawals \subseteq Nat /\ Drawdowns \subseteq Nat /\ Payments \subseteq Nat
  /\ Limits \subseteq Nat /\ FundableTimes \subseteq Nat
ASSUME BoundAssumption ==
  /\ MaxSlices \in Nat \ {0} /\ MaxTokens \in Nat /\ MaxTime \in Nat
  /\ MaxCreditLineUsdc \in Nat /\ MaxPrincipalOwed \in Nat
  /\ MayPause \in BOOLEAN

VARIABLES
  poolSlices,             \* the slices, the current one last
  totalDeployed,          \* principal that was drawn down and is not repaid
  liquidated,             \* how far the liquidation of the loan is
  fundableAt,
  drawdownsPaused,
  paused

VARIABLES
  creditLine,             \* CreditLine.sol
  tokens,                 \* PoolTokens.sol: the deposits
  usdc,                   \* USDC of the pool
  creditLineUsdc,         \* USDC of the credit line
  time                    \* block.timestamp

poolVars == <<poolSlices, totalDeployed>>
switches == <<liquidated, fundableAt, drawdownsPaused, paused>>
vars == <<poolVars, switches, creditLine, tokens, usdc, creditLineUsdc, time>>

TrancheNames == {"senior", "junior"}

\* A token names its tranche by its slice and its name instead of by a number.
TokenInfo ==
  [slice : Nat \ {0}, tranche : TrancheNames, principalAmount : Nat,
   principalRedeemed : Nat, interestRedeemed : Nat]

TypeOK ==
  /\ poolSlices \in Seq(PoolSlice) /\ Len(poolSlices) \in 1..MaxSlices
  /\ totalDeployed \in Nat
  /\ liquidated \in LiquidationProcess
  /\ fundableAt \in Nat
  /\ drawdownsPaused \in BOOLEAN /\ paused \in BOOLEAN
  /\ creditLine \in CreditLineState
  /\ tokens \in Seq(TokenInfo)
  /\ usdc \in Nat
  /\ creditLineUsdc \in Nat
  /\ time \in Nat

----------------------------------------------------------------------------
(* Slices and tranches. *)

currentSlice == Len(poolSlices)

locked == poolSlices[currentSlice].senior.lockedUntil > 0

EmptyTranche ==
  [principalDeposited |-> 0, principalSharePrice |-> usdcToSharePrice(1, 1),
   interestSharePrice |-> 0, lockedUntil |-> 0]

EmptySlice ==
  [senior |-> EmptyTranche, junior |-> EmptyTranche,
   totalInterestAccrued |-> 0, principalDeployed |-> 0]

reserveFeePercent == ONE_HUNDRED \div ReserveDenominator

----------------------------------------------------------------------------
(* Depositors. *)

\* deposit mints a token for a tranche of any slice that is not locked.
Deposit(s, name, amount) ==
  /\ ~ paused
  /\ Len(tokens) < MaxTokens
  /\ poolSlices[s][name].lockedUntil = 0
  /\ amount > 0
  /\ time > fundableAt
  /\ poolSlices' = [poolSlices EXCEPT ![s][name].principalDeposited = @ + amount]
  /\ tokens' = Append(tokens, [slice |-> s, tranche |-> name, principalAmount |-> amount,
                               principalRedeemed |-> 0, interestRedeemed |-> 0])
  /\ usdc' = usdc + amount
  /\ UNCHANGED <<totalDeployed, switches, creditLine, creditLineUsdc, time>>

TrancheOf(token) == poolSlices[token.slice][token.tranche]

\* redeemableInterestAndPrincipal; negative where the checked subtraction fails.
interestRedeemable(token) ==
  sharePriceToUsdc(TrancheOf(token).interestSharePrice, token.principalAmount)
    - token.interestRedeemed
principalRedeemable(token) ==
  sharePriceToUsdc(TrancheOf(token).principalSharePrice, token.principalAmount)
    - token.principalRedeemed

\* A withdrawal takes interest first.  Before the tranche is locked it takes the
\* deposit back.
_Withdraw(k, amount) ==
  LET token     == tokens[k]
      interest  == AtMost(interestRedeemable(token), amount)
      principal == AtMost(principalRedeemable(token), amount - interest)
  IN  /\ ~ paused
      /\ interestRedeemable(token) >= 0 /\ principalRedeemable(token) >= 0
      /\ amount > 0
      /\ amount <= interestRedeemable(token) + principalRedeemable(token)
      /\ time > TrancheOf(token).lockedUntil
      /\ token.principalRedeemed + principal <= token.principalAmount
      /\ interest + principal <= usdc
      /\ IF TrancheOf(token).lockedUntil = 0
         THEN /\ amount <= TrancheOf(token).principalDeposited
              /\ poolSlices' = [poolSlices EXCEPT
                   ![token.slice][token.tranche].principalDeposited = @ - amount]
         ELSE UNCHANGED poolSlices
      /\ tokens' = [tokens EXCEPT ![k].principalRedeemed = @ + principal,
                                  ![k].interestRedeemed = @ + interest]
      /\ usdc' = usdc - (interest + principal)
      /\ UNCHANGED <<totalDeployed, switches, creditLine, creditLineUsdc, time>>

Withdraw(k, amount) == _Withdraw(k, amount)

WithdrawMax(k) ==
  _Withdraw(k, interestRedeemable(tokens[k]) + principalRedeemable(tokens[k]))

----------------------------------------------------------------------------
(* The borrower and the other holders of LOCKER_ROLE. *)

LockJuniorCapital ==
  /\ ~ paused
  /\ ~ locked
  /\ poolSlices[currentSlice].junior.lockedUntil = 0
  /\ poolSlices' = [poolSlices EXCEPT ![currentSlice].junior.lockedUntil = time + DrawdownPeriod]
  /\ UNCHANGED <<totalDeployed, switches, creditLine, tokens, usdc, creditLineUsdc, time>>

\* Faulty variant: the lock can be extended.
canLockPoolAgain == poolSlices[currentSlice].junior.lockedUntil > 0

\* A pool is locked once; both tranches of the current slice are locked for the
\* drawdown period, and the limit of the credit line grows by what they hold.
canLockPool ==
  /\ poolSlices[currentSlice].junior.lockedUntil > 0
  /\ poolSlices[currentSlice].senior.lockedUntil = 0

lockedSlices ==
  [poolSlices EXCEPT ![currentSlice].senior.lockedUntil = time + DrawdownPeriod,
                     ![currentSlice].junior.lockedUntil = time + DrawdownPeriod]

raisedCreditLine ==
  [creditLine EXCEPT !.currentLimit =
     AtMost(@ + TotalDeposited(poolSlices[currentSlice]), creditLine.maxLimit)]

LockPool ==
  /\ ~ paused
  /\ canLockPool
  /\ poolSlices' = lockedSlices
  /\ creditLine' = raisedCreditLine
  /\ UNCHANGED <<totalDeployed, switches, tokens, usdc, creditLineUsdc, time>>

\* What the share prices of a slice say it holds.
amountAvailable(slice) ==
  sharePriceToUsdc(slice.junior.principalSharePrice, slice.junior.principalDeposited)
    + sharePriceToUsdc(slice.senior.principalSharePrice, slice.senior.principalDeposited)

sliceAfterDrawdown(slice, amount) ==
  LET remaining == amountAvailable(slice) - amount
  IN  [slice EXCEPT
         !.junior.principalSharePrice = calculateExpectedSharePrice(slice.junior, remaining, slice),
         !.senior.principalSharePrice = calculateExpectedSharePrice(slice.senior, remaining, slice),
         !.principalDeployed = @ + amount]

\* The borrower draws down from the current slice, and locks the pool if that
\* has not been done.  The events report by how much the share prices fall, in
\* unsigned numbers: no share price may rise.
Drawdown(amount) ==
  LET slices == IF locked THEN poolSlices ELSE lockedSlices
      line   == IF locked THEN creditLine ELSE raisedCreditLine
      before == slices[currentSlice]
      after  == sliceAfterDrawdown(before, amount)
  IN  /\ ~ paused /\ ~ drawdownsPaused
      /\ locked \/ canLockPool
      /\ amount <= amountAvailable(before)
      /\ canDrawdown(line, amount, time)
      /\ \A name \in TrancheNames : after[name].principalSharePrice <= before[name].principalSharePrice
      /\ amount <= usdc
      /\ poolSlices' = [slices EXCEPT ![currentSlice] = after]
      /\ creditLine' = drawnDown(line, amount, time)
      /\ totalDeployed' = totalDeployed + amount
      /\ usdc' = usdc - amount
      /\ UNCHANGED <<switches, tokens, creditLineUsdc, time>>

SetFundableAt(t) ==
  /\ fundableAt' = t
  /\ UNCHANGED <<poolVars, liquidated, drawdownsPaused, paused, creditLine, tokens, usdc,
                 creditLineUsdc, time>>

InitializeNextSlice(t) ==
  /\ ~ paused
  /\ locked
  /\ LatenessIsDefined(creditLine, time) /\ ~ _isLate(creditLine, time)
  /\ withinPrincipalGracePeriod(creditLine, time)
  /\ Len(poolSlices) < MaxSlices
  /\ poolSlices' = Append(poolSlices, EmptySlice)
  /\ fundableAt' = t
  /\ UNCHANGED <<totalDeployed, liquidated, drawdownsPaused, paused, creditLine, tokens, usdc,
                 creditLineUsdc, time>>

----------------------------------------------------------------------------
(* Payments. *)

\* The part of an amount that belongs to each slice.
perSlice(amount) ==
  [i \in DOMAIN poolSlices |-> scaleForSlice(poolSlices[i], amount, totalDeployed)]

\* The interest accrued since the last assessment, split across the slices.
slicesWithInterest(accrued) ==
  [i \in DOMAIN poolSlices |->
     [poolSlices[i] EXCEPT !.totalInterestAccrued = @ + perSlice(accrued)[i]]]

\* The checked subtractions and the divisions of the waterfall.
collectable(slices, line) ==
  /\ line.balance <= totalDeployed
  /\ \A i \in DOMAIN slices :
       TotalDeposited(slices[i]) > 0 /\ slices[i].principalDeployed <= TotalDeposited(slices[i])

\* Faulty variant: the junior tranches before the senior ones.
collectInterestAndPrincipalJuniorFirst(slices, interest, principal, line) ==
  applyToAllJuniorTranches(
    [slices |-> slices, interest |-> interest, principal |-> principal, reserve |-> 0],
    reserveFeePercent, totalDeployed, line)

\* Faulty variant: the junior tranches share all the interest again.
collectInterestAndPrincipalTwice(slices, interest, principal, line) ==
  applyToAllJuniorTranches(
    [applyToAllSeniorTranches(slices, interest, principal, reserveFeePercent, totalDeployed, line,
                              juniorFeePercent) EXCEPT !.interest = interest],
    reserveFeePercent, totalDeployed, line)

\* The waterfall: all the senior tranches first, the junior ones next.
collectInterestAndPrincipal(slices, interest, principal, line) ==
  applyToAllJuniorTranches(
    applyToAllSeniorTranches(slices, interest, principal, reserveFeePercent, totalDeployed, line,
                             juniorFeePercent),
    reserveFeePercent, totalDeployed, line)

\* Faulty variant: principalDeployed not decreased.
repaidNothing(slices, repaid) == slices

repaidSlices(slices, repaid) ==
  [i \in DOMAIN slices |-> [slices[i] EXCEPT !.principalDeployed = @ - repaid[i]]]

\* An assessment with an amount of USDC in the credit line: how the credit line
\* takes it, and what the payment makes of the slices.
outcomeOf(available, status) == assess(creditLine, available, time, status)

hasPayment(outcome) == outcome.interest > 0 \/ outcome.principal > 0

assessedSlices(outcome) ==
  slicesWithInterest(outcome.line.totalInterestAccrued - creditLine.totalInterestAccrued)

resultOf(outcome) ==
  collectInterestAndPrincipal(assessedSlices(outcome), outcome.interest,
                              outcome.principal + outcome.remaining, outcome.line)

amountPaid(outcome) == outcome.interest + outcome.principal + outcome.remaining

\* Whether all the checks of an assessment pass.
accepted(outcome) ==
  /\ ~ paused
  /\ locked
  /\ totalDeployed > 0
  /\ outcome.defined
  /\ hasPayment(outcome)
     => /\ collectable(assessedSlices(outcome), outcome.line)
        /\ resultOf(outcome).reserve <= usdc + amountPaid(outcome)

\* Payments that are not due stay in the credit line; the others move to the
\* pool, what is left over included.
settle(outcome, available) ==
  LET repaid == perSlice(outcome.principal)
      result == resultOf(outcome)
  IN  /\ accepted(outcome)
      /\ outcome.line.principalOwed <= MaxPrincipalOwed
      /\ creditLine' = outcome.line
      /\ IF hasPayment(outcome)
         THEN /\ poolSlices' = repaidSlices(result.slices, repaid)
              /\ totalDeployed' = totalDeployed - Total(repaid)
              /\ creditLineUsdc' = available - amountPaid(outcome)
              /\ usdc' = usdc + amountPaid(outcome) - result.reserve
         ELSE /\ poolSlices' = assessedSlices(outcome)
              /\ creditLineUsdc' = available
              /\ UNCHANGED <<totalDeployed, usdc>>

_Assess(available, status) == settle(outcomeOf(available, status), available)

Assess ==
  /\ _Assess(creditLineUsdc, liquidated)
  /\ UNCHANGED <<switches, tokens, time>>

Pay(amount) ==
  /\ amount > 0
  /\ creditLineUsdc + amount <= MaxCreditLineUsdc
  /\ _Assess(creditLineUsdc + amount, liquidated)
  /\ UNCHANGED <<switches, tokens, time>>

\* LoanManager.liquidate: the loan is assessed with its liquidation starting, and
\* the index pool finds a position of its own that is late enough to be written
\* down.
seniorPrincipalRemaining ==
  Total([k \in DOMAIN tokens |->
           IF tokens[k].tranche = "senior"
           THEN tokens[k].principalAmount - tokens[k].principalRedeemed ELSE 0])

Liquidate ==
  /\ liquidated = "NotInProcess"
  /\ _Assess(creditLineUsdc, "Starting")
  /\ calculateWritedownForPrincipal(creditLine', seniorPrincipalRemaining, time, LatenessMaxDays) > 0
  /\ liquidated' = "Processing"
  /\ UNCHANGED <<fundableAt, drawdownsPaused, paused, tokens, time>>

----------------------------------------------------------------------------
(* Admins. *)

\* The accounting moves to a credit line with new terms, with its USDC.
MigrateCreditLine(terms) ==
  /\ creditLine.currentLimit <= terms.maxLimit
  /\ creditLine' = [creditLine EXCEPT
       !.maxLimit = terms.maxLimit, !.interestApr = terms.interestApr,
       !.paymentPeriodInDays = terms.paymentPeriodInDays, !.termInDays = terms.termInDays,
       !.lateFeeApr = terms.lateFeeApr,
       !.principalGracePeriodInDays = terms.principalGracePeriodInDays]
  /\ UNCHANGED <<poolVars, switches, tokens, usdc, creditLineUsdc, time>>

SetLimit(limit) ==
  /\ limit <= creditLine.maxLimit
  /\ creditLine' = [creditLine EXCEPT !.currentLimit = limit]
  /\ UNCHANGED <<poolVars, switches, tokens, usdc, creditLineUsdc, time>>

SetMaxLimit(limit) ==
  /\ creditLine' = [creditLine EXCEPT !.maxLimit = limit]
  /\ UNCHANGED <<poolVars, switches, tokens, usdc, creditLineUsdc, time>>

SetDrawdownsPaused(pause) ==
  /\ MayPause
  /\ drawdownsPaused' = pause
  /\ UNCHANGED <<poolVars, liquidated, fundableAt, paused, creditLine, tokens, usdc,
                 creditLineUsdc, time>>

SetPaused(pause) ==
  /\ MayPause
  /\ paused # pause
  /\ paused' = pause
  /\ UNCHANGED <<poolVars, liquidated, fundableAt, drawdownsPaused, creditLine, tokens, usdc,
                 creditLineUsdc, time>>

----------------------------------------------------------------------------
Tick ==
  /\ time < MaxTime
  /\ time' = time + 1
  /\ UNCHANGED <<poolVars, switches, creditLine, tokens, usdc, creditLineUsdc>>

Init ==
  /\ poolSlices = <<EmptySlice>>
  /\ totalDeployed = 0
  /\ liquidated = "NotInProcess"
  /\ fundableAt \in FundableTimes
  /\ drawdownsPaused = FALSE
  /\ paused = FALSE
  /\ time = 1
  /\ \E terms \in Terms :
       /\ terms.termInDays > terms.paymentPeriodInDays
       /\ creditLine = NewCreditLine(terms, time)
  /\ tokens = <<>>
  /\ usdc = 0
  /\ creditLineUsdc = 0

DepositorStep ==
  \/ \E s \in DOMAIN poolSlices :
       \/ \E amount \in JuniorDeposits : Deposit(s, "junior", amount)
       \/ \E amount \in SeniorDeposits : Deposit(s, "senior", amount)
  \/ \E k \in DOMAIN tokens :
       \/ \E amount \in Withdrawals : Withdraw(k, amount)
       \/ WithdrawMax(k)

LockerStep ==
  \/ LockJuniorCapital
  \/ LockPool
  \/ \E amount \in Drawdowns : Drawdown(amount)
  \/ \E t \in FundableTimes : SetFundableAt(t) \/ InitializeNextSlice(t)

PaymentStep ==
  \/ Assess
  \/ \E amount \in Payments : Pay(amount)
  \/ Liquidate

AdminStep ==
  \/ \E terms \in Terms : MigrateCreditLine(terms)
  \/ \E limit \in Limits : SetLimit(limit) \/ SetMaxLimit(limit)
  \/ \E pause \in BOOLEAN : SetDrawdownsPaused(pause) \/ SetPaused(pause)

Next == DepositorStep \/ LockerStep \/ PaymentStep \/ AdminStep \/ Tick

Spec == Init /\ [][Next]_vars

----------------------------------------------------------------------------
(* Properties. *)

\* What a tranche promises its depositors, by its share prices.
worth(tranche) ==
  sharePriceToUsdc(tranche.principalSharePrice, tranche.principalDeposited)
    + sharePriceToUsdc(tranche.interestSharePrice, tranche.principalDeposited)

OverTokens(Amount(_)) == Total([k \in DOMAIN tokens |-> Amount(tokens[k])])
OverSlices(Amount(_)) == Total([i \in DOMAIN poolSlices |-> Amount(poolSlices[i])])

\* A withdrawal from a tranche that is not locked lowers its deposits, so what
\* was withdrawn later is the rest of what was redeemed.
WithdrawnAfterLock ==
  OverTokens(LAMBDA token : token.principalRedeemed + token.interestRedeemed)
    - (OverTokens(LAMBDA token : token.principalAmount) - OverSlices(TotalDeposited))

\* The share prices never promise more than the pool has and has paid out
\* already, whatever drawdowns, payments, reserve fees and roundings made of
\* them (drawdown and collectInterestAndPrincipal against usdc transfers).
SharePricesAreFunded ==
  OverSlices(LAMBDA slice : worth(slice.senior) + worth(slice.junior)) <= usdc + WithdrawnAfterLock

\* Three books of one loan agree: the slices' principalDeployed add up to
\* totalDeployed, which is at least the balance of the credit line, and exactly
\* that while there is one slice (drawdown and _assess update all three).
DeployedIsTheLoan ==
  /\ totalDeployed = OverSlices(LAMBDA slice : slice.principalDeployed)
  /\ creditLine.balance <= totalDeployed
  /\ Len(poolSlices) = 1 => creditLine.balance = totalDeployed

principalBack(tranche) ==
  sharePriceToUsdc(tranche.principalSharePrice, tranche.principalDeposited)

\* The share prices have FP_SCALING_FACTOR steps to a unit of USDC: what is lost in
\* rounding them is three units of USDC, and more of amounts that exceed the steps.
lostInRounding(slice) ==
  3 + (4 * TotalDeposited(slice) + MaxPrincipalOwed) \div FP_SCALING_FACTOR

\* While a pool has one slice, principal comes back to its senior tranche before
\* the junior one: the senior tranche has as large a part of its deposits back as
\* the junior one, but for what is lost in rounding (the waterfall after any
\* drawdowns and partial payments).  With several slices, the junior tranches
\* share what a senior tranche that has its due left, before the other senior
\* tranches have theirs (TranchingLogic.applyToAllJuniorTranches).
JuniorBehindSenior ==
  Len(poolSlices) = 1 =>
    LET senior == poolSlices[1].senior
        junior == poolSlices[1].junior
    IN  principalBack(junior) * senior.principalDeposited
          <= (principalBack(senior) + lostInRounding(poolSlices[1])) * junior.principalDeposited

\* A senior depositor gets at most its part of the interest its slice accrued,
\* less the junior fee and the reserve's: the rest is the juniors' reward for
\* taking the first loss (applyToSeniorTranche, over all payments of a loan).
SeniorInterestIsCapped ==
  \A i \in DOMAIN poolSlices :
    poolSlices[i].senior.interestSharePrice * TotalDeposited(poolSlices[i]) * ONE_HUNDRED
      <= poolSlices[i].totalInterestAccrued * FP_SCALING_FACTOR
           * (ONE_HUNDRED - juniorFeePercent - reserveFeePercent)

EverySliceIsFunded == \A i \in DOMAIN poolSlices : TotalDeposited(poolSlices[i]) > 0

principalFallingDue ==
  calculatePrincipalAccrued(creditLine, timeToAssess(creditLine, time), liquidated)

\* The due time of a running loan is at most a period ahead and not before the
\* last full payment, which is a period before the end of the term unless the
\* end is what is due.
InOrder(period, due, end, last, now) ==
  /\ period <= due /\ due <= end /\ due <= now + period
  /\ last <= now /\ last <= due
  /\ last + period <= end \/ due = end

LoanInOrder(cl, now) ==
  /\ cl.paymentPeriodInDays <= cl.termInDays
  /\ cl.balance = 0 => cl.nextDueTime = 0
  /\ cl.balance > 0 => InOrder(secondsPerPeriod(cl), cl.nextDueTime, cl.termEndTime,
                               cl.lastFullPaymentTime, now)

TimesInOrder == LoanInOrder(creditLine, time) /\ creditLine.interestAccruedAsOf <= time

\* No assessment, payment, drawdown, liquidation or waiting puts the times of a
\* loan out of order, whether it is late, partly paid or past its term: only an
\* admin who migrates it to another payment period, or to a term shorter than
\* that, can (migrateCreditLine takes any terms and leaves the times alone).
OnlyNewTermsDisorderTimes ==
  [][TimesInOrder /\ ~ TimesInOrder'
     => \/ creditLine'.paymentPeriodInDays # creditLine.paymentPeriodInDays
        \/ creditLine'.paymentPeriodInDays > creditLine'.termInDays]_vars

\* While a pool has one slice and the times of its loan are in order, a borrower
\* who owes something can pay and anybody can have the loan assessed, unless the
\* principal falls due twice: no checked subtraction, no division by zero and no
\* missing balance is in the way (assess and pay of JuniorPool, with all they
\* call).  With several slices, what rounds when they share a payment lets one
\* draw down more than its deposits.
PaymentsAreAccepted ==
  /\ Len(poolSlices) = 1
  /\ ~ paused /\ locked /\ EverySliceIsFunded
  /\ creditLine.balance > 0 /\ TimesInOrder
  /\ creditLine.principalOwed + principalFallingDue <= creditLine.balance
  => \A amount \in Payments \cup {0} : accepted(outcomeOf(creditLineUsdc + amount, liquidated))

\* Whoever has paid all the interest due is not late, up to the end of the term:
\* lastFullPaymentTime follows the due times through assessments that skip
\* periods (CreditLine.assess and updateCreditLineAccounting).
PaidUpIsNotLate ==
  [][PaymentStep /\ creditLine'.interestOwed = 0 /\ time <= creditLine.termEndTime
     => ~ _isLate(creditLine', time)]_vars

\* No time is charged twice: while the borrower owes something, interestAccruedAsOf
\* never goes back, although assessments are made for due times that have passed,
\* before a drawdown or a migration after which interest accrued
\* (updateAndGetInterestAndPrincipalOwedAsOf).
InterestIsChargedOnce ==
  [][creditLine.balance > 0
     => creditLine'.interestAccruedAsOf >= creditLine.interestAccruedAsOf]_vars

\* Once a tranche is locked its deposits stay as they are, and once the pool is
\* locked neither lock is extended, through all later deposits, withdrawals and
\* slices (_lockPool: otherwise withdrawals could be put off for ever).
LockedTranchesAreFrozen ==
  [][\A i \in DOMAIN poolSlices, name \in TrancheNames :
       /\ poolSlices[i][name].lockedUntil > 0
          => poolSlices'[i][name].principalDeposited = poolSlices[i][name].principalDeposited
       /\ poolSlices[i].senior.lockedUntil > 0
          => poolSlices'[i][name].lockedUntil = poolSlices[i][name].lockedUntil]_vars

----------------------------------------------------------------------------
(* What comments of the code say, and the code does not keep. *)

InTranche(token, s, name) == token.slice = s /\ token.tranche = name

\* The interest share price is a part of the tranche's deposits, so the tokens
\* of a tranche claim no more interest than the tranche was given
\* (redeemableInterestAndPrincipal, JuniorPool.sol:551-552).  A withdrawal before
\* the lock lowers the deposits and leaves the principalAmount of its token.
InterestIsSharedByDeposits ==
  \A s \in DOMAIN poolSlices, name \in TrancheNames :
    OverTokens(LAMBDA token : IF InTranche(token, s, name)
                 THEN sharePriceToUsdc(TrancheOf(token).interestSharePrice, token.principalAmount)
                 ELSE 0)
      <= sharePriceToUsdc(poolSlices[s][name].interestSharePrice,
                          poolSlices[s][name].principalDeposited)

\* Beyond the drawdown period, any unused capital is available to withdraw by all
\* depositors (lockPool, JuniorPool.sol:310-311), here of a pool from which nobody
\* withdrew before the lock.  A later drawdown spends what others have redeemed.
UnusedCapitalIsAvailable ==
  OverTokens(LAMBDA token : token.principalAmount) = OverSlices(TotalDeposited)
  => \A k \in DOMAIN tokens :
       TrancheOf(tokens[k]).lockedUntil \in 1..(time - 1)
       => principalRedeemable(tokens[k]) \in 0..usdc

\* All the interest that accrues is split across the slices (_assess,
\* JuniorPool.sol:727-729).  What accrues in a drawdown is not.
InterestIsSplit ==
  Len(poolSlices) = 1 => poolSlices[1].totalInterestAccrued >= creditLine.totalInterestAccrued

\* A loan is assessed for the due time that has passed last (CreditLine.assess,
\* CreditLine.sol:206-208).  Before the end of a term that is no multiple of the
\* period, it is a time in between.
AssessedAtDueTime ==
  [][PaymentStep /\ creditLine'.interestAccruedAsOf # creditLine.interestAccruedAsOf
     => \/ creditLine'.interestAccruedAsOf = creditLine.termEndTime
        \/ (creditLine'.interestAccruedAsOf - _termStartTime(creditLine))
             % secondsPerPeriod(creditLine) = 0]_vars
=============================================================================
