----------------------------- MODULE CreditLine -----------------------------
(***************************************************************************)
(* The credit line of a junior pool                                        *)
(* (src/contracts/protocol/core/CreditLine.sol): the terms of a loan and   *)
(* its accounting.  Only its pool calls it, inside the pool's own          *)
(* transactions, so its state is a record and its functions are operators  *)
(* that give the record they leave behind; JuniorPool.tla holds the record *)
(* in a variable and takes the steps.  now is the block's timestamp.       *)
(***************************************************************************)
EXTENDS Accountant

CONSTANT LATENESS_GRACE_PERIOD_IN_DAYS   \* NAOSConfig.getLatenessGracePeriodInDays

ASSUME GraceAssumption == LATENESS_GRACE_PERIOD_IN_DAYS \in Nat

\* The terms an admin chooses for a loan.
LoanTerms ==
  [maxLimit : Nat, interestApr : Nat, paymentPeriodInDays : Nat \ {0}, termInDays : Nat \ {0},
   lateFeeApr : Nat, principalGracePeriodInDays : Nat]

CreditLineState ==
  [maxLimit : Nat, interestApr : Nat, paymentPeriodInDays : Nat \ {0}, termInDays : Nat \ {0},
   lateFeeApr : Nat, principalGracePeriodInDays : Nat,
   currentLimit : Nat, balance : Nat, interestOwed : Nat, principalOwed : Nat,
   termEndTime : Nat, nextDueTime : Nat, interestAccruedAsOf : Nat,
   lastFullPaymentTime : Nat, totalInterestAccrued : Nat]

NewCreditLine(terms, now) ==
  [maxLimit |-> terms.maxLimit, interestApr |-> terms.interestApr,
   paymentPeriodInDays |-> terms.paymentPeriodInDays, termInDays |-> terms.termInDays,
   lateFeeApr |-> terms.lateFeeApr,
   principalGracePeriodInDays |-> terms.principalGracePeriodInDays,
   currentLimit |-> 0, balance |-> 0, interestOwed |-> 0, principalOwed |-> 0,
   termEndTime |-> 0, nextDueTime |-> 0, interestAccruedAsOf |-> now,
   lastFullPaymentTime |-> 0, totalInterestAccrued |-> 0]

secondsPerPeriod(cl) == cl.paymentPeriodInDays * SECONDS_PER_DAY
termInSeconds(cl) == cl.termInDays * SECONDS_PER_DAY

----------------------------------------------------------------------------
(* Time. *)

\* The checked subtraction in _isLate.
LatenessIsDefined(cl, now) == cl.lastFullPaymentTime <= now

_isLate(cl, now) ==
  cl.balance > 0 /\ now - cl.lastFullPaymentTime > secondsPerPeriod(cl)

\* The checked subtraction in _termStartTime is a conjunct of its caller.
_termStartTime(cl) == cl.termEndTime - termInSeconds(cl)

withinPrincipalGracePeriod(cl, now) ==
  \/ cl.termEndTime = 0
  \/ /\ _termStartTime(cl) >= 0
     /\ now < _termStartTime(cl) + cl.principalGracePeriodInDays * SECONDS_PER_DAY

\* The first due time is a period after the drawdown; a due time that has
\* passed moves on by whole periods, never past the end of the term.  (The code
\* reverts without a balance and a due time; no caller gets there.)
calculateNextDueTime(cl, now) ==
  CASE cl.balance = 0 -> 0
    [] cl.balance > 0 /\ cl.nextDueTime = 0 -> now + secondsPerPeriod(cl)
    [] cl.balance > 0 /\ cl.nextDueTime # 0 /\ now < cl.nextDueTime -> cl.nextDueTime
    [] OTHER -> AtMostOf(cl.nextDueTime
                  + ((now - cl.nextDueTime) \div secondsPerPeriod(cl) + 1) * secondsPerPeriod(cl),
                  cl.termEndTime)

----------------------------------------------------------------------------
(* The two functions that change the accounting. *)

\* The checked subtraction in Accountant.lateFeeApplicable.
AccrualIsDefined(cl, timestamp, liquidated) ==
  liquidated # "Processing" => cl.lastFullPaymentTime <= timestamp

\* Faulty variant: interestAccruedAsOf moved, possibly back, without interest.
withAccrualAlways(cl, timestamp, interest, principal) ==
  [cl EXCEPT !.interestAccruedAsOf = timestamp, !.totalInterestAccrued = @ + interest,
             !.interestOwed = @ + interest, !.principalOwed = @ + principal]

\* The line once interest and principal fell due.
withAccrual(cl, timestamp, interest, principal) ==
  [cl EXCEPT !.interestAccruedAsOf = IF interest > 0 THEN timestamp ELSE @,
             !.totalInterestAccrued = @ + interest,
             !.interestOwed = @ + interest, !.principalOwed = @ + principal]

\* updateAndGetInterestAndPrincipalOwedAsOf; the amounts owed are stored by
\* updateCreditLineAccounting.
updateOwedAsOf(cl, timestamp, liquidated) ==
  withAccrual(cl, timestamp,
    calculateInterestAccrued(cl, timestamp, LATENESS_GRACE_PERIOD_IN_DAYS, liquidated),
    calculatePrincipalAccrued(cl, timestamp, liquidated))

\* Faulty variant: the due time ahead taken for the last one.
mostRecentLastDueTimeAhead(cl, now) == cl.nextDueTime

\* Faulty variant: what is paid at the end of the term leaves no trace.
mostRecentLastDueTimeBeforeDue(cl, now) ==
  IF now < cl.nextDueTime THEN cl.nextDueTime - secondsPerPeriod(cl) ELSE cl.lastFullPaymentTime

mostRecentLastDueTime(cl, now) ==
  IF now < cl.nextDueTime THEN cl.nextDueTime - secondsPerPeriod(cl) ELSE cl.nextDueTime

\* cl has its new balance and debts.  Interest that is paid off counts as paid
\* at the most recent due time.
updateCreditLineAccounting(cl, now) ==
  [cl EXCEPT
     !.lastFullPaymentTime = IF cl.interestOwed = 0 /\ cl.nextDueTime # 0
                             THEN mostRecentLastDueTime(cl, now) ELSE @,
     !.nextDueTime = calculateNextDueTime(cl, now)]

\* A drawdown of a line without balance starts a new loan.
started(cl, now) ==
  IF cl.balance > 0 THEN cl
  ELSE [cl EXCEPT !.interestAccruedAsOf = now, !.lastFullPaymentTime = now,
                  !.totalInterestAccrued = 0, !.termEndTime = now + termInSeconds(cl)]

drawnDown(cl, amount, now) ==
  LET owed == updateOwedAsOf(started(cl, now), now, "NotInProcess")
  IN  updateCreditLineAccounting([owed EXCEPT !.balance = @ + amount], now)

canDrawdown(cl, amount, now) ==
  LET line == drawnDown(cl, amount, now)
  IN  /\ amount > 0
      /\ amount + cl.balance <= cl.currentLimit
      /\ AccrualIsDefined(started(cl, now), now, "NotInProcess")
      /\ line.lastFullPaymentTime >= 0
      /\ LatenessIsDefined(line, now)
      /\ ~ _isLate(line, now)

\* The line after a payment that was allocated as pa says.
paidOff(owed, pa, now) ==
  updateCreditLineAccounting(
    [owed EXCEPT !.balance       = @ - pa.principalPayment - pa.additionalBalancePayment,
                 !.interestOwed  = @ - pa.interestPayment,
                 !.principalOwed = @ - pa.principalPayment], now)

\* What an assessment reports, and whether its checked subtractions succeed.
\* What is left of the payment is not due.
outcomeOfPayment(line, pa, paymentAmount, defined) ==
  [line      |-> line,
   interest  |-> pa.interestPayment,
   principal |-> pa.principalPayment + pa.additionalBalancePayment,
   remaining |-> paymentAmount - pa.interestPayment - pa.principalPayment
                   - pa.additionalBalancePayment,
   defined   |-> defined /\ line.lastFullPaymentTime >= 0]

handlePayment(cl, paymentAmount, timestamp, now, liquidated) ==
  LET owed == updateOwedAsOf(cl, timestamp, liquidated)
      pa   == allocatePayment(paymentAmount, cl.balance, owed.interestOwed, owed.principalOwed,
                              liquidated)
  IN  outcomeOfPayment(paidOff(owed, pa, now), pa, paymentAmount,
        /\ timestamp >= 0
        /\ AccrualIsDefined(cl, timestamp, liquidated)
        /\ pa.principalPayment <= cl.balance)

notAssessedEarly(cl, now) == now < cl.nextDueTime /\ ~ _isLate(cl, now)

\* Faulty variant: a period back from the end of the term, too.
timeToAssessBeforeEnd(cl, now) == calculateNextDueTime(cl, now) - secondsPerPeriod(cl)

\* The most recent due time: the next one if it has passed, the one a period
\* before it otherwise.
timeToAssess(cl, now) ==
  LET next == calculateNextDueTime(cl, now)
  IN  IF next > now THEN next - secondsPerPeriod(cl) ELSE next

\* The outcome of assess with an amount of USDC in the credit line.
assess(cl, usdcBalance, now, liquidated) ==
  IF notAssessedEarly(cl, now)
  THEN [line |-> cl, interest |-> 0, principal |-> 0, remaining |-> 0,
        defined |-> cl.balance > 0 /\ LatenessIsDefined(cl, now)]
  ELSE LET outcome == handlePayment([cl EXCEPT !.nextDueTime = calculateNextDueTime(cl, now)],
                                    usdcBalance, timeToAssess(cl, now), now, liquidated)
       IN  [outcome EXCEPT
              !.defined = @ /\ cl.balance > 0
                            /\ (now < cl.nextDueTime => LatenessIsDefined(cl, now))]
=============================================================================
