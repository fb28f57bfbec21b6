----------------------------- MODULE Accountant -----------------------------
(***************************************************************************)
(* Interest, principal and lateness of a credit line                       *)
(* (src/contracts/protocol/core/Accountant.sol).  cl is the record of a    *)
(* credit line (CreditLine.tla), timestamps are in seconds.                *)
(***************************************************************************)
EXTENDS FixedPoint

CONSTANTS
  INTEREST_DECIMALS,   \* 100% as an annual percentage rate
  SECONDS_PER_DAY,
  DAYS_PER_YEAR        \* 365 in the code

ASSUME CalendarAssumption ==
  /\ INTEREST_DECIMALS \in Nat \ {0}
  /\ SECONDS_PER_DAY \in Nat \ {0}
  /\ DAYS_PER_YEAR \in Nat \ {0}

\* IJuniorPool.LiquidationProcess
LiquidationProcess == {"NotInProcess", "Starting", "Processing"}

SECONDS_PER_YEAR == SECONDS_PER_DAY * DAYS_PER_YEAR

AtMostOf(a, b) == IF a < b THEN a ELSE b

----------------------------------------------------------------------------
(* Accrual. *)

lateFeeApplicable(cl, timestamp, gracePeriodInDays) ==
  /\ cl.lateFeeApr > 0
  /\ timestamp - cl.lastFullPaymentTime > gracePeriodInDays * SECONDS_PER_DAY

InterestAtRate(balance, apr, seconds) ==
  (((balance * apr) \div INTEREST_DECIMALS) * seconds) \div SECONDS_PER_YEAR

calculateInterestAccruedOverPeriod(cl, startTime, endTime, gracePeriodInDays) ==
  InterestAtRate(cl.balance, cl.interestApr, endTime - startTime)
    + IF lateFeeApplicable(cl, endTime, gracePeriodInDays)
      THEN InterestAtRate(cl.balance, cl.lateFeeApr, endTime - startTime) ELSE 0

\* A timestamp before interestAccruedAsOf accrues nothing.
calculateInterestAccrued(cl, timestamp, gracePeriodInDays, liquidated) ==
  IF liquidated = "Processing" THEN 0
  ELSE calculateInterestAccruedOverPeriod(cl, AtMostOf(timestamp, cl.interestAccruedAsOf),
                                          timestamp, gracePeriodInDays)

\* All of the balance falls due when the term ends or the liquidation starts.
calculatePrincipalAccrued(cl, timestamp, liquidated) ==
  IF /\ cl.interestAccruedAsOf < cl.termEndTime
     /\ liquidated # "Processing"
     /\ timestamp >= cl.termEndTime \/ liquidated = "Starting"
  THEN cl.balance ELSE 0

----------------------------------------------------------------------------
(* Payments and lateness. *)

\* Faulty variant: what is left goes to the balance, whatever the balance.
allocatePaymentUnbounded(paymentAmount, balance, interestOwed, principalOwed, liquidated) ==
  LET interest  == AtMostOf(interestOwed, paymentAmount)
      principal == AtMostOf(principalOwed, paymentAmount - interest)
  IN  [interestPayment          |-> interest,
       principalPayment         |-> principal,
       additionalBalancePayment |-> paymentAmount - interest - principal]

\* Interest first, principal next; the other way round in a liquidation.  What
\* is left after both goes to the balance that is not yet owed.
allocatePayment(paymentAmount, balance, interestOwed, principalOwed, liquidated) ==
  LET interestFirst == liquidated = "NotInProcess"
      interest  == AtMostOf(interestOwed,
                     IF interestFirst THEN paymentAmount
                     ELSE paymentAmount - AtMostOf(principalOwed, paymentAmount))
      principal == AtMostOf(principalOwed,
                     IF interestFirst THEN paymentAmount - interest ELSE paymentAmount)
  IN  [interestPayment          |-> interest,
       principalPayment         |-> principal,
       additionalBalancePayment |-> AtMostOf(paymentAmount - interest - principal,
                                             balance - principal)]

\* Raw fixed point value.
calculateAmountOwedForOneDay(cl) ==
  fromUnscaledUint((cl.balance * cl.interestApr) \div INTEREST_DECIMALS) \div DAYS_PER_YEAR

\* The days of interest that are owed, and the days since the term ended.
daysLate(cl, timestamp) ==
  fpDiv(fromUnscaledUint(cl.interestOwed), calculateAmountOwedForOneDay(cl))
    + IF timestamp > cl.termEndTime /\ cl.interestOwed + cl.principalOwed > 0
      THEN fromUnscaledUint(timestamp - cl.termEndTime) \div SECONDS_PER_DAY ELSE 0

\* A loan later than maxDaysLate is written down completely.
calculateWritedownForPrincipal(cl, principal, timestamp, maxDaysLate) ==
  IF calculateAmountOwedForOneDay(cl) = 0 THEN 0
  ELSE IF daysLate(cl, timestamp) <= fromUnscaledUint(maxDaysLate) THEN 0 ELSE principal
=============================================================================
