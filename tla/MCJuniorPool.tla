---------------------------- MODULE MCJuniorPool ----------------------------
(* Instances of JuniorPool for TLC.  A day is one second and a year has four *)
(* days; 100% as an annual rate is 4, so that a balance of 4 accrues one     *)
(* USDC a day at that rate.                                                  *)
EXTENDS JuniorPool

TermsOf(interestApr, period, term, lateFeeApr) ==
  [maxLimit |-> 12, interestApr |-> interestApr, paymentPeriodInDays |-> period,
   termInDays |-> term, lateFeeApr |-> lateFeeApr, principalGracePeriodInDays |-> 2]

MCLoan == {TermsOf(8, 1, 3, 0)}
\* A loan whose amounts exceed what rounding may lose many times.
MCLargeLoan == {[TermsOf(8, 1, 3, 0) EXCEPT !.maxLimit = 120]}
\* Migrations that change the rates, the term and the payment period: to a shorter
\* one, to longer ones, and to one that is longer than the term.
MCMigrations == {TermsOf(4, 2, 4, 0), TermsOf(2, 2, 3, 4), TermsOf(4, 1, 3, 0),
                 TermsOf(2, 3, 4, 4), TermsOf(4, 3, 2, 0)}
=============================================================================
