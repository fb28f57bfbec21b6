--------------------------- MODULE TranchingLogic ---------------------------
(***************************************************************************)
(* The payments waterfall of a junior pool                                 *)
(* (src/contracts/protocol/core/TranchingLogic.sol).                       *)
(*                                                                         *)
(* A pool has one or more slices, each with a senior and a junior tranche. *)
(* A tranche promises its depositors, per deposited USDC, the principal    *)
(* and the interest its two share prices say.  A payment raises the share  *)
(* prices: in every slice the senior tranche comes first, up to what it is *)
(* due, and the junior tranches share what is left.                        *)
(*                                                                         *)
(* The library's functions update tranches in storage and return what is   *)
(* left of the money; here they return the tranche or the slice as well.   *)
(***************************************************************************)
EXTENDS FixedPoint, Sequences, PrefixSums

ONE_HUNDRED == 100

\* TrancheInfo without its id, which follows from its place in the pool.
Tranche ==
  [principalDeposited : Nat, principalSharePrice : Nat, interestSharePrice : Nat,
   lockedUntil : Nat]
PoolSlice ==
  [senior : Tranche, junior : Tranche, totalInterestAccrued : Nat, principalDeployed : Nat]

----------------------------------------------------------------------------
(* Share prices. *)

usdcToSharePrice(amount, totalShares) ==
  IF totalShares = 0 THEN 0 ELSE (amount * FP_SCALING_FACTOR) \div totalShares

sharePriceToUsdc(sharePrice, totalShares) == (sharePrice * totalShares) \div FP_SCALING_FACTOR

scaleByFraction(amount, fraction, total) ==
  (fpDiv(fromUnscaledUint(fraction), fromUnscaledUint(total)) * amount) \div FP_SCALING_FACTOR

TotalDeposited(slice) == slice.junior.principalDeposited + slice.senior.principalDeposited

\* The share price at which the tranche has its part of an amount of the slice.
calculateExpectedSharePrice(tranche, amount, slice) ==
  scaleByFraction(usdcToSharePrice(amount, tranche.principalDeposited),
                  tranche.principalDeposited, TotalDeposited(slice))

scaleForSlice(slice, amount, totalDeployed) ==
  scaleByFraction(amount, slice.principalDeployed, totalDeployed)

\* The principal that should be back in the slice: what was never drawn down,
\* what was repaid early, and what is owed now.
principalAccrued(slice, creditLine, totalDeployed) ==
  TotalDeposited(slice) - slice.principalDeployed
    + scaleForSlice(slice, totalDeployed - creditLine.balance + creditLine.principalOwed,
                    totalDeployed)

----------------------------------------------------------------------------
(* Applying money to a tranche. *)

AtMost(a, b) == IF a < b THEN a ELSE b

\* What it takes to raise the share price to the desired one.
desiredAmountFromSharePrice(desiredSharePrice, actualSharePrice, totalShares) ==
  IF desiredSharePrice < actualSharePrice THEN 0
  ELSE sharePriceToUsdc(desiredSharePrice - actualSharePrice, totalShares)

\* The tranche after the desired amounts of interest and principal, or what
\* there is of them, and what remains of the two.
applyByAmount(tranche, interest, principal, desiredInterest, desiredPrincipal) ==
  LET paidInterest  == AtMost(interest, desiredInterest)
      paidPrincipal == AtMost(principal, desiredPrincipal)
      shares        == tranche.principalDeposited
  IN  [tranche   |-> [tranche EXCEPT
                        !.interestSharePrice  = @ + usdcToSharePrice(paidInterest, shares),
                        !.principalSharePrice = @ + usdcToSharePrice(paidPrincipal, shares)],
       interest  |-> interest - paidInterest,
       principal |-> principal - paidPrincipal]

applyBySharePrice(tranche, interest, principal, desiredInterestPrice, desiredPrincipalPrice) ==
  applyByAmount(tranche, interest, principal,
    desiredAmountFromSharePrice(desiredInterestPrice, tranche.interestSharePrice,
                                tranche.principalDeposited),
    desiredAmountFromSharePrice(desiredPrincipalPrice, tranche.principalSharePrice,
                                tranche.principalDeposited))

\* Faulty variant: the junior fee is left to the senior tranche.
seniorNetInterestSharePriceWithoutFee(slice, juniorFeePercent, reserveFeePercent) ==
  scaleByFraction(calculateExpectedSharePrice(slice.senior, slice.totalInterestAccrued, slice),
                  ONE_HUNDRED - reserveFeePercent, ONE_HUNDRED)

\* The interest the senior tranche is due, per share, after both fees.
seniorNetInterestSharePrice(slice, juniorFeePercent, reserveFeePercent) ==
  scaleByFraction(calculateExpectedSharePrice(slice.senior, slice.totalInterestAccrued, slice),
                  ONE_HUNDRED - (juniorFeePercent + reserveFeePercent), ONE_HUNDRED)

applyToSeniorTranche(slice, interest, principal, juniorFeePercent, reserveFeePercent, accrued) ==
  LET reserve == scaleByFraction(interest, reserveFeePercent, ONE_HUNDRED)
      applied == applyBySharePrice(slice.senior, interest - reserve, principal,
                   seniorNetInterestSharePrice(slice, juniorFeePercent, reserveFeePercent),
                   calculateExpectedSharePrice(slice.senior, accrued, slice))
  IN  [slice     |-> [slice EXCEPT !.senior = applied.tranche],
       interest  |-> applied.interest,
       principal |-> applied.principal,
       reserve   |-> reserve]

\* All the interest goes to the junior tranche, the principal up to its due;
\* the rest of the principal is extra interest, on which the reserve takes its
\* fee.
applyToJuniorTranche(slice, interest, principal, reserveFeePercent, accrued) ==
  LET interestPrice == slice.junior.interestSharePrice
                         + usdcToSharePrice(interest, slice.junior.principalDeposited)
      applied == applyBySharePrice(slice.junior, interest, principal, interestPrice,
                   calculateExpectedSharePrice(slice.junior, accrued, slice))
      reserve == scaleByFraction(applied.principal, reserveFeePercent, ONE_HUNDRED)
      extra   == applied.interest + applied.principal - reserve
  IN  [slice     |-> [slice EXCEPT
                        !.junior = applyByAmount(applied.tranche, extra, 0, extra, 0).tranche],
       interest  |-> 0,
       principal |-> 0,
       reserve   |-> reserve]

----------------------------------------------------------------------------
(* Applying money to all the slices, which share it by deployed principal. *)

Total(amounts) == PrefixSum(amounts)[Len(amounts)]

\* The slices after money was applied to each of them, what is left of it, and
\* what goes to the reserve.
gathered(applied, reserve) ==
  [slices    |-> [i \in DOMAIN applied |-> applied[i].slice],
   interest  |-> Total([i \in DOMAIN applied |-> applied[i].interest]),
   principal |-> Total([i \in DOMAIN applied |-> applied[i].principal]),
   reserve   |-> reserve + Total([i \in DOMAIN applied |-> applied[i].reserve])]

applyToAllSeniorTranches(slices, interest, principal, reserveFee, deployed, creditLine, juniorFee) ==
  gathered([i \in DOMAIN slices |->
              applyToSeniorTranche(slices[i],
                scaleForSlice(slices[i], interest, deployed),
                scaleForSlice(slices[i], principal, deployed),
                juniorFee, reserveFee, principalAccrued(slices[i], creditLine, deployed))], 0)

\* left is what the senior tranches left.
applyToAllJuniorTranches(left, reserveFee, deployed, creditLine) ==
  gathered([i \in DOMAIN left.slices |->
              applyToJuniorTranche(left.slices[i],
                scaleForSlice(left.slices[i], left.interest, deployed),
                scaleForSlice(left.slices[i], left.principal, deployed),
                reserveFee, principalAccrued(left.slices[i], creditLine, deployed))],
           left.reserve)
=============================================================================
