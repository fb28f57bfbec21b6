----------------------------- MODULE FixedPoint -----------------------------
(***************************************************************************)
(* The unsigned fixed point numbers that the loan contracts calculate with *)
(* (src/contracts/external/FixedPoint.sol), as their raw values: the       *)
(* number x is kept as x * FP_SCALING_FACTOR.  All divisions round down.   *)
(***************************************************************************)
EXTENDS Integers

CONSTANT FP_SCALING_FACTOR

ASSUME ScalingAssumption == FP_SCALING_FACTOR \in Nat \ {0}

fromUnscaledUint(a) == a * FP_SCALING_FACTOR

\* Quotient of two fixed point numbers.
fpDiv(a, b) == (a * FP_SCALING_FACTOR) \div b
=============================================================================
