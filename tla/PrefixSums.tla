---------------------------- MODULE PrefixSums ----------------------------
(***************************************************************************)
(* Running totals of a finite list of natural numbers.  The contracts keep *)
(* such totals in loops (a queue drained from its head, balances summed    *)
(* over accounts); the specifications need them as values.                 *)
(*                                                                         *)
(* The sum is a recursive function, not a RECURSIVE operator, so that      *)
(* PrefixSumsProofs.tla can reason about it.                               *)
(***************************************************************************)
EXTENDS Naturals

(* PrefixSum(f)[n] = f[1] + ... + f[n], where an index outside DOMAIN f    *)
(* counts for zero.                                                        *)
PrefixSum(f) ==
  LET sum[n \in Nat] ==
        IF n = 0 THEN 0 ELSE sum[n - 1] + (IF n \in DOMAIN f THEN f[n] ELSE 0)
  IN  sum
===========================================================================
