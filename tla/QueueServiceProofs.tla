------------------------ MODULE QueueServiceProofs ------------------------
(***************************************************************************)
(* How the queue serves, for any share price, cash, number of entries and  *)
(* fee tiers: first come first served, at the share price, without a       *)
(* reverting subtraction, and with fees that fall with the stake; and that *)
(* its accounts balance: the USDC in custody is what the users may claim,  *)
(* and the entries' history explains it together with what was claimed.    *)
(*                                                                         *)
(* The contracts convert RWA to USDC by three formulas that divide at      *)
(* different places.  They agree because one mantissa divides the other:   *)
(* each is the same fraction of the amount, rounded down once (IsWorth).   *)
(* Sums of such roundings are then compared with the rounding of the sum.  *)
(* The loop pays entries while the records are kept per user, so the same  *)
(* payments are added up in both orders.                                   *)
(***************************************************************************)
EXTENDS WithdrawQueueProofs

----------------------------------------------------------------------------
(* The conversions of the contracts.                                       *)

Unit == (indexMantissa \div usdcMantissa) * indexMantissa

\* x is what r RWA are worth in USDC, rounded down once.
IsWorth(x, r) == IsFloor(x, r * indexPool.sharePrice, Unit)

\* One mantissa divides the other.
LEMMA Mantissas ==
  /\ usdcMantissa \in Nat \ {0} /\ indexMantissa \in Nat \ {0} /\ Unit \in Nat \ {0}
  /\ indexMantissa \div usdcMantissa \in Nat \ {0}
  /\ indexMantissa = (indexMantissa \div usdcMantissa) * usdcMantissa
  /\ Unit * usdcMantissa = indexMantissa * indexMantissa
<1> DEFINE k == indexMantissa \div usdcMantissa
<1>1. usdcMantissa \in Nat \ {0} /\ indexMantissa \in Nat \ {0}
      /\ indexMantissa % usdcMantissa = 0
  BY MantissaAssumption
<1>2. k \in Nat /\ indexMantissa = k * usdcMantissa
  BY <1>1
<1> HIDE DEF k
<1>3. k # 0
  BY <1>1, <1>2
<1>4. k * indexMantissa \in Nat /\ k * indexMantissa # 0
  BY <1>1, <1>2, <1>3
<1>5. (k * indexMantissa) * usdcMantissa = indexMantissa * (k * usdcMantissa)
  BY <1>1, <1>2
<1> QED
  BY <1>1, <1>2, <1>3, <1>4, <1>5 DEF Unit, k

\* What an entry served in full is paid.
LEMMA DistributedIsWorth ==
  ASSUME indexPool \in IndexPoolState, NEW r \in Nat
  PROVE  IsWorth(DistributedUSDC(r), r)
<1> DEFINE price == indexPool.sharePrice
           a == r * usdcMantissa * price
           x == a \div indexMantissa
           y == x \div indexMantissa
<1>1. price \in Nat /\ r * price \in Nat
  BY TimesType DEF IndexPoolState
<1> HIDE DEF price
<1>2. a \in Nat /\ a = (r * price) * usdcMantissa
  BY <1>1, Mantissas, TimesType
<1> HIDE DEF a
<1>3. IsFloor(x, a, indexMantissa)
  BY <1>2, Mantissas, QuotientIsFloor
<1>4. x \in Nat
  BY <1>3 DEF IsFloor
<1> HIDE DEF x
<1>5. IsFloor(y, x, indexMantissa)
  BY <1>4, Mantissas, QuotientIsFloor
<1> HIDE DEF y
<1>6. IsFloor(y, a, indexMantissa * indexMantissa)
  BY <1>2, <1>3, <1>5, Mantissas, FloorOfFloor
<1>7. IsFloor(y, (r * price) * usdcMantissa, Unit * usdcMantissa)
  BY <1>2, <1>6, Mantissas
<1>8. IsFloor(y, r * price, Unit)
  BY <1>1, <1>7, Mantissas, FloorReduced
<1> QED
  BY <1>8 DEF IsWorth, DistributedUSDC, y, x, a, price

\* What the index pool pays for the burnt RWA.
LEMMA WithdrawnIsWorth ==
  ASSUME indexPool \in IndexPoolState, NEW r \in Nat
  PROVE  IsWorth(GetUSDCAmountFromShares(r), r)
<1> DEFINE price == indexPool.sharePrice
           k == indexMantissa \div usdcMantissa
           a == r * price
           x == a \div indexMantissa
           y == (x * usdcMantissa) \div indexMantissa
<1>1. price \in Nat /\ a \in Nat
  BY TimesType DEF IndexPoolState
<1> HIDE DEF price, a
<1>2. IsFloor(x, a, indexMantissa)
  BY <1>1, Mantissas, QuotientIsFloor
<1>3. x \in Nat
  BY <1>2 DEF IsFloor
<1> HIDE DEF x
<1>4. x * usdcMantissa \in Nat
  BY <1>3, Mantissas, TimesType
<1>5. IsFloor(y, x * usdcMantissa, indexMantissa)
  BY <1>4, Mantissas, QuotientIsFloor
<1>6. k \in Nat \ {0} /\ indexMantissa = k * usdcMantissa
  BY Mantissas
<1> HIDE DEF y, k
<1>7. IsFloor(y, x, k)
  BY <1>3, <1>5, <1>6, Mantissas, FloorReduced
<1>8. IsFloor(y, a, k * indexMantissa)
  BY <1>1, <1>2, <1>6, <1>7, Mantissas, FloorOfFloor
<1> QED
  BY <1>8 DEF IsWorth, GetUSDCAmountFromShares, Unit, y, x, a, k, price

\* The share price of PaidAtSharePrice.
LEMMA WorthIsWorth ==
  ASSUME indexPool \in IndexPoolState, NEW r \in Nat
  PROVE  IsWorth((r * indexPool.sharePrice * usdcMantissa) \div (indexMantissa * indexMantissa), r)
<1> DEFINE price == indexPool.sharePrice
           x == (r * price * usdcMantissa) \div (indexMantissa * indexMantissa)
<1>1. price \in Nat /\ r * price \in Nat
  BY TimesType DEF IndexPoolState
<1> HIDE DEF price
<1>2. r * price * usdcMantissa \in Nat /\ indexMantissa * indexMantissa \in Nat \ {0}
  BY <1>1, Mantissas, TimesType
<1>3. IsFloor(x, r * price * usdcMantissa, indexMantissa * indexMantissa)
  BY <1>2, QuotientIsFloor
<1>4. IsFloor(x, (r * price) * usdcMantissa, Unit * usdcMantissa)
  BY <1>3, Mantissas
<1> HIDE DEF x
<1>5. IsFloor(x, r * price, Unit)
  BY <1>1, <1>4, Mantissas, FloorReduced
<1> QED
  BY <1>5 DEF IsWorth, x, price

\* The index pool can pay for what the queue asks it to burn.
LEMMA BurntIsAffordable ==
  ASSUME indexPool \in IndexPoolState, NEW total \in Nat
  PROVE  GetUSDCAmountFromShares(WithdrawIndexAmount(total)) <= indexPool.usdc + indexPool.vault
<1> DEFINE price == indexPool.sharePrice
           cash == indexPool.usdc + indexPool.vault
           X == (cash * indexMantissa) \div usdcMantissa
           F == (X * indexMantissa) \div price
           r == WithdrawIndexAmount(total)
           y == (r * price) \div indexMantissa
           z == (y * usdcMantissa) \div indexMantissa
<1>1. price \in Nat \ {0} /\ cash \in Nat
  BY DEF IndexPoolState
<1>2. r \in Nat
  BY WithdrawIndexAmountType
<1>3. GetNumShares(cash) = F
  BY DEF GetNumShares
<1>4. GetNumShares(cash) \in Nat
  BY <1>1, ConversionType
<1>5. r <= F
  BY <1>3, <1>4 DEF WithdrawIndexAmount
<1> HIDE DEF price, cash, r
<1>6. cash * indexMantissa \in Nat
  BY <1>1, Mantissas, TimesType
<1>7. IsFloor(X, cash * indexMantissa, usdcMantissa)
  BY <1>6, Mantissas, QuotientIsFloor
<1>8. X \in Nat
  BY <1>7 DEF IsFloor
<1> HIDE DEF X
<1>9. X * indexMantissa \in Nat
  BY <1>8, Mantissas, TimesType
<1>10. IsFloor(F, X * indexMantissa, price)
  BY <1>1, <1>9, QuotientIsFloor
<1>11. F \in Nat
  BY <1>10 DEF IsFloor
<1> HIDE DEF F
<1>12. r * price \in Nat /\ F * price \in Nat
  BY <1>1, <1>2, <1>11, TimesType
<1>13. r * price <= X * indexMantissa
  <2>1. r * price <= F * price
    BY <1>1, <1>2, <1>5, <1>11, TimesMonotone
  <2> QED
    BY <1>9, <1>10, <1>12, <2>1 DEF IsFloor
<1>14. IsFloor(y, r * price, indexMantissa)
  BY <1>12, Mantissas, QuotientIsFloor
<1>15. y \in Nat
  BY <1>14 DEF IsFloor
<1> HIDE DEF y
<1>16. y * indexMantissa \in Nat /\ y * usdcMantissa \in Nat /\ X * usdcMantissa \in Nat
  BY <1>8, <1>15, Mantissas, TimesType
<1>17. y <= X
  <2>1. y * indexMantissa <= X * indexMantissa
    BY <1>9, <1>12, <1>13, <1>14, <1>16 DEF IsFloor
  <2> QED
    BY <1>8, <1>15, <2>1, Mantissas, TimesCancelLe
<1>18. IsFloor(z, y * usdcMantissa, indexMantissa)
  BY <1>16, Mantissas, QuotientIsFloor
<1>19. z \in Nat
  BY <1>18 DEF IsFloor
<1> HIDE DEF z
<1>20. z * indexMantissa \in Nat
  BY <1>19, Mantissas, TimesType
<1>21. z * indexMantissa <= cash * indexMantissa
  <2>1. y * usdcMantissa <= X * usdcMantissa
    BY <1>8, <1>15, <1>17, Mantissas, TimesMonotone
  <2> QED
    BY <1>6, <1>7, <1>16, <1>18, <1>20, <2>1 DEF IsFloor
<1>22. z <= cash
  BY <1>1, <1>19, <1>21, Mantissas, TimesCancelLe
<1> QED
  BY <1>22 DEF GetUSDCAmountFromShares, z, y, r, cash, price

----------------------------------------------------------------------------
(* The loop pays the share price.                                          *)

Full(q, amount) ==
  [i \in DOMAIN q |-> IF i > queueIndex /\ i < LastServed(q, amount)
                      THEN DistributedUSDC(q[i].remainingAmount) ELSE 0]

\* The USDC of the entries that are served in full, before the last one.
LEMMA FullService ==
  ASSUME indexPool \in IndexPoolState,
         NEW q, NEW data, NEW total, NEW held, QueueReady(q, data, total, held),
         NEW amount \in 1..total
  PROVE  LET last == LastServed(q, amount)
             distributed == DistributedUpTo(q, amount)[last - 1]
             waited == WaitingUpTo(q)[last - 1]
         IN  /\ last \in (queueIndex + 1)..Len(q) /\ last \in 1..Len(q) /\ last - 1 \in Nat
             /\ distributed \in Nat /\ waited \in Nat /\ waited < amount
             /\ DistributedUpTo(q, amount)[Len(q)] = distributed
             /\ distributed * Unit <= waited * indexPool.sharePrice
             /\ waited * indexPool.sharePrice <= distributed * Unit + (last - 1) * Unit
<1> DEFINE last == LastServed(q, amount)
           price == indexPool.sharePrice
           f == Full(q, amount)
           g == Waiting(q)
<1>1. q \in Seq(WithdrawData) /\ DOMAIN q = 1..Len(q) /\ queueIndex \in 0..Len(q)
      /\ Len(q) \in Nat
      /\ \A i \in 1..Len(q) : i <= queueIndex => q[i].remainingAmount = 0
  BY DEF QueueReady
<1>2. \A i \in 1..Len(q) : q[i].remainingAmount \in Nat
  BY <1>1, EntryType
<1>3. \A i \in 1..Len(q) : DistributedUSDC(q[i].remainingAmount) \in Nat
  BY <1>2, ConversionType
<1>4. NatValued(f)
      /\ \A i \in 1..Len(q) : Summand(f, i) = (IF i > queueIndex /\ i < last
                                  THEN DistributedUSDC(q[i].remainingAmount) ELSE 0)
  BY <1>1, <1>3 DEF NatValued, Summand, Full
<1>5. DistributedUpTo(q, amount) = PrefixSum(f)
  BY DEF DistributedUpTo, Full
<1>6. /\ NatValued(g) /\ WaitingUpTo(q) = PrefixSum(g)
      /\ \A i \in 1..Len(q) : Summand(g, i) = q[i].remainingAmount
  BY WaitingFacts
<1>7. last \in (queueIndex + 1)..Len(q) /\ WaitingUpTo(q)[last - 1] < amount
  BY LoopReturns
<1>8. price \in Nat /\ Unit \in Nat
  BY Mantissas DEF IndexPoolState
<1> HIDE DEF last, f, g
<1>9. last \in 1..Len(q) /\ last - 1 \in Nat /\ last \in Nat
  BY <1>1, <1>7
<1>10. ASSUME NEW k \in 1..(last - 1)
       PROVE  /\ Summand(f, k) * Unit <= Summand(g, k) * price
              /\ Summand(g, k) * price <= Summand(f, k) * Unit + Unit
  <2>1. k \in 1..Len(q) /\ k < last
    BY <1>1, <1>9
  <2>2. CASE k <= queueIndex
    <3>1. Summand(f, k) = 0 /\ Summand(g, k) = 0
      BY <1>1, <1>4, <1>6, <2>1, <2>2
    <3>2. 0 * Unit = 0 /\ 0 * price = 0
      BY <1>8
    <3> QED
      BY <1>8, <3>1, <3>2
  <2>3. CASE k > queueIndex
    <3>1. Summand(f, k) = DistributedUSDC(q[k].remainingAmount)
          /\ Summand(g, k) = q[k].remainingAmount
      BY <1>4, <1>6, <2>1, <2>3
    <3>2. IsFloor(Summand(f, k), Summand(g, k) * price, Unit)
      BY <1>2, <2>1, <3>1, DistributedIsWorth DEF IsWorth
    <3>3. Summand(f, k) * Unit \in Nat /\ Summand(g, k) * price \in Nat
      BY <1>4, <1>6, <1>8, SummandType, TimesType
    <3> HIDE DEF price
    <3> QED
      BY <1>8, <3>2, <3>3 DEF IsFloor
  <2> QED
    BY <1>1, <2>1, <2>2, <2>3
<1> HIDE DEF price
<1>11. /\ PrefixSum(f)[last - 1] * Unit <= PrefixSum(g)[last - 1] * price
       /\ PrefixSum(g)[last - 1] * price <= PrefixSum(f)[last - 1] * Unit + (last - 1) * Unit
  BY <1>4, <1>6, <1>8, <1>9, <1>10, ScaledSums
<1>12. PrefixSum(f)[Len(q)] = PrefixSum(f)[last - 1]
  <2>1. \A k \in ((last - 1) + 1)..Len(q) : Summand(f, k) = 0
    BY <1>1, <1>4, <1>9
  <2>2. last - 1 <= Len(q)
    BY <1>1, <1>9
  <2> DEFINE m == last - 1
  <2>3. m \in Nat /\ m <= Len(q) /\ \A k \in (m + 1)..Len(q) : Summand(f, k) = 0
    BY <1>9, <2>1, <2>2
  <2> HIDE DEF m
  <2>4. PrefixSum(f)[Len(q)] = PrefixSum(f)[m]
    BY <1>1, <1>4, <2>3, PrefixSumZeroTail
  <2> QED
    BY <2>4 DEF m
<1>13. PrefixSum(f)[last - 1] \in Nat /\ PrefixSum(g)[last - 1] \in Nat
  BY <1>4, <1>6, <1>9, PrefixSumStep
<1> QED
  BY <1>5, <1>6, <1>7, <1>9, <1>11, <1>12, <1>13 DEF last, price

\* The checked subtractions of the loop succeed.
LEMMA LoopCanPay ==
  ASSUME indexPool \in IndexPoolState,
         NEW q, NEW data, NEW total, NEW held, QueueReady(q, data, total, held),
         NEW amount \in 1..total
  PROVE  Distributable(q, amount, GetUSDCAmountFromShares(amount))
<1> DEFINE last == LastServed(q, amount)
           S == DistributedUpTo(q, amount)[last - 1]
           W == WaitingUpTo(q)[last - 1]
           price == indexPool.sharePrice
           usd == GetUSDCAmountFromShares(amount)
<1>1. /\ S \in Nat /\ W \in Nat /\ W < amount
      /\ DistributedUpTo(q, amount)[Len(q)] = S
      /\ S * Unit <= W * price
  BY FullService
<1>2. price \in Nat /\ Unit \in Nat \ {0} /\ amount \in Nat
  BY Mantissas DEF IndexPoolState, QueueReady
<1>3. IsFloor(usd, amount * price, Unit)
  BY <1>2, WithdrawnIsWorth DEF IsWorth
<1> HIDE DEF S, W, price, usd
<1>4. W * price <= amount * price /\ S * Unit \in Nat /\ W * price \in Nat /\ amount * price \in Nat
  BY <1>1, <1>2, TimesMonotone, TimesType
<1>5. S * Unit <= amount * price
  BY <1>1, <1>4
<1>6. S <= usd
  BY <1>1, <1>2, <1>3, <1>4, <1>5, FloorBounds
<1> QED
  BY <1>1, <1>6 DEF Distributable, usd

\* The entry at which the loop returns gets what is left: its worth, and what
\* the entries before it lost by rounding.
LEMMA LastIsPaidWorth ==
  ASSUME NEW P \in Nat, NEW U \in Nat \ {0}, NEW S \in Nat, NEW W \in Nat, NEW n \in Nat,
         NEW amount \in Nat, W < amount, S * U <= W * P, W * P <= S * U + n * U,
         NEW usd, IsFloor(usd, amount * P, U),
         NEW x, IsFloor(x, (amount - W) * P, U)
  PROVE  x <= usd - S /\ usd - S <= x + n
<1> DEFINE b == amount - W
<1>1. b \in Nat /\ amount = W + b
  OBVIOUS
<1> HIDE DEF b
<1>2. amount * P = W * P + b * P
  BY <1>1
<1>3. x \in Nat /\ usd \in Nat /\ S + x \in Nat /\ S + x + n \in Nat
  BY DEF IsFloor
<1>4. (S + x) * U = S * U + x * U /\ (S + x + n) * U = S * U + x * U + n * U
  BY <1>3
<1>5. /\ amount * P \in Nat /\ W * P \in Nat /\ b * P \in Nat
      /\ S * U \in Nat /\ x * U \in Nat /\ n * U \in Nat
  BY <1>1, <1>3, TimesType
<1>6. x * U <= b * P /\ b * P < x * U + U
  BY DEF IsFloor, b
<1>7. (S + x) * U <= amount * P
  BY <1>2, <1>4, <1>5, <1>6
<1>8. S + x <= usd
  BY <1>3, <1>5, <1>7, FloorBounds
<1>9. amount * P < (S + x + n) * U + U
  BY <1>2, <1>4, <1>5, <1>6
<1>10. usd <= S + x + n
  <2> DEFINE y == S + x + n
             a == amount * P
  <2>1. y \in Nat /\ a \in Nat /\ a < y * U + U /\ IsFloor(usd, a, U)
    BY <1>3, <1>5, <1>9
  <2> HIDE DEF y, a
  <2>2. usd <= y
    BY <2>1, FloorBounds
  <2> QED
    BY <2>2 DEF y
<1> QED
  BY <1>3, <1>8, <1>10

\* Each entry is paid what the RWA taken from it are worth; only the last one may
\* be paid a little more, and less by what the queue was paid short.
LEMMA PaidIsWorth ==
  ASSUME indexPool \in IndexPoolState,
         NEW q, NEW data, NEW total, NEW held, QueueReady(q, data, total, held),
         NEW amount \in 1..total, NEW usd \in 0..GetUSDCAmountFromShares(amount),
         Distributable(q, amount, usd), NEW i \in 1..Len(q),
         NEW x, IsWorth(x, TakenFrom(q, amount, i))
  PROVE  LET paid == PaidTo(q, amount, usd, i)
             short == GetUSDCAmountFromShares(amount) - usd
         IN  /\ paid \in Nat /\ x \in Nat /\ short \in Nat
             /\ x <= paid + short
             /\ paid <= x + (i - 1)
             /\ i # LastServed(q, amount) => paid = x
<1> DEFINE last == LastServed(q, amount)
           S == DistributedUpTo(q, amount)[last - 1]
           W == WaitingUpTo(q)[last - 1]
           price == indexPool.sharePrice
           asked == GetUSDCAmountFromShares(amount)
           paid == PaidTo(q, amount, usd, i)
<1>1. /\ last \in (queueIndex + 1)..Len(q) /\ last \in 1..Len(q) /\ last - 1 \in Nat
      /\ S \in Nat /\ W \in Nat /\ W < amount
      /\ DistributedUpTo(q, amount)[Len(q)] = S
      /\ S * Unit <= W * price
      /\ W * price <= S * Unit + (last - 1) * Unit
  BY FullService
<1>2. /\ price \in Nat /\ Unit \in Nat \ {0} /\ amount \in Nat
      /\ q \in Seq(WithdrawData) /\ queueIndex \in 0..Len(q) /\ Len(q) \in Nat
  BY Mantissas DEF IndexPoolState, QueueReady
<1>3. IsFloor(asked, amount * price, Unit)
  BY <1>2, WithdrawnIsWorth DEF IsWorth
<1>4. x \in Nat /\ asked \in Nat
  BY <1>3 DEF IsWorth, IsFloor
<1>5. usd \in Nat /\ asked - usd \in Nat /\ S <= usd
  BY <1>1, <1>4 DEF Distributable
<1>6. CASE i <= queueIndex \/ i > last
  <2>1. TakenFrom(q, amount, i) = 0 /\ paid = 0
    BY <1>1, <1>2, <1>6 DEF TakenFrom, PaidTo
  <2>2. IsFloor(x, 0, Unit)
    <3>1. 0 * price = 0
      BY <1>2
    <3> QED
      BY <2>1, <3>1 DEF IsWorth
  <2>3. 0 < 0 * Unit + Unit
    BY <1>2
  <2>4. x <= 0
    BY <1>2, <2>2, <2>3, FloorBounds
  <2> HIDE DEF last, S, W, price, asked, paid
  <2>5. /\ paid \in Nat /\ x <= paid + (asked - usd) /\ paid <= x + (i - 1) /\ paid = x
    BY <1>2, <1>4, <1>5, <2>1, <2>4
  <2> QED
    BY <1>4, <1>5, <2>5 DEF paid, asked
<1>7. CASE i > queueIndex /\ i < last
  <2> DEFINE r == q[i].remainingAmount
  <2>1. TakenFrom(q, amount, i) = r /\ paid = DistributedUSDC(r)
    BY <1>1, <1>2, <1>7 DEF TakenFrom, PaidTo
  <2>2. r \in Nat
    BY <1>2, EntryType
  <2> HIDE DEF r
  <2>3. IsFloor(paid, r * price, Unit) /\ IsFloor(x, r * price, Unit) /\ r * price \in Nat
    BY <1>2, <2>1, <2>2, DistributedIsWorth, TimesType DEF IsWorth
  <2>4. paid \in Nat
    BY <2>3 DEF IsFloor
  <2> HIDE DEF last, S, W, price, asked, paid
  <2>5. paid <= x /\ x <= paid
    BY <1>2, <1>4, <2>3, <2>4, FloorBounds DEF IsFloor
  <2>6. x <= paid + (asked - usd) /\ paid <= x + (i - 1) /\ paid = x
    BY <1>2, <1>4, <1>5, <2>4, <2>5
  <2> QED
    BY <1>4, <1>5, <2>4, <2>6 DEF paid, asked
<1>8. CASE i = last
  <2>1. TakenFrom(q, amount, i) = amount - W /\ paid = usd - S
    BY <1>1, <1>2, <1>8 DEF TakenFrom, PaidTo
  <2>2. IsFloor(x, (amount - W) * price, Unit)
    BY <2>1 DEF IsWorth
  <2> HIDE DEF last, S, W, price, asked, paid
  <2>3. x <= asked - S /\ asked - S <= x + (last - 1)
    BY <1>1, <1>2, <1>3, <2>2, LastIsPaidWorth
  <2>4. paid \in Nat /\ x <= paid + (asked - usd) /\ paid <= x + (i - 1)
    BY <1>1, <1>2, <1>4, <1>5, <1>8, <2>1, <2>3
  <2> QED
    BY <1>4, <1>5, <1>8, <2>4 DEF paid, asked, last
<1> QED
  BY <1>1, <1>2, <1>6, <1>7, <1>8

\* Whatever the cash, the share price and the entries: a call of the queue that
\* the pool pays in full is never stuck by rounding.
THEOREM FullPaymentDistributes == Spec => []FullPaymentIsDistributed
<1>1. ASSUME Inv PROVE FullPaymentIsDistributed
  <2> DEFINE amount == WithdrawIndexAmount(totalRegisteredAmount)
             usd == GetUSDCAmountFromShares(amount)
  <2>1. /\ indexPool \in IndexPoolState /\ totalRegisteredAmount \in Nat
        /\ withdrawQueue \in Seq(WithdrawData) /\ queueIndex \in 0..Len(withdrawQueue)
        /\ QueueReady(withdrawQueue, userWithdrawData, totalRegisteredAmount, rwaHeld)
    BY <1>1 DEF Inv, TypeOK
  <2>2. amount \in 0..totalRegisteredAmount
    BY <2>1, WithdrawIndexAmountType
  <2>3. usd <= indexPool.usdc + indexPool.vault
    BY <2>1, BurntIsAffordable
  <2> HIDE DEF amount
  <2>4. ASSUME amount > 0
        PROVE  Distributable(withdrawQueue, amount, usd)
               /\ LastServed(withdrawQueue, amount) \in DOMAIN withdrawQueue
    <3>1. amount \in 1..totalRegisteredAmount
      BY <2>1, <2>2, <2>4
    <3>2. LastServed(withdrawQueue, amount) \in (queueIndex + 1)..Len(withdrawQueue)
      BY <2>1, <3>1, LoopReturns
    <3>3. Distributable(withdrawQueue, amount, usd)
      BY <2>1, <3>1, LoopCanPay
    <3> QED
      BY <2>1, <3>2, <3>3
  <2> QED
    BY <2>3, <2>4 DEF FullPaymentIsDistributed, amount
<1> QED
  BY <1>1, InvHolds, PTL

----------------------------------------------------------------------------
(* The steps that serve.                                                   *)

\* q is the queue handed to the loop: what was redeemed of an entry and paid to
\* it is as in the queue before the call, and nothing was of a new entry.
SameHistory(q) ==
  /\ Len(q) <= Len(withdrawQueue) + 1
  /\ \A i \in DOMAIN withdrawQueue :
       /\ i \in 1..Len(q)
       /\ Redeemed(q[i]) = Redeemed(withdrawQueue[i])
       /\ q[i].withdrawAmount = withdrawQueue[i].withdrawAmount
  /\ \A i \in (1..Len(q)) \ DOMAIN withdrawQueue :
       Redeemed(q[i]) = 0 /\ q[i].withdrawAmount = 0

\* Only the tail of a call serves entries; it finds the history as it was.
LEMMA StepHandsOver ==
  ASSUME Inv, [Next]_vars
  PROVE  \/ UNCHANGED withdrawQueue
         \/ \E q, data, total, held :
              /\ QueueReady(q, data, total, held)
              /\ SameHistory(q)
              /\ _WithdrawFromIndexPool(q, data, total, held)
<1> DEFINE Goal == \/ UNCHANGED withdrawQueue
                   \/ \E q, data, total, held :
                        /\ QueueReady(q, data, total, held)
                        /\ SameHistory(q)
                        /\ _WithdrawFromIndexPool(q, data, total, held)
<1>1. withdrawQueue \in Seq(WithdrawData) /\ Len(withdrawQueue) \in Nat
      /\ DOMAIN withdrawQueue = 1..Len(withdrawQueue)
      /\ QueueReady(withdrawQueue, userWithdrawData, totalRegisteredAmount, rwaHeld)
  BY DEF Inv, TypeOK
<1>2. ASSUME NEW u \in Accounts, NEW amount \in Amounts, Register(u, amount)
      PROVE  Goal
  <2> DEFINE q == Append(withdrawQueue, NewEntry(u, amount))
             data == [userWithdrawData EXCEPT ![u].listInQueue = TRUE,
                                              ![u].queueIndex = Len(withdrawQueue)]
  <2>1. amount \in Nat /\ amount > 0
    BY <1>2, AmountAssumption DEF Register, WithinCeiling
  <2>2. QueueReady(q, data, totalRegisteredAmount + amount, rwaHeld + amount)
    BY <2>1, RegisterKeepsReady
  <2>3. _WithdrawFromIndexPool(q, data, totalRegisteredAmount + amount, rwaHeld + amount)
    BY <1>2 DEF Register
  <2>4. SameHistory(q)
    <3>1. /\ Len(q) = Len(withdrawQueue) + 1
          /\ \A i \in DOMAIN withdrawQueue : q[i] = withdrawQueue[i]
          /\ q[Len(withdrawQueue) + 1] = NewEntry(u, amount)
      BY <1>1
    <3>2. Redeemed(NewEntry(u, amount)) = 0 /\ NewEntry(u, amount).withdrawAmount = 0
      BY <2>1 DEF Redeemed, NewEntry
    <3> HIDE DEF q
    <3>3. \A i \in (1..Len(q)) \ DOMAIN withdrawQueue : i = Len(withdrawQueue) + 1
      BY <1>1, <3>1
    <3> QED
      BY <1>1, <3>1, <3>2, <3>3 DEF SameHistory
  <2> HIDE DEF q, data
  <2> QED
    BY <2>2, <2>3, <2>4
<1>3. ASSUME NEW u \in Accounts, NEW amount \in 0..InitialRWA, Update(u, amount)
      PROVE  Goal
  <2> DEFINE j == OwnEntry(u)
             q == [withdrawQueue EXCEPT ![j] = CancelFrom(@, amount)]
             data == [userWithdrawData EXCEPT ![u].listInQueue =
                        amount # withdrawQueue[j].remainingAmount]
  <2>1. /\ amount \in Nat /\ userWithdrawData[u].listInQueue
        /\ amount <= withdrawQueue[j].remainingAmount
    BY <1>3, AmountAssumption DEF Update
  <2>2. QueueReady(q, data, totalRegisteredAmount - amount, rwaHeld - amount)
    BY <2>1, UpdateKeepsReady
  <2>3. _WithdrawFromIndexPool(q, data, totalRegisteredAmount - amount, rwaHeld - amount)
    BY <1>3 DEF Update
  <2>4. SameHistory(q)
    <3> HIDE DEF j
    <3>1. Len(q) = Len(withdrawQueue)
      BY <1>1
    <3>2. ASSUME NEW i \in DOMAIN withdrawQueue
          PROVE  /\ Redeemed(q[i]) = Redeemed(withdrawQueue[i])
                 /\ q[i].withdrawAmount = withdrawQueue[i].withdrawAmount
      <4>1. withdrawQueue[i] \in WithdrawData
        BY <1>1
      <4>2. CASE i # j
        BY <4>2
      <4>3. CASE i = j
        <5>1. q[i] = CancelFrom(withdrawQueue[i], amount)
          BY <1>1, <4>3
        <5>2. /\ q[i].registeredAmount = withdrawQueue[i].registeredAmount - amount
              /\ q[i].remainingAmount = withdrawQueue[i].remainingAmount - amount
              /\ q[i].withdrawAmount = withdrawQueue[i].withdrawAmount
          BY <4>1, <5>1 DEF CancelFrom, WithdrawData
        <5>3. withdrawQueue[i].registeredAmount \in Nat /\ withdrawQueue[i].remainingAmount \in Nat
          BY <4>1 DEF WithdrawData
        <5> QED
          BY <2>1, <5>2, <5>3 DEF Redeemed
      <4> QED
        BY <4>2, <4>3
    <3> QED
      BY <1>1, <3>1, <3>2 DEF SameHistory
  <2> HIDE DEF q, data
  <2> QED
    BY <2>2, <2>3, <2>4
<1>4. ASSUME WithdrawFromIndexPool
      PROVE  Goal
  <2>1. SameHistory(withdrawQueue)
    BY <1>1 DEF SameHistory
  <2>2. _WithdrawFromIndexPool(withdrawQueue, userWithdrawData, totalRegisteredAmount, rwaHeld)
    BY <1>4 DEF WithdrawFromIndexPool
  <2> QED
    BY <1>1, <2>1, <2>2
<1>5. \/ \E u \in Accounts, amount \in Amounts : Register(u, amount)
      \/ \E u \in Accounts, amount \in 0..InitialRWA : Update(u, amount)
      \/ WithdrawFromIndexPool
      \/ UNCHANGED withdrawQueue
  BY DEF Next, UserStep, AdminStep, ExternalStep, Claim, SetVerify, SetCeiling, SetUserCeiling,
         AddFeeTier, SetFeeTier, IndexPoolMoves, StakeMoves, vars, queueVars
<1> QED
  BY <1>2, <1>3, <1>4, <1>5

\* What the loop does to an entry.
ServedBy(q, amount, usd, i, new) ==
  LET taken == TakenFrom(q, amount, i)
      paid == PaidTo(q, amount, usd, i)
  IN  /\ taken \in 0..q[i].remainingAmount /\ paid \in Nat
      /\ new.remainingAmount = q[i].remainingAmount - taken
      /\ Redeemed(new) = Redeemed(q[i]) + taken
      /\ new.withdrawAmount = q[i].withdrawAmount + paid

\* The loop serves the whole queue with usd, which the pool paid for amount.
Serves(q, amount, usd) ==
  /\ Distributable(q, amount, usd)
  /\ DOMAIN withdrawQueue' = 1..Len(q) /\ Len(withdrawQueue') = Len(q)
  /\ usdcHeld' = usdcHeld + usd
  /\ \A i \in 1..Len(q) : ServedBy(q, amount, usd, i, withdrawQueue'[i])

\* The tail leaves the queue alone, or serves it with some of the RWA that waits
\* and what the pool pays for it.
LEMMA TailServes ==
  ASSUME Inv, NEW q, NEW data, NEW total, NEW held, QueueReady(q, data, total, held),
         _WithdrawFromIndexPool(q, data, total, held)
  PROVE  \/ withdrawQueue' = q
         \/ \E amount \in 1..total : \E usd \in 0..GetUSDCAmountFromShares(amount) :
              Serves(q, amount, usd)
<1> DEFINE amount == WithdrawIndexAmount(total)
           asked == GetUSDCAmountFromShares(amount)
<1>1. /\ total \in Nat /\ indexPool \in IndexPoolState
      /\ q \in Seq(WithdrawData) /\ DOMAIN q = 1..Len(q)
  BY DEF QueueReady, Inv, TypeOK
<1>2. amount \in 0..total /\ amount \in Nat
  BY <1>1, WithdrawIndexAmountType
<1>3. asked \in Nat
  BY <1>1, <1>2, ConversionType
<1>4. CASE total = 0 \/ amount = 0
  BY <1>4 DEF _WithdrawFromIndexPool
<1>5. CASE ~ (total = 0 \/ amount = 0)
  <2>1. PICK usd \in 0..asked :
          /\ Distributable(q, amount, usd)
          /\ withdrawQueue' = ServeQueue(q, amount, usd)
          /\ usdcHeld' = usdcHeld + usd
    BY <1>5 DEF _WithdrawFromIndexPool
  <2>2. amount \in 1..total /\ usd \in Nat
    BY <1>1, <1>2, <1>3, <1>5
  <2> HIDE DEF amount
  <2>3. ASSUME NEW i \in 1..Len(q)
        PROVE  ServedBy(q, amount, usd, i, withdrawQueue'[i])
    <3> DEFINE taken == TakenFrom(q, amount, i)
               paid == PaidTo(q, amount, usd, i)
               rest == q[i].remainingAmount - taken
               sum == q[i].withdrawAmount + paid
    <3>1. taken \in 0..q[i].remainingAmount
      BY <2>2, TakenIsConserved
    <3>2. paid \in Nat
      BY <1>1, <2>1, <2>2, PaidType
    <3>3. q[i] \in WithdrawData /\ q[i].remainingAmount \in Nat /\ q[i].registeredAmount \in Nat
      BY <1>1, EntryType
    <3>4. withdrawQueue'[i] = [q[i] EXCEPT !.remainingAmount = rest, !.withdrawAmount = sum]
      BY <1>1, <2>1 DEF ServeQueue
    <3> HIDE DEF rest, sum
    <3>5. /\ withdrawQueue'[i].registeredAmount = q[i].registeredAmount
          /\ withdrawQueue'[i].remainingAmount = rest
          /\ withdrawQueue'[i].withdrawAmount = sum
      BY <3>3, <3>4 DEF WithdrawData
    <3> HIDE DEF taken, paid
    <3>6. Redeemed(withdrawQueue'[i]) = Redeemed(q[i]) + taken
      BY <3>1, <3>3, <3>5 DEF Redeemed, rest
    <3> QED
      BY <3>1, <3>2, <3>5, <3>6 DEF ServedBy, rest, sum, taken, paid
  <2>4. DOMAIN withdrawQueue' = 1..Len(q)
    BY <1>1, <2>1 DEF ServeQueue
  <2>5. Len(withdrawQueue') = Len(q)
    <3>1. QueueReady(withdrawQueue, userWithdrawData, totalRegisteredAmount, rwaHeld)'
      BY <1>1, TailKeepsReady DEF Inv, TypeOK
    <3>2. withdrawQueue' \in Seq(WithdrawData)
      BY <3>1 DEF QueueReady
    <3> QED
      BY <1>1, <2>4, <3>2
  <2>6. Serves(q, amount, usd)
    BY <2>1, <2>3, <2>4, <2>5 DEF Serves
  <2> QED
    BY <2>2, <2>6
<1> QED
  BY <1>4, <1>5

\* RWA is taken from no entry behind the one at which the loop returns.
LEMMA TakenUpToLast ==
  ASSUME NEW q, NEW data, NEW total, NEW held, QueueReady(q, data, total, held),
         NEW amount \in 1..total, NEW j \in 1..Len(q), TakenFrom(q, amount, j) > 0
  PROVE  j <= LastServed(q, amount) /\ LastServed(q, amount) \in 1..Len(q)
<1>1. Len(q) \in Nat /\ queueIndex \in 0..Len(q) /\ j \in Nat
  BY DEF QueueReady
<1>2. LastServed(q, amount) \in (queueIndex + 1)..Len(q)
  BY LoopReturns
<1> QED
  BY <1>1, <1>2 DEF TakenFrom

\* RWA is taken from an entry only if nothing is left to wait ahead of it.
LEMMA TakenInOrder ==
  ASSUME NEW q, NEW data, NEW total, NEW held, QueueReady(q, data, total, held),
         NEW amount \in 1..total, NEW j \in 1..Len(q), TakenFrom(q, amount, j) > 0,
         NEW i \in 1..(j - 1)
  PROVE  i \in 1..Len(q) /\ TakenFrom(q, amount, i) = q[i].remainingAmount
<1>1. Len(q) \in Nat /\ queueIndex \in 0..Len(q) /\ j \in Nat /\ i \in Nat
  BY DEF QueueReady
<1>2. LastServed(q, amount) \in (queueIndex + 1)..Len(q)
  BY LoopReturns
<1>3. j <= LastServed(q, amount)
  BY <1>1, <1>2 DEF TakenFrom
<1>4. i \in 1..Len(q) /\ i < LastServed(q, amount)
  BY <1>1, <1>2, <1>3
<1>5. /\ \A k \in 1..Len(q) : TakenFrom(q, amount, k) \in 0..q[k].remainingAmount
      /\ \A k \in 1..Len(q) : k < LastServed(q, amount) =>
           TakenFrom(q, amount, k) = q[k].remainingAmount
      /\ PrefixSum([k \in DOMAIN q |-> TakenFrom(q, amount, k)])[Len(q)] = amount
  BY TakenIsConserved
<1> QED
  BY <1>4, <1>5

\* For any queue, however it was cancelled and served before: first come, first
\* served.
THEOREM AlwaysServedInOrder == Spec => ServedInOrder
<1>1. ASSUME Inv, [Next]_vars
      PROVE  \A j \in DOMAIN withdrawQueue :
               Redeemed(withdrawQueue'[j]) > Redeemed(withdrawQueue[j]) =>
                 \A i \in 1..(j - 1) : withdrawQueue'[i].remainingAmount = 0
  <2> SUFFICES ASSUME NEW j \in DOMAIN withdrawQueue,
                      Redeemed(withdrawQueue'[j]) > Redeemed(withdrawQueue[j]),
                      NEW i \in 1..(j - 1)
               PROVE  withdrawQueue'[i].remainingAmount = 0
    OBVIOUS
  <2>1. withdrawQueue[j] \in WithdrawData
    BY <1>1 DEF Inv, TypeOK
  <2>2. Redeemed(withdrawQueue[j]) \in Int
    BY <2>1 DEF WithdrawData, Redeemed
  <2>3. ~ UNCHANGED withdrawQueue
    BY <2>2
  <2>4. PICK q, data, total, held : /\ QueueReady(q, data, total, held)
                                    /\ SameHistory(q)
                                    /\ _WithdrawFromIndexPool(q, data, total, held)
    BY <1>1, <2>3, StepHandsOver
  <2>5. j \in 1..Len(q) /\ Redeemed(q[j]) = Redeemed(withdrawQueue[j])
    BY <2>4 DEF SameHistory
  <2>6. withdrawQueue' # q
    BY <2>2, <2>5
  <2>7. PICK amount \in 1..total : \E usd :
          \A k \in 1..Len(q) : ServedBy(q, amount, usd, k, withdrawQueue'[k])
    BY <1>1, <2>4, <2>6, TailServes DEF Serves
  <2>8. TakenFrom(q, amount, j) > 0
    <3>1. TakenFrom(q, amount, j) \in 0..q[j].remainingAmount
          /\ Redeemed(withdrawQueue'[j]) = Redeemed(q[j]) + TakenFrom(q, amount, j)
      BY <2>5, <2>7 DEF ServedBy
    <3> QED
      BY <2>2, <2>5, <3>1
  <2>9. i \in 1..Len(q) /\ TakenFrom(q, amount, i) = q[i].remainingAmount
    BY <2>4, <2>5, <2>8, TakenInOrder
  <2>10. withdrawQueue'[i].remainingAmount = q[i].remainingAmount - q[i].remainingAmount
    BY <2>7, <2>9 DEF ServedBy
  <2>11. q[i].remainingAmount \in Nat
    BY <2>4, <2>9, EntryType DEF QueueReady
  <2> QED
    BY <2>10, <2>11
<1> QED
  BY <1>1, InvHolds, PTL DEF Spec, ServedInOrder

\* A step that hands over without serving burns and pays nothing.
LEMMA NothingIsBurnt ==
  ASSUME Inv, NEW q \in Seq(WithdrawData), SameHistory(q), withdrawQueue' = q,
         NEW i \in DOMAIN withdrawQueue'
  PROVE  BurntOf(i) = 0 /\ PaidFor(i) = 0
<1>1. withdrawQueue \in Seq(WithdrawData) /\ DOMAIN q = 1..Len(q) /\ i \in 1..Len(q)
  BY DEF Inv, TypeOK
<1>2. q[i] \in WithdrawData
  BY <1>1
<1>3. Redeemed(q[i]) \in Int /\ q[i].withdrawAmount \in Nat
  BY <1>2 DEF WithdrawData, Redeemed
<1>4. CASE i \in DOMAIN withdrawQueue
  BY <1>1, <1>3, <1>4 DEF SameHistory, BurntOf, PaidFor
<1>5. CASE i \notin DOMAIN withdrawQueue
  BY <1>1, <1>3, <1>5 DEF SameHistory, BurntOf, PaidFor
<1> QED
  BY <1>4, <1>5

\* A step that serves burns what the loop takes and pays what it hands out; it is
\* paid short by what the pool keeps of the worth of the whole amount.
LEMMA BurntIsTaken ==
  ASSUME Inv, NEW q, NEW data, NEW total, NEW held, QueueReady(q, data, total, held),
         SameHistory(q), NEW amount \in 1..total,
         NEW usd \in 0..GetUSDCAmountFromShares(amount), Serves(q, amount, usd)
  PROVE  /\ \A i \in 1..Len(q) : /\ BurntOf(i) = TakenFrom(q, amount, i)
                                 /\ PaidFor(i) = PaidTo(q, amount, usd, i)
                                 /\ TakenFrom(q, amount, i) \in Nat
         /\ PaidShort = GetUSDCAmountFromShares(amount) - usd
<1>1. /\ withdrawQueue \in Seq(WithdrawData) /\ q \in Seq(WithdrawData)
      /\ DOMAIN q = 1..Len(q) /\ Len(q) \in Nat /\ usdcHeld \in Nat
      /\ indexPool \in IndexPoolState /\ amount \in Nat
  BY DEF Inv, TypeOK, QueueReady
<1>2. ASSUME NEW i \in 1..Len(q)
      PROVE  /\ BurntOf(i) = TakenFrom(q, amount, i)
             /\ PaidFor(i) = PaidTo(q, amount, usd, i)
             /\ TakenFrom(q, amount, i) \in Nat
  <2> DEFINE taken == TakenFrom(q, amount, i)
             paid == PaidTo(q, amount, usd, i)
  <2>1. q[i] \in WithdrawData /\ q[i].remainingAmount \in Nat
    BY <1>1, EntryType
  <2>2. Redeemed(q[i]) \in Int /\ q[i].withdrawAmount \in Nat
    BY <2>1 DEF WithdrawData, Redeemed
  <2>3. /\ taken \in 0..q[i].remainingAmount /\ paid \in Nat
        /\ Redeemed(withdrawQueue'[i]) = Redeemed(q[i]) + taken
        /\ withdrawQueue'[i].withdrawAmount = q[i].withdrawAmount + paid
    BY DEF Serves, ServedBy
  <2>4. /\ Redeemed(q[i]) = (IF i \in DOMAIN withdrawQueue
                              THEN Redeemed(withdrawQueue[i]) ELSE 0)
        /\ q[i].withdrawAmount = (IF i \in DOMAIN withdrawQueue
                                  THEN withdrawQueue[i].withdrawAmount ELSE 0)
    BY DEF SameHistory
  <2> HIDE DEF taken, paid
  <2>5. BurntOf(i) = Redeemed(q[i]) + taken - Redeemed(q[i])
    <3>1. CASE i \in DOMAIN withdrawQueue
      BY <2>2, <2>3, <2>4, <3>1 DEF BurntOf
    <3>2. CASE i \notin DOMAIN withdrawQueue
      BY <2>2, <2>3, <2>4, <3>2 DEF BurntOf
    <3> QED
      BY <3>1, <3>2
  <2>6. PaidFor(i) = q[i].withdrawAmount + paid - q[i].withdrawAmount
    <3>1. CASE i \in DOMAIN withdrawQueue
      BY <2>2, <2>3, <2>4, <3>1 DEF PaidFor
    <3>2. CASE i \notin DOMAIN withdrawQueue
      BY <2>2, <2>3, <2>4, <3>2 DEF PaidFor
    <3> QED
      BY <3>1, <3>2
  <2>7. BurntOf(i) = taken /\ PaidFor(i) = paid /\ taken \in Nat
    BY <2>1, <2>2, <2>3, <2>5, <2>6
  <2> QED
    BY <2>7 DEF taken, paid
<1>3. [i \in DOMAIN withdrawQueue' |-> BurntOf(i)] = [i \in DOMAIN q |-> TakenFrom(q, amount, i)]
  BY <1>1, <1>2 DEF Serves
<1>4. PrefixSum([i \in DOMAIN q |-> TakenFrom(q, amount, i)])[Len(q)] = amount
  BY TakenIsConserved
<1>5. PrefixSum([i \in DOMAIN withdrawQueue' |-> BurntOf(i)])[Len(withdrawQueue')] = amount
  BY <1>3, <1>4 DEF Serves
<1>6. PaidShort = GetUSDCAmountFromShares(amount) - (usdcHeld' - usdcHeld)
  BY <1>5 DEF PaidShort
<1>7. GetUSDCAmountFromShares(amount) \in Nat
  BY <1>1, ConversionType
<1>8. usdcHeld' - usdcHeld = usd
  BY <1>1, <1>7 DEF Serves
<1> QED
  BY <1>2, <1>6, <1>8

\* For any share price and any entries: an entry is paid the share price for its
\* burnt RWA, except the last one served, which gets the rounding of the others on
\* top of it and bears what the vault pays short.
THEOREM AlwaysPaidAtSharePrice == Spec => PaidAtSharePrice
<1> DEFINE Worth(burnt) == (burnt * indexPool.sharePrice * usdcMantissa)
                             \div (indexMantissa * indexMantissa)
           Fair(i) == /\ BurntOf(i) > 0 => Worth(BurntOf(i)) <= PaidFor(i) + PaidShort
                      /\ PaidFor(i) <= Worth(BurntOf(i)) + Len(withdrawQueue)
                      /\ (\E j \in DOMAIN withdrawQueue' : j > i /\ BurntOf(j) > 0)
                         => PaidFor(i) = Worth(BurntOf(i))
<1>1. ASSUME Inv, [Next]_vars, NEW i \in DOMAIN withdrawQueue'
      PROVE  Fair(i)
  <2>1. /\ withdrawQueue \in Seq(WithdrawData) /\ indexPool \in IndexPoolState
        /\ Len(withdrawQueue) \in Nat
    BY <1>1 DEF Inv, TypeOK
  <2>2. ASSUME \A j \in DOMAIN withdrawQueue' : BurntOf(j) = 0 /\ PaidFor(j) = 0
        PROVE  Fair(i)
    <3>1. IsWorth(Worth(0), 0)
      BY <2>1, WorthIsWorth
    <3>2. indexPool.sharePrice \in Nat
      BY <2>1 DEF IndexPoolState
    <3>3. 0 * indexPool.sharePrice = 0 /\ 0 < 0 * Unit + Unit
      BY <3>2, Mantissas
    <3> HIDE DEF Worth
    <3>4. IsFloor(Worth(0), 0, Unit)
      BY <3>1, <3>3 DEF IsWorth
    <3>5. Worth(0) = 0
      BY <3>3, <3>4, Mantissas, FloorBounds DEF IsFloor
    <3>6. BurntOf(i) = 0 /\ PaidFor(i) = 0 /\ Worth(BurntOf(i)) = 0
      BY <2>2, <3>5
    <3> QED
      BY <2>1, <2>2, <3>6
  <2>3. ASSUME UNCHANGED withdrawQueue
        PROVE  Fair(i)
    <3>1. SameHistory(withdrawQueue)
      BY <2>1 DEF SameHistory
    <3>2. \A j \in DOMAIN withdrawQueue' : BurntOf(j) = 0 /\ PaidFor(j) = 0
      BY <1>1, <2>1, <2>3, <3>1, NothingIsBurnt
    <3> QED
      BY <2>2, <3>2
  <2>4. ASSUME NEW q, NEW data, NEW total, NEW held,
               QueueReady(q, data, total, held), SameHistory(q),
               _WithdrawFromIndexPool(q, data, total, held)
        PROVE  Fair(i)
    <3>1. q \in Seq(WithdrawData) /\ Len(q) \in Nat /\ DOMAIN q = 1..Len(q)
      BY <2>4 DEF QueueReady
    <3>2. CASE withdrawQueue' = q
      <4>1. \A j \in DOMAIN withdrawQueue' : BurntOf(j) = 0 /\ PaidFor(j) = 0
        BY <1>1, <2>4, <3>1, <3>2, NothingIsBurnt
      <4> QED
        BY <2>2, <4>1
    <3>3. CASE withdrawQueue' # q
      <4>1. PICK amount \in 1..total : \E usd \in 0..GetUSDCAmountFromShares(amount) :
              Serves(q, amount, usd)
        BY <1>1, <2>4, <3>3, TailServes
      <4>2. PICK usd \in 0..GetUSDCAmountFromShares(amount) : Serves(q, amount, usd)
        BY <4>1
      <4> DEFINE paid == PaidTo(q, amount, usd, i)
                 short == GetUSDCAmountFromShares(amount) - usd
                 x == Worth(BurntOf(i))
                 last == LastServed(q, amount)
      <4>3. i \in 1..Len(q) /\ DOMAIN withdrawQueue' = 1..Len(q)
        BY <1>1, <4>2 DEF Serves
      <4>4. /\ \A j \in 1..Len(q) : /\ BurntOf(j) = TakenFrom(q, amount, j)
                                    /\ PaidFor(j) = PaidTo(q, amount, usd, j)
                                    /\ TakenFrom(q, amount, j) \in Nat
            /\ PaidShort = short
        BY <1>1, <2>4, <4>2, BurntIsTaken
      <4>5. IsWorth(x, TakenFrom(q, amount, i))
        BY <2>1, <4>3, <4>4, WorthIsWorth
      <4> HIDE DEF x
      <4>6. /\ paid \in Nat /\ x \in Nat /\ short \in Nat
            /\ x <= paid + short
            /\ paid <= x + (i - 1)
            /\ i # last => paid = x
        BY <2>1, <2>4, <4>2, <4>3, <4>5, PaidIsWorth DEF Serves
      <4>7. ASSUME NEW j \in DOMAIN withdrawQueue', j > i, BurntOf(j) > 0
            PROVE  i # last
        <5>1. j \in 1..Len(q) /\ TakenFrom(q, amount, j) > 0
          BY <4>3, <4>4, <4>7
        <5>2. j <= last /\ last \in 1..Len(q)
          BY <2>4, <5>1, TakenUpToLast
        <5> HIDE DEF last
        <5> QED
          BY <4>3, <4>7, <5>1, <5>2
      <4>8. i - 1 <= Len(withdrawQueue)
        BY <2>1, <2>4, <3>1, <4>3 DEF SameHistory
      <4>9. PaidFor(i) = paid /\ PaidShort = short
        BY <4>3, <4>4
      <4> HIDE DEF paid, short, last
      <4>10. /\ x <= PaidFor(i) + PaidShort
             /\ PaidFor(i) <= x + Len(withdrawQueue)
        BY <2>1, <4>3, <4>6, <4>8, <4>9
      <4>11. (\E j \in DOMAIN withdrawQueue' : j > i /\ BurntOf(j) > 0) => PaidFor(i) = x
        BY <4>6, <4>7, <4>9
      <4> QED
        BY <4>10, <4>11 DEF x
    <3> QED
      BY <3>2, <3>3
  <2> HIDE DEF Fair
  <2> QED
    BY <1>1, <2>3, <2>4, StepHandsOver
<1>2. ASSUME Inv, [Next]_vars
      PROVE  \A i \in DOMAIN withdrawQueue' :
               LET worth == (BurntOf(i) * indexPool.sharePrice * usdcMantissa)
                              \div (indexMantissa * indexMantissa)
               IN  /\ BurntOf(i) > 0 => worth <= PaidFor(i) + PaidShort
                   /\ PaidFor(i) <= worth + Len(withdrawQueue)
                   /\ (\E j \in DOMAIN withdrawQueue' : j > i /\ BurntOf(j) > 0)
                      => PaidFor(i) = worth
  BY <1>1, <1>2 DEF Fair, Worth
<1> QED
  BY <1>2, InvHolds, PTL DEF Spec, PaidAtSharePrice

----------------------------------------------------------------------------
(* Fees.                                                                   *)

\* A later tier asks for more stake and a lower fee.
TiersOrdered ==
  \A s, t \in 1..Len(feeTiers) : s < t => BetterTier(feeTiers[t], feeTiers[s])

\* A tier of the list has a stake and a fee within MAX_WITHDRAW_FEE.
LEMMA TierType ==
  ASSUME Inv
  PROVE  /\ Len(feeTiers) \in Nat /\ Len(feeTiers) >= 1 /\ DOMAIN feeTiers = 1..Len(feeTiers)
         /\ \A t \in 1..Len(feeTiers) : /\ feeTiers[t].veNAOSAmount \in Nat
                                         /\ feeTiers[t].fee \in Nat
                                         /\ feeTiers[t].fee <= MAX_WITHDRAW_FEE
<1>1. feeTiers \in Seq(FeeTier) /\ feeTiers # <<>> /\ FeesBounded
  BY DEF Inv, TypeOK
<1>2. \A t \in 1..Len(feeTiers) : feeTiers[t] \in FeeTier
  BY <1>1
<1> QED
  BY <1>1, <1>2 DEF FeeTier, FeesBounded

\* The admin can only write tiers that keep that order.
LEMMA TiersStayOrdered ==
  ASSUME Inv, TiersOrdered, [Next]_vars
  PROVE  TiersOrdered'
<1>1. feeTiers \in Seq(FeeTier) /\ feeTiers # <<>>
  BY DEF Inv, TypeOK
<1>2. /\ Len(feeTiers) \in Nat /\ Len(feeTiers) >= 1 /\ DOMAIN feeTiers = 1..Len(feeTiers)
      /\ \A t \in 1..Len(feeTiers) : feeTiers[t].veNAOSAmount \in Nat /\ feeTiers[t].fee \in Nat
  BY TierType
<1>3. ASSUME NEW tier \in FeeTiers, AddFeeTier(tier)
      PROVE  TiersOrdered'
  <2> DEFINE n == Len(feeTiers)
  <2>1. tier.veNAOSAmount \in Nat /\ tier.fee \in Nat /\ BetterTier(tier, feeTiers[n])
    BY <1>3, FeeAssumption DEF AddFeeTier, FeeTier
  <2>2. /\ Len(feeTiers') = n + 1 /\ feeTiers'[n + 1] = tier
        /\ \A t \in 1..n : feeTiers'[t] = feeTiers[t]
    BY <1>1, <1>3 DEF AddFeeTier
  <2> SUFFICES ASSUME NEW s \in 1..(n + 1), NEW t \in 1..(n + 1), s < t
               PROVE  BetterTier(feeTiers'[t], feeTiers'[s])
    BY <2>2 DEF TiersOrdered, BetterTier
  <2>3. s \in 1..n
    BY <1>2
  <2>4. CASE t \in 1..n
    BY <2>2, <2>3, <2>4 DEF TiersOrdered
  <2>5. CASE t = n + 1
    <3>1. s = n \/ BetterTier(feeTiers[n], feeTiers[s])
      <4>1. CASE s < n
        <5>1. n \in 1..n
          BY <1>2
        <5> QED
          BY <2>3, <4>1, <5>1 DEF TiersOrdered
      <4>2. s < n \/ s = n
        <5>1. n \in Nat
          BY <1>2
        <5> HIDE DEF n
        <5> QED
          BY <2>3, <5>1
      <4> QED
        BY <4>1, <4>2
    <3>2. feeTiers'[t] = tier /\ feeTiers'[s] = feeTiers[s]
      BY <2>2, <2>3, <2>5
    <3>3. /\ feeTiers[s].veNAOSAmount \in Nat /\ feeTiers[s].fee \in Nat
          /\ feeTiers[n].veNAOSAmount \in Nat /\ feeTiers[n].fee \in Nat
      BY <1>2, <2>3
    <3>4. BetterTier(tier, feeTiers[s])
      BY <2>1, <3>1, <3>3 DEF BetterTier
    <3> QED
      BY <3>2, <3>4
  <2> QED
    BY <1>2, <2>4, <2>5
<1>4. ASSUME NEW k \in DOMAIN feeTiers, NEW tier \in FeeTiers, SetFeeTier(k, tier)
      PROVE  TiersOrdered'
  <2> DEFINE n == Len(feeTiers)
  <2>1. /\ tier.veNAOSAmount \in Nat /\ tier.fee \in Nat
        /\ k > 1 => BetterTier(tier, feeTiers[k - 1])
        /\ k < n => BetterTier(feeTiers[k + 1], tier)
    BY <1>4, FeeAssumption DEF SetFeeTier, FeeTier
  <2>2. /\ Len(feeTiers') = n /\ feeTiers'[k] = tier
        /\ \A t \in 1..n : t # k => feeTiers'[t] = feeTiers[t]
    BY <1>1, <1>4 DEF SetFeeTier
  <2>3. k \in 1..n
    BY <1>2
  <2> SUFFICES ASSUME NEW s \in 1..n, NEW t \in 1..n, s < t
               PROVE  BetterTier(feeTiers'[t], feeTiers'[s])
    BY <2>2 DEF TiersOrdered, BetterTier
  <2>4. CASE t # k /\ s # k
    BY <2>2, <2>4 DEF TiersOrdered
  <2>5. CASE t = k
    <3>1. k > 1 /\ k - 1 \in 1..n /\ s <= k - 1
      BY <1>2, <2>3, <2>5
    <3>2. s = k - 1 \/ BetterTier(feeTiers[k - 1], feeTiers[s])
      BY <3>1 DEF TiersOrdered
    <3>3. feeTiers'[s] = feeTiers[s]
      BY <2>2, <2>5
    <3> QED
      BY <1>2, <2>1, <2>2, <2>5, <3>1, <3>2, <3>3 DEF BetterTier
  <2>6. CASE s = k
    <3>1. k < n /\ k + 1 \in 1..n /\ k + 1 <= t
      BY <1>2, <2>3, <2>6
    <3>2. t = k + 1 \/ BetterTier(feeTiers[t], feeTiers[k + 1])
      BY <3>1 DEF TiersOrdered
    <3>3. feeTiers'[t] = feeTiers[t]
      BY <2>2, <2>6
    <3> QED
      BY <1>2, <2>1, <2>2, <2>6, <3>1, <3>2, <3>3 DEF BetterTier
  <2> QED
    BY <2>4, <2>5, <2>6
<1>5. ASSUME UNCHANGED feeTiers
      PROVE  TiersOrdered'
  BY <1>5 DEF TiersOrdered, BetterTier
<1>6. \/ \E tier \in FeeTiers : AddFeeTier(tier)
      \/ \E t \in DOMAIN feeTiers, tier \in FeeTiers : SetFeeTier(t, tier)
      \/ UNCHANGED feeTiers
  BY DEF Next, UserStep, AdminStep, ExternalStep, Register, Update, Claim, WithdrawFromIndexPool,
         SetVerify, SetCeiling, SetUserCeiling, IndexPoolMoves, StakeMoves, adminVars, vars
<1> QED
  BY <1>3, <1>4, <1>5, <1>6

\* The tiers stay ordered in every behaviour.
LEMMA TiersAlwaysOrdered == Spec => []TiersOrdered
<1>1. Init => TiersOrdered
  BY DEF Init, TiersOrdered
<1>2. Inv /\ TiersOrdered /\ [Next]_vars => TiersOrdered'
  BY TiersStayOrdered
<1> QED
  BY <1>1, <1>2, InvHolds, PTL DEF Spec

Missed(u) == {t \in 2..Len(feeTiers) : veNAOS[u] < feeTiers[t].veNAOSAmount}
TierOf(u) == IF Missed(u) = {} THEN Len(feeTiers) ELSE Min(Missed(u)) - 1

\* The tier of a user is one of the list, and lies below every tier it misses.
LEMMA TierFacts ==
  ASSUME Inv, NEW u \in Accounts
  PROVE  /\ TierOf(u) \in 1..Len(feeTiers)
         /\ GetFeeByUser(u) = feeTiers[TierOf(u)].fee
         /\ \A t \in Missed(u) : TierOf(u) < t
         /\ TierOf(u) < Len(feeTiers) => TierOf(u) + 1 \in Missed(u)
<1>1. Len(feeTiers) \in Nat /\ Len(feeTiers) >= 1
  BY DEF Inv, TypeOK
<1>2. GetFeeByUser(u) = feeTiers[TierOf(u)].fee
  BY DEF GetFeeByUser, TierOf, Missed
<1>3. Missed(u) \subseteq 2..Len(feeTiers)
  BY DEF Missed
<1>4. CASE Missed(u) = {}
  BY <1>1, <1>2, <1>4 DEF TierOf
<1>5. CASE Missed(u) # {}
  <2>1. Missed(u) \subseteq Nat
    BY <1>1, <1>3
  <2>2. Min(Missed(u)) \in Missed(u) /\ \A x \in Missed(u) : Min(Missed(u)) <= x
    BY <1>5, <2>1, MinOfNaturals
  <2>3. TierOf(u) = Min(Missed(u)) - 1
    BY <1>5 DEF TierOf
  <2>4. Min(Missed(u)) \in 2..Len(feeTiers)
    BY <1>3, <2>2
  <2>5. TierOf(u) + 1 = Min(Missed(u)) /\ TierOf(u) \in 1..Len(feeTiers)
    BY <1>1, <2>3, <2>4
  <2>6. \A t \in Missed(u) : TierOf(u) < t
    BY <1>1, <1>3, <2>2, <2>4, <2>5
  <2> QED
    BY <1>2, <2>2, <2>5, <2>6
<1> QED
  BY <1>4, <1>5

\* Whatever tiers the admin has written, and in whatever order: more stake
\* never means a higher fee.
THEOREM FeesAlwaysFall == Spec => []FeesFallWithStake
<1>1. ASSUME Inv, TiersOrdered PROVE FeesFallWithStake
  <2> SUFFICES ASSUME NEW u \in Accounts, NEW v \in Accounts
               PROVE  /\ GetFeeByUser(u) <= MAX_WITHDRAW_FEE
                      /\ veNAOS[u] <= veNAOS[v] => GetFeeByUser(v) <= GetFeeByUser(u)
    BY DEF FeesFallWithStake
  <2>1. /\ feeTiers \in Seq(FeeTier) /\ veNAOS[u] \in Nat /\ veNAOS[v] \in Nat
        /\ Len(feeTiers) \in Nat
    BY <1>1 DEF Inv, TypeOK
  <2>2. \A t \in 1..Len(feeTiers) : /\ feeTiers[t].veNAOSAmount \in Nat
                                    /\ feeTiers[t].fee \in Nat
                                    /\ feeTiers[t].fee <= MAX_WITHDRAW_FEE
    BY <1>1, TierType
  <2>3. /\ TierOf(u) \in 1..Len(feeTiers) /\ TierOf(v) \in 1..Len(feeTiers)
        /\ GetFeeByUser(u) = feeTiers[TierOf(u)].fee
        /\ GetFeeByUser(v) = feeTiers[TierOf(v)].fee
        /\ \A t \in Missed(u) : TierOf(u) < t
        /\ TierOf(v) < Len(feeTiers) => TierOf(v) + 1 \in Missed(v)
    BY <1>1, TierFacts
  <2>4. ASSUME veNAOS[u] <= veNAOS[v]
        PROVE  GetFeeByUser(v) <= GetFeeByUser(u)
    <3>1. Missed(v) \subseteq Missed(u)
      <4> SUFFICES ASSUME NEW t \in Missed(v) PROVE t \in Missed(u)
        OBVIOUS
      <4>1. t \in 2..Len(feeTiers) /\ veNAOS[v] < feeTiers[t].veNAOSAmount
        BY DEF Missed
      <4>2. feeTiers[t].veNAOSAmount \in Nat
        BY <2>1, <2>2, <4>1
      <4>3. veNAOS[u] < feeTiers[t].veNAOSAmount
        BY <2>1, <2>4, <4>1, <4>2
      <4> QED
        BY <4>1, <4>3 DEF Missed
    <3>2. TierOf(u) <= TierOf(v)
      <4>1. CASE TierOf(v) = Len(feeTiers)
        BY <2>1, <2>3, <4>1
      <4>2. CASE TierOf(v) < Len(feeTiers)
        <5>1. TierOf(u) < TierOf(v) + 1
          BY <2>3, <3>1, <4>2
        <5> QED
          BY <2>1, <2>3, <5>1
      <4> QED
        BY <2>1, <2>3, <4>1, <4>2
    <3>3. TierOf(u) = TierOf(v) \/ feeTiers[TierOf(v)].fee < feeTiers[TierOf(u)].fee
      <4>1. \A s, t \in 1..Len(feeTiers) : s < t => feeTiers[t].fee < feeTiers[s].fee
        BY <1>1 DEF TiersOrdered, BetterTier
      <4> QED
        BY <2>1, <2>3, <3>2, <4>1
    <3> QED
      BY <2>2, <2>3, <3>3
  <2> QED
    BY <2>2, <2>3, <2>4
<1> QED
  BY <1>1, InvHolds, TiersAlwaysOrdered, PTL

\* The tail of a call never takes from what is claimable.
LEMMA TailKeepsClaimable ==
  ASSUME indexPool \in IndexPoolState, NEW q, NEW data, NEW total, NEW held,
         QueueReady(q, data, total, held), _WithdrawFromIndexPool(q, data, total, held),
         NEW u \in Accounts
  PROVE  userWithdrawData'[u].Claimable >= data[u].Claimable
<1> DEFINE amount == WithdrawIndexAmount(total)
           asked == GetUSDCAmountFromShares(amount)
<1>1. /\ total \in Nat /\ q \in Seq(WithdrawData) /\ DOMAIN q = 1..Len(q) /\ Len(q) \in Nat
      /\ data \in [Accounts -> UserWithdrawData]
  BY DEF QueueReady
<1>2. data[u] \in UserWithdrawData /\ data[u].Claimable \in Nat
  BY <1>1 DEF UserWithdrawData
<1>3. amount \in 0..total /\ asked \in Nat
  BY <1>1, WithdrawIndexAmountType, ConversionType
<1>4. CASE total = 0 \/ amount = 0
  BY <1>2, <1>4 DEF _WithdrawFromIndexPool
<1>5. CASE ~ (total = 0 \/ amount = 0)
  <2>1. PICK usd \in 0..asked :
          Distributable(q, amount, usd) /\ userWithdrawData' = ServeUsers(q, data, amount, usd)
    BY <1>5 DEF _WithdrawFromIndexPool
  <2>2. amount \in 1..total /\ usd \in Nat
    BY <1>1, <1>3, <1>5
  <2> HIDE DEF amount, asked
  <2> DEFINE mine == [i \in DOMAIN q |->
                        IF q[i].user = u THEN PaidTo(q, amount, usd, i) ELSE 0]
  <2>3. \A i \in 1..Len(q) : PaidTo(q, amount, usd, i) \in Nat
    BY <2>1, <2>2, PaidType
  <2>4. NatValued(mine)
    BY <1>1, <2>3 DEF NatValued
  <2> HIDE DEF mine
  <2>5. PrefixSum(mine)[Len(q)] \in Nat
    BY <1>1, <2>4, PrefixSumStep
  <2>6. userWithdrawData'[u].Claimable = data[u].Claimable + PrefixSum(mine)[Len(q)]
    BY <1>2, <2>1 DEF ServeUsers, UserWithdrawData, mine
  <2> QED
    BY <1>2, <2>5, <2>6
<1> QED
  BY <1>4, <1>5

\* Only a claim of the user takes from what it may claim.
LEMMA OnlyClaimsTake ==
  ASSUME Inv, [Next]_vars, NEW u \in Accounts,
         userWithdrawData'[u].Claimable < userWithdrawData[u].Claimable
  PROVE  Claim(u)
<1>1. /\ userWithdrawData \in [Accounts -> UserWithdrawData] /\ indexPool \in IndexPoolState
      /\ QueueReady(withdrawQueue, userWithdrawData, totalRegisteredAmount, rwaHeld)
  BY DEF Inv, TypeOK
<1>2. userWithdrawData[u].Claimable \in Nat
  BY <1>1 DEF UserWithdrawData
<1>3. ASSUME NEW v \in Accounts, NEW amount \in Amounts, Register(v, amount)
      PROVE  FALSE
  <2> DEFINE data == [userWithdrawData EXCEPT ![v].listInQueue = TRUE,
                                              ![v].queueIndex = Len(withdrawQueue)]
             q == Append(withdrawQueue, NewEntry(v, amount))
  <2>1. amount \in Nat /\ amount > 0
    BY <1>3, AmountAssumption DEF Register, WithinCeiling
  <2>2. QueueReady(q, data, totalRegisteredAmount + amount, rwaHeld + amount)
    BY <2>1, RegisterKeepsReady
  <2>3. _WithdrawFromIndexPool(q, data, totalRegisteredAmount + amount, rwaHeld + amount)
    BY <1>3 DEF Register
  <2>4. data[u].Claimable = userWithdrawData[u].Claimable
    BY <1>1 DEF UserWithdrawData
  <2> HIDE DEF data, q
  <2>5. userWithdrawData'[u].Claimable >= data[u].Claimable
    BY <1>1, <2>2, <2>3, TailKeepsClaimable
  <2>6. data \in [Accounts -> UserWithdrawData]
    BY <2>2 DEF QueueReady
  <2>7. ~ (userWithdrawData'[u].Claimable < userWithdrawData[u].Claimable)
    <3>1. QueueReady(withdrawQueue, userWithdrawData, totalRegisteredAmount, rwaHeld)'
      BY <1>1, <2>2, <2>3, TailKeepsReady DEF Inv, TypeOK
    <3>2. userWithdrawData'[u].Claimable \in Nat
      BY <3>1 DEF QueueReady, UserWithdrawData
    <3> QED
      BY <1>2, <2>4, <2>5, <3>2
  <2> QED
    BY <2>7
<1>4. ASSUME NEW v \in Accounts, NEW amount \in 0..InitialRWA, Update(v, amount)
      PROVE  FALSE
  <2> DEFINE j == OwnEntry(v)
             live == amount # withdrawQueue[j].remainingAmount
             q == [withdrawQueue EXCEPT ![j] = CancelFrom(@, amount)]
             data == [userWithdrawData EXCEPT ![v].listInQueue = live]
  <2>1. /\ amount \in Nat /\ userWithdrawData[v].listInQueue
        /\ amount <= withdrawQueue[j].remainingAmount
    BY <1>4, AmountAssumption DEF Update
  <2>2. QueueReady(q, data, totalRegisteredAmount - amount, rwaHeld - amount)
    BY <2>1, UpdateKeepsReady
  <2>3. _WithdrawFromIndexPool(q, data, totalRegisteredAmount - amount, rwaHeld - amount)
    BY <1>4 DEF Update
  <2> HIDE DEF live
  <2>4. data[u].Claimable = userWithdrawData[u].Claimable
    BY <1>1 DEF UserWithdrawData
  <2> HIDE DEF data, q
  <2>5. userWithdrawData'[u].Claimable >= data[u].Claimable
    BY <1>1, <2>2, <2>3, TailKeepsClaimable
  <2>6. ~ (userWithdrawData'[u].Claimable < userWithdrawData[u].Claimable)
    <3>1. QueueReady(withdrawQueue, userWithdrawData, totalRegisteredAmount, rwaHeld)'
      BY <1>1, <2>2, <2>3, TailKeepsReady DEF Inv, TypeOK
    <3>2. userWithdrawData'[u].Claimable \in Nat
      BY <3>1 DEF QueueReady, UserWithdrawData
    <3> QED
      BY <1>2, <2>4, <2>5, <3>2
  <2> QED
    BY <2>6
<1>5. ASSUME WithdrawFromIndexPool
      PROVE  FALSE
  <2>1. _WithdrawFromIndexPool(withdrawQueue, userWithdrawData, totalRegisteredAmount, rwaHeld)
    BY <1>5 DEF WithdrawFromIndexPool
  <2>2. userWithdrawData'[u].Claimable >= userWithdrawData[u].Claimable
    BY <1>1, <2>1, TailKeepsClaimable
  <2>3. QueueReady(withdrawQueue, userWithdrawData, totalRegisteredAmount, rwaHeld)'
    BY <1>1, <2>1, TailKeepsReady DEF Inv, TypeOK
  <2>4. userWithdrawData'[u].Claimable \in Nat
    BY <2>3 DEF QueueReady, UserWithdrawData
  <2> QED
    BY <1>2, <2>2, <2>4
<1>6. ASSUME NEW v \in Accounts, NEW c \in UserCeilings, SetUserCeiling(v, c)
      PROVE  FALSE
  <2>1. userWithdrawData'[u].Claimable = userWithdrawData[u].Claimable
    BY <1>1, <1>6 DEF SetUserCeiling, UserWithdrawData
  <2> QED
    BY <1>2, <2>1
<1>7. ASSUME NEW v \in Accounts, Claim(v), v # u
      PROVE  FALSE
  <2>1. userWithdrawData'[u].Claimable = userWithdrawData[u].Claimable
    BY <1>1, <1>7 DEF Claim
  <2> QED
    BY <1>2, <2>1
<1>8. ~ UNCHANGED userWithdrawData
  BY <1>2
<1>9. \/ \E v \in Accounts, amount \in Amounts : Register(v, amount)
      \/ \E v \in Accounts, amount \in 0..InitialRWA : Update(v, amount)
      \/ \E v \in Accounts : Claim(v)
      \/ WithdrawFromIndexPool
      \/ \E v \in Accounts, c \in UserCeilings : SetUserCeiling(v, c)
      \/ UNCHANGED userWithdrawData
  BY DEF Next, UserStep, AdminStep, ExternalStep, SetVerify, SetCeiling, AddFeeTier, SetFeeTier,
         IndexPoolMoves, StakeMoves, vars, queueVars
<1> QED
  BY <1>3, <1>4, <1>5, <1>6, <1>7, <1>8, <1>9

\* For any fees: a claim takes all that is claimable and leaves exactly the fee of
\* the user's tier, rounded down; and nothing but a claim takes from it.
THEOREM ClaimsAlwaysPayTierFee == Spec => ClaimsPayTierFee
<1>1. ASSUME Inv, [Next]_vars
      PROVE  \A u \in Accounts :
               LET claimed == userWithdrawData[u].Claimable
                   reserve == usdcReserve' - usdcReserve
               IN  userWithdrawData'[u].Claimable < claimed =>
                     /\ userWithdrawData'[u].Claimable = 0
                     /\ usdcOf'[u] = usdcOf[u] + (claimed - reserve)
                     /\ reserve * WithdrawFeeDenominator <= claimed * GetFeeByUser(u)
                     /\ claimed * GetFeeByUser(u) < (reserve + 1) * WithdrawFeeDenominator
  <2> TAKE u \in Accounts
  <2> DEFINE claimed == userWithdrawData[u].Claimable
             fee == ReserveAmount(u, claimed)
             reserve == usdcReserve' - usdcReserve
  <2> SUFFICES ASSUME userWithdrawData'[u].Claimable < claimed
               PROVE  /\ userWithdrawData'[u].Claimable = 0
                      /\ usdcOf'[u] = usdcOf[u] + (claimed - reserve)
                      /\ reserve * WithdrawFeeDenominator <= claimed * GetFeeByUser(u)
                      /\ claimed * GetFeeByUser(u) < (reserve + 1) * WithdrawFeeDenominator
    OBVIOUS
  <2>1. /\ userWithdrawData \in [Accounts -> UserWithdrawData] /\ claimed \in Nat
        /\ usdcOf \in [Accounts -> Nat] /\ usdcReserve \in Nat
    BY <1>1 DEF Inv, TypeOK, UserWithdrawData
  <2>2. fee \in 0..claimed
    BY <1>1, <2>1, ReserveType
  <2>3. Claim(u)
    BY <1>1, OnlyClaimsTake
  <2>4. /\ userWithdrawData' = [userWithdrawData EXCEPT ![u].Claimable = 0]
        /\ usdcOf' = [usdcOf EXCEPT ![u] = @ + (claimed - fee)]
        /\ usdcReserve' = usdcReserve + fee
    BY <2>3 DEF Claim
  <2>5. userWithdrawData'[u].Claimable = 0
    BY <2>1, <2>4 DEF UserWithdrawData
  <2>6. GetFeeByUser(u) \in Nat
    <3>1. TierOf(u) \in 1..Len(feeTiers) /\ GetFeeByUser(u) = feeTiers[TierOf(u)].fee
      BY <1>1, TierFacts
    <3> QED
      BY <1>1, <3>1, TierType
  <2>7. claimed * GetFeeByUser(u) \in Nat
    BY <2>1, <2>6, TimesType
  <2>8. IsFloor(fee, claimed * GetFeeByUser(u), WithdrawFeeDenominator)
    BY <2>7, FeeAssumption, QuotientIsFloor DEF ReserveAmount
  <2> HIDE DEF fee, claimed
  <2>9. reserve = fee
    BY <2>1, <2>2, <2>4
  <2>10. usdcOf'[u] = usdcOf[u] + (claimed - fee)
    BY <2>1, <2>4
  <2>11. (fee + 1) * WithdrawFeeDenominator = fee * WithdrawFeeDenominator + WithdrawFeeDenominator
    BY <2>1, <2>2, FeeAssumption
  <2>12. /\ fee * WithdrawFeeDenominator <= claimed * GetFeeByUser(u)
         /\ claimed * GetFeeByUser(u) < (fee + 1) * WithdrawFeeDenominator
    BY <2>8, <2>11 DEF IsFloor
  <2> QED
    BY <2>5, <2>9, <2>10, <2>12
<1> QED
  BY <1>1, InvHolds, PTL DEF Spec, ClaimsPayTierFee

----------------------------------------------------------------------------
(* What the loop pays.                                                     *)

PaymentsOf(q, amount, usd) == [i \in DOMAIN q |-> PaidTo(q, amount, usd, i)]

\* The loop hands out all the USDC it was given, rounding included.
LEMMA AllIsPaid ==
  ASSUME indexPool \in IndexPoolState,
         NEW q, NEW data, NEW total, NEW held, QueueReady(q, data, total, held),
         NEW amount \in 1..total, NEW usd \in Nat, Distributable(q, amount, usd)
  PROVE  /\ NatValued(PaymentsOf(q, amount, usd))
         /\ \A i \in 1..Len(q) : Summand(PaymentsOf(q, amount, usd), i) = PaidTo(q, amount, usd, i)
         /\ PrefixSum(PaymentsOf(q, amount, usd))[Len(q)] = usd
<1> DEFINE last == LastServed(q, amount)
           paid == PaymentsOf(q, amount, usd)
           full == [i \in DOMAIN q |-> IF i > queueIndex /\ i < last
                                       THEN DistributedUSDC(q[i].remainingAmount) ELSE 0]
<1>1. q \in Seq(WithdrawData) /\ DOMAIN q = 1..Len(q) /\ queueIndex \in 0..Len(q)
      /\ Len(q) \in Nat
  BY DEF QueueReady
<1>2. \A i \in 1..Len(q) : DistributedUSDC(q[i].remainingAmount) \in Nat
  BY <1>1, EntryType, ConversionType
<1>3. NatValued(full)
      /\ \A i \in 1..Len(q) : Summand(full, i) = (IF i > queueIndex /\ i < last
                                  THEN DistributedUSDC(q[i].remainingAmount) ELSE 0)
  BY <1>1, <1>2 DEF NatValued, Summand
<1>4. DistributedUpTo(q, amount) = PrefixSum(full)
  BY DEF DistributedUpTo
<1>5. last \in (queueIndex + 1)..Len(q)
  BY LoopReturns
<1>6. \A i \in 1..Len(q) : PaidTo(q, amount, usd, i) \in Nat
  BY PaidType
<1>7. NatValued(paid) /\ \A i \in 1..Len(q) : Summand(paid, i) = PaidTo(q, amount, usd, i)
  BY <1>1, <1>6 DEF NatValued, PaymentsOf, Summand
<1>8. \A i \in 1..Len(q) : i < last => PaidTo(q, amount, usd, i) = Summand(full, i)
  BY <1>1, <1>3, <1>5 DEF PaidTo
<1>9. PaidTo(q, amount, usd, last) = usd - PrefixSum(full)[last - 1]
  BY <1>1, <1>4, <1>5 DEF PaidTo
<1>10. \A i \in 1..Len(q) : i > last => PaidTo(q, amount, usd, i) = 0
  BY <1>1, <1>5 DEF PaidTo
<1> HIDE DEF last, paid, full
<1>11. last \in 1..Len(q) /\ last - 1 \in Nat /\ (last - 1) + 1 = last
  BY <1>1, <1>5
<1>12. PrefixSum(paid)[last - 1] = PrefixSum(full)[last - 1]
  <2>1. \A k \in 1..(last - 1) : Summand(paid, k) = Summand(full, k)
    BY <1>1, <1>7, <1>8, <1>11
  <2> QED
    BY <1>3, <1>7, <1>11, <2>1, PrefixSumAgree
<1>13. PrefixSum(paid)[last] = PrefixSum(paid)[last - 1] + Summand(paid, last)
       /\ PrefixSum(full)[last - 1] \in Nat
  BY <1>3, <1>7, <1>11, PrefixSumStep
<1>14. PrefixSum(paid)[last] = usd
  BY <1>7, <1>9, <1>11, <1>12, <1>13
<1>15. PrefixSum(paid)[Len(q)] = PrefixSum(paid)[last]
  <2>1. \A k \in (last + 1)..Len(q) : Summand(paid, k) = 0
    BY <1>1, <1>7, <1>10, <1>11
  <2> QED
    BY <1>1, <1>7, <1>11, <2>1, PrefixSumZeroTail
<1> QED
  BY <1>7, <1>14, <1>15 DEF paid

----------------------------------------------------------------------------
(* The accounts.                                                           *)

ClaimableOf(data) == [u \in Accounts |-> data[u].Claimable]
WithdrawnOf(q) == [i \in DOMAIN q |-> q[i].withdrawAmount]

\* held is claimable by the users; with what was claimed and kept as a fee it
\* is what the entries were paid.
Accounted(q, data, held, reserve, claimed) ==
  /\ held = PrefixSum(ClaimableOf(data))[NumUsers]
  /\ PrefixSum(WithdrawnOf(q))[Len(q)] = held + reserve + PrefixSum(claimed)[NumUsers]

\* The amounts in the records are naturals, and so are their sums.
LEMMA ClaimableType ==
  ASSUME NEW data \in [Accounts -> UserWithdrawData]
  PROVE  /\ NatValued(ClaimableOf(data))
         /\ \A u \in Accounts : /\ data[u].Claimable \in Nat
                                /\ Summand(ClaimableOf(data), u) = data[u].Claimable
         /\ PrefixSum(ClaimableOf(data))[NumUsers] \in Nat
<1>1. \A u \in Accounts : data[u].Claimable \in Nat
  BY DEF UserWithdrawData
<1>2. NatValued(ClaimableOf(data))
  BY <1>1 DEF NatValued, ClaimableOf
<1> QED
  BY <1>1, <1>2, UsersAssumption, PrefixSumStep DEF ClaimableOf, Summand

\* So are the amounts in the entries.
LEMMA WithdrawnType ==
  ASSUME NEW q \in Seq(WithdrawData)
  PROVE  /\ NatValued(WithdrawnOf(q))
         /\ \A i \in 1..Len(q) : /\ q[i].withdrawAmount \in Nat
                                 /\ Summand(WithdrawnOf(q), i) = q[i].withdrawAmount
         /\ PrefixSum(WithdrawnOf(q))[Len(q)] \in Nat
<1>1. DOMAIN q = 1..Len(q) /\ Len(q) \in Nat
  OBVIOUS
<1>2. \A i \in 1..Len(q) : q[i].withdrawAmount \in Nat
  BY EntryType
<1>3. NatValued(WithdrawnOf(q))
  BY <1>1, <1>2 DEF NatValued, WithdrawnOf
<1> QED
  BY <1>1, <1>2, <1>3, PrefixSumStep DEF WithdrawnOf, Summand

\* Paying the entries raises what the users may claim by what is paid.
LEMMA ServePaysUsers ==
  ASSUME indexPool \in IndexPoolState,
         NEW q, NEW data, NEW total, NEW held, QueueReady(q, data, total, held),
         NEW amount \in 1..total, NEW usd \in Nat, Distributable(q, amount, usd),
         ServeUsers(q, data, amount, usd) \in [Accounts -> UserWithdrawData]
  PROVE  PrefixSum(ClaimableOf(ServeUsers(q, data, amount, usd)))[NumUsers]
           = PrefixSum(ClaimableOf(data))[NumUsers] + usd
<1> DEFINE paid == PaymentsOf(q, amount, usd)
           owner == [i \in DOMAIN q |-> q[i].user]
           n == Len(q)
           served == ServeUsers(q, data, amount, usd)
           sums == SumsOfOwners(paid, owner, NumUsers, n)
<1>1. q \in Seq(WithdrawData) /\ DOMAIN q = 1..n /\ n \in Nat
      /\ data \in [Accounts -> UserWithdrawData]
  BY DEF QueueReady
<1>2. NatValued(paid) /\ DOMAIN paid = DOMAIN q /\ PrefixSum(paid)[n] = usd
  BY AllIsPaid DEF PaymentsOf
<1>3. NumUsers \in Nat /\ Accounts = 1..NumUsers
  BY UsersAssumption DEF Accounts
<1>4. \A i \in DOMAIN paid : owner[i] \in 1..NumUsers
  BY <1>1, <1>2, <1>3, EntryType
<1>5. ASSUME NEW u \in Accounts
      PROVE served[u].Claimable = data[u].Claimable + PrefixSum(Belonging(paid, owner, u))[n]
  <2>1. [i \in DOMAIN q |-> IF q[i].user = u THEN PaidTo(q, amount, usd, i) ELSE 0]
          = Belonging(paid, owner, u)
    BY DEF Belonging, PaymentsOf
  <2>2. data[u] \in UserWithdrawData
    BY <1>1
  <2>3. served[u].Claimable = data[u].Claimable
          + PrefixSum([i \in DOMAIN q |->
                         IF q[i].user = u THEN PaidTo(q, amount, usd, i) ELSE 0])[Len(q)]
    BY <2>2 DEF ServeUsers, UserWithdrawData
  <2> QED
    BY <2>1, <2>3
<1> HIDE DEF paid, owner, served
<1>6. /\ NatValued(sums)
      /\ \A u \in Accounts : Summand(sums, u) = PrefixSum(Belonging(paid, owner, u))[n]
  <2>1. \A u \in Accounts : NatValued(Belonging(paid, owner, u))
    BY <1>2 DEF NatValued, Belonging
  <2> QED
    BY <1>1, <1>3, <2>1, PrefixSumStep DEF NatValued, SumsOfOwners, Summand
<1>7. PrefixSum(sums)[NumUsers] = usd
  <2> HIDE DEF sums
  <2>1. PrefixSum(SumsOfOwners(paid, owner, NumUsers, n))[NumUsers] = PrefixSum(paid)[n]
    <3>1. NatValued(paid) /\ NumUsers \in Nat /\ n \in Nat
      BY <1>1, <1>2, <1>3
    <3> HIDE DEF n
    <3> QED
      BY <3>1, <1>4, SumByOwner
  <2> QED
    BY <1>2, <2>1 DEF sums
<1> HIDE DEF sums
<1>8. NatValued(ClaimableOf(served)) /\ NatValued(ClaimableOf(data))
      /\ \A u \in Accounts : /\ Summand(ClaimableOf(served), u) = served[u].Claimable
                             /\ Summand(ClaimableOf(data), u) = data[u].Claimable
  BY <1>1, ClaimableType DEF served
<1>9. \A u \in 1..NumUsers :
        Summand(ClaimableOf(served), u) = Summand(ClaimableOf(data), u) + Summand(sums, u)
  BY <1>3, <1>5, <1>6, <1>8
<1>10. PrefixSum(ClaimableOf(served))[NumUsers]
         = PrefixSum(ClaimableOf(data))[NumUsers] + PrefixSum(sums)[NumUsers]
  BY <1>3, <1>6, <1>8, <1>9, PrefixSumAdd
<1> QED
  BY <1>7, <1>10 DEF served

\* It raises what the entries were paid by the same.
LEMMA ServePaysEntries ==
  ASSUME indexPool \in IndexPoolState,
         NEW q, NEW data, NEW total, NEW held, QueueReady(q, data, total, held),
         NEW amount \in 1..total, NEW usd \in Nat, Distributable(q, amount, usd),
         ServeQueue(q, amount, usd) \in Seq(WithdrawData)
  PROVE  PrefixSum(WithdrawnOf(ServeQueue(q, amount, usd)))[Len(ServeQueue(q, amount, usd))]
           = PrefixSum(WithdrawnOf(q))[Len(q)] + usd
<1> DEFINE paid == PaymentsOf(q, amount, usd)
           n == Len(q)
           served == ServeQueue(q, amount, usd)
<1>1. q \in Seq(WithdrawData) /\ DOMAIN q = 1..n /\ n \in Nat
  BY DEF QueueReady
<1>2. NatValued(paid) /\ PrefixSum(paid)[n] = usd
      /\ \A i \in 1..n : Summand(paid, i) = PaidTo(q, amount, usd, i)
  BY AllIsPaid
<1>3. Len(served) = n
  <2>1. DOMAIN served = 1..n
    BY <1>1 DEF ServeQueue
  <2> HIDE DEF served
  <2>2. served \in Seq(WithdrawData)
    BY DEF served
  <2>3. DOMAIN served = 1..Len(served) /\ Len(served) \in Nat
    BY <2>2
  <2> QED
    BY <1>1, <2>1, <2>3
<1>4. \A i \in 1..n : served[i].withdrawAmount = q[i].withdrawAmount + PaidTo(q, amount, usd, i)
  <2> SUFFICES ASSUME NEW i \in 1..n
               PROVE  served[i].withdrawAmount = q[i].withdrawAmount + PaidTo(q, amount, usd, i)
    OBVIOUS
  <2>1. q[i] \in WithdrawData
    BY <1>1
  <2> QED
    BY <1>1, <2>1 DEF ServeQueue, WithdrawData
<1> HIDE DEF paid, served
<1>5. /\ NatValued(WithdrawnOf(served)) /\ NatValued(WithdrawnOf(q))
      /\ \A i \in 1..n : /\ Summand(WithdrawnOf(served), i) = served[i].withdrawAmount
                         /\ Summand(WithdrawnOf(q), i) = q[i].withdrawAmount
  BY <1>1, <1>3, WithdrawnType DEF served
<1>6. \A i \in 1..n :
        Summand(WithdrawnOf(served), i) = Summand(WithdrawnOf(q), i) + Summand(paid, i)
  BY <1>2, <1>4, <1>5
<1>7. PrefixSum(WithdrawnOf(served))[n] = PrefixSum(WithdrawnOf(q))[n] + PrefixSum(paid)[n]
  BY <1>1, <1>2, <1>5, <1>6, PrefixSumAdd
<1> QED
  BY <1>2, <1>3, <1>7 DEF served

\* The tail of every call keeps the accounts.
LEMMA TailKeepsAccounts ==
  ASSUME indexPool \in IndexPoolState, usdcHeld \in Nat,
         NEW q, NEW data, NEW total, NEW held, QueueReady(q, data, total, held),
         NEW reserve \in Nat, NEW claimed, PrefixSum(claimed)[NumUsers] \in Nat,
         Accounted(q, data, usdcHeld, reserve, claimed),
         _WithdrawFromIndexPool(q, data, total, held)
  PROVE  Accounted(withdrawQueue', userWithdrawData', usdcHeld', reserve, claimed)
<1> DEFINE amount == WithdrawIndexAmount(total)
           asked == GetUSDCAmountFromShares(amount)
<1>1. total \in Nat /\ data \in [Accounts -> UserWithdrawData] /\ q \in Seq(WithdrawData)
  BY DEF QueueReady
<1>2. amount \in 0..total /\ amount \in Nat
  BY <1>1, WithdrawIndexAmountType
<1>3. asked \in Nat
  BY <1>2, ConversionType
<1>4. CASE total = 0 \/ amount = 0
  BY <1>4 DEF _WithdrawFromIndexPool
<1>5. CASE ~ (total = 0 \/ amount = 0)
  <2>1. PICK usd \in 0..asked :
          /\ Distributable(q, amount, usd)
          /\ withdrawQueue' = ServeQueue(q, amount, usd)
          /\ userWithdrawData' = ServeUsers(q, data, amount, usd)
          /\ usdcHeld' = usdcHeld + usd
    BY <1>5 DEF _WithdrawFromIndexPool
  <2>2. amount \in 1..total /\ usd \in Nat
    BY <1>1, <1>2, <1>3, <1>5
  <2>3. QueueReady(withdrawQueue, userWithdrawData, totalRegisteredAmount, rwaHeld)'
    BY TailKeepsReady
  <2>4. /\ ServeQueue(q, amount, usd) \in Seq(WithdrawData)
        /\ ServeUsers(q, data, amount, usd) \in [Accounts -> UserWithdrawData]
    BY <2>1, <2>3 DEF QueueReady
  <2> HIDE DEF amount, asked
  <2>5. PrefixSum(ClaimableOf(userWithdrawData'))[NumUsers]
          = PrefixSum(ClaimableOf(data))[NumUsers] + usd
    BY <2>1, <2>2, <2>4, ServePaysUsers
  <2>6. PrefixSum(WithdrawnOf(withdrawQueue'))[Len(withdrawQueue')]
          = PrefixSum(WithdrawnOf(q))[Len(q)] + usd
    BY <2>1, <2>2, <2>4, ServePaysEntries
  <2>7. usdcHeld = PrefixSum(ClaimableOf(data))[NumUsers]
        /\ PrefixSum(WithdrawnOf(q))[Len(q)] = usdcHeld + reserve + PrefixSum(claimed)[NumUsers]
    BY DEF Accounted
  <2>8. usdcHeld' = PrefixSum(ClaimableOf(userWithdrawData'))[NumUsers]
    BY <2>1, <2>5, <2>7
  <2>9. PrefixSum(WithdrawnOf(withdrawQueue'))[Len(withdrawQueue')]
          = usdcHeld' + reserve + PrefixSum(claimed)[NumUsers]
    <3>1. PrefixSum(WithdrawnOf(withdrawQueue'))[Len(withdrawQueue')]
            = (usdcHeld + reserve + PrefixSum(claimed)[NumUsers]) + usd
      BY <2>6, <2>7
    <3>2. \A a, b, c, d \in Nat : (a + b + c) + d = (a + d) + b + c
      OBVIOUS
    <3>3. (usdcHeld + reserve + PrefixSum(claimed)[NumUsers]) + usd
            = (usdcHeld + usd) + reserve + PrefixSum(claimed)[NumUsers]
      BY <2>2, <3>2
    <3> QED
      BY <2>1, <3>1, <3>3
  <2> QED
    BY <2>8, <2>9 DEF Accounted
<1> QED
  BY <1>4, <1>5

AccountsInv ==
  /\ Inv
  /\ Accounted(withdrawQueue, userWithdrawData, usdcHeld, usdcReserve, usdcOf)

\* What the users have claimed adds up to a natural.
LEMMA ClaimedType ==
  ASSUME NEW claimed \in [Accounts -> Nat]
  PROVE  /\ NatValued(claimed)
         /\ \A u \in Accounts : Summand(claimed, u) = claimed[u]
         /\ PrefixSum(claimed)[NumUsers] \in Nat
<1>1. NatValued(claimed)
  BY DEF NatValued
<1> QED
  BY <1>1, UsersAssumption, PrefixSumStep DEF Summand

\* A user's record may change in all but what is claimable.
LEMMA ClaimableAgree ==
  ASSUME NEW data \in [Accounts -> UserWithdrawData], NEW changed \in [Accounts -> UserWithdrawData],
         \A u \in Accounts : changed[u].Claimable = data[u].Claimable
  PROVE  ClaimableOf(changed) = ClaimableOf(data)
BY DEF ClaimableOf

\* A registration adds an entry that was paid nothing.
LEMMA RegisterKeepsAccounts ==
  ASSUME AccountsInv, NEW u \in Accounts, NEW amount \in Nat, amount > 0
  PROVE  Accounted(Append(withdrawQueue, NewEntry(u, amount)),
                   [userWithdrawData EXCEPT ![u].listInQueue = TRUE,
                                            ![u].queueIndex = Len(withdrawQueue)],
                   usdcHeld, usdcReserve, usdcOf)
<1> DEFINE n == Len(withdrawQueue)
           q == Append(withdrawQueue, NewEntry(u, amount))
           data == [userWithdrawData EXCEPT ![u].listInQueue = TRUE, ![u].queueIndex = n]
<1>1. /\ withdrawQueue \in Seq(WithdrawData) /\ n \in Nat
      /\ userWithdrawData \in [Accounts -> UserWithdrawData]
      /\ Inv
  BY DEF AccountsInv, Inv, TypeOK
<1>2. q \in Seq(WithdrawData) /\ data \in [Accounts -> UserWithdrawData]
  BY <1>1, RegisterKeepsReady DEF QueueReady
<1>3. /\ Len(q) = n + 1 /\ q[n + 1].withdrawAmount = 0
      /\ \A i \in 1..n : q[i] = withdrawQueue[i]
  BY <1>1 DEF NewEntry
<1>4. \A v \in Accounts : data[v].Claimable = userWithdrawData[v].Claimable
  BY <1>1 DEF UserWithdrawData
<1> HIDE DEF q, data, n
<1>5. ClaimableOf(data) = ClaimableOf(userWithdrawData)
  BY <1>1, <1>2, <1>4, ClaimableAgree
<1>6. PrefixSum(WithdrawnOf(q))[n + 1] = PrefixSum(WithdrawnOf(withdrawQueue))[n]
  <2>1. /\ NatValued(WithdrawnOf(withdrawQueue))
        /\ \A i \in 1..n : Summand(WithdrawnOf(withdrawQueue), i) = withdrawQueue[i].withdrawAmount
    BY <1>1, WithdrawnType DEF n
  <2>2. /\ NatValued(WithdrawnOf(q))
        /\ \A i \in 1..(n + 1) : Summand(WithdrawnOf(q), i) = q[i].withdrawAmount
    BY <1>2, <1>3, WithdrawnType
  <2>3. \A i \in 1..n : Summand(WithdrawnOf(q), i) = Summand(WithdrawnOf(withdrawQueue), i)
    BY <1>1, <1>3, <2>1, <2>2
  <2>4. PrefixSum(WithdrawnOf(q))[n] = PrefixSum(WithdrawnOf(withdrawQueue))[n]
    BY <1>1, <2>1, <2>2, <2>3, PrefixSumAgree
  <2>5. Summand(WithdrawnOf(q), n + 1) = 0
    BY <1>1, <1>3, <2>2
  <2>6. /\ PrefixSum(WithdrawnOf(q))[n + 1]
             = PrefixSum(WithdrawnOf(q))[n] + Summand(WithdrawnOf(q), n + 1)
        /\ PrefixSum(WithdrawnOf(q))[n] \in Nat
    BY <1>1, <2>2, PrefixSumStep
  <2> QED
    BY <2>4, <2>5, <2>6
<1>7. Accounted(q, data, usdcHeld, usdcReserve, usdcOf)
  BY <1>3, <1>5, <1>6 DEF AccountsInv, Accounted, n
<1> QED
  BY <1>7 DEF q, data, n

\* A cancellation changes neither what entries were paid nor what is claimable.
LEMMA UpdateKeepsAccounts ==
  ASSUME AccountsInv, NEW u \in Accounts, userWithdrawData[u].listInQueue,
         NEW amount \in Nat, amount <= withdrawQueue[OwnEntry(u)].remainingAmount
  PROVE  Accounted([withdrawQueue EXCEPT ![OwnEntry(u)] = CancelFrom(@, amount)],
                   [userWithdrawData EXCEPT ![u].listInQueue =
                      amount # withdrawQueue[OwnEntry(u)].remainingAmount],
                   usdcHeld, usdcReserve, usdcOf)
<1> DEFINE j == OwnEntry(u)
           q == [withdrawQueue EXCEPT ![j] = CancelFrom(@, amount)]
           live == amount # withdrawQueue[j].remainingAmount
           data == [userWithdrawData EXCEPT ![u].listInQueue = live]
<1>1. /\ withdrawQueue \in Seq(WithdrawData)
      /\ userWithdrawData \in [Accounts -> UserWithdrawData]
      /\ Inv
  BY DEF AccountsInv, Inv, TypeOK
<1>2. q \in Seq(WithdrawData) /\ data \in [Accounts -> UserWithdrawData]
  BY <1>1, UpdateKeepsReady DEF QueueReady
<1> HIDE DEF j, live
<1>3. \A v \in Accounts : data[v].Claimable = userWithdrawData[v].Claimable
  BY <1>1 DEF UserWithdrawData
<1>4. ASSUME NEW i \in DOMAIN withdrawQueue
      PROVE q[i].withdrawAmount = withdrawQueue[i].withdrawAmount
  <2>1. withdrawQueue[i] \in WithdrawData
    BY <1>1
  <2> QED
    BY <2>1 DEF CancelFrom, WithdrawData
<1>5. DOMAIN q = DOMAIN withdrawQueue /\ Len(q) = Len(withdrawQueue)
  BY <1>1
<1> HIDE DEF q, data
<1>6. ClaimableOf(data) = ClaimableOf(userWithdrawData)
  BY <1>1, <1>2, <1>3, ClaimableAgree
<1>7. WithdrawnOf(q) = WithdrawnOf(withdrawQueue)
  BY <1>4, <1>5 DEF WithdrawnOf
<1>8. Accounted(q, data, usdcHeld, usdcReserve, usdcOf)
  BY <1>5, <1>6, <1>7 DEF AccountsInv, Accounted
<1> QED
  BY <1>8 DEF q, data, live, j

\* A claim moves what is claimable to its user and to the reserve.
LEMMA ClaimKeepsAccounts ==
  ASSUME AccountsInv, AccountsInv => Inv', NEW u \in Accounts, Claim(u)
  PROVE  Accounted(withdrawQueue, userWithdrawData, usdcHeld, usdcReserve, usdcOf)'
<1> DEFINE claimable == userWithdrawData[u].Claimable
           reserve == ReserveAmount(u, claimable)
<1>1. /\ userWithdrawData \in [Accounts -> UserWithdrawData] /\ usdcOf \in [Accounts -> Nat]
      /\ usdcReserve \in Nat /\ usdcHeld \in Nat
      /\ userWithdrawData' \in [Accounts -> UserWithdrawData] /\ usdcOf' \in [Accounts -> Nat]
  BY DEF AccountsInv, Inv, TypeOK
<1>2. claimable \in Nat
  BY <1>1 DEF UserWithdrawData
<1>3. reserve \in 0..claimable
  BY <1>2, ReserveType DEF AccountsInv
<1>4. /\ userWithdrawData' = [userWithdrawData EXCEPT ![u].Claimable = 0]
      /\ usdcOf' = [usdcOf EXCEPT ![u] = @ + (claimable - reserve)]
      /\ usdcReserve' = usdcReserve + reserve
      /\ usdcHeld' = usdcHeld - claimable
      /\ withdrawQueue' = withdrawQueue
  BY DEF Claim
<1>5. /\ userWithdrawData'[u].Claimable = 0
      /\ \A v \in Accounts : v # u => userWithdrawData'[v].Claimable = userWithdrawData[v].Claimable
  BY <1>1, <1>4 DEF UserWithdrawData
<1> HIDE DEF reserve
<1>6. NumUsers \in Nat /\ Accounts = 1..NumUsers
  BY UsersAssumption DEF Accounts
<1>7. PrefixSum(ClaimableOf(userWithdrawData))[NumUsers]
        = PrefixSum(ClaimableOf(userWithdrawData'))[NumUsers] + claimable
  <2> DEFINE f == ClaimableOf(userWithdrawData')
             g == ClaimableOf(userWithdrawData)
  <2>1. /\ NatValued(f) /\ NatValued(g)
        /\ Summand(f, u) = 0 /\ Summand(g, u) = claimable
        /\ \A v \in 1..NumUsers : v # u => Summand(f, v) = Summand(g, v)
    <3>1. NatValued(f) /\ NatValued(g)
      BY <1>1, ClaimableType
    <3>2. \A v \in Accounts : /\ Summand(f, v) = userWithdrawData'[v].Claimable
                              /\ Summand(g, v) = userWithdrawData[v].Claimable
      BY <1>1, ClaimableType
    <3> QED
      BY <1>5, <1>6, <3>1, <3>2
  <2>2. PrefixSum(f)[NumUsers] \in Nat /\ PrefixSum(g)[NumUsers] \in Nat
    BY <1>1, ClaimableType
  <2> HIDE DEF f, g
  <2>3. PrefixSum(f)[NumUsers] + Summand(g, u) = PrefixSum(g)[NumUsers] + Summand(f, u)
    BY <1>6, <2>1, SumAfterChange
  <2> QED
    BY <1>2, <2>1, <2>2, <2>3 DEF f, g
<1>8. PrefixSum(usdcOf')[NumUsers] = PrefixSum(usdcOf)[NumUsers] + (claimable - reserve)
  <2>1. /\ NatValued(usdcOf) /\ NatValued(usdcOf')
        /\ Summand(usdcOf, u) = usdcOf[u] /\ Summand(usdcOf', u) = usdcOf[u] + (claimable - reserve)
        /\ \A v \in 1..NumUsers : v # u => Summand(usdcOf, v) = Summand(usdcOf', v)
    BY <1>1, <1>4, <1>6, ClaimedType
  <2>2. PrefixSum(usdcOf)[NumUsers] \in Nat /\ PrefixSum(usdcOf')[NumUsers] \in Nat
        /\ usdcOf[u] \in Nat
    BY <1>1, ClaimedType
  <2>3. PrefixSum(usdcOf)[NumUsers] + Summand(usdcOf', u)
          = PrefixSum(usdcOf')[NumUsers] + Summand(usdcOf, u)
    BY <1>6, <2>1, SumAfterChange
  <2> QED
    BY <1>2, <1>3, <2>1, <2>2, <2>3
<1>9. PrefixSum(ClaimableOf(userWithdrawData'))[NumUsers] \in Nat
      /\ PrefixSum(usdcOf)[NumUsers] \in Nat
  BY <1>1, ClaimableType, ClaimedType
<1>10. usdcHeld = PrefixSum(ClaimableOf(userWithdrawData))[NumUsers]
       /\ PrefixSum(WithdrawnOf(withdrawQueue))[Len(withdrawQueue)]
            = usdcHeld + usdcReserve + PrefixSum(usdcOf)[NumUsers]
  BY DEF AccountsInv, Accounted
<1> HIDE DEF claimable
<1>11. usdcHeld' = PrefixSum(ClaimableOf(userWithdrawData'))[NumUsers]
  BY <1>1, <1>2, <1>4, <1>7, <1>9, <1>10
<1>12. PrefixSum(WithdrawnOf(withdrawQueue'))[Len(withdrawQueue')]
         = usdcHeld' + usdcReserve' + PrefixSum(usdcOf')[NumUsers]
  BY <1>1, <1>2, <1>3, <1>4, <1>8, <1>9, <1>10
<1> QED
  BY <1>11, <1>12 DEF Accounted

----------------------------------------------------------------------------
\* Every call keeps the accounts.
LEMMA AccountsStep == AccountsInv /\ [Next]_vars => AccountsInv'
<1> SUFFICES ASSUME AccountsInv, [Next]_vars PROVE AccountsInv'
  OBVIOUS
<1> DEFINE Goal == Accounted(withdrawQueue, userWithdrawData, usdcHeld, usdcReserve, usdcOf)'
<1>1. Inv /\ Inv'
  BY NextInv DEF AccountsInv
<1>2. /\ indexPool \in IndexPoolState /\ usdcHeld \in Nat /\ usdcReserve \in Nat
      /\ usdcOf \in [Accounts -> Nat] /\ PrefixSum(usdcOf)[NumUsers] \in Nat
      /\ userWithdrawData \in [Accounts -> UserWithdrawData]
      /\ userWithdrawData' \in [Accounts -> UserWithdrawData]
  BY <1>1, ClaimedType DEF Inv, TypeOK
<1>3. ASSUME UNCHANGED <<usdcReserve, usdcOf>>,
             Accounted(withdrawQueue', userWithdrawData', usdcHeld', usdcReserve, usdcOf)
      PROVE  Goal
  BY <1>3 DEF Accounted
<1>4. ASSUME UNCHANGED <<withdrawQueue, usdcHeld, usdcReserve, usdcOf>>,
             \A v \in Accounts : userWithdrawData'[v].Claimable = userWithdrawData[v].Claimable
      PROVE  Goal
  <2>1. ClaimableOf(userWithdrawData') = ClaimableOf(userWithdrawData)
    BY <1>2, <1>4, ClaimableAgree
  <2> QED
    BY <1>4, <2>1 DEF AccountsInv, Accounted
<1> HIDE DEF Goal
<1>5. ASSUME NEW u \in Accounts, NEW amount \in Amounts, Register(u, amount)
      PROVE  Goal
  <2>1. amount \in Nat /\ amount > 0
    BY <1>5, AmountAssumption DEF Register, WithinCeiling
  <2>2. /\ _WithdrawFromIndexPool(
             Append(withdrawQueue, NewEntry(u, amount)),
             [userWithdrawData EXCEPT ![u].listInQueue = TRUE,
                                      ![u].queueIndex = Len(withdrawQueue)],
             totalRegisteredAmount + amount,
             rwaHeld + amount)
        /\ UNCHANGED <<usdcReserve, usdcOf>>
    BY <1>5 DEF Register
  <2>3. Accounted(withdrawQueue', userWithdrawData', usdcHeld', usdcReserve, usdcOf)
    BY <1>1, <1>2, <2>1, <2>2, RegisterKeepsReady, RegisterKeepsAccounts, TailKeepsAccounts
  <2> QED
    BY <1>3, <2>2, <2>3
<1>6. ASSUME NEW u \in Accounts, NEW amount \in 0..InitialRWA, Update(u, amount)
      PROVE  Goal
  <2>1. /\ amount \in Nat
        /\ userWithdrawData[u].listInQueue
        /\ amount <= withdrawQueue[OwnEntry(u)].remainingAmount
    BY <1>6, AmountAssumption DEF Update
  <2>2. /\ _WithdrawFromIndexPool(
             [withdrawQueue EXCEPT ![OwnEntry(u)] = CancelFrom(@, amount)],
             [userWithdrawData EXCEPT ![u].listInQueue =
                amount # withdrawQueue[OwnEntry(u)].remainingAmount],
             totalRegisteredAmount - amount,
             rwaHeld - amount)
        /\ UNCHANGED <<usdcReserve, usdcOf>>
    BY <1>6 DEF Update
  <2>3. Accounted(withdrawQueue', userWithdrawData', usdcHeld', usdcReserve, usdcOf)
    BY <1>1, <1>2, <2>1, <2>2, UpdateKeepsReady, UpdateKeepsAccounts, TailKeepsAccounts
  <2> QED
    BY <1>3, <2>2, <2>3
<1>7. ASSUME WithdrawFromIndexPool
      PROVE  Goal
  <2>1. Accounted(withdrawQueue', userWithdrawData', usdcHeld', usdcReserve, usdcOf)
    BY <1>1, <1>2, <1>7, TailKeepsAccounts DEF WithdrawFromIndexPool, AccountsInv, Inv
  <2>2. UNCHANGED <<usdcReserve, usdcOf>>
    BY <1>7 DEF WithdrawFromIndexPool
  <2> QED
    BY <1>3, <2>1, <2>2
<1>8. ASSUME NEW u \in Accounts, Claim(u)
      PROVE  Goal
  BY <1>1, <1>8, ClaimKeepsAccounts DEF Goal
<1>9. ASSUME NEW u \in Accounts, NEW c \in UserCeilings, SetUserCeiling(u, c)
      PROVE  Goal
  <2>1. \A v \in Accounts : userWithdrawData'[v].Claimable = userWithdrawData[v].Claimable
    BY <1>2, <1>9 DEF SetUserCeiling, UserWithdrawData
  <2> QED
    BY <1>4, <1>9, <2>1 DEF SetUserCeiling, tokenVars
<1>10. ASSUME UNCHANGED <<queueVars, tokenVars>>
       PROVE  Goal
  <2>1. /\ UNCHANGED <<withdrawQueue, usdcHeld, usdcReserve, usdcOf>>
        /\ userWithdrawData' = userWithdrawData
    BY <1>10 DEF queueVars, tokenVars
  <2> QED
    BY <1>4, <2>1
<1>11. \/ \E u \in Accounts, amount \in Amounts : Register(u, amount)
       \/ \E u \in Accounts, amount \in 0..InitialRWA : Update(u, amount)
       \/ \E u \in Accounts : Claim(u)
       \/ WithdrawFromIndexPool
       \/ \E u \in Accounts, c \in UserCeilings : SetUserCeiling(u, c)
       \/ UNCHANGED <<queueVars, tokenVars>>
  BY DEF Next, UserStep, AdminStep, ExternalStep, SetVerify, SetCeiling, AddFeeTier, SetFeeTier,
         IndexPoolMoves, StakeMoves, vars
<1> QED
  BY <1>1, <1>5, <1>6, <1>7, <1>8, <1>9, <1>10, <1>11 DEF Goal, AccountsInv

\* Nothing is claimable in the beginning.
LEMMA AccountsInit == Init => AccountsInv
<1> SUFFICES ASSUME Init PROVE AccountsInv
  OBVIOUS
<1>1. Inv
  BY InitInv
<1>2. /\ withdrawQueue = <<>> /\ usdcHeld = 0 /\ usdcReserve = 0
      /\ usdcOf = [u \in Accounts |-> 0]
      /\ \A u \in Accounts : userWithdrawData[u].Claimable = 0
  BY DEF Init
<1>3. NumUsers \in Nat /\ Accounts = 1..NumUsers
  BY UsersAssumption DEF Accounts
<1>4. ASSUME NEW f, f = [u \in Accounts |-> 0] PROVE PrefixSum(f)[NumUsers] = 0
  <2>1. NatValued(f) /\ \A u \in (0 + 1)..NumUsers : Summand(f, u) = 0
    BY <1>3, <1>4 DEF NatValued, Summand
  <2>2. PrefixSum(f)[NumUsers] = PrefixSum(f)[0]
    BY <1>3, <2>1, PrefixSumZeroTail
  <2> QED
    BY <2>1, <2>2, PrefixSumStep
<1>5. ClaimableOf(userWithdrawData) = [u \in Accounts |-> 0]
  BY <1>2 DEF ClaimableOf
<1>6. PrefixSum(WithdrawnOf(withdrawQueue))[Len(withdrawQueue)] = 0
  <2>1. NatValued(WithdrawnOf(withdrawQueue)) /\ Len(withdrawQueue) = 0
    BY <1>2 DEF NatValued, WithdrawnOf
  <2> QED
    BY <2>1, PrefixSumStep
<1> QED
  BY <1>1, <1>2, <1>4, <1>5, <1>6 DEF AccountsInv, Accounted

\* The accounts of the queue always balance, for any number of users, prices and calls.
LEMMA AccountsHold == Spec => []AccountsInv
BY AccountsInit, AccountsStep, PTL DEF Spec

\* The USDC in custody is exactly what the users may claim: every claim is
\* funded and no rounding dust is stranded.
THEOREM ClaimsAlwaysFunded == Spec => []ClaimsAreFunded
<1>1. AccountsInv => ClaimsAreFunded
  BY DEF AccountsInv, Accounted, ClaimsAreFunded, SumOverAccounts, ClaimableOf
<1> QED
  BY <1>1, AccountsHold, PTL

\* The history kept in the entries explains all the USDC the queue ever received.
THEOREM PayoutsAlwaysAccounted == Spec => []PayoutsAreAccounted
<1>1. AccountsInv => PayoutsAreAccounted
  BY DEF AccountsInv, Accounted, PayoutsAreAccounted, SumOfEntries, SumOverAccounts, WithdrawnOf
<1> QED
  BY <1>1, AccountsHold, PTL
============================================================================
