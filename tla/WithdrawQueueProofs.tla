------------------------ MODULE WithdrawQueueProofs ------------------------
(***************************************************************************)
(* Proofs about WithdrawQueue, for any number of users, amounts, share     *)
(* prices and states of the index pool.                                    *)
(***************************************************************************)
EXTENDS WithdrawQueue, PrefixSumsProofs

(* The inductive invariant, stated of the queue a caller hands to          *)
(* _WithdrawFromIndexPool and, below, of the queue between transactions.   *)
RemainingOf(q) == [i \in DOMAIN q |-> q[i].remainingAmount]

QueueReady(q, data, total, held) ==
  /\ q \in Seq(WithdrawData)
  /\ data \in [Accounts -> UserWithdrawData]
  /\ total \in Nat
  /\ held = total
  /\ queueIndex \in 0..Len(q)
  /\ PrefixSum(RemainingOf(q))[Len(q)] = total
  /\ \A i \in 1..Len(q) : q[i].remainingAmount <= q[i].registeredAmount
  /\ \A i \in 1..Len(q) : i <= queueIndex => q[i].remainingAmount = 0
  /\ \A u \in Accounts : data[u].listInQueue =>
       /\ data[u].queueIndex + 1 \in (queueIndex + 1)..Len(q)
       /\ q[data[u].queueIndex + 1].user = u
       /\ q[data[u].queueIndex + 1].remainingAmount > 0

(* Every fee an admin can set stays within MAX_WITHDRAW_FEE. *)
FeesBounded == \A t \in 1..Len(feeTiers) : feeTiers[t].fee <= MAX_WITHDRAW_FEE

Inv ==
  /\ TypeOK
  /\ FeesBounded
  /\ QueueReady(withdrawQueue, userWithdrawData, totalRegisteredAmount, rwaHeld)

----------------------------------------------------------------------------
(* Arithmetic of the conversions.                                          *)

\* The conversions between RWA and USDC give naturals.
LEMMA ConversionType ==
  ASSUME indexPool \in IndexPoolState, NEW amount \in Nat
  PROVE  /\ GetNumShares(amount) \in Nat
         /\ GetUSDCAmountFromShares(amount) \in Nat
         /\ DistributedUSDC(amount) \in Nat
<1>1. indexPool.sharePrice \in Nat \ {0}
  BY DEF IndexPoolState
<1>2. usdcMantissa \in Nat \ {0} /\ indexMantissa \in Nat \ {0}
  BY MantissaAssumption
<1>3. GetNumShares(amount) \in Nat
  <2>1. (amount * indexMantissa) \div usdcMantissa \in Nat
    BY <1>2, TimesType, DivType
  <2>2. ((amount * indexMantissa) \div usdcMantissa) * indexMantissa \in Nat
    BY <1>2, <2>1, TimesType
  <2> QED
    BY <1>1, <2>2, DivType DEF GetNumShares
<1>4. GetUSDCAmountFromShares(amount) \in Nat
  <2>1. (amount * indexPool.sharePrice) \div indexMantissa \in Nat
    BY <1>1, <1>2, TimesType, DivType
  <2>2. ((amount * indexPool.sharePrice) \div indexMantissa) * usdcMantissa \in Nat
    BY <1>2, <2>1, TimesType
  <2> QED
    BY <1>2, <2>2, DivType DEF GetUSDCAmountFromShares
<1>5. DistributedUSDC(amount) \in Nat
  <2>1. amount * usdcMantissa \in Nat
    BY <1>2, TimesType
  <2>2. amount * usdcMantissa * indexPool.sharePrice \in Nat
    BY <1>1, <2>1, TimesType
  <2> QED
    BY <1>2, <2>2, DivType DEF DistributedUSDC
<1> QED
  BY <1>3, <1>4, <1>5

\* The RWA to be burnt never exceeds what is registered.
LEMMA WithdrawIndexAmountType ==
  ASSUME indexPool \in IndexPoolState, NEW total \in Nat
  PROVE  WithdrawIndexAmount(total) \in 0..total
<1>1. indexPool.usdc + indexPool.vault \in Nat
  BY DEF IndexPoolState
<1> QED
  BY <1>1, ConversionType DEF WithdrawIndexAmount

(* The least element of a nonempty set of naturals, as Min of              *)
(* FiniteSetsExt picks it.                                                 *)
LEMMA MinOfNaturals ==
  ASSUME NEW S, S \subseteq Nat, S # {}
  PROVE  Min(S) \in S /\ \A x \in S : Min(S) <= x
<1>1. PICK m \in S : \A k \in S : ~ (<<k, m>> \in OpToRel(<, Nat))
  BY NatLessThanWellFounded, WFMin
<1>2. \A k \in S : m <= k
  <2> SUFFICES ASSUME NEW k \in S, k < m PROVE FALSE
    OBVIOUS
  <2>1. <<k, m>> \in OpToRel(<, Nat)
    BY DEF OpToRel
  <2> QED
    BY <1>1, <2>1
<1> QED
  BY <1>2 DEF Min

\* An entry of a well-typed queue has the fields of a WithdrawData.
LEMMA EntryType ==
  ASSUME NEW q \in Seq(WithdrawData), NEW i \in 1..Len(q)
  PROVE  /\ q[i].user \in Accounts
         /\ q[i].registeredAmount \in Nat
         /\ q[i].remainingAmount \in Nat
         /\ q[i].withdrawAmount \in Nat
<1>1. q[i] \in WithdrawData
  OBVIOUS
<1> QED
  BY <1>1 DEF WithdrawData

----------------------------------------------------------------------------
(* The loop of _WithdrawFromIndexPool.                                     *)

Waiting(q) == [i \in DOMAIN q |-> IF i > queueIndex THEN q[i].remainingAmount ELSE 0]

\* WaitingUpTo starts at zero, grows entry by entry, and is zero up to queueIndex.
LEMMA WaitingFacts ==
  ASSUME NEW q, NEW data, NEW total, NEW held, QueueReady(q, data, total, held)
  PROVE  /\ NatValued(Waiting(q)) /\ NatValued(RemainingOf(q))
         /\ WaitingUpTo(q) = PrefixSum(Waiting(q))
         /\ \A i \in 1..Len(q) : /\ Summand(Waiting(q), i) = q[i].remainingAmount
                                 /\ Summand(RemainingOf(q), i) = q[i].remainingAmount
         /\ PrefixSum(Waiting(q))[Len(q)] = total
         /\ \A i \in 0..queueIndex : PrefixSum(Waiting(q))[i] = 0
<1>1. q \in Seq(WithdrawData) /\ DOMAIN q = 1..Len(q) /\ queueIndex \in 0..Len(q)
  BY DEF QueueReady
<1>2. \A i \in 1..Len(q) : q[i].remainingAmount \in Nat
  BY <1>1, EntryType
<1>3. NatValued(Waiting(q)) /\ NatValued(RemainingOf(q))
  BY <1>1, <1>2 DEF NatValued, Waiting, RemainingOf
<1>4. WaitingUpTo(q) = PrefixSum(Waiting(q))
  BY DEF WaitingUpTo, Waiting
<1>5. \A i \in 1..Len(q) : i <= queueIndex => q[i].remainingAmount = 0
  BY DEF QueueReady
<1>6. ASSUME NEW i \in 1..Len(q)
      PROVE  /\ Summand(Waiting(q), i) = q[i].remainingAmount
             /\ Summand(RemainingOf(q), i) = q[i].remainingAmount
  BY <1>1, <1>2, <1>5 DEF Summand, Waiting, RemainingOf
<1>7. PrefixSum(Waiting(q))[Len(q)] = total
  <2>1. Len(q) \in Nat
    BY <1>1
  <2>2. PrefixSum(Waiting(q))[Len(q)] = PrefixSum(RemainingOf(q))[Len(q)]
    BY <1>3, <1>6, <2>1, PrefixSumAgree
  <2> QED
    BY <2>2 DEF QueueReady
<1>8. ASSUME NEW i \in 0..queueIndex PROVE PrefixSum(Waiting(q))[i] = 0
  <2>1. i \in Nat /\ queueIndex \in Nat
    BY <1>1
  <2>2. \A k \in (0 + 1)..i : Summand(Waiting(q), k) = 0
    BY <1>1, <1>5, <1>6
  <2>3. PrefixSum(Waiting(q))[i] = PrefixSum(Waiting(q))[0]
    BY <1>3, <2>1, <2>2, PrefixSumZeroTail
  <2> QED
    BY <1>3, <2>3, PrefixSumStep
<1> QED
  BY <1>3, <1>4, <1>6, <1>7, <1>8

(* While RWA is left to serve, the loop returns at an entry, and that is   *)
(* the first one up to which the waiting RWA covers the amount.            *)
LEMMA LoopReturns ==
  ASSUME NEW q, NEW data, NEW total, NEW held, QueueReady(q, data, total, held),
         NEW amount \in 1..total
  PROVE  /\ LastServed(q, amount) \in (queueIndex + 1)..Len(q)
         /\ WaitingUpTo(q)[LastServed(q, amount)] >= amount
         /\ WaitingUpTo(q)[LastServed(q, amount) - 1] < amount
<1> DEFINE returns == {i \in DOMAIN q : i > queueIndex /\ WaitingUpTo(q)[i] >= amount}
           last == LastServed(q, amount)
<1>1. q \in Seq(WithdrawData) /\ DOMAIN q = 1..Len(q) /\ queueIndex \in 0..Len(q)
      /\ total \in Nat /\ Len(q) \in Nat /\ amount \in Nat /\ amount > 0
  BY DEF QueueReady
<1>2. Len(q) \in returns
  <2>1. WaitingUpTo(q)[Len(q)] = total
    BY WaitingFacts
  <2>2. Len(q) > queueIndex
    <3>1. queueIndex \in 0..queueIndex
      BY <1>1
    <3>2. WaitingUpTo(q)[queueIndex] = 0
      BY <3>1, WaitingFacts
    <3>3. Len(q) \in Nat /\ queueIndex \in Nat /\ queueIndex <= Len(q)
      BY <1>1
    <3>4. total >= amount
      BY <1>1
    <3>5. ASSUME Len(q) = queueIndex PROVE FALSE
      <4>1. WaitingUpTo(q)[queueIndex] = total
        BY <2>1, <3>5
      <4> QED
        BY <1>1, <3>2, <3>4, <4>1
    <3> QED
      BY <3>3, <3>5
  <2>3. Len(q) \in DOMAIN q
    BY <1>1, <2>2
  <2>4. total >= amount
    BY <1>1
  <2> QED
    BY <2>1, <2>2, <2>3, <2>4
<1>3. last = Min(returns)
  BY <1>2 DEF LastServed
<1>4. returns \subseteq Nat
  BY <1>1
<1> HIDE DEF returns
<1>5. Min(returns) \in returns /\ \A x \in returns : Min(returns) <= x
  BY <1>2, <1>4, MinOfNaturals
<1>6. last \in (queueIndex + 1)..Len(q) /\ WaitingUpTo(q)[last] >= amount
  BY <1>1, <1>3, <1>5 DEF returns
<1>7. WaitingUpTo(q)[last - 1] < amount
  <2>1. CASE last - 1 = queueIndex
    <3>1. last - 1 \in 0..queueIndex
      BY <2>1, <1>1
    <3>2. WaitingUpTo(q)[last - 1] = 0
      BY <3>1, WaitingFacts
    <3> QED
      BY <3>2
  <2>2. CASE last - 1 # queueIndex
    <3>1. last - 1 \in 1..Len(q) /\ last - 1 > queueIndex
      BY <1>1, <1>6, <2>2
    <3>2. last - 1 \notin returns
      BY <1>1, <1>3, <1>5, <1>6
    <3>3. ~ (WaitingUpTo(q)[last - 1] >= amount)
      BY <1>1, <3>1, <3>2 DEF returns
    <3>4. WaitingUpTo(q)[last - 1] \in Nat
      <4>1. last - 1 \in Nat
        BY <3>1
      <4>2. NatValued(Waiting(q)) /\ WaitingUpTo(q) = PrefixSum(Waiting(q))
        BY WaitingFacts
      <4> QED
        BY <4>1, <4>2, PrefixSumStep
    <3> QED
      BY <3>3, <3>4
  <2> QED
    BY <2>1, <2>2
<1> QED
  BY <1>6, <1>7

(* No entry gives more RWA than it waits for, and together they give what  *)
(* is burnt: the loop neither invents nor loses RWA.                       *)
LEMMA TakenIsConserved ==
  ASSUME NEW q, NEW data, NEW total, NEW held, QueueReady(q, data, total, held),
         NEW amount \in 1..total
  PROVE  /\ \A i \in 1..Len(q) : TakenFrom(q, amount, i) \in 0..q[i].remainingAmount
         /\ \A i \in 1..Len(q) : i < LastServed(q, amount) =>
              TakenFrom(q, amount, i) = q[i].remainingAmount
         /\ PrefixSum([i \in DOMAIN q |-> TakenFrom(q, amount, i)])[Len(q)] = amount
<1> DEFINE last == LastServed(q, amount)
           taken == [i \in DOMAIN q |-> TakenFrom(q, amount, i)]
           w == PrefixSum(Waiting(q))
<1>1. q \in Seq(WithdrawData) /\ DOMAIN q = 1..Len(q) /\ queueIndex \in 0..Len(q)
      /\ total \in Nat /\ amount \in Nat /\ Len(q) \in Nat
  BY DEF QueueReady
<1>2. \A i \in 1..Len(q) : q[i].remainingAmount \in Nat
  BY <1>1, EntryType
<1>3. \A i \in 1..Len(q) : i <= queueIndex => q[i].remainingAmount = 0
  BY DEF QueueReady
<1>4. last \in (queueIndex + 1)..Len(q) /\ w[last] >= amount /\ w[last - 1] < amount
  BY LoopReturns, WaitingFacts
<1>5. last \in Nat /\ last - 1 \in Nat /\ (last - 1) + 1 = last /\ last \in 1..Len(q)
  BY <1>1, <1>4
<1>6. w[last] = w[last - 1] + q[last].remainingAmount /\ w[last - 1] \in Nat
  <2>1. NatValued(Waiting(q)) /\ Summand(Waiting(q), last) = q[last].remainingAmount
    BY <1>5, WaitingFacts
  <2>2. w[(last - 1) + 1] = w[last - 1] + Summand(Waiting(q), (last - 1) + 1)
        /\ w[last - 1] \in Nat
    BY <1>5, <2>1, PrefixSumStep
  <2> QED
    BY <1>5, <2>1, <2>2
<1>7. TakenFrom(q, amount, last) = amount - w[last - 1]
  BY <1>1, <1>4, WaitingFacts DEF TakenFrom
<1>8. ASSUME NEW i \in 1..Len(q), i < last
      PROVE TakenFrom(q, amount, i) = q[i].remainingAmount
  BY <1>1, <1>3, <1>4, <1>8 DEF TakenFrom
<1>9. ASSUME NEW i \in 1..Len(q), i > last
      PROVE TakenFrom(q, amount, i) = 0
  BY <1>1, <1>4, <1>9 DEF TakenFrom
<1> HIDE DEF last
<1>10. ASSUME NEW i \in 1..Len(q) PROVE TakenFrom(q, amount, i) \in 0..q[i].remainingAmount
  <2>1. CASE i < last
    BY <1>2, <1>8, <2>1
  <2>2. CASE i = last
    BY <1>1, <1>2, <1>4, <1>6, <1>7, <2>2
  <2>3. CASE i > last
    BY <1>2, <1>9, <2>3
  <2> QED
    BY <1>5, <2>1, <2>2, <2>3
<1>11. NatValued(taken) /\ \A i \in 1..Len(q) : Summand(taken, i) = TakenFrom(q, amount, i)
  BY <1>1, <1>2, <1>10 DEF NatValued, Summand
<1> HIDE DEF taken
<1>12. PrefixSum(taken)[last - 1] = w[last - 1]
  <2>1. NatValued(Waiting(q)) /\ \A i \in 1..Len(q) : Summand(Waiting(q), i) = q[i].remainingAmount
    BY WaitingFacts
  <2>2. \A k \in 1..(last - 1) : Summand(taken, k) = Summand(Waiting(q), k)
    BY <1>5, <1>8, <1>11, <2>1
  <2> QED
    BY <1>5, <1>11, <2>1, <2>2, PrefixSumAgree
<1>13. PrefixSum(taken)[last] = amount
  <2>1. PrefixSum(taken)[last] = PrefixSum(taken)[last - 1] + Summand(taken, last)
    BY <1>5, <1>11, PrefixSumStep
  <2> QED
    BY <1>1, <1>5, <1>6, <1>7, <1>11, <1>12, <2>1
<1>14. PrefixSum(taken)[Len(q)] = amount
  <2>1. \A k \in (last + 1)..Len(q) : Summand(taken, k) = 0
    BY <1>5, <1>9, <1>11
  <2>2. last <= Len(q)
    BY <1>5
  <2> QED
    BY <1>1, <1>5, <1>11, <1>13, <2>1, <2>2, PrefixSumZeroTail
<1> QED
  BY <1>8, <1>10, <1>14 DEF last, taken

(* What an entry is paid is a natural number when the checked subtractions *)
(* of the loop succeed.                                                    *)
LEMMA PaidType ==
  ASSUME indexPool \in IndexPoolState,
         NEW q, NEW data, NEW total, NEW held, QueueReady(q, data, total, held),
         NEW amount \in 1..total, NEW usd \in Nat, Distributable(q, amount, usd)
  PROVE  \A i \in 1..Len(q) : PaidTo(q, amount, usd, i) \in Nat
<1> DEFINE last == LastServed(q, amount)
           full == [i \in DOMAIN q |-> IF i > queueIndex /\ i < last
                                       THEN DistributedUSDC(q[i].remainingAmount) ELSE 0]
<1>1. q \in Seq(WithdrawData) /\ DOMAIN q = 1..Len(q) /\ queueIndex \in 0..Len(q)
      /\ Len(q) \in Nat
  BY DEF QueueReady
<1>2. \A i \in 1..Len(q) : DistributedUSDC(q[i].remainingAmount) \in Nat
  BY <1>1, EntryType, ConversionType
<1>3. NatValued(full)
  BY <1>1, <1>2 DEF NatValued
<1>4. DistributedUpTo(q, amount) = PrefixSum(full)
  BY DEF DistributedUpTo
<1>5. last \in (queueIndex + 1)..Len(q)
  BY LoopReturns
<1> HIDE DEF full
<1>6. last - 1 \in Nat /\ last - 1 <= Len(q) /\ last \in Nat
  BY <1>1, <1>5
<1>7. PrefixSum(full)[last - 1] <= PrefixSum(full)[Len(q)]
  BY <1>1, <1>3, <1>6, PrefixSumMonotone
<1>8. PrefixSum(full)[last - 1] \in Nat /\ PrefixSum(full)[Len(q)] \in Nat
  BY <1>1, <1>3, <1>6, PrefixSumStep
<1>9. PrefixSum(full)[Len(q)] <= usd
  BY <1>4 DEF Distributable
<1>10. usd - DistributedUpTo(q, amount)[last - 1] \in Nat
  BY <1>4, <1>7, <1>8, <1>9
<1> HIDE DEF last
<1> SUFFICES ASSUME NEW i \in 1..Len(q) PROVE PaidTo(q, amount, usd, i) \in Nat
  OBVIOUS
<1>11. CASE i <= queueIndex \/ i > last
  <2>1. PaidTo(q, amount, usd, i) = 0
    BY <1>1, <1>6, <1>11 DEF PaidTo, last
  <2> QED
    BY <2>1
<1>12. CASE i > queueIndex /\ i < last
  BY <1>2, <1>12, <1>6, <1>1 DEF PaidTo, last
<1>13. CASE i > queueIndex /\ i = last
  BY <1>10, <1>13, <1>6, <1>1 DEF PaidTo, last
<1> QED
  BY <1>1, <1>6, <1>11, <1>12, <1>13

(* The queue the loop leaves behind is in order again.                     *)
LEMMA ServeKeepsReady ==
  ASSUME indexPool \in IndexPoolState,
         NEW q, NEW data, NEW total, NEW held, QueueReady(q, data, total, held),
         NEW amount \in 1..total, NEW usd \in Nat, Distributable(q, amount, usd),
         withdrawQueue' = ServeQueue(q, amount, usd),
         userWithdrawData' = ServeUsers(q, data, amount, usd),
         totalRegisteredAmount' = total - amount,
         queueIndex' = NextQueueIndex(q, amount),
         rwaHeld' = held - amount
  PROVE  QueueReady(withdrawQueue, userWithdrawData, totalRegisteredAmount, rwaHeld)'
<1> DEFINE last == LastServed(q, amount)
           taken == [i \in DOMAIN q |-> TakenFrom(q, amount, i)]
<1>1. q \in Seq(WithdrawData) /\ DOMAIN q = 1..Len(q) /\ queueIndex \in 0..Len(q)
      /\ Len(q) \in Nat
  BY DEF QueueReady
<1>2. total \in Nat /\ held = total /\ amount \in Nat /\ total - amount \in Nat
  BY DEF QueueReady
<1>3. last \in (queueIndex + 1)..Len(q) /\ last \in 1..Len(q) /\ last \in Nat
  BY <1>1, LoopReturns
<1>4. /\ \A i \in 1..Len(q) : TakenFrom(q, amount, i) \in 0..q[i].remainingAmount
      /\ \A i \in 1..Len(q) : i < last => TakenFrom(q, amount, i) = q[i].remainingAmount
      /\ PrefixSum(taken)[Len(q)] = amount
  BY TakenIsConserved
<1>5. \A i \in 1..Len(q) : PaidTo(q, amount, usd, i) \in Nat
  BY PaidType
<1>6. \A i \in 1..Len(q) : /\ q[i].user \in Accounts
                           /\ q[i].registeredAmount \in Nat
                           /\ q[i].remainingAmount \in Nat
                           /\ q[i].withdrawAmount \in Nat
  BY <1>1, EntryType
<1>7. ASSUME NEW i \in 1..Len(q)
      PROVE /\ withdrawQueue'[i] \in WithdrawData
            /\ withdrawQueue'[i].user = q[i].user
            /\ withdrawQueue'[i].registeredAmount = q[i].registeredAmount
            /\ withdrawQueue'[i].remainingAmount = q[i].remainingAmount - TakenFrom(q, amount, i)
  <2>1. withdrawQueue'[i] = [q[i] EXCEPT !.remainingAmount = @ - TakenFrom(q, amount, i),
                                         !.withdrawAmount  = @ + PaidTo(q, amount, usd, i)]
    BY <1>1 DEF ServeQueue
  <2>2. q[i] \in WithdrawData
    BY <1>1
  <2>3. q[i].remainingAmount - TakenFrom(q, amount, i) \in Nat
    BY <1>4, <1>6
  <2>4. q[i].withdrawAmount + PaidTo(q, amount, usd, i) \in Nat
    BY <1>5, <1>6
  <2> QED
    BY <2>1, <2>2, <2>3, <2>4 DEF WithdrawData
<1>8. withdrawQueue' \in Seq(WithdrawData) /\ Len(withdrawQueue') = Len(q)
      /\ DOMAIN withdrawQueue' = 1..Len(q)
  <2>1. withdrawQueue' = [i \in 1..Len(q) |-> withdrawQueue'[i]]
    BY <1>1 DEF ServeQueue
  <2> QED
    BY <1>1, <1>7, <2>1
<1>9. queueIndex' \in 0..Len(q) /\ queueIndex' <= last
      /\ (queueIndex' = last => TakenFrom(q, amount, last) = q[last].remainingAmount)
  BY <1>1, <1>3 DEF NextQueueIndex, PassedBy
<1>10. \A i \in 1..Len(q) : withdrawQueue'[i].remainingAmount <= withdrawQueue'[i].registeredAmount
  <2>1. \A i \in 1..Len(q) : q[i].remainingAmount <= q[i].registeredAmount
    BY DEF QueueReady
  <2> QED
    BY <1>4, <1>6, <1>7, <2>1
<1>11. \A i \in 1..Len(q) : i <= queueIndex' => withdrawQueue'[i].remainingAmount = 0
  <2> SUFFICES ASSUME NEW i \in 1..Len(q), i <= queueIndex'
               PROVE  withdrawQueue'[i].remainingAmount = 0
    OBVIOUS
  <2> HIDE DEF last
  <2>1. i <= last /\ (i = last => queueIndex' = last)
    BY <1>3, <1>9
  <2>2. TakenFrom(q, amount, i) = q[i].remainingAmount
    BY <1>3, <1>4, <1>9, <2>1
  <2> QED
    BY <1>6, <1>7, <2>2
<1>12. PrefixSum(RemainingOf(withdrawQueue'))[Len(q)] = total - amount
  <2>1. /\ NatValued(RemainingOf(q))
        /\ PrefixSum(RemainingOf(q))[Len(q)] = total
        /\ \A i \in 1..Len(q) : Summand(RemainingOf(q), i) = q[i].remainingAmount
    <3>1. PrefixSum(RemainingOf(q))[Len(q)] = total
      BY DEF QueueReady
    <3> QED
      BY <3>1, WaitingFacts
  <2>2. /\ NatValued(RemainingOf(withdrawQueue'))
        /\ \A i \in 1..Len(q) :
             Summand(RemainingOf(withdrawQueue'), i) = withdrawQueue'[i].remainingAmount
    BY <1>7, <1>8 DEF RemainingOf, NatValued, Summand, WithdrawData
  <2>3. /\ NatValued(taken)
        /\ \A i \in 1..Len(q) : Summand(taken, i) = TakenFrom(q, amount, i)
    BY <1>1, <1>4, <1>6 DEF NatValued, Summand
  <2> HIDE DEF taken
  <2>4. \A i \in 1..Len(q) : Summand(RemainingOf(q), i)
          = Summand(RemainingOf(withdrawQueue'), i) + Summand(taken, i)
    <3> SUFFICES ASSUME NEW i \in 1..Len(q)
                 PROVE  q[i].remainingAmount
                          = withdrawQueue'[i].remainingAmount + TakenFrom(q, amount, i)
      BY <2>1, <2>2, <2>3
    <3> QED
      BY <1>4, <1>6, <1>7
  <2>5. PrefixSum(RemainingOf(q))[Len(q)]
          = PrefixSum(RemainingOf(withdrawQueue'))[Len(q)] + PrefixSum(taken)[Len(q)]
    BY <1>1, <2>1, <2>2, <2>3, <2>4, PrefixSumAdd
  <2>6. PrefixSum(RemainingOf(withdrawQueue'))[Len(q)] \in Nat
    BY <1>1, <2>2, PrefixSumStep
  <2> QED
    BY <1>2, <1>4, <2>1, <2>5, <2>6
<1>13. userWithdrawData' \in [Accounts -> UserWithdrawData]
  <2>1. data \in [Accounts -> UserWithdrawData]
    BY DEF QueueReady
  <2> SUFFICES ASSUME NEW u \in Accounts
               PROVE  userWithdrawData'[u] \in UserWithdrawData
    BY DEF ServeUsers
  <2> DEFINE mine == [i \in DOMAIN q |->
                        IF q[i].user = u THEN PaidTo(q, amount, usd, i) ELSE 0]
  <2>2. NatValued(mine)
    BY <1>1, <1>5 DEF NatValued
  <2>3. userWithdrawData'[u] =
          [data[u] EXCEPT
             !.listInQueue = @ /\ \A i \in PassedBy(q, amount) : q[i].user # u,
             !.Claimable   = @ + PrefixSum(mine)[Len(q)]]
    BY DEF ServeUsers
  <2> HIDE DEF mine
  <2>4. PrefixSum(mine)[Len(q)] \in Nat
    BY <1>1, <2>2, PrefixSumStep
  <2>5. data[u] \in UserWithdrawData
    BY <2>1
  <2> DEFINE listed == data[u].listInQueue /\ \A i \in PassedBy(q, amount) : q[i].user # u
             sum == data[u].Claimable + PrefixSum(mine)[Len(q)]
  <2>6. listed \in BOOLEAN /\ sum \in Nat
    BY <2>4, <2>5 DEF UserWithdrawData
  <2>7. userWithdrawData'[u] = [data[u] EXCEPT !.listInQueue = listed, !.Claimable = sum]
    BY <2>3
  <2> HIDE DEF listed, sum
  <2> QED
    BY <2>5, <2>6, <2>7 DEF UserWithdrawData
<1>14. ASSUME NEW u \in Accounts, userWithdrawData'[u].listInQueue
       PROVE  LET j == userWithdrawData'[u].queueIndex + 1
              IN  /\ j \in (queueIndex' + 1)..Len(q)
                  /\ withdrawQueue'[j].user = u
                  /\ withdrawQueue'[j].remainingAmount > 0
  <2> DEFINE j == data[u].queueIndex + 1
             passed == \A i \in PassedBy(q, amount) : q[i].user # u
  <2>1. data[u] \in UserWithdrawData
    BY DEF QueueReady
  <2>2. userWithdrawData'[u].listInQueue = (data[u].listInQueue /\ passed)
        /\ userWithdrawData'[u].queueIndex = data[u].queueIndex
    BY <2>1 DEF ServeUsers, UserWithdrawData
  <2>3. data[u].listInQueue /\ passed
    BY <1>14, <2>2
  <2>4. j \in (queueIndex + 1)..Len(q) /\ q[j].user = u /\ q[j].remainingAmount > 0
    BY <2>3 DEF QueueReady
  <2>5. j \in 1..Len(q) /\ j > queueIndex
    BY <1>1, <2>4
  <2>6. j \notin PassedBy(q, amount)
    BY <2>3, <2>4
  <2> HIDE DEF j
  <2>7. ~ (j < last) /\ ~ (j = last /\ TakenFrom(q, amount, j) = q[j].remainingAmount)
    BY <1>1, <2>5, <2>6 DEF PassedBy
  <2>8. CASE j = last
    <3>1. queueIndex' < j
      BY <1>3, <1>9, <2>7, <2>8
    <3>2. withdrawQueue'[j].remainingAmount > 0
      BY <1>4, <1>6, <1>7, <2>5, <2>7, <2>8
    <3> QED
      BY <1>7, <1>9, <2>2, <2>4, <2>5, <3>1, <3>2 DEF j
  <2>9. CASE j > last
    <3>1. TakenFrom(q, amount, j) = 0
      BY <1>1, <1>3, <2>5, <2>9 DEF TakenFrom
    <3>2. queueIndex' < j
      BY <1>3, <1>9, <2>5, <2>9
    <3>3. withdrawQueue'[j].remainingAmount > 0
      BY <1>6, <1>7, <2>4, <2>5, <3>1
    <3> QED
      BY <1>7, <1>9, <2>2, <2>4, <2>5, <3>2, <3>3 DEF j
  <2> QED
    BY <1>3, <2>5, <2>7, <2>8, <2>9
<1> QED
  BY <1>2, <1>8, <1>9, <1>10, <1>11, <1>12, <1>13, <1>14 DEF QueueReady

(* The tail of every call keeps a queue in order in order.                 *)
LEMMA TailKeepsReady ==
  ASSUME indexPool \in IndexPoolState, usdcHeld \in Nat,
         NEW q, NEW data, NEW total, NEW held, QueueReady(q, data, total, held),
         _WithdrawFromIndexPool(q, data, total, held)
  PROVE  /\ QueueReady(withdrawQueue, userWithdrawData, totalRegisteredAmount, rwaHeld)'
         /\ indexPool' \in IndexPoolState
         /\ usdcHeld' \in Nat
<1> DEFINE amount == WithdrawIndexAmount(total)
           worth == GetUSDCAmountFromShares(amount)
<1>1. total \in Nat
  BY DEF QueueReady
<1>2. amount \in 0..total /\ amount \in Nat
  BY <1>1, WithdrawIndexAmountType
<1>3. worth \in Nat
  BY <1>2, ConversionType
<1>4. CASE total = 0 \/ amount = 0
  <2>1. /\ withdrawQueue' = q
        /\ userWithdrawData' = data
        /\ totalRegisteredAmount' = total
        /\ rwaHeld' = held
        /\ UNCHANGED <<queueIndex, usdcHeld, indexPool>>
    BY <1>4 DEF _WithdrawFromIndexPool
  <2> QED
    BY <2>1 DEF QueueReady
<1>5. CASE ~ (total = 0 \/ amount = 0)
  <2>1. PICK usd \in 0..worth :
          /\ WithdrawInRWA(amount, held, usd)
          /\ Distributable(q, amount, usd)
          /\ withdrawQueue' = ServeQueue(q, amount, usd)
          /\ userWithdrawData' = ServeUsers(q, data, amount, usd)
          /\ totalRegisteredAmount' = total - amount
          /\ queueIndex' = NextQueueIndex(q, amount)
          /\ rwaHeld' = held - amount
          /\ usdcHeld' = usdcHeld + usd
    BY <1>5 DEF _WithdrawFromIndexPool
  <2>2. amount \in 1..total /\ usd \in Nat
    BY <1>1, <1>2, <1>3, <1>5
  <2> HIDE DEF amount
  <2>3. QueueReady(withdrawQueue, userWithdrawData, totalRegisteredAmount, rwaHeld)'
    BY <2>1, <2>2, ServeKeepsReady
  <2>4. indexPool' \in IndexPoolState
    <3> HIDE DEF worth
    <3>1. indexPool.usdc \in Nat /\ indexPool.vault \in Nat
      BY DEF IndexPoolState
    <3>2. CASE worth - indexPool.usdc > 0
      <4>1. PICK short \in Shortfalls :
              /\ short <= worth - indexPool.usdc
              /\ VaultWithdraw(worth - indexPool.usdc, worth - indexPool.usdc - short)
        BY <2>1, <3>2 DEF WithdrawInRWA, worth
      <4>2. short \in Nat
        BY PoolAssumption
      <4>3. PICK decreasedValue \in (worth - indexPool.usdc - short)..indexPool.vault :
              indexPool' = [indexPool EXCEPT !.usdc = 0, !.vault = @ - decreasedValue]
        BY <4>1 DEF VaultWithdraw
      <4>4. indexPool.vault - decreasedValue \in Nat
        BY <1>3, <3>1, <4>1, <4>2
      <4> QED
        BY <4>3, <4>4 DEF IndexPoolState
    <3>3. CASE ~ (worth - indexPool.usdc > 0)
      <4>1. indexPool' = [indexPool EXCEPT !.usdc = @ - worth]
        BY <2>1, <3>3 DEF WithdrawInRWA, worth
      <4>2. indexPool.usdc - worth \in Nat
        BY <1>3, <3>1, <3>3
      <4> QED
        BY <4>1, <4>2 DEF IndexPoolState
    <3> QED
      BY <3>2, <3>3
  <2>5. usdcHeld' \in Nat
    BY <2>1, <2>2
  <2> QED
    BY <2>3, <2>4, <2>5
<1> QED
  BY <1>4, <1>5

(* A registration at the end, and a cancellation in the middle, hand a     *)
(* queue in order to the tail.                                             *)
LEMMA RegisterKeepsReady ==
  ASSUME Inv, NEW u \in Accounts, NEW amount \in Nat, amount > 0
  PROVE  QueueReady(Append(withdrawQueue, NewEntry(u, amount)),
                    [userWithdrawData EXCEPT ![u].listInQueue = TRUE,
                                             ![u].queueIndex = Len(withdrawQueue)],
                    totalRegisteredAmount + amount,
                    rwaHeld + amount)
<1> DEFINE n == Len(withdrawQueue)
           q == Append(withdrawQueue, NewEntry(u, amount))
           data == [userWithdrawData EXCEPT ![u].listInQueue = TRUE, ![u].queueIndex = n]
<1>1. /\ withdrawQueue \in Seq(WithdrawData) /\ n \in Nat /\ DOMAIN withdrawQueue = 1..n
      /\ queueIndex \in 0..n
      /\ totalRegisteredAmount \in Nat /\ rwaHeld = totalRegisteredAmount
  BY DEF Inv, QueueReady
<1>2. NewEntry(u, amount) \in WithdrawData
  BY DEF NewEntry, WithdrawData
<1>3. /\ q \in Seq(WithdrawData) /\ Len(q) = n + 1 /\ DOMAIN q = 1..(n + 1)
      /\ q[n + 1] = NewEntry(u, amount)
      /\ \A i \in 1..n : q[i] = withdrawQueue[i]
  BY <1>1, <1>2
<1>4. NewEntry(u, amount).remainingAmount = amount /\ NewEntry(u, amount).user = u
      /\ NewEntry(u, amount).registeredAmount = amount
  BY DEF NewEntry
<1> HIDE DEF q
<1>5. PrefixSum(RemainingOf(q))[n + 1] = totalRegisteredAmount + amount
  <2>1. /\ NatValued(RemainingOf(withdrawQueue))
        /\ PrefixSum(RemainingOf(withdrawQueue))[n] = totalRegisteredAmount
        /\ \A i \in 1..n : Summand(RemainingOf(withdrawQueue), i) = withdrawQueue[i].remainingAmount
    <3>1. QueueReady(withdrawQueue, userWithdrawData, totalRegisteredAmount, rwaHeld)
      BY DEF Inv
    <3>2. PrefixSum(RemainingOf(withdrawQueue))[n] = totalRegisteredAmount
      BY <3>1 DEF QueueReady
    <3> QED
      BY <3>1, <3>2, WaitingFacts
  <2>2. \A i \in 1..(n + 1) : q[i].remainingAmount \in Nat
    BY <1>3, EntryType
  <2>3. /\ NatValued(RemainingOf(q))
        /\ \A i \in 1..(n + 1) : Summand(RemainingOf(q), i) = q[i].remainingAmount
    BY <1>3, <2>2 DEF RemainingOf, NatValued, Summand
  <2>4. PrefixSum(RemainingOf(q))[n] = PrefixSum(RemainingOf(withdrawQueue))[n]
    BY <1>1, <1>3, <2>1, <2>3, PrefixSumAgree
  <2>5. PrefixSum(RemainingOf(q))[n + 1]
          = PrefixSum(RemainingOf(q))[n] + Summand(RemainingOf(q), n + 1)
    BY <1>1, <2>3, PrefixSumStep
  <2> QED
    BY <1>1, <1>3, <1>4, <2>1, <2>3, <2>4, <2>5
<1>6. \A i \in 1..(n + 1) : q[i].remainingAmount <= q[i].registeredAmount
  BY <1>1, <1>3, <1>4 DEF Inv, QueueReady
<1>7. \A i \in 1..(n + 1) : i <= queueIndex => q[i].remainingAmount = 0
  BY <1>1, <1>3 DEF Inv, QueueReady
<1>8. data \in [Accounts -> UserWithdrawData]
  <2>1. userWithdrawData \in [Accounts -> UserWithdrawData]
    BY DEF Inv, TypeOK
  <2> QED
    BY <1>1, <2>1 DEF UserWithdrawData
<1>9. ASSUME NEW v \in Accounts, data[v].listInQueue
      PROVE  /\ data[v].queueIndex + 1 \in (queueIndex + 1)..(n + 1)
             /\ q[data[v].queueIndex + 1].user = v
             /\ q[data[v].queueIndex + 1].remainingAmount > 0
  <2>1. userWithdrawData[v] \in UserWithdrawData /\ userWithdrawData \in [Accounts -> UserWithdrawData]
    BY DEF Inv, TypeOK
  <2>2. CASE v = u
    <3>1. data[v].queueIndex = n
      BY <2>1, <2>2 DEF UserWithdrawData
    <3> QED
      BY <1>1, <1>3, <1>4, <2>2, <3>1
  <2>3. CASE v # u
    <3>1. data[v] = userWithdrawData[v]
      BY <2>1, <2>3
    <3>2. /\ userWithdrawData[v].queueIndex + 1 \in (queueIndex + 1)..n
          /\ withdrawQueue[userWithdrawData[v].queueIndex + 1].user = v
          /\ withdrawQueue[userWithdrawData[v].queueIndex + 1].remainingAmount > 0
      BY <1>9, <3>1 DEF Inv, QueueReady
    <3> DEFINE k == userWithdrawData[v].queueIndex + 1
    <3>3. k \in (queueIndex + 1)..n /\ data[v].queueIndex + 1 = k
      BY <3>1, <3>2
    <3>4. withdrawQueue[k].user = v /\ withdrawQueue[k].remainingAmount > 0
      BY <3>2
    <3> HIDE DEF k
    <3>5. k \in 1..n /\ k \in (queueIndex + 1)..(n + 1)
      BY <1>1, <3>3
    <3>6. q[k] = withdrawQueue[k]
      BY <1>3, <3>5
    <3> QED
      BY <3>3, <3>4, <3>5, <3>6
  <2> QED
    BY <2>2, <2>3
<1>10. totalRegisteredAmount + amount \in Nat
       /\ rwaHeld + amount = totalRegisteredAmount + amount
       /\ queueIndex \in 0..(n + 1)
  BY <1>1
<1> HIDE DEF data
<1>11. QueueReady(q, data, totalRegisteredAmount + amount, rwaHeld + amount)
  BY <1>3, <1>5, <1>6, <1>7, <1>8, <1>9, <1>10 DEF QueueReady
<1> QED
  BY <1>11 DEF q, data

\* An update, too, hands a queue in order to the tail.
LEMMA UpdateKeepsReady ==
  ASSUME Inv, NEW u \in Accounts, userWithdrawData[u].listInQueue,
         NEW amount \in Nat, amount <= withdrawQueue[OwnEntry(u)].remainingAmount
  PROVE  QueueReady([withdrawQueue EXCEPT ![OwnEntry(u)] = CancelFrom(@, amount)],
                    [userWithdrawData EXCEPT ![u].listInQueue =
                       amount # withdrawQueue[OwnEntry(u)].remainingAmount],
                    totalRegisteredAmount - amount,
                    rwaHeld - amount)
<1> DEFINE n == Len(withdrawQueue)
           j == OwnEntry(u)
           q == [withdrawQueue EXCEPT ![j] = CancelFrom(@, amount)]
           live == amount # withdrawQueue[j].remainingAmount
           data == [userWithdrawData EXCEPT ![u].listInQueue = live]
           cancelled == [i \in 1..n |-> IF i = j THEN amount ELSE 0]
<1>1. /\ withdrawQueue \in Seq(WithdrawData) /\ n \in Nat /\ DOMAIN withdrawQueue = 1..n
      /\ queueIndex \in 0..n
      /\ totalRegisteredAmount \in Nat /\ rwaHeld = totalRegisteredAmount
  BY DEF Inv, QueueReady
<1>2. j \in (queueIndex + 1)..n /\ withdrawQueue[j].user = u
      /\ withdrawQueue[j].remainingAmount > 0
  BY DEF Inv, QueueReady, OwnEntry
<1>3. j \in 1..n /\ j > queueIndex
  BY <1>1, <1>2
<1> HIDE DEF j
<1>4. \A i \in 1..n : /\ withdrawQueue[i].registeredAmount \in Nat
                      /\ withdrawQueue[i].remainingAmount \in Nat
                      /\ withdrawQueue[i].remainingAmount <= withdrawQueue[i].registeredAmount
  BY <1>1, EntryType DEF Inv, QueueReady
<1>5. amount <= withdrawQueue[j].remainingAmount
  BY DEF j
<1>6. /\ q \in Seq(WithdrawData) /\ Len(q) = n /\ DOMAIN q = 1..n
      /\ q[j] = CancelFrom(withdrawQueue[j], amount)
      /\ \A i \in 1..n : i # j => q[i] = withdrawQueue[i]
  <2>1. CancelFrom(withdrawQueue[j], amount) \in WithdrawData
    <3>1. withdrawQueue[j] \in WithdrawData
      BY <1>1, <1>3
    <3>2. withdrawQueue[j].registeredAmount - amount \in Nat
          /\ withdrawQueue[j].remainingAmount - amount \in Nat
      BY <1>3, <1>4, <1>5
    <3> QED
      BY <3>1, <3>2 DEF CancelFrom, WithdrawData
  <2> QED
    BY <1>1, <1>3, <2>1
<1>7. /\ q[j].user = u
      /\ q[j].registeredAmount = withdrawQueue[j].registeredAmount - amount
      /\ q[j].remainingAmount = withdrawQueue[j].remainingAmount - amount
  <2>1. withdrawQueue[j] \in WithdrawData
    BY <1>1, <1>3
  <2> QED
    BY <1>2, <1>6, <2>1 DEF CancelFrom, WithdrawData
<1> HIDE DEF q
<1>8. /\ PrefixSum(RemainingOf(q))[n] = totalRegisteredAmount - amount
      /\ totalRegisteredAmount - amount \in Nat
  <2>1. /\ NatValued(RemainingOf(withdrawQueue))
        /\ PrefixSum(RemainingOf(withdrawQueue))[n] = totalRegisteredAmount
        /\ \A i \in 1..n : Summand(RemainingOf(withdrawQueue), i) = withdrawQueue[i].remainingAmount
    <3>1. QueueReady(withdrawQueue, userWithdrawData, totalRegisteredAmount, rwaHeld)
      BY DEF Inv
    <3>2. PrefixSum(RemainingOf(withdrawQueue))[n] = totalRegisteredAmount
      BY <3>1 DEF QueueReady
    <3> QED
      BY <3>1, <3>2, WaitingFacts
  <2>2. \A i \in 1..n : q[i].remainingAmount \in Nat
    BY <1>6, EntryType
  <2>3. /\ NatValued(RemainingOf(q))
        /\ \A i \in 1..n : Summand(RemainingOf(q), i) = q[i].remainingAmount
    BY <1>6, <2>2 DEF RemainingOf, NatValued, Summand
  <2>4. /\ NatValued(cancelled)
        /\ \A i \in 1..n : Summand(cancelled, i) = IF i = j THEN amount ELSE 0
    BY DEF NatValued, Summand
  <2> HIDE DEF cancelled
  <2>5. PrefixSum(cancelled)[n] = amount
    BY <1>1, <1>3, <2>4, PrefixSumSingle
  <2>6. \A i \in 1..n : Summand(RemainingOf(withdrawQueue), i)
          = Summand(RemainingOf(q), i) + Summand(cancelled, i)
    BY <1>3, <1>4, <1>5, <1>6, <1>7, <2>1, <2>3, <2>4
  <2>7. PrefixSum(RemainingOf(withdrawQueue))[n]
          = PrefixSum(RemainingOf(q))[n] + PrefixSum(cancelled)[n]
    BY <1>1, <2>1, <2>3, <2>4, <2>6, PrefixSumAdd
  <2>8. PrefixSum(RemainingOf(q))[n] \in Nat
    BY <1>1, <2>3, PrefixSumStep
  <2> QED
    BY <1>1, <2>1, <2>5, <2>7, <2>8
<1>9. \A i \in 1..n : q[i].remainingAmount <= q[i].registeredAmount
  BY <1>3, <1>4, <1>6, <1>7
<1>10. \A i \in 1..n : i <= queueIndex => q[i].remainingAmount = 0
  BY <1>1, <1>3, <1>6 DEF Inv, QueueReady
<1>11. userWithdrawData \in [Accounts -> UserWithdrawData] /\ live \in BOOLEAN
  BY DEF Inv, TypeOK
<1>12. data \in [Accounts -> UserWithdrawData]
  <2> HIDE DEF live
  <2> QED
    BY <1>11 DEF UserWithdrawData
<1>13. ASSUME NEW v \in Accounts, data[v].listInQueue
       PROVE  /\ data[v].queueIndex + 1 \in (queueIndex + 1)..n
              /\ q[data[v].queueIndex + 1].user = v
              /\ q[data[v].queueIndex + 1].remainingAmount > 0
  <2>1. CASE v = u
    <3>1. live /\ data[v].queueIndex + 1 = j
      BY <1>11, <1>13, <2>1 DEF UserWithdrawData, j, OwnEntry
    <3>2. q[j].remainingAmount > 0
      BY <1>3, <1>4, <1>5, <1>7, <3>1
    <3> QED
      BY <1>2, <1>7, <2>1, <3>1, <3>2
  <2>2. CASE v # u
    <3>1. data[v] = userWithdrawData[v]
      BY <1>11, <2>2
    <3>2. /\ userWithdrawData[v].queueIndex + 1 \in (queueIndex + 1)..n
          /\ withdrawQueue[userWithdrawData[v].queueIndex + 1].user = v
          /\ withdrawQueue[userWithdrawData[v].queueIndex + 1].remainingAmount > 0
      BY <1>13, <3>1 DEF Inv, QueueReady
    <3>3. userWithdrawData[v].queueIndex + 1 # j
      BY <1>2, <2>2, <3>2
    <3> QED
      BY <1>1, <1>6, <3>1, <3>2, <3>3
  <2> QED
    BY <2>1, <2>2
<1> HIDE DEF data
<1>14. QueueReady(q, data, totalRegisteredAmount - amount, rwaHeld - amount)
  BY <1>1, <1>6, <1>8, <1>9, <1>10, <1>12, <1>13 DEF QueueReady
<1> QED
  BY <1>14 DEF q, data, live, j

(* A fee never exceeds the claim it is taken from, as tiers' fees stay      *)
(* within MAX_WITHDRAW_FEE.                                                *)
LEMMA ReserveType ==
  ASSUME Inv, NEW u \in Accounts, NEW claimable \in Nat
  PROVE  ReserveAmount(u, claimable) \in 0..claimable
<1>1. GetFeeByUser(u) \in 0..WithdrawFeeDenominator
  <2> DEFINE missed == {t \in 2..Len(feeTiers) : veNAOS[u] < feeTiers[t].veNAOSAmount}
             tier == IF missed = {} THEN Len(feeTiers) ELSE Min(missed) - 1
  <2>1. feeTiers \in Seq(FeeTier) /\ feeTiers # <<>>
    BY DEF Inv, TypeOK
  <2>2. Len(feeTiers) \in Nat /\ Len(feeTiers) >= 1
    BY <2>1
  <2>3. missed # {} => Min(missed) \in 2..Len(feeTiers)
    <3>1. missed \subseteq Nat
      BY <2>2
    <3> QED
      BY <3>1, MinOfNaturals
  <2>4. tier \in 1..Len(feeTiers)
    BY <2>2, <2>3
  <2>5. feeTiers[tier] \in FeeTier /\ feeTiers[tier].fee <= MAX_WITHDRAW_FEE
    BY <2>1, <2>4 DEF Inv, FeesBounded
  <2>6. GetFeeByUser(u) = feeTiers[tier].fee
    BY DEF GetFeeByUser
  <2> QED
    BY <2>5, <2>6, FeeAssumption DEF FeeTier
<1>2. ReserveAmount(u, claimable) = (claimable * GetFeeByUser(u)) \div WithdrawFeeDenominator
  BY DEF ReserveAmount
<1> QED
  BY <1>1, <1>2, FeeAssumption, ShareWithin

----------------------------------------------------------------------------
\* The queue starts in order.
LEMMA InitInv == Init => Inv
<1> SUFFICES ASSUME Init PROVE Inv
  OBVIOUS
<1>1. TypeOK
  <2>1. feeTiers \in Seq(FeeTier) /\ feeTiers # <<>>
    <3>1. [veNAOSAmount |-> 0, fee |-> MAX_WITHDRAW_FEE] \in FeeTier
      BY FeeAssumption DEF FeeTier
    <3> QED
      BY <3>1 DEF Init
  <2>2. userWithdrawData \in [Accounts -> UserWithdrawData]
    BY DEF Init, UserWithdrawData
  <2>3. withdrawQueue \in Seq(WithdrawData) /\ queueIndex \in 0..Len(withdrawQueue)
    BY DEF Init
  <2>4. rwaOf \in [Accounts -> Nat] /\ indexPool \in IndexPoolState
    BY AmountAssumption, PoolAssumption DEF Init
  <2> QED
    BY <2>1, <2>2, <2>3, <2>4 DEF Init, TypeOK
<1>2. PrefixSum(RemainingOf(withdrawQueue))[0] = 0
  <2>1. NatValued(RemainingOf(withdrawQueue))
    BY DEF Init, RemainingOf, NatValued
  <2> QED
    BY <2>1, PrefixSumStep
<1>3. FeesBounded
  BY FeeAssumption DEF Init, FeesBounded
<1>4. QueueReady(withdrawQueue, userWithdrawData, totalRegisteredAmount, rwaHeld)
  BY <1>1, <1>2 DEF Init, QueueReady, TypeOK
<1> QED
  BY <1>1, <1>3, <1>4 DEF Inv

\* Every call, of a user, of the admin or of another contract, keeps it in order.
LEMMA NextInv == Inv /\ [Next]_vars => Inv'
<1> SUFFICES ASSUME Inv, [Next]_vars PROVE Inv'
  OBVIOUS
<1> USE DEF Inv
<1>1. ASSUME NEW u \in Accounts, NEW amount \in Amounts, Register(u, amount)
      PROVE  Inv'
  <2>1. amount \in Nat /\ amount > 0 /\ amount <= rwaOf[u]
    BY <1>1, AmountAssumption DEF Register, WithinCeiling
  <2>2. QueueReady(withdrawQueue, userWithdrawData, totalRegisteredAmount, rwaHeld)'
        /\ indexPool' \in IndexPoolState /\ usdcHeld' \in Nat
    BY <1>1, <2>1, RegisterKeepsReady, TailKeepsReady DEF Register, TypeOK
  <2>3. rwaOf' \in [Accounts -> Nat]
    BY <1>1, <2>1 DEF Register, TypeOK
  <2> QED
    BY <1>1, <2>2, <2>3 DEF Register, TypeOK, FeesBounded, QueueReady, adminVars
<1>2. ASSUME NEW u \in Accounts, NEW amount \in 0..InitialRWA, Update(u, amount)
      PROVE  Inv'
  <2>1. /\ amount \in Nat
        /\ userWithdrawData[u].listInQueue
        /\ amount <= withdrawQueue[OwnEntry(u)].remainingAmount
    BY <1>2, AmountAssumption DEF Update
  <2>2. QueueReady(withdrawQueue, userWithdrawData, totalRegisteredAmount, rwaHeld)'
        /\ indexPool' \in IndexPoolState /\ usdcHeld' \in Nat
    BY <1>2, <2>1, UpdateKeepsReady, TailKeepsReady DEF Update, TypeOK
  <2>3. rwaOf' \in [Accounts -> Nat]
    BY <1>2, <2>1 DEF Update, TypeOK
  <2> QED
    BY <1>2, <2>2, <2>3 DEF Update, TypeOK, FeesBounded, QueueReady, adminVars
<1>3. CASE WithdrawFromIndexPool
  <2>1. QueueReady(withdrawQueue, userWithdrawData, totalRegisteredAmount, rwaHeld)'
        /\ indexPool' \in IndexPoolState /\ usdcHeld' \in Nat
    BY <1>3, TailKeepsReady DEF WithdrawFromIndexPool, TypeOK
  <2> QED
    BY <1>3, <2>1 DEF WithdrawFromIndexPool, TypeOK, FeesBounded, QueueReady, adminVars
<1>4. ASSUME NEW u \in Accounts, Claim(u)
      PROVE  Inv'
  <2> DEFINE claimable == userWithdrawData[u].Claimable
             reserve == ReserveAmount(u, claimable)
  <2>1. userWithdrawData[u] \in UserWithdrawData /\ claimable \in Nat
    BY DEF TypeOK, UserWithdrawData
  <2>2. reserve \in 0..claimable
    BY <2>1, ReserveType
  <2>3. usdcOf' \in [Accounts -> Nat] /\ usdcReserve' \in Nat /\ usdcHeld' \in Nat
    <3>1. /\ usdcOf' = [usdcOf EXCEPT ![u] = @ + (claimable - reserve)]
          /\ usdcReserve' = usdcReserve + reserve
          /\ usdcHeld' = usdcHeld - claimable
          /\ claimable <= usdcHeld
      BY <1>4 DEF Claim
    <3>2. claimable - reserve \in Nat /\ reserve \in Nat
      BY <2>1, <2>2
    <3> HIDE DEF claimable, reserve
    <3> QED
      BY <2>1, <3>1, <3>2 DEF TypeOK
  <2>4. userWithdrawData' = [userWithdrawData EXCEPT ![u].Claimable = 0]
    BY <1>4 DEF Claim
  <2>5. ASSUME NEW v \in Accounts
        PROVE  /\ userWithdrawData'[v] \in UserWithdrawData
               /\ userWithdrawData'[v].listInQueue = userWithdrawData[v].listInQueue
               /\ userWithdrawData'[v].queueIndex = userWithdrawData[v].queueIndex
    BY <2>4 DEF TypeOK, UserWithdrawData
  <2>6. userWithdrawData' \in [Accounts -> UserWithdrawData]
    BY <2>4, <2>5 DEF TypeOK
  <2> QED
    BY <1>4, <2>3, <2>5, <2>6 DEF Claim, TypeOK, FeesBounded, QueueReady, adminVars, externalVars
<1>5. ASSUME NEW required \in BOOLEAN, SetVerify(required)
      PROVE  Inv'
  BY <1>5 DEF SetVerify, TypeOK, FeesBounded, QueueReady, queueVars, tokenVars, externalVars
<1>6. ASSUME NEW c \in Ceilings, SetCeiling(c)
      PROVE  Inv'
  BY <1>6, AmountAssumption DEF SetCeiling, TypeOK, FeesBounded, QueueReady, queueVars, tokenVars, externalVars
<1>7. ASSUME NEW u \in Accounts, NEW c \in UserCeilings, SetUserCeiling(u, c)
      PROVE  Inv'
  <2>1. userWithdrawData' = [userWithdrawData EXCEPT ![u].ceiling = c] /\ c \in Nat
    BY <1>7, AmountAssumption DEF SetUserCeiling
  <2>2. ASSUME NEW v \in Accounts
        PROVE  /\ userWithdrawData'[v] \in UserWithdrawData
               /\ userWithdrawData'[v].listInQueue = userWithdrawData[v].listInQueue
               /\ userWithdrawData'[v].queueIndex = userWithdrawData[v].queueIndex
    BY <2>1 DEF TypeOK, UserWithdrawData
  <2>3. userWithdrawData' \in [Accounts -> UserWithdrawData]
    BY <2>1, <2>2 DEF TypeOK
  <2> QED
    BY <1>7, <2>2, <2>3
       DEF SetUserCeiling, TypeOK, FeesBounded, QueueReady, adminVars, tokenVars, externalVars
<1>8. ASSUME NEW tier \in FeeTiers, AddFeeTier(tier)
      PROVE  Inv'
  <2>1. feeTiers \in Seq(FeeTier) /\ tier \in FeeTier /\ tier.fee <= MAX_WITHDRAW_FEE
        /\ feeTiers' = Append(feeTiers, tier)
    BY <1>8, FeeAssumption DEF AddFeeTier, TypeOK
  <2>2. feeTiers' \in Seq(FeeTier) /\ feeTiers' # <<>>
    BY <2>1
  <2>3. FeesBounded'
    BY <2>1 DEF FeesBounded
  <2> QED
    BY <1>8, <2>2, <2>3 DEF AddFeeTier, TypeOK, QueueReady, queueVars, tokenVars, externalVars
<1>9. ASSUME NEW t \in DOMAIN feeTiers, NEW tier \in FeeTiers, SetFeeTier(t, tier)
      PROVE  Inv'
  <2>1. feeTiers \in Seq(FeeTier) /\ tier \in FeeTier /\ tier.fee <= MAX_WITHDRAW_FEE
        /\ feeTiers' = [feeTiers EXCEPT ![t] = tier]
    BY <1>9, FeeAssumption DEF SetFeeTier, TypeOK
  <2>2. feeTiers' \in Seq(FeeTier) /\ feeTiers' # <<>>
    BY <2>1 DEF TypeOK
  <2>3. FeesBounded'
    BY <2>1 DEF FeesBounded
  <2> QED
    BY <1>9, <2>2, <2>3 DEF SetFeeTier, TypeOK, QueueReady, queueVars, tokenVars, externalVars
<1>10. ASSUME NEW state \in IndexPoolStates, IndexPoolMoves(state)
       PROVE  Inv'
  BY <1>10, PoolAssumption DEF IndexPoolMoves, TypeOK, FeesBounded, QueueReady, queueVars, adminVars, tokenVars
<1>11. ASSUME NEW u \in Accounts, NEW stake \in VeNAOSAmounts, StakeMoves(u, stake)
       PROVE  Inv'
  <2>1. veNAOS' \in [Accounts -> Nat]
    BY <1>11, AmountAssumption DEF StakeMoves, TypeOK
  <2> QED
    BY <1>11, <2>1 DEF StakeMoves, TypeOK, FeesBounded, QueueReady, queueVars, adminVars, tokenVars
<1>12. CASE UNCHANGED vars
  BY <1>12 DEF vars, TypeOK, FeesBounded, QueueReady, queueVars, adminVars, tokenVars, externalVars
<1> QED
  BY <1>1, <1>2, <1>3, <1>4, <1>5, <1>6, <1>7, <1>8, <1>9, <1>10, <1>11, <1>12
     DEF Next, UserStep, AdminStep, ExternalStep

(* The invariant holds in every state of every behaviour.                  *)
LEMMA InvHolds == Spec => []Inv
<1> QED
  BY InitInv, NextInv, PTL DEF Spec

(* Every variable of the queue always has its type.                        *)
THEOREM TypeCorrect == Spec => []TypeOK
<1>1. Inv => TypeOK
  BY DEF Inv
<1> QED
  BY <1>1, InvHolds, PTL

(* What waits in the entries is always totalRegisteredAmount, and that is  *)
(* what the queue holds.                                                   *)
THEOREM RegisteredAlwaysConserved == Spec => []RegisteredIsConserved
<1>1. Inv => RegisteredIsConserved
  BY DEF Inv, QueueReady, RegisteredIsConserved, SumOfEntries, RemainingOf
<1> QED
  BY <1>1, InvHolds, PTL

(* The loop never leaves waiting RWA behind queueIndex.                    *)
THEOREM PassedAlwaysDrained == Spec => []PassedEntriesAreDrained
<1>1. Inv => PassedEntriesAreDrained
  BY DEF Inv, QueueReady, PassedEntriesAreDrained, TypeOK
<1> QED
  BY <1>1, InvHolds, PTL

(* A listed user always finds its own waiting entry.                       *)
THEOREM ListingAlwaysOwnLiveEntry == Spec => []ListingNamesOwnLiveEntry
<1>1. Inv => ListingNamesOwnLiveEntry
  BY DEF Inv, QueueReady, ListingNamesOwnLiveEntry, OwnEntry
<1> QED
  BY <1>1, InvHolds, PTL
============================================================================
