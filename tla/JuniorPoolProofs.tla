-------------------------- MODULE JuniorPoolProofs --------------------------
(***************************************************************************)
(* Proofs about JuniorPool, for any loan terms, deposits and payments.     *)
(*                                                                         *)
(* First LockedTranchesAreFrozen, which needs no arithmetic.  Then the     *)
(* books: what rounded share prices are worth, what the waterfall hands    *)
(* out, what the credit line reports, and from these that every action     *)
(* keeps PoolInv.  Next the times at which interest is charged, and their  *)
(* order, by which payments are accepted.  Last the principal of a pool    *)
(* with one slice: what the waterfall makes of its share prices.           *)
(***************************************************************************)
EXTENDS JuniorPool, PrefixSumsProofs, SequenceTheorems, TLAPS

(* What an update of a slice relies on: the fields are there.              *)
TrancheShape(tranche) ==
  DOMAIN tranche =
    {"principalDeposited", "principalSharePrice", "interestSharePrice", "lockedUntil"}

SliceShape(slice) ==
  /\ DOMAIN slice = {"senior", "junior", "totalInterestAccrued", "principalDeployed"}
  /\ TrancheShape(slice.senior)
  /\ TrancheShape(slice.junior)

SlicesShape(slices) ==
  /\ \E S : slices \in Seq(S)
  /\ slices # <<>>
  /\ \A i \in DOMAIN slices : SliceShape(slices[i])

(* A tranche keeps its deposits and its lock.                              *)
SameTranche(before, after) ==
  /\ TrancheShape(after)
  /\ after.principalDeposited = before.principalDeposited
  /\ after.lockedUntil = before.lockedUntil

SameCapital(before, after) ==
  /\ SliceShape(after)
  /\ SameTranche(before.senior, after.senior)
  /\ SameTranche(before.junior, after.junior)

SameCapitalInAll(before, after) ==
  /\ DOMAIN after = DOMAIN before
  /\ \A i \in DOMAIN before : SameCapital(before[i], after[i])

----------------------------------------------------------------------------
(* The waterfall touches share prices only.                                *)

\* Two parts of the waterfall one after the other.
LEMMA SameCapitalTransitive ==
  ASSUME NEW a, NEW b, NEW c, SameCapitalInAll(a, b), SameCapitalInAll(b, c)
  PROVE  SameCapitalInAll(a, c)
BY DEF SameCapitalInAll, SameCapital, SameTranche

(* applyByAmount raises share prices and nothing else.                     *)
LEMMA ApplyByAmountKeeps ==
  ASSUME NEW tranche, TrancheShape(tranche),
         NEW interest, NEW principal, NEW desiredInterest, NEW desiredPrincipal
  PROVE  SameTranche(tranche,
           applyByAmount(tranche, interest, principal, desiredInterest, desiredPrincipal).tranche)
BY DEF TrancheShape, SameTranche, applyByAmount

(* So do the updates of a senior and of a junior tranche of a slice.       *)
LEMMA SeniorKeeps ==
  ASSUME NEW slice, SliceShape(slice), NEW interest, NEW principal,
         NEW juniorFee, NEW reserveFee, NEW due
  PROVE  SameCapital(slice,
           applyToSeniorTranche(slice, interest, principal, juniorFee, reserveFee, due).slice)
<1> DEFINE reserve == scaleByFraction(interest, reserveFee, ONE_HUNDRED)
           desiredInterest ==
             desiredAmountFromSharePrice(seniorNetInterestSharePrice(slice, juniorFee, reserveFee),
               slice.senior.interestSharePrice, slice.senior.principalDeposited)
           desiredPrincipal ==
             desiredAmountFromSharePrice(calculateExpectedSharePrice(slice.senior, due, slice),
               slice.senior.principalSharePrice, slice.senior.principalDeposited)
           tranche == applyByAmount(slice.senior, interest - reserve, principal,
                                    desiredInterest, desiredPrincipal).tranche
<1>1. SameTranche(slice.senior, tranche)
  BY ApplyByAmountKeeps DEF SliceShape
<1>2. applyToSeniorTranche(slice, interest, principal, juniorFee, reserveFee, due).slice
        = [slice EXCEPT !.senior = tranche]
  BY DEF applyToSeniorTranche, applyBySharePrice
<1> HIDE DEF tranche
<1> QED
  BY <1>1, <1>2 DEF SameCapital, SliceShape, SameTranche

\* applyToJuniorTranche raises the share prices of the junior tranche.
LEMMA JuniorKeeps ==
  ASSUME NEW slice, SliceShape(slice), NEW interest, NEW principal, NEW reserveFee, NEW due
  PROVE  SameCapital(slice, applyToJuniorTranche(slice, interest, principal, reserveFee, due).slice)
<1> DEFINE interestPrice == slice.junior.interestSharePrice
                              + usdcToSharePrice(interest, slice.junior.principalDeposited)
           desiredInterest ==
             desiredAmountFromSharePrice(interestPrice, slice.junior.interestSharePrice,
                                         slice.junior.principalDeposited)
           desiredPrincipal ==
             desiredAmountFromSharePrice(calculateExpectedSharePrice(slice.junior, due, slice),
               slice.junior.principalSharePrice, slice.junior.principalDeposited)
           applied == applyByAmount(slice.junior, interest, principal,
                                    desiredInterest, desiredPrincipal)
           extra == applied.interest + applied.principal
                      - scaleByFraction(applied.principal, reserveFee, ONE_HUNDRED)
           tranche == applyByAmount(applied.tranche, extra, 0, extra, 0).tranche
<1>1. SameTranche(slice.junior, applied.tranche)
  BY ApplyByAmountKeeps DEF SliceShape
<1>2. SameTranche(applied.tranche, tranche)
  <2>1. TrancheShape(applied.tranche)
    BY <1>1 DEF SameTranche
  <2> HIDE DEF applied, extra
  <2> QED
    BY <2>1, ApplyByAmountKeeps
<1>3. applyToJuniorTranche(slice, interest, principal, reserveFee, due).slice
        = [slice EXCEPT !.junior = tranche]
  BY DEF applyToJuniorTranche, applyBySharePrice
<1> HIDE DEF tranche, applied
<1> QED
  BY <1>1, <1>2, <1>3 DEF SameCapital, SliceShape, SameTranche

(* gathered collects the slices it is given.                               *)
LEMMA GatheredSlices ==
  ASSUME NEW D, NEW applied, DOMAIN applied = D, NEW reserve
  PROVE  /\ DOMAIN gathered(applied, reserve).slices = D
         /\ \A i \in D : gathered(applied, reserve).slices[i] = applied[i].slice
BY DEF gathered

\* The loop over the senior tranches touches share prices only.
LEMMA AllSeniorsKeep ==
  ASSUME NEW slices, \A i \in DOMAIN slices : SliceShape(slices[i]),
         NEW interest, NEW principal, NEW reserveFee, NEW deployed, NEW line, NEW juniorFee
  PROVE  SameCapitalInAll(slices,
           applyToAllSeniorTranches(slices, interest, principal, reserveFee, deployed, line,
                                    juniorFee).slices)
<1> DEFINE one(i) == applyToSeniorTranche(slices[i],
                       scaleForSlice(slices[i], interest, deployed),
                       scaleForSlice(slices[i], principal, deployed),
                       juniorFee, reserveFee, principalAccrued(slices[i], line, deployed))
           applied == [i \in DOMAIN slices |-> one(i)]
<1>1. \A i \in DOMAIN slices : SameCapital(slices[i], one(i).slice)
  BY SeniorKeeps
<1>2. applyToAllSeniorTranches(slices, interest, principal, reserveFee, deployed, line, juniorFee)
        = gathered(applied, 0)
  BY DEF applyToAllSeniorTranches
<1> HIDE DEF one
<1>3. /\ DOMAIN gathered(applied, 0).slices = DOMAIN slices
      /\ \A i \in DOMAIN slices : gathered(applied, 0).slices[i] = one(i).slice
  BY GatheredSlices
<1> QED
  BY <1>1, <1>2, <1>3 DEF SameCapitalInAll

\* The loop over the junior tranches touches share prices only.
LEMMA AllJuniorsKeep ==
  ASSUME NEW left, \A i \in DOMAIN left.slices : SliceShape(left.slices[i]),
         NEW reserveFee, NEW deployed, NEW line
  PROVE  SameCapitalInAll(left.slices,
           applyToAllJuniorTranches(left, reserveFee, deployed, line).slices)
<1> DEFINE one(i) == applyToJuniorTranche(left.slices[i],
                       scaleForSlice(left.slices[i], left.interest, deployed),
                       scaleForSlice(left.slices[i], left.principal, deployed),
                       reserveFee, principalAccrued(left.slices[i], line, deployed))
           applied == [i \in DOMAIN left.slices |-> one(i)]
<1>1. \A i \in DOMAIN left.slices : SameCapital(left.slices[i], one(i).slice)
  BY JuniorKeeps
<1>2. applyToAllJuniorTranches(left, reserveFee, deployed, line) = gathered(applied, left.reserve)
  BY DEF applyToAllJuniorTranches
<1> HIDE DEF one
<1>3. /\ DOMAIN gathered(applied, left.reserve).slices = DOMAIN left.slices
      /\ \A i \in DOMAIN left.slices : gathered(applied, left.reserve).slices[i] = one(i).slice
  BY GatheredSlices
<1> QED
  BY <1>1, <1>2, <1>3 DEF SameCapitalInAll

\* collectInterestAndPrincipal touches share prices only.
LEMMA WaterfallKeeps ==
  ASSUME NEW slices, \A i \in DOMAIN slices : SliceShape(slices[i]),
         NEW interest, NEW principal, NEW line
  PROVE  SameCapitalInAll(slices,
           collectInterestAndPrincipal(slices, interest, principal, line).slices)
<1> DEFINE left == applyToAllSeniorTranches(slices, interest, principal, reserveFeePercent,
                     totalDeployed, line, juniorFeePercent)
<1>1. SameCapitalInAll(slices, left.slices)
  BY AllSeniorsKeep
<1>2. \A i \in DOMAIN left.slices : SliceShape(left.slices[i])
  BY <1>1 DEF SameCapitalInAll, SameCapital
<1>3. collectInterestAndPrincipal(slices, interest, principal, line)
        = applyToAllJuniorTranches(left, reserveFeePercent, totalDeployed, line)
  BY DEF collectInterestAndPrincipal
<1> HIDE DEF left
<1>4. SameCapitalInAll(left.slices,
        applyToAllJuniorTranches(left, reserveFeePercent, totalDeployed, line).slices)
  BY <1>2, AllJuniorsKeep
<1> QED
  BY <1>1, <1>3, <1>4, SameCapitalTransitive

(* An assessment, and with it a payment and a liquidation, leaves deposits *)
(* and locks as they are.                                                  *)
LEMMA SettleKeeps ==
  ASSUME SlicesShape(poolSlices), NEW outcome, NEW available, settle(outcome, available)
  PROVE  SameCapitalInAll(poolSlices, poolSlices')
<1> DEFINE accruedSlices == assessedSlices(outcome)
           collected == resultOf(outcome).slices
           repaid == perSlice(outcome.principal)
<1>1. SameCapitalInAll(poolSlices, accruedSlices)
  BY DEF assessedSlices, slicesWithInterest, SlicesShape, SameCapitalInAll, SameCapital,
         SameTranche, SliceShape
<1>2. SameCapitalInAll(accruedSlices, collected)
  <2>1. \A i \in DOMAIN accruedSlices : SliceShape(accruedSlices[i])
    BY <1>1 DEF SameCapitalInAll, SameCapital
  <2> QED
    BY <2>1, WaterfallKeeps DEF resultOf
<1>3. SameCapitalInAll(collected, repaidSlices(collected, repaid))
  <2>1. \A i \in DOMAIN collected : SliceShape(collected[i])
    BY <1>1, <1>2 DEF SameCapitalInAll, SameCapital
  <2> HIDE DEF collected, repaid
  <2> QED
    BY <2>1 DEF repaidSlices, SameCapitalInAll, SameCapital, SameTranche, SliceShape
<1>4. poolSlices' = repaidSlices(collected, repaid) \/ poolSlices' = accruedSlices
  BY DEF settle
<1> HIDE DEF accruedSlices, collected, repaid
<1> QED
  BY <1>1, <1>2, <1>3, <1>4, SameCapitalTransitive

----------------------------------------------------------------------------
(* The slices keep their shape, and locked tranches stay as they are.      *)

(* The body of LockedTranchesAreFrozen.                                    *)
Frozen(before, after) ==
  \A i \in DOMAIN before, name \in TrancheNames :
    /\ before[i][name].lockedUntil > 0
       => after[i][name].principalDeposited = before[i][name].principalDeposited
    /\ before[i].senior.lockedUntil > 0
       => after[i][name].lockedUntil = before[i][name].lockedUntil

\* Slices with the same capital and locks satisfy the action property.
LEMMA SameCapitalIsFrozen ==
  ASSUME NEW before, NEW after, SameCapitalInAll(before, after)
  PROVE  Frozen(before, after)
BY DEF Frozen, SameCapitalInAll, SameCapital, SameTranche, TrancheNames

(* A function over the slices' indices with slices for values.             *)
LEMMA StaysSlices ==
  ASSUME NEW before, SlicesShape(before),
         NEW after, after = [i \in DOMAIN before |-> after[i]],
         \A i \in DOMAIN before : SliceShape(after[i])
  PROVE  SlicesShape(after)
<1>1. PICK S : before \in Seq(S)
  BY DEF SlicesShape
<1>2. PICK n \in Nat : DOMAIN before = 1..n /\ n > 0
  BY <1>1 DEF SlicesShape
<1> DEFINE T == {after[i] : i \in 1..n}
<1>3. after \in Seq(T)
  BY <1>2, SeqDef
<1>4. DOMAIN after = 1..n
  BY <1>2
<1>5. after # <<>>
  BY <1>2, <1>4
<1> QED
  BY <1>2, <1>3, <1>4, <1>5 DEF SlicesShape

\* There is always a slice that deposits go to.
LEMMA CurrentSliceExists ==
  ASSUME SlicesShape(poolSlices)
  PROVE  currentSlice \in DOMAIN poolSlices
<1>1. PICK S : poolSlices \in Seq(S)
  BY DEF SlicesShape
<1> QED
  BY <1>1 DEF SlicesShape, currentSlice

(* A slice in which one tranche was updated.                                *)
LEMMA TrancheUpdated ==
  ASSUME SlicesShape(poolSlices), NEW s \in DOMAIN poolSlices, NEW name \in TrancheNames,
         NEW tranche, TrancheShape(tranche),
         poolSlices' = [poolSlices EXCEPT ![s] = [poolSlices[s] EXCEPT ![name] = tranche]]
  PROVE  SlicesShape(poolSlices')
<1>1. \A i \in DOMAIN poolSlices : SliceShape(poolSlices[i])
  BY DEF SlicesShape
<1>2. \A i \in DOMAIN poolSlices : SliceShape(poolSlices'[i])
  BY <1>1 DEF SliceShape, TrancheNames
<1> QED
  BY <1>2, StaysSlices

(* The field of one tranche that changes in a deposit or a withdrawal.     *)
LEMMA DepositedUpdated ==
  ASSUME SlicesShape(poolSlices), NEW s \in DOMAIN poolSlices, NEW name \in TrancheNames,
         NEW amount, ~ (poolSlices[s][name].lockedUntil > 0),
         poolSlices' =
           [poolSlices EXCEPT ![s] = [poolSlices[s] EXCEPT ![name] =
              [poolSlices[s][name] EXCEPT !.principalDeposited = amount]]]
  PROVE  SlicesShape(poolSlices') /\ Frozen(poolSlices, poolSlices')
<1> DEFINE tranche == [poolSlices[s][name] EXCEPT !.principalDeposited = amount]
<1>1. SliceShape(poolSlices[s]) /\ TrancheShape(poolSlices[s][name])
  BY DEF SlicesShape, SliceShape, TrancheNames
<1>2. TrancheShape(tranche) /\ tranche.lockedUntil = poolSlices[s][name].lockedUntil
  BY <1>1 DEF TrancheShape
<1> HIDE DEF tranche
<1>3. poolSlices' = [poolSlices EXCEPT ![s] = [poolSlices[s] EXCEPT ![name] = tranche]]
  BY DEF tranche
<1>4. SlicesShape(poolSlices')
  BY <1>2, <1>3, TrancheUpdated
<1>5. Frozen(poolSlices, poolSlices')
  <2> SUFFICES ASSUME NEW i \in DOMAIN poolSlices, NEW other \in TrancheNames
               PROVE  /\ poolSlices[i][other].lockedUntil > 0
                         => poolSlices'[i][other].principalDeposited
                              = poolSlices[i][other].principalDeposited
                      /\ poolSlices[i].senior.lockedUntil > 0
                         => poolSlices'[i][other].lockedUntil = poolSlices[i][other].lockedUntil
    BY DEF Frozen
  <2>1. CASE i = s /\ other = name
    <3>1. poolSlices'[i][other] = tranche
      BY <1>1, <1>3, <2>1 DEF SliceShape, TrancheNames
    <3> QED
      BY <1>2, <2>1, <3>1
  <2>2. CASE ~ (i = s /\ other = name)
    <3>1. poolSlices'[i][other] = poolSlices[i][other]
      BY <1>1, <1>3, <2>2 DEF SliceShape, TrancheNames
    <3> QED
      BY <3>1
  <2> QED
    BY <2>1, <2>2
<1> QED
  BY <1>4, <1>5

(* Deposits go to tranches that are not locked.                            *)
LEMMA DepositKeeps ==
  ASSUME SlicesShape(poolSlices), NEW s \in DOMAIN poolSlices, NEW name \in TrancheNames,
         NEW amount, Deposit(s, name, amount)
  PROVE  SlicesShape(poolSlices') /\ Frozen(poolSlices, poolSlices')
<1>1. ~ (poolSlices[s][name].lockedUntil > 0)
  BY DEF Deposit
<1>2. poolSlices' =
        [poolSlices EXCEPT ![s] = [poolSlices[s] EXCEPT ![name] = [poolSlices[s][name] EXCEPT
           !.principalDeposited = poolSlices[s][name].principalDeposited + amount]]]
  BY DEF Deposit
<1> QED
  BY <1>1, <1>2, DepositedUpdated

(* A withdrawal lowers the deposits of a tranche before its lock, never    *)
(* after it.                                                               *)
LEMMA WithdrawKeeps ==
  ASSUME SlicesShape(poolSlices), NEW k, NEW amount, _Withdraw(k, amount)
  PROVE  SlicesShape(poolSlices') /\ Frozen(poolSlices, poolSlices')
<1> DEFINE s == tokens[k].slice
           name == tokens[k].tranche
<1>1. CASE poolSlices' = poolSlices
  BY <1>1 DEF Frozen
<1>2. CASE poolSlices' # poolSlices
  <2>1. /\ poolSlices[s][name].lockedUntil = 0
        /\ poolSlices' =
             [poolSlices EXCEPT ![s] = [poolSlices[s] EXCEPT ![name] = [poolSlices[s][name] EXCEPT
                !.principalDeposited = poolSlices[s][name].principalDeposited - amount]]]
    BY <1>2 DEF _Withdraw, TrancheOf
  <2> HIDE DEF s, name
  <2>2. CASE s \in DOMAIN poolSlices /\ name \in TrancheNames
    <3>1. ~ (poolSlices[s][name].lockedUntil > 0)
      BY <2>1
    <3> QED
      BY <2>1, <2>2, <3>1, DepositedUpdated
  <2>3. CASE ~ (s \in DOMAIN poolSlices /\ name \in TrancheNames)
    <3>1. \A i \in DOMAIN poolSlices : SliceShape(poolSlices[i])
      BY DEF SlicesShape
    <3>2. DOMAIN poolSlices' = DOMAIN poolSlices
      BY <2>1
    <3>3. ASSUME NEW i \in DOMAIN poolSlices
          PROVE  /\ SliceShape(poolSlices'[i])
                 /\ \A other \in TrancheNames : poolSlices'[i][other] = poolSlices[i][other]
      BY <2>1, <2>3, <3>1 DEF SliceShape, TrancheNames
    <3>4. SlicesShape(poolSlices')
      BY <2>1, <3>3, StaysSlices
    <3> QED
      BY <3>3, <3>4 DEF Frozen, TrancheNames
  <2> QED
    BY <2>2, <2>3
<1> QED
  BY <1>1, <1>2

(* A junior tranche is locked before its pool is, and only once.           *)
LEMMA LockJuniorKeeps ==
  ASSUME SlicesShape(poolSlices), LockJuniorCapital
  PROVE  SlicesShape(poolSlices') /\ Frozen(poolSlices, poolSlices')
<1> DEFINE c == currentSlice
           tranche == [poolSlices[c].junior EXCEPT !.lockedUntil = time + DrawdownPeriod]
<1>1. c \in DOMAIN poolSlices /\ SliceShape(poolSlices[c])
  BY CurrentSliceExists DEF SlicesShape
<1>2. TrancheShape(tranche)
      /\ tranche.principalDeposited = poolSlices[c].junior.principalDeposited
  BY <1>1 DEF SliceShape, TrancheShape
<1>3. ~ (poolSlices[c].senior.lockedUntil > 0)
  BY DEF LockJuniorCapital, locked
<1>4. poolSlices' = [poolSlices EXCEPT ![c] = [poolSlices[c] EXCEPT !.junior = tranche]]
  BY DEF LockJuniorCapital
<1> HIDE DEF c, tranche
<1>5. SlicesShape(poolSlices')
  BY <1>1, <1>2, <1>4, TrancheUpdated DEF TrancheNames
<1>6. Frozen(poolSlices, poolSlices')
  BY <1>1, <1>2, <1>3, <1>4 DEF Frozen, SliceShape, TrancheNames
<1> QED
  BY <1>5, <1>6

(* The lock of a pool, by lockPool or by a drawdown.                       *)
LEMMA LockedKeeps ==
  ASSUME SlicesShape(poolSlices), canLockPool
  PROVE  /\ SlicesShape(lockedSlices)
         /\ DOMAIN lockedSlices = DOMAIN poolSlices
         /\ Frozen(poolSlices, lockedSlices)
<1> DEFINE c == currentSlice
           until == time + DrawdownPeriod
           slice == [poolSlices[c] EXCEPT
                       !.senior = [poolSlices[c].senior EXCEPT !.lockedUntil = until],
                       !.junior = [poolSlices[c].junior EXCEPT !.lockedUntil = until]]
<1>1. c \in DOMAIN poolSlices /\ SliceShape(poolSlices[c])
  BY CurrentSliceExists DEF SlicesShape
<1>2. /\ SliceShape(slice)
      /\ \A name \in TrancheNames :
           slice[name].principalDeposited = poolSlices[c][name].principalDeposited
  BY <1>1 DEF SliceShape, TrancheShape, TrancheNames
<1>3. lockedSlices = [poolSlices EXCEPT ![c] = slice]
  BY <1>1 DEF lockedSlices, SliceShape
<1>4. ~ (poolSlices[c].senior.lockedUntil > 0)
  BY DEF canLockPool
<1> HIDE DEF c, slice
<1>5. SlicesShape(lockedSlices)
  <2>1. \A i \in DOMAIN poolSlices : SliceShape(lockedSlices[i])
    BY <1>2, <1>3 DEF SlicesShape
  <2> QED
    BY <1>3, <2>1, StaysSlices
<1>6. Frozen(poolSlices, lockedSlices)
  BY <1>1, <1>2, <1>3, <1>4 DEF Frozen
<1> QED
  BY <1>3, <1>5, <1>6

(* A drawdown lowers share prices and nothing else of the current slice.   *)
LEMMA DrawdownKeeps ==
  ASSUME SlicesShape(poolSlices), NEW amount, Drawdown(amount)
  PROVE  SlicesShape(poolSlices') /\ Frozen(poolSlices, poolSlices')
<1> DEFINE slices == IF locked THEN poolSlices ELSE lockedSlices
           slice == sliceAfterDrawdown(slices[currentSlice], amount)
<1>1. SlicesShape(slices) /\ DOMAIN slices = DOMAIN poolSlices /\ Frozen(poolSlices, slices)
  <2>1. CASE locked
    BY <2>1 DEF Frozen
  <2>2. CASE ~ locked
    BY <2>2, LockedKeeps DEF Drawdown
  <2> QED
    BY <2>1, <2>2
<1>2. poolSlices' = [slices EXCEPT ![currentSlice] = slice]
  BY DEF Drawdown
<1> HIDE DEF slices
<1>3. ASSUME SliceShape(slices[currentSlice])
      PROVE  SameCapital(slices[currentSlice], slice)
  BY <1>3 DEF sliceAfterDrawdown, SliceShape, TrancheShape, SameCapital, SameTranche
<1> HIDE DEF slice
<1>4. SameCapitalInAll(slices, poolSlices')
  BY <1>1, <1>2, <1>3 DEF SlicesShape, SameCapitalInAll, SameCapital, SameTranche, SliceShape
<1>5. SlicesShape(poolSlices')
  BY <1>1, <1>2, <1>4, StaysSlices DEF SameCapitalInAll, SameCapital
<1>6. Frozen(poolSlices, poolSlices')
  BY <1>1, <1>4 DEF Frozen, SameCapitalInAll, SameCapital, SameTranche, TrancheNames
<1> QED
  BY <1>5, <1>6

(* A new slice comes behind the others.                                    *)
LEMMA NextSliceKeeps ==
  ASSUME SlicesShape(poolSlices), NEW t, InitializeNextSlice(t)
  PROVE  SlicesShape(poolSlices') /\ Frozen(poolSlices, poolSlices')
<1>1. PICK S : poolSlices \in Seq(S)
  BY DEF SlicesShape
<1>2. SliceShape(EmptySlice)
  BY DEF SliceShape, TrancheShape, EmptySlice, EmptyTranche
<1>3. poolSlices' = Append(poolSlices, EmptySlice)
  BY DEF InitializeNextSlice
<1> DEFINE T == S \cup {EmptySlice}
<1>4. poolSlices \in Seq(T) /\ EmptySlice \in T
  BY <1>1, SeqDef
<1> HIDE DEF T
<1>5. /\ poolSlices' \in Seq(T)
      /\ DOMAIN poolSlices = 1..Len(poolSlices)
      /\ DOMAIN poolSlices' = 1..(Len(poolSlices) + 1)
      /\ Len(poolSlices) \in Nat
      /\ \A i \in DOMAIN poolSlices : poolSlices'[i] = poolSlices[i]
      /\ poolSlices'[Len(poolSlices) + 1] = EmptySlice
  BY <1>3, <1>4
<1>6. \A i \in DOMAIN poolSlices' : SliceShape(poolSlices'[i])
  BY <1>2, <1>5 DEF SlicesShape
<1>7. SlicesShape(poolSlices')
  BY <1>5, <1>6 DEF SlicesShape
<1> QED
  BY <1>5, <1>7 DEF Frozen

(* The slices of the first state.                                          *)
LEMMA InitShape == Init => SlicesShape(poolSlices)
<1> SUFFICES ASSUME Init PROVE SlicesShape(poolSlices)
  OBVIOUS
<1>1. poolSlices = <<EmptySlice>> /\ poolSlices \in Seq({EmptySlice})
  BY DEF Init
<1>2. SliceShape(EmptySlice)
  BY DEF SliceShape, TrancheShape, EmptySlice, EmptyTranche
<1>3. DOMAIN poolSlices = {1} /\ poolSlices[1] = EmptySlice
  BY <1>1
<1>4. poolSlices # <<>>
  BY <1>3
<1> QED
  BY <1>1, <1>2, <1>3, <1>4 DEF SlicesShape

(* Assessments, in whichever call.                                         *)
LEMMA AssessKeeps ==
  ASSUME SlicesShape(poolSlices), NEW available, NEW status, _Assess(available, status)
  PROVE  SlicesShape(poolSlices') /\ Frozen(poolSlices, poolSlices')
<1>1. SameCapitalInAll(poolSlices, poolSlices')
  BY SettleKeeps DEF _Assess
<1>2. poolSlices' = [i \in DOMAIN poolSlices |-> poolSlices'[i]]
  <2> DEFINE outcome == outcomeOf(available, status)
  <2>1. \/ poolSlices' = repaidSlices(resultOf(outcome).slices, perSlice(outcome.principal))
        \/ poolSlices' = assessedSlices(outcome)
    BY DEF _Assess, settle
  <2> HIDE DEF outcome
  <2> QED
    BY <1>1, <2>1 DEF repaidSlices, assessedSlices, slicesWithInterest, SameCapitalInAll
<1>3. SlicesShape(poolSlices')
  BY <1>1, <1>2, StaysSlices DEF SameCapitalInAll, SameCapital
<1> QED
  BY <1>1, <1>3, SameCapitalIsFrozen

(* Every step keeps the shape and what is locked, one case per action.     *)
LEMMA NextKeeps ==
  ASSUME SlicesShape(poolSlices), [Next]_vars
  PROVE  SlicesShape(poolSlices') /\ Frozen(poolSlices, poolSlices')
<1>1. ASSUME NEW s \in DOMAIN poolSlices, NEW name \in TrancheNames, NEW amount,
             Deposit(s, name, amount)
      PROVE  SlicesShape(poolSlices') /\ Frozen(poolSlices, poolSlices')
  BY <1>1, DepositKeeps
<1>2. ASSUME NEW k, NEW amount, Withdraw(k, amount) \/ WithdrawMax(k)
      PROVE  SlicesShape(poolSlices') /\ Frozen(poolSlices, poolSlices')
  BY <1>2, WithdrawKeeps DEF Withdraw, WithdrawMax
<1>3. CASE LockJuniorCapital
  BY <1>3, LockJuniorKeeps
<1>4. CASE LockPool
  BY <1>4, LockedKeeps DEF LockPool
<1>5. ASSUME NEW amount, Drawdown(amount)
      PROVE  SlicesShape(poolSlices') /\ Frozen(poolSlices, poolSlices')
  BY <1>5, DrawdownKeeps
<1>6. ASSUME NEW t, InitializeNextSlice(t)
      PROVE  SlicesShape(poolSlices') /\ Frozen(poolSlices, poolSlices')
  BY <1>6, NextSliceKeeps
<1>7. CASE PaymentStep
  <2>1. CASE Assess
    BY <2>1, AssessKeeps DEF Assess
  <2>2. ASSUME NEW amount, Pay(amount)
        PROVE  SlicesShape(poolSlices') /\ Frozen(poolSlices, poolSlices')
    BY <2>2, AssessKeeps DEF Pay
  <2>3. CASE Liquidate
    BY <2>3, AssessKeeps DEF Liquidate
  <2> QED
    BY <1>7, <2>1, <2>2, <2>3 DEF PaymentStep
<1>8. CASE poolSlices' = poolSlices
  BY <1>8 DEF Frozen
<1>9. CASE AdminStep \/ Tick \/ UNCHANGED vars \/ (\E t \in FundableTimes : SetFundableAt(t))
  BY <1>8, <1>9 DEF AdminStep, Tick, MigrateCreditLine, SetLimit, SetMaxLimit, SetDrawdownsPaused,
     SetPaused, SetFundableAt, vars, poolVars
<1>10. CASE DepositorStep
  BY <1>1, <1>2, <1>10 DEF DepositorStep, TrancheNames
<1>11. CASE LockerStep
  BY <1>3, <1>4, <1>5, <1>6, <1>9, <1>11 DEF LockerStep
<1> QED
  BY <1>7, <1>9, <1>10, <1>11 DEF Next

----------------------------------------------------------------------------
(* Totals of amounts.                                                      *)

\* The amounts of a total.
Amounts(n) == [1..n -> Nat]

\* A total is the prefix sum of all the amounts, none of which exceeds it.
LEMMA TotalIs ==
  ASSUME NEW n \in Nat, NEW f \in Amounts(n)
  PROVE  /\ NatValued(f) /\ Total(f) = PrefixSum(f)[n] /\ Total(f) \in Nat
         /\ \A i \in 1..n : Summand(f, i) = f[i]
         /\ \A i \in 1..n : f[i] <= Total(f)
<1>1. NatValued(f)
  BY DEF Amounts, NatValued
<1>2. f \in Seq(Nat) /\ Len(f) = n
  BY DEF Amounts
<1>3. Total(f) = PrefixSum(f)[n]
  BY <1>2 DEF Total
<1>4. \A i \in 1..n : Summand(f, i) = f[i]
  BY DEF Amounts, Summand
<1> QED
  BY <1>1, <1>3, <1>4, PrefixSumStep, SummandWithinSum

\* Amounts that add up pointwise have totals that add up.
LEMMA TotalAdd ==
  ASSUME NEW n \in Nat, NEW f \in Amounts(n), NEW g \in Amounts(n), NEW h \in Amounts(n),
         \A i \in 1..n : f[i] = g[i] + h[i]
  PROVE  Total(f) = Total(g) + Total(h)
<1>1. \A i \in 1..n : Summand(f, i) = Summand(g, i) + Summand(h, i)
  BY TotalIs
<1>2. NatValued(f) /\ NatValued(g) /\ NatValued(h)
  BY TotalIs
<1>3. PrefixSum(f)[n] = PrefixSum(g)[n] + PrefixSum(h)[n]
  BY <1>1, <1>2, PrefixSumAdd
<1> QED
  BY <1>3, TotalIs

\* Amounts within those of another list, in other units, have a total within.
LEMMA TotalWithin ==
  ASSUME NEW n \in Nat, NEW f \in Amounts(n), NEW g \in Amounts(n),
         NEW U \in Nat, NEW P \in Nat, \A i \in 1..n : f[i] * U <= g[i] * P
  PROVE  Total(f) * U <= Total(g) * P
<1>1. \A i \in 1..n : Summand(f, i) * U <= Summand(g, i) * P
  BY TotalIs
<1>2. NatValued(f) /\ NatValued(g)
  BY TotalIs
<1>3. PrefixSum(f)[n] * U <= PrefixSum(g)[n] * P
  BY <1>1, <1>2, SumsWithin
<1> QED
  BY <1>3, TotalIs

\* Larger amounts have a larger total.
LEMMA TotalMonotone ==
  ASSUME NEW n \in Nat, NEW f \in Amounts(n), NEW g \in Amounts(n),
         \A i \in 1..n : f[i] <= g[i]
  PROVE  Total(f) <= Total(g)
<1>1. \A i \in 1..n : f[i] * 1 <= g[i] * 1
  BY DEF Amounts
<1>2. Total(f) * 1 <= Total(g) * 1
  BY <1>1, TotalWithin
<1> QED
  BY <1>2, TotalIs

\* One amount changes.
LEMMA TotalChange ==
  ASSUME NEW n \in Nat, NEW f \in Amounts(n), NEW g \in Amounts(n), NEW u \in 1..n,
         \A i \in 1..n : i # u => f[i] = g[i]
  PROVE  Total(f) + g[u] = Total(g) + f[u]
<1>1. \A i \in 1..n : i # u => Summand(f, i) = Summand(g, i)
  BY TotalIs
<1>2. NatValued(f) /\ NatValued(g)
  BY TotalIs
<1>3. PrefixSum(f)[n] + Summand(g, u) = PrefixSum(g)[n] + Summand(f, u)
  BY <1>1, <1>2, SumAfterChange
<1> QED
  BY <1>3, TotalIs

\* One amount more.
LEMMA TotalAppend ==
  ASSUME NEW n \in Nat, NEW f \in Amounts(n), NEW g \in Amounts(n + 1),
         \A i \in 1..n : f[i] = g[i]
  PROVE  Total(g) = Total(f) + g[n + 1]
<1>1. \A i \in 1..n : Summand(f, i) = Summand(g, i)
  BY TotalIs DEF Amounts, Summand
<1>2. NatValued(f) /\ NatValued(g)
  BY TotalIs
<1>3. PrefixSum(f)[n] = PrefixSum(g)[n]
  BY <1>1, <1>2, PrefixSumAgree
<1>4. PrefixSum(g)[n + 1] = PrefixSum(g)[n] + Summand(g, n + 1)
  BY <1>2, PrefixSumStep
<1>5. Summand(g, n + 1) = g[n + 1]
  BY DEF Amounts, Summand
<1> QED
  BY <1>3, <1>4, <1>5, TotalIs

\* One amount is its total.
LEMMA TotalOfOne ==
  ASSUME NEW f \in Amounts(1)
  PROVE  Total(f) = f[1]
<1>0. f[1] \in Nat /\ Summand(f, 1) = f[1]
  BY DEF Amounts, Summand
<1>1. NatValued(f) /\ Total(f) = PrefixSum(f)[1]
  BY TotalIs
<1>2. PrefixSum(f)[0] = 0 /\ PrefixSum(f)[0 + 1] = PrefixSum(f)[0] + Summand(f, 0 + 1)
  BY <1>1, PrefixSumStep
<1> QED
  BY <1>0, <1>1, <1>2

----------------------------------------------------------------------------
(* Share prices.                                                           *)

\* A share price times the shares is at most the amount that was shared.
LEMMA UsdcToSharePriceIs ==
  ASSUME NEW amount \in Nat, NEW shares \in Nat
  PROVE  /\ usdcToSharePrice(amount, shares) \in Nat
         /\ usdcToSharePrice(amount, shares) * shares <= amount * FP_SCALING_FACTOR
         /\ shares = 0 \/ amount = 0 => usdcToSharePrice(amount, shares) = 0
<1>1. amount * FP_SCALING_FACTOR \in Nat
  BY ScalingAssumption, TimesType
<1>2. CASE shares = 0
  BY <1>1, <1>2 DEF usdcToSharePrice
<1>3. CASE shares # 0
  <2>1. usdcToSharePrice(amount, shares) = (amount * FP_SCALING_FACTOR) \div shares
    BY <1>3 DEF usdcToSharePrice
  <2>2. amount = 0 => (amount * FP_SCALING_FACTOR) \div shares = 0
    BY <1>3, ScalingAssumption
  <2> QED
    BY <1>1, <1>3, <2>1, <2>2, QuotientWithin
<1> QED
  BY <1>2, <1>3

\* What a share price promises, rounded down to whole USDC.
LEMMA SharePriceToUsdcIs ==
  ASSUME NEW price \in Nat, NEW shares \in Nat
  PROVE  /\ sharePriceToUsdc(price, shares) \in Nat
         /\ sharePriceToUsdc(price, shares) * FP_SCALING_FACTOR <= price * shares
         /\ price * shares < (sharePriceToUsdc(price, shares) + 1) * FP_SCALING_FACTOR
<1> DEFINE u == sharePriceToUsdc(price, shares)
<1>1. price * shares \in Nat
  BY TimesType
<1>2. IsFloor(u, price * shares, FP_SCALING_FACTOR)
  BY <1>1, ScalingAssumption, QuotientIsFloor DEF sharePriceToUsdc
<1> HIDE DEF u
<1>3. (u + 1) * FP_SCALING_FACTOR = u * FP_SCALING_FACTOR + FP_SCALING_FACTOR
  BY <1>2, ScalingAssumption DEF IsFloor
<1> QED
  BY <1>2, <1>3 DEF IsFloor, u

\* A share price that rises by what an amount buys rises the worth by no more.
LEMMA WorthRises ==
  ASSUME NEW price \in Nat, NEW shares \in Nat, NEW amount \in Nat
  PROVE  sharePriceToUsdc(price + usdcToSharePrice(amount, shares), shares)
           <= sharePriceToUsdc(price, shares) + amount
<1> DEFINE F == FP_SCALING_FACTOR
           p == usdcToSharePrice(amount, shares)
           u == sharePriceToUsdc(price, shares)
           v == sharePriceToUsdc(price + p, shares)
<1>1. F \in Nat \ {0}
  BY ScalingAssumption
<1>2. p \in Nat /\ p * shares <= amount * F
  BY UsdcToSharePriceIs
<1>3. u \in Nat /\ price * shares < (u + 1) * F
  BY SharePriceToUsdcIs
<1>4. v \in Nat /\ v * F <= (price + p) * shares
  <2>1. price + p \in Nat
    BY <1>2
  <2> QED
    BY <2>1, SharePriceToUsdcIs
<1> HIDE DEF F, p, u, v
<1>5. (price + p) * shares = price * shares + p * shares
  BY <1>2
<1>6. (u + 1) * F + amount * F = (u + amount + 1) * F
  BY <1>1, <1>3
<1>7. price * shares \in Nat /\ p * shares \in Nat /\ (u + 1) * F \in Nat /\ amount * F \in Nat
      /\ v * F \in Nat
  BY <1>1, <1>2, <1>3, <1>4, TimesType
<1>8. v * F < (u + amount + 1) * F
  BY <1>2, <1>3, <1>4, <1>5, <1>6, <1>7
<1>9. v < u + amount + 1
  BY <1>1, <1>3, <1>4, <1>8, TimesCancel
<1> QED
  BY <1>3, <1>4, <1>9 DEF u, v, p

\* A fraction of an amount, rounded down twice: never more than the exact one, and
\* all of the amount for the whole.
LEMMA ScaleByFractionIs ==
  ASSUME NEW amount \in Nat, NEW fraction \in Nat, NEW total \in Nat \ {0}
  PROVE  /\ scaleByFraction(amount, fraction, total) \in Nat
         /\ scaleByFraction(amount, fraction, total) * total <= fraction * amount
         /\ fraction <= total => scaleByFraction(amount, fraction, total) <= amount
         /\ fraction = total => scaleByFraction(amount, fraction, total) = amount
<1> DEFINE F == FP_SCALING_FACTOR
           q == ((fraction * F) * F) \div (total * F)
           x == (q * amount) \div F
<1>1. F \in Nat \ {0}
  BY ScalingAssumption
<1>2. scaleByFraction(amount, fraction, total) = x
  BY DEF scaleByFraction, fpDiv, fromUnscaledUint
<1>3. fraction * F \in Nat /\ (fraction * F) * F \in Nat /\ total * F \in Nat \ {0}
  BY <1>1, TimesType
<1>4. IsFloor(q, (fraction * F) * F, total * F)
  BY <1>3, QuotientIsFloor
<1>5. IsFloor(q, fraction * F, total)
  BY <1>1, <1>3, <1>4, FloorReduced
<1>6. q \in Nat /\ q * total <= fraction * F
  BY <1>5 DEF IsFloor
<1>7. q * amount \in Nat
  BY <1>6, TimesType
<1>8. IsFloor(x, q * amount, F)
  BY <1>1, <1>7, QuotientIsFloor
<1>9. x \in Nat /\ x * F <= q * amount
  BY <1>8 DEF IsFloor
<1> HIDE DEF F, q, x
<1>10. x * total <= fraction * amount
  <2>1. (x * F) * total <= (q * amount) * total
    BY <1>1, <1>7, <1>9, TimesMonotone, TimesType
  <2>2. (q * total) * amount <= (fraction * F) * amount
    BY <1>3, <1>6, TimesMonotone, TimesType
  <2>3. (q * amount) * total = (q * total) * amount
    BY <1>6
  <2>4. (x * F) * total = (x * total) * F /\ (fraction * F) * amount = (fraction * amount) * F
    BY <1>1, <1>9
  <2>5. (x * total) * F <= (fraction * amount) * F
    <3>1. (x * total) * F <= (q * amount) * total
      BY <2>1, <2>4
    <3>2. (q * amount) * total <= (fraction * amount) * F
      BY <2>2, <2>3, <2>4
    <3>3. (x * total) * F \in Nat /\ (q * amount) * total \in Nat /\ (fraction * amount) * F \in Nat
      BY <1>1, <1>6, <1>9, TimesType
    <3> QED
      BY <3>1, <3>2, <3>3
  <2> QED
    BY <1>1, <1>9, <2>5, TimesCancelLe, TimesType
<1>11. ASSUME fraction <= total PROVE x <= amount
  <2>1. fraction * amount <= total * amount
    BY <1>11, TimesMonotone
  <2>2. x * total <= amount * total
    BY <1>9, <1>10, <2>1, TimesType
  <2> QED
    BY <1>9, <2>2, TimesCancelLe
<1>12. ASSUME fraction = total PROVE x = amount
  <2>1. F * total <= fraction * F /\ F * amount <= F * amount
    BY <1>1, <1>12
  <2>2. F <= q
    BY <1>1, <1>3, <1>5, <2>1, FloorBounds
  <2>3. amount * F <= q * amount
    BY <1>1, <1>6, <2>2, TimesMonotone
  <2>4. amount <= x
    BY <1>1, <1>7, <1>8, <2>3, FloorBounds
  <2> QED
    BY <1>9, <1>11, <1>12, <2>4
<1> QED
  BY <1>2, <1>9, <1>10, <1>11, <1>12

\* The expected share price is at most the tranche's part of the amount.
LEMMA ExpectedSharePriceIs ==
  ASSUME NEW tranche, NEW slice, NEW amount \in Nat,
         tranche.principalDeposited \in Nat, TotalDeposited(slice) \in Nat \ {0}
  PROVE  /\ calculateExpectedSharePrice(tranche, amount, slice) \in Nat
         /\ calculateExpectedSharePrice(tranche, amount, slice) * TotalDeposited(slice)
              <= amount * FP_SCALING_FACTOR
<1> DEFINE dep == tranche.principalDeposited
           tot == TotalDeposited(slice)
           p == usdcToSharePrice(amount, dep)
           e == scaleByFraction(p, dep, tot)
<1>1. calculateExpectedSharePrice(tranche, amount, slice) = e
  BY DEF calculateExpectedSharePrice
<1>2. p \in Nat /\ p * dep <= amount * FP_SCALING_FACTOR
  BY UsdcToSharePriceIs
<1>3. e \in Nat /\ e * tot <= dep * p
  BY <1>2, ScaleByFractionIs
<1> HIDE DEF p, e
<1>4. dep * p = p * dep
  BY <1>2
<1>5. e * tot \in Nat /\ p * dep \in Nat /\ amount * FP_SCALING_FACTOR \in Nat
  BY <1>2, <1>3, ScalingAssumption, TimesType
<1> QED
  BY <1>1, <1>2, <1>3, <1>4, <1>5

----------------------------------------------------------------------------
(* Money applied to a tranche and to a slice.                              *)

\* What the share prices of a slice promise.
sliceWorth(slice) == worth(slice.senior) + worth(slice.junior)

\* The worth of a tranche is a number of USDC.
LEMMA WorthType ==
  ASSUME NEW tranche \in Tranche
  PROVE  worth(tranche) \in Nat
<1>1. /\ tranche.principalSharePrice \in Nat /\ tranche.interestSharePrice \in Nat
      /\ tranche.principalDeposited \in Nat
  BY DEF Tranche
<1>2. /\ sharePriceToUsdc(tranche.principalSharePrice, tranche.principalDeposited) \in Nat
      /\ sharePriceToUsdc(tranche.interestSharePrice, tranche.principalDeposited) \in Nat
  BY <1>1, SharePriceToUsdcIs
<1> QED
  BY <1>2 DEF worth

\* A tranche is worth more by paid at most.
Applied(before, after, paid) ==
  /\ after \in Tranche
  /\ after.principalDeposited = before.principalDeposited
  /\ after.lockedUntil = before.lockedUntil
  /\ worth(after) <= worth(before) + paid

\* It was paid what is missing of the money.
PaidTo(tranche, interest, principal, r) ==
  /\ r.interest \in 0..interest /\ r.principal \in 0..principal
  /\ Applied(tranche, r.tranche, (interest - r.interest) + (principal - r.principal))

\* applyByAmount pays the tranche what it takes from the money, and no more.
LEMMA ApplyByAmountIs ==
  ASSUME NEW tranche \in Tranche, NEW interest \in Nat, NEW principal \in Nat,
         NEW desiredInterest \in Nat, NEW desiredPrincipal \in Nat
  PROVE  /\ PaidTo(tranche, interest, principal,
                   applyByAmount(tranche, interest, principal, desiredInterest, desiredPrincipal))
         /\ applyByAmount(tranche, interest, principal, desiredInterest,
                          desiredPrincipal).tranche.interestSharePrice =
              tranche.interestSharePrice
                + usdcToSharePrice(AtMost(interest, desiredInterest), tranche.principalDeposited)
<1> DEFINE r == applyByAmount(tranche, interest, principal, desiredInterest, desiredPrincipal)
           i == AtMost(interest, desiredInterest)
           p == AtMost(principal, desiredPrincipal)
           shares == tranche.principalDeposited
           t == [tranche EXCEPT !.interestSharePrice = @ + usdcToSharePrice(i, shares),
                                !.principalSharePrice = @ + usdcToSharePrice(p, shares)]
<1>1. i \in 0..interest /\ p \in 0..principal
  BY DEF AtMost
<1>2. r.tranche = t /\ r.interest = interest - i /\ r.principal = principal - p
  BY DEF applyByAmount
<1>3. /\ tranche.principalSharePrice \in Nat /\ tranche.interestSharePrice \in Nat
      /\ shares \in Nat /\ tranche.lockedUntil \in Nat
  BY DEF Tranche
<1>4. usdcToSharePrice(i, shares) \in Nat /\ usdcToSharePrice(p, shares) \in Nat
  <2>1. i \in Nat /\ p \in Nat
    BY <1>1
  <2> QED
    BY <1>3, <2>1, UsdcToSharePriceIs
<1> HIDE DEF i, p
<1>5. /\ t.interestSharePrice = tranche.interestSharePrice + usdcToSharePrice(i, shares)
      /\ t.principalSharePrice = tranche.principalSharePrice + usdcToSharePrice(p, shares)
      /\ t.principalDeposited = shares /\ t.lockedUntil = tranche.lockedUntil
  BY DEF Tranche
<1>6. t \in Tranche
  <2>1. /\ tranche.interestSharePrice + usdcToSharePrice(i, shares) \in Nat
        /\ tranche.principalSharePrice + usdcToSharePrice(p, shares) \in Nat
    BY <1>3, <1>4
  <2> QED
    BY <2>1 DEF Tranche
<1>7. worth(t) <= worth(tranche) + i + p
  <2>1. i \in Nat /\ p \in Nat
    BY <1>1
  <2>2. sharePriceToUsdc(t.interestSharePrice, shares)
          <= sharePriceToUsdc(tranche.interestSharePrice, shares) + i
    BY <1>3, <1>5, <2>1, WorthRises
  <2>3. sharePriceToUsdc(t.principalSharePrice, shares)
          <= sharePriceToUsdc(tranche.principalSharePrice, shares) + p
    BY <1>3, <1>5, <2>1, WorthRises
  <2>4. /\ sharePriceToUsdc(t.interestSharePrice, shares) \in Nat
        /\ sharePriceToUsdc(tranche.interestSharePrice, shares) \in Nat
        /\ sharePriceToUsdc(t.principalSharePrice, shares) \in Nat
        /\ sharePriceToUsdc(tranche.principalSharePrice, shares) \in Nat
    <3>1. t.interestSharePrice \in Nat /\ t.principalSharePrice \in Nat
      BY <1>3, <1>4, <1>5
    <3> QED
      BY <1>3, <3>1, SharePriceToUsdcIs
  <2>5. /\ worth(t) = sharePriceToUsdc(t.principalSharePrice, shares)
                        + sharePriceToUsdc(t.interestSharePrice, shares)
        /\ worth(tranche) = sharePriceToUsdc(tranche.principalSharePrice, shares)
                              + sharePriceToUsdc(tranche.interestSharePrice, shares)
    BY <1>5 DEF worth
  <2> QED
    BY <2>1, <2>2, <2>3, <2>4, <2>5
<1> HIDE DEF t, r
<1>8. (interest - r.interest) + (principal - r.principal) = i + p
  BY <1>1, <1>2
<1>9. Applied(tranche, t, i + p)
  BY <1>1, <1>5, <1>6, <1>7, WorthType DEF Applied
<1>10. r.interest \in 0..interest /\ r.principal \in 0..principal
  BY <1>1, <1>2
<1> QED
  BY <1>2, <1>5, <1>8, <1>9, <1>10 DEF i, r, PaidTo

\* What it takes to raise a share price, rounded down.
LEMMA DesiredAmountIs ==
  ASSUME NEW desired \in Nat, NEW actual \in Nat, NEW shares \in Nat
  PROVE  /\ desiredAmountFromSharePrice(desired, actual, shares) \in Nat
         /\ desired < actual => desiredAmountFromSharePrice(desired, actual, shares) = 0
         /\ desired >= actual
            => desiredAmountFromSharePrice(desired, actual, shares) * FP_SCALING_FACTOR
                 <= (desired - actual) * shares
<1>1. CASE desired < actual
  BY <1>1 DEF desiredAmountFromSharePrice
<1>2. CASE desired >= actual
  <2>1. desired - actual \in Nat /\ ~ (desired < actual)
    BY <1>2
  <2>2. desiredAmountFromSharePrice(desired, actual, shares)
          = sharePriceToUsdc(desired - actual, shares)
    BY <2>1 DEF desiredAmountFromSharePrice
  <2> QED
    BY <2>1, <2>2, SharePriceToUsdcIs
<1> QED
  BY <1>1, <1>2

\* A share price is raised no higher than it is desired to be.
LEMMA ApplyBySharePriceIs ==
  ASSUME NEW tranche \in Tranche, NEW interest \in Nat, NEW principal \in Nat,
         NEW desiredInterest \in Nat, NEW desiredPrincipal \in Nat
  PROVE  LET r == applyBySharePrice(tranche, interest, principal, desiredInterest,
                                    desiredPrincipal)
         IN  /\ PaidTo(tranche, interest, principal, r)
             /\ \/ r.tranche.interestSharePrice = tranche.interestSharePrice
                \/ r.tranche.interestSharePrice <= desiredInterest
<1> DEFINE r == applyBySharePrice(tranche, interest, principal, desiredInterest, desiredPrincipal)
           shares == tranche.principalDeposited
           old == tranche.interestSharePrice
           a == desiredAmountFromSharePrice(desiredInterest, old, shares)
           b == desiredAmountFromSharePrice(desiredPrincipal, tranche.principalSharePrice, shares)
           i == AtMost(interest, a)
           rise == usdcToSharePrice(i, shares)
<1>1. old \in Nat /\ tranche.principalSharePrice \in Nat /\ shares \in Nat
  BY DEF Tranche
<1>2. /\ a \in Nat /\ b \in Nat
      /\ desiredInterest < old => a = 0
      /\ desiredInterest >= old => a * FP_SCALING_FACTOR <= (desiredInterest - old) * shares
  <2> HIDE DEF old, shares
  <2> QED
    BY <1>1, DesiredAmountIs
<1>3. r = applyByAmount(tranche, interest, principal, a, b)
  BY DEF applyBySharePrice
<1>4. PaidTo(tranche, interest, principal, r) /\ r.tranche.interestSharePrice = old + rise
  <2> HIDE DEF a, b
  <2>1. PaidTo(tranche, interest, principal, applyByAmount(tranche, interest, principal, a, b))
    BY <1>2, ApplyByAmountIs
  <2>2. applyByAmount(tranche, interest, principal, a, b).tranche.interestSharePrice = old + rise
    BY <1>2, ApplyByAmountIs
  <2> HIDE DEF r, rise, old
  <2> QED
    BY <1>3, <2>1, <2>2
<1>5. i \in Nat /\ i <= a
  BY <1>2 DEF AtMost
<1>6. rise \in Nat /\ rise * shares <= i * FP_SCALING_FACTOR
      /\ (shares = 0 \/ i = 0 => rise = 0)
  <2> HIDE DEF i
  <2> QED
    BY <1>1, <1>5, UsdcToSharePriceIs
<1>7. rise = 0 \/ old + rise <= desiredInterest
  <2>1. CASE desiredInterest < old
    <3>1. a = 0
      BY <1>2, <2>1
    <3> QED
      BY <1>5, <1>6, <3>1
  <2>2. CASE desiredInterest >= old /\ shares # 0
    <3>1. a * FP_SCALING_FACTOR <= (desiredInterest - old) * shares
      BY <1>2, <2>2
    <3>2. i * FP_SCALING_FACTOR <= a * FP_SCALING_FACTOR
      BY <1>2, <1>5, ScalingAssumption, TimesMonotone
    <3>3. desiredInterest - old \in Nat /\ shares \in Nat \ {0}
      BY <1>1, <2>2
    <3> HIDE DEF a, i, rise
    <3>4. /\ rise * shares \in Nat /\ i * FP_SCALING_FACTOR \in Nat /\ a * FP_SCALING_FACTOR \in Nat
          /\ (desiredInterest - old) * shares \in Nat
      BY <1>2, <1>5, <1>6, <3>3, ScalingAssumption, TimesType
    <3>5. rise * shares <= (desiredInterest - old) * shares
      BY <1>6, <3>1, <3>2, <3>4
    <3>6. rise <= desiredInterest - old
      BY <1>6, <3>3, <3>5, TimesCancelLe
    <3> QED
      BY <1>1, <1>6, <3>3, <3>6
  <2>3. CASE shares = 0
    BY <1>6, <2>3
  <2> HIDE DEF rise
  <2> QED
    BY <1>1, <2>1, <2>2, <2>3
<1> HIDE DEF rise, r
<1> QED
  BY <1>1, <1>4, <1>7 DEF r

\* The fees are percentages that leave something for the senior tranche.
LEMMA FeesAre ==
  /\ juniorFeePercent \in Nat /\ reserveFeePercent \in 0..100 /\ ONE_HUNDRED = 100
  /\ ONE_HUNDRED - (juniorFeePercent + reserveFeePercent) \in 0..100
<1>1. juniorFeePercent \in Nat /\ ReserveDenominator \in Nat \ {0} /\ ONE_HUNDRED = 100
      /\ juniorFeePercent + reserveFeePercent <= 100
  BY ShareAssumption DEF ONE_HUNDRED, reserveFeePercent
<1>2. reserveFeePercent \in Nat
  BY <1>1, DivType DEF reserveFeePercent
<1> QED
  BY <1>1, <1>2

\* A tranche keeps its deposits and its lock.
SameTerms(before, after) ==
  /\ after.principalDeposited = before.principalDeposited
  /\ after.lockedUntil = before.lockedUntil

\* A slice is worth more by paid at most.
SlicePaid(before, after, paid) ==
  /\ after \in PoolSlice
  /\ SameTerms(before.senior, after.senior) /\ SameTerms(before.junior, after.junior)
  /\ after.totalInterestAccrued = before.totalInterestAccrued
  /\ after.principalDeployed = before.principalDeployed
  /\ sliceWorth(after) <= sliceWorth(before) + paid

\* Money that came to a slice was paid to it, left, or is the reserve's.
GivenTo(slice, interest, principal, r) ==
  /\ r.interest \in Nat /\ r.principal \in Nat /\ r.reserve \in Nat
  /\ r.interest + r.principal + r.reserve <= interest + principal
  /\ SlicePaid(slice, r.slice, interest + principal - (r.interest + r.principal + r.reserve))

\* SeniorInterestIsCapped, of a slice.
Capped(slice) ==
  slice.senior.interestSharePrice * TotalDeposited(slice) * ONE_HUNDRED
    <= slice.totalInterestAccrued * FP_SCALING_FACTOR
         * (ONE_HUNDRED - juniorFeePercent - reserveFeePercent)

\* The fields of a slice.
LEMMA SliceType ==
  ASSUME NEW slice \in PoolSlice
  PROVE  /\ slice.senior \in Tranche /\ slice.junior \in Tranche
         /\ slice.totalInterestAccrued \in Nat /\ slice.principalDeployed \in Nat
         /\ slice.senior.principalDeposited \in Nat /\ slice.junior.principalDeposited \in Nat
         /\ slice.senior.lockedUntil \in Nat /\ slice.junior.lockedUntil \in Nat
         /\ slice.senior.interestSharePrice \in Nat /\ slice.senior.principalSharePrice \in Nat
         /\ slice.junior.interestSharePrice \in Nat /\ slice.junior.principalSharePrice \in Nat
         /\ TotalDeposited(slice) \in Nat
         /\ sliceWorth(slice) \in Nat
<1>1. slice.senior \in Tranche /\ slice.junior \in Tranche
  BY DEF PoolSlice
<1>2. worth(slice.senior) \in Nat /\ worth(slice.junior) \in Nat
  BY <1>1, WorthType
<1>3. sliceWorth(slice) \in Nat
  BY <1>2 DEF sliceWorth
<1>4. slice.senior.principalDeposited \in Nat /\ slice.junior.principalDeposited \in Nat
  BY <1>1 DEF Tranche
<1> QED
  BY <1>1, <1>3, <1>4 DEF PoolSlice, Tranche, TotalDeposited

\* The senior interest price that is due keeps the cap.
LEMMA NetInterestIsCapped ==
  ASSUME NEW slice \in PoolSlice, TotalDeposited(slice) # 0
  PROVE  /\ seniorNetInterestSharePrice(slice, juniorFeePercent, reserveFeePercent) \in Nat
         /\ seniorNetInterestSharePrice(slice, juniorFeePercent, reserveFeePercent)
              * TotalDeposited(slice) * ONE_HUNDRED
              <= slice.totalInterestAccrued * FP_SCALING_FACTOR
                   * (ONE_HUNDRED - juniorFeePercent - reserveFeePercent)
<1> DEFINE part == ONE_HUNDRED - (juniorFeePercent + reserveFeePercent)
           e == calculateExpectedSharePrice(slice.senior, slice.totalInterestAccrued, slice)
           x == scaleByFraction(e, part, ONE_HUNDRED)
           tot == TotalDeposited(slice)
           all == slice.totalInterestAccrued * FP_SCALING_FACTOR
<1>1. part \in Nat /\ part = ONE_HUNDRED - juniorFeePercent - reserveFeePercent
      /\ ONE_HUNDRED \in Nat \ {0}
  BY FeesAre
<1>2. tot \in Nat \ {0} /\ slice.senior.principalDeposited \in Nat
      /\ slice.totalInterestAccrued \in Nat
  BY SliceType
<1>3. e \in Nat /\ e * tot <= all
  <2> HIDE DEF tot, all
  <2> QED
    BY <1>2, ExpectedSharePriceIs DEF tot, all
<1>4. all \in Nat
  BY <1>2, ScalingAssumption, TimesType
<1>5. seniorNetInterestSharePrice(slice, juniorFeePercent, reserveFeePercent) = x
  BY DEF seniorNetInterestSharePrice
<1>6. x \in Nat /\ x * ONE_HUNDRED <= part * e
  <2> HIDE DEF part, e
  <2> QED
    BY <1>1, <1>3, ScaleByFractionIs
<1> HIDE DEF part, e, x, tot, all
<1>7. (x * ONE_HUNDRED) * tot <= (part * e) * tot
  BY <1>1, <1>2, <1>3, <1>6, TimesMonotone, TimesType
<1>8. (e * tot) * part <= all * part
  BY <1>1, <1>2, <1>3, <1>4, TimesMonotone, TimesType
<1>9. (part * e) * tot = (e * tot) * part /\ (x * ONE_HUNDRED) * tot = x * tot * ONE_HUNDRED
  BY <1>1, <1>2, <1>3, <1>6
<1>10. x * tot * ONE_HUNDRED \in Nat /\ (e * tot) * part \in Nat /\ all * part \in Nat
  BY <1>1, <1>2, <1>3, <1>4, <1>6, TimesType
<1>11. x * tot * ONE_HUNDRED <= all * part
  BY <1>7, <1>8, <1>9, <1>10
<1> QED
  BY <1>1, <1>5, <1>6, <1>11 DEF all, tot

\* The reserve takes a part of an amount.
LEMMA ReserveIs ==
  ASSUME NEW amount \in Nat
  PROVE  scaleByFraction(amount, reserveFeePercent, ONE_HUNDRED) \in 0..amount
<1>1. reserveFeePercent \in Nat /\ ONE_HUNDRED \in Nat \ {0} /\ reserveFeePercent <= ONE_HUNDRED
  BY FeesAre
<1>2. /\ scaleByFraction(amount, reserveFeePercent, ONE_HUNDRED) \in Nat
      /\ scaleByFraction(amount, reserveFeePercent, ONE_HUNDRED) <= amount
  BY <1>1, ScaleByFractionIs
<1> QED
  BY <1>2

\* applyToSeniorTranche gives to the senior tranche and to the reserve what is
\* missing of the money, and keeps the cap on senior interest.
LEMMA SeniorIsGiven ==
  ASSUME NEW slice \in PoolSlice, TotalDeposited(slice) # 0,
         NEW interest \in Nat, NEW principal \in Nat, NEW due \in Nat
  PROVE  LET r == applyToSeniorTranche(slice, interest, principal, juniorFeePercent,
                                       reserveFeePercent, due)
         IN  /\ GivenTo(slice, interest, principal, r)
             /\ Capped(slice) => Capped(r.slice)
<1> DEFINE r == applyToSeniorTranche(slice, interest, principal, juniorFeePercent,
                                     reserveFeePercent, due)
           reserve == scaleByFraction(interest, reserveFeePercent, ONE_HUNDRED)
           i == interest - reserve
           net == seniorNetInterestSharePrice(slice, juniorFeePercent, reserveFeePercent)
           e == calculateExpectedSharePrice(slice.senior, due, slice)
           a == applyBySharePrice(slice.senior, i, principal, net, e)
           after == [slice EXCEPT !.senior = a.tranche]
<1>1. reserve \in 0..interest
  BY ReserveIs
<1>2. i \in Nat /\ i + reserve = interest /\ reserve \in Nat
  BY <1>1
<1>3. net \in Nat
  BY NetInterestIsCapped
<1>4. slice.senior \in Tranche /\ slice.senior.principalDeposited \in Nat
      /\ TotalDeposited(slice) \in Nat \ {0}
  BY SliceType
<1>5. e \in Nat
  BY <1>4, ExpectedSharePriceIs
<1>6. /\ PaidTo(slice.senior, i, principal, a)
      /\ \/ a.tranche.interestSharePrice = slice.senior.interestSharePrice
         \/ a.tranche.interestSharePrice <= net
  <2> HIDE DEF i, net, e
  <2>1. PaidTo(slice.senior, i, principal, a)
    BY <1>2, <1>3, <1>4, <1>5, ApplyBySharePriceIs
  <2>2. \/ a.tranche.interestSharePrice = slice.senior.interestSharePrice
        \/ a.tranche.interestSharePrice <= net
    BY <1>2, <1>3, <1>4, <1>5, ApplyBySharePriceIs
  <2> QED
    BY <2>1, <2>2
<1>7. r.slice = after /\ r.interest = a.interest /\ r.principal = a.principal /\ r.reserve = reserve
  BY DEF applyToSeniorTranche
<1> HIDE DEF r, reserve, i, net, e, a
<1>8. /\ after \in PoolSlice /\ after.senior = a.tranche /\ after.junior = slice.junior
      /\ after.totalInterestAccrued = slice.totalInterestAccrued
      /\ after.principalDeployed = slice.principalDeployed
  BY <1>6 DEF PaidTo, Applied, PoolSlice
<1> HIDE DEF after
<1>9. /\ a.interest \in 0..i /\ a.principal \in 0..principal
      /\ a.tranche \in Tranche
      /\ SameTerms(slice.senior, a.tranche)
      /\ worth(a.tranche) <= worth(slice.senior) + ((i - a.interest) + (principal - a.principal))
  BY <1>6 DEF PaidTo, Applied, SameTerms
<1>10. worth(a.tranche) \in Nat /\ worth(slice.senior) \in Nat /\ worth(slice.junior) \in Nat
  BY <1>9, SliceType, WorthType
<1>11. sliceWorth(after) <= sliceWorth(slice)
         + (interest + principal - (a.interest + a.principal + reserve))
  BY <1>2, <1>8, <1>9, <1>10 DEF sliceWorth
<1>12. a.interest + a.principal + reserve <= interest + principal
  BY <1>2, <1>9
<1>13. GivenTo(slice, interest, principal, r)
  BY <1>2, <1>7, <1>8, <1>9, <1>11, <1>12 DEF GivenTo, SlicePaid, SameTerms
<1>14. ASSUME Capped(slice) PROVE Capped(after)
  <2>1. TotalDeposited(after) = TotalDeposited(slice)
    BY <1>8, <1>9 DEF TotalDeposited, SameTerms
  <2>2. CASE a.tranche.interestSharePrice = slice.senior.interestSharePrice
    BY <1>8, <1>14, <2>1, <2>2 DEF Capped
  <2>3. CASE a.tranche.interestSharePrice <= net
    <3> DEFINE p == a.tranche.interestSharePrice
               tot == TotalDeposited(slice)
    <3>1. p \in Nat /\ tot \in Nat
      BY <1>4, <1>9 DEF Tranche
    <3>2. net * tot * ONE_HUNDRED <= slice.totalInterestAccrued * FP_SCALING_FACTOR
                   * (ONE_HUNDRED - juniorFeePercent - reserveFeePercent)
      BY NetInterestIsCapped DEF net
    <3>3. slice.totalInterestAccrued * FP_SCALING_FACTOR
                   * (ONE_HUNDRED - juniorFeePercent - reserveFeePercent) \in Nat
      <4>1. ONE_HUNDRED - juniorFeePercent - reserveFeePercent \in Nat
        BY FeesAre
      <4>2. slice.totalInterestAccrued * FP_SCALING_FACTOR \in Nat
        BY SliceType, ScalingAssumption, TimesType
      <4> QED
        BY <4>1, <4>2, TimesType
    <3>4. ONE_HUNDRED \in Nat
      BY FeesAre
    <3> HIDE DEF p, tot
    <3>5. p * tot * ONE_HUNDRED <= net * tot * ONE_HUNDRED
      BY <1>3, <2>3, <3>1, <3>4, TimesMonotone, TimesType DEF p
    <3>6. p * tot * ONE_HUNDRED \in Nat /\ net * tot * ONE_HUNDRED \in Nat
      BY <1>3, <3>1, <3>4, TimesType
    <3>7. p * tot * ONE_HUNDRED <= slice.totalInterestAccrued * FP_SCALING_FACTOR
                   * (ONE_HUNDRED - juniorFeePercent - reserveFeePercent)
      BY <3>2, <3>3, <3>5, <3>6
    <3> QED
      BY <1>8, <2>1, <3>7 DEF Capped, p, tot
  <2> QED
    BY <1>6, <2>2, <2>3
<1> QED
  BY <1>7, <1>13, <1>14 DEF r

\* So does applyToJuniorTranche to the junior tranche, extra interest included.
LEMMA JuniorIsGiven ==
  ASSUME NEW slice \in PoolSlice, TotalDeposited(slice) # 0,
         NEW interest \in Nat, NEW principal \in Nat, NEW due \in Nat
  PROVE  LET r == applyToJuniorTranche(slice, interest, principal, reserveFeePercent, due)
         IN  /\ GivenTo(slice, interest, principal, r)
             /\ Capped(slice) => Capped(r.slice)
<1> DEFINE r == applyToJuniorTranche(slice, interest, principal, reserveFeePercent, due)
           price == slice.junior.interestSharePrice
                      + usdcToSharePrice(interest, slice.junior.principalDeposited)
           e == calculateExpectedSharePrice(slice.junior, due, slice)
           a == applyBySharePrice(slice.junior, interest, principal, price, e)
           reserve == scaleByFraction(a.principal, reserveFeePercent, ONE_HUNDRED)
           extra == a.interest + a.principal - reserve
           b == applyByAmount(a.tranche, extra, 0, extra, 0)
           after == [slice EXCEPT !.junior = b.tranche]
<1>1. /\ slice.junior \in Tranche /\ slice.junior.principalDeposited \in Nat
      /\ TotalDeposited(slice) \in Nat \ {0} /\ slice.junior.interestSharePrice \in Nat
  BY SliceType
<1>2. price \in Nat
  <2>1. usdcToSharePrice(interest, slice.junior.principalDeposited) \in Nat
    BY <1>1, UsdcToSharePriceIs
  <2> QED
    BY <1>1, <2>1
<1>3. e \in Nat
  BY <1>1, ExpectedSharePriceIs
<1>4. PaidTo(slice.junior, interest, principal, a)
  <2> HIDE DEF price, e
  <2> QED
    BY <1>1, <1>2, <1>3, ApplyBySharePriceIs
<1>5. r.slice = after /\ r.interest = 0 /\ r.principal = 0 /\ r.reserve = reserve
  BY DEF applyToJuniorTranche
<1> HIDE DEF r, price, e, a
<1>6. /\ a.interest \in 0..interest /\ a.principal \in 0..principal
      /\ a.tranche \in Tranche
      /\ SameTerms(slice.junior, a.tranche)
      /\ worth(a.tranche) <= worth(slice.junior)
                               + ((interest - a.interest) + (principal - a.principal))
  BY <1>4 DEF PaidTo, Applied, SameTerms
<1>7. reserve \in 0..a.principal
  <2>1. a.principal \in Nat
    BY <1>6
  <2> QED
    BY <2>1, ReserveIs
<1> HIDE DEF reserve
<1>8. extra \in Nat /\ extra + reserve = a.interest + a.principal /\ reserve \in Nat
  BY <1>6, <1>7
<1> HIDE DEF extra
<1>9. PaidTo(a.tranche, extra, 0, b)
  BY <1>6, <1>8, ApplyByAmountIs
<1> HIDE DEF b
<1>10. /\ b.interest \in 0..extra /\ b.principal \in 0..0
       /\ b.tranche \in Tranche
       /\ SameTerms(slice.junior, b.tranche)
       /\ worth(b.tranche) <= worth(a.tranche) + ((extra - b.interest) + (0 - b.principal))
  BY <1>6, <1>9 DEF PaidTo, Applied, SameTerms
<1>11. /\ after \in PoolSlice /\ after.junior = b.tranche /\ after.senior = slice.senior
       /\ after.totalInterestAccrued = slice.totalInterestAccrued
       /\ after.principalDeployed = slice.principalDeployed
  BY <1>10 DEF PoolSlice
<1> HIDE DEF after
<1>12. /\ worth(a.tranche) \in Nat /\ worth(b.tranche) \in Nat
       /\ worth(slice.senior) \in Nat /\ worth(slice.junior) \in Nat
  BY <1>6, <1>10, SliceType, WorthType
<1>13. worth(b.tranche) <= worth(slice.junior) + (interest + principal - reserve)
  <2>1. worth(b.tranche) <= worth(a.tranche) + extra
    BY <1>8, <1>10, <1>12
  <2>2. worth(a.tranche) + extra <= worth(slice.junior) + (interest + principal - reserve)
    BY <1>6, <1>7, <1>8, <1>12
  <2> QED
    BY <1>6, <1>8, <1>12, <2>1, <2>2
<1>14. sliceWorth(after) <= sliceWorth(slice) + (interest + principal - (0 + 0 + reserve))
  BY <1>8, <1>11, <1>12, <1>13 DEF sliceWorth
<1>15. 0 + 0 + reserve <= interest + principal
  BY <1>6, <1>7
<1>16. GivenTo(slice, interest, principal, r)
  BY <1>5, <1>8, <1>10, <1>11, <1>14, <1>15 DEF GivenTo, SlicePaid, SameTerms
<1>17. ASSUME Capped(slice) PROVE Capped(after)
  <2>1. TotalDeposited(after) = TotalDeposited(slice)
    BY <1>10, <1>11 DEF TotalDeposited, SameTerms
  <2> QED
    BY <1>11, <1>17, <2>1 DEF Capped
<1> QED
  BY <1>5, <1>16, <1>17 DEF r

----------------------------------------------------------------------------
(* Money applied to all the slices.                                        *)

\* The slices of a pool, as a function; what each is worth and has deployed.
Slices(n) == [1..n -> PoolSlice]
worths(n, slices) == [i \in 1..n |-> sliceWorth(slices[i])]
deployedIn(n, slices) == [i \in 1..n |-> slices[i].principalDeployed]

\* The deployed principal adds up.
DeployedIs(n, slices, deployed) ==
  deployed \in Nat \ {0} /\ deployed = Total(deployedIn(n, slices))

\* The slices' parts of an amount.
shares(n, slices, amount, deployed) ==
  [i \in 1..n |-> scaleForSlice(slices[i], amount, deployed)]

\* The slices' parts of an amount never exceed it, and no slice is repaid more than
\* it has deployed.
LEMMA SharesAre ==
  ASSUME NEW n \in Nat, NEW slices \in Slices(n), NEW deployed, DeployedIs(n, slices, deployed),
         NEW amount \in Nat
  PROVE  /\ shares(n, slices, amount, deployed) \in Amounts(n)
         /\ Total(shares(n, slices, amount, deployed)) <= amount
         /\ \A i \in 1..n : amount <= deployed
              => shares(n, slices, amount, deployed)[i] <= slices[i].principalDeployed
         /\ n = 1 => Total(shares(n, slices, amount, deployed)) = amount
<1> DEFINE s == shares(n, slices, amount, deployed)
           d == deployedIn(n, slices)
<1>1. deployed \in Nat \ {0} /\ deployed = Total(d)
  BY DEF DeployedIs
<1>2. ASSUME NEW i \in 1..n
      PROVE  /\ d[i] \in Nat /\ d[i] = slices[i].principalDeployed
             /\ s[i] = scaleByFraction(amount, d[i], deployed)
             /\ s[i] \in Nat
             /\ s[i] * deployed <= d[i] * amount
             /\ d[i] = deployed => s[i] = amount
  <2>1. slices[i] \in PoolSlice
    BY DEF Slices
  <2>2. d[i] = slices[i].principalDeployed /\ d[i] \in Nat
    BY <2>1, SliceType DEF deployedIn
  <2>3. s[i] = scaleByFraction(amount, d[i], deployed)
    BY <2>2 DEF shares, scaleForSlice
  <2> HIDE DEF s, d
  <2>4. /\ scaleByFraction(amount, d[i], deployed) \in Nat
        /\ scaleByFraction(amount, d[i], deployed) * deployed <= d[i] * amount
    BY <1>1, <2>2, ScaleByFractionIs
  <2>5. d[i] = deployed => scaleByFraction(amount, d[i], deployed) = amount
    BY <1>1, <2>2, ScaleByFractionIs
  <2> QED
    BY <2>2, <2>3, <2>4, <2>5
<1>3. s \in Amounts(n) /\ d \in Amounts(n)
  BY <1>2 DEF Amounts, shares, deployedIn
<1> HIDE DEF s, d
<1>4. Total(s) <= amount
  <2>1. \A i \in 1..n : s[i] * deployed <= d[i] * amount
    BY <1>2
  <2>2. Total(s) * deployed <= Total(d) * amount
    BY <1>1, <1>3, <2>1, TotalWithin
  <2>3. Total(s) \in Nat
    BY <1>3, TotalIs
  <2>4. Total(s) * deployed <= amount * deployed
    BY <1>1, <2>2, <2>3, TimesType
  <2> QED
    BY <1>1, <2>3, <2>4, TimesCancelLe
<1>5. ASSUME NEW i \in 1..n, amount <= deployed PROVE s[i] <= slices[i].principalDeployed
  <2>1. d[i] * amount <= d[i] * deployed
    <3>1. amount * d[i] <= deployed * d[i]
      BY <1>1, <1>2, <1>5, TimesMonotone
    <3> QED
      BY <1>1, <1>2, <3>1
  <2>2. s[i] * deployed <= d[i] * deployed
    <3>1. s[i] * deployed \in Nat /\ d[i] * amount \in Nat /\ d[i] * deployed \in Nat
      BY <1>1, <1>2, TimesType
    <3> QED
      BY <1>2, <2>1, <3>1
  <2>3. s[i] <= d[i]
    BY <1>1, <1>2, <2>2, TimesCancelLe
  <2> QED
    BY <1>2, <2>3
<1>6. ASSUME n = 1 PROVE Total(s) = amount
  <2>1. s \in Amounts(1) /\ d \in Amounts(1) /\ 1 \in 1..n
    BY <1>3, <1>6
  <2>2. Total(s) = s[1] /\ Total(d) = d[1]
    BY <2>1, TotalOfOne
  <2> QED
    BY <1>1, <1>2, <2>1, <2>2
<1> QED
  BY <1>3, <1>4, <1>5, <1>6 DEF s

\* Books that the waterfall does not touch.
SameBooks(n, before, after) ==
  \A i \in 1..n :
    /\ SameTerms(before[i].senior, after[i].senior) /\ SameTerms(before[i].junior, after[i].junior)
    /\ after[i].totalInterestAccrued = before[i].totalInterestAccrued
    /\ after[i].principalDeployed = before[i].principalDeployed
    /\ Capped(before[i]) => Capped(after[i])

\* An amount was shared by the slices, but for what is left or the reserve's.
SharedBy(n, before, amount, left) ==
  /\ left.slices \in Slices(n)
  /\ left.interest \in Nat /\ left.principal \in Nat /\ left.reserve \in Nat
  /\ SameBooks(n, before, left.slices)
  /\ Total(worths(n, left.slices)) + left.interest + left.principal + left.reserve
       <= Total(worths(n, before)) + amount

\* The worths of the slices are amounts.
LEMMA WorthsType ==
  ASSUME NEW n \in Nat, NEW slices \in Slices(n)
  PROVE  worths(n, slices) \in Amounts(n) /\ Total(worths(n, slices)) \in Nat
<1>1. \A i \in 1..n : sliceWorth(slices[i]) \in Nat
  BY SliceType DEF Slices
<1>2. worths(n, slices) \in Amounts(n)
  BY <1>1 DEF worths, Amounts
<1> QED
  BY <1>2, TotalIs

\* The sum of two lists of amounts.
plus(n, f, g) == [i \in 1..n |-> f[i] + g[i]]
\* The total of the sums is the sum of the totals.
LEMMA PlusIs ==
  ASSUME NEW n \in Nat, NEW f \in Amounts(n), NEW g \in Amounts(n)
  PROVE  /\ plus(n, f, g) \in Amounts(n)
         /\ Total(plus(n, f, g)) = Total(f) + Total(g)
         /\ \A i \in 1..n : plus(n, f, g)[i] = f[i] + g[i]
<1>1. plus(n, f, g) \in Amounts(n) /\ \A i \in 1..n : plus(n, f, g)[i] = f[i] + g[i]
  BY DEF plus, Amounts
<1> QED
  BY <1>1, TotalAdd

\* What every slice was given adds up.
LEMMA GatheredIsShared ==
  ASSUME NEW n \in Nat, NEW slices \in Slices(n), NEW f \in Amounts(n), NEW g \in Amounts(n),
         NEW applied, DOMAIN applied = 1..n, NEW reserve \in Nat, NEW amount \in Nat,
         Total(f) + Total(g) + reserve <= amount,
         \A i \in 1..n : /\ GivenTo(slices[i], f[i], g[i], applied[i])
                         /\ Capped(slices[i]) => Capped(applied[i].slice)
  PROVE  SharedBy(n, slices, amount, gathered(applied, reserve))
<1> DEFINE after == [i \in 1..n |-> applied[i].slice]
           I == [i \in 1..n |-> applied[i].interest]
           P == [i \in 1..n |-> applied[i].principal]
           R == [i \in 1..n |-> applied[i].reserve]
           V == worths(n, slices)
           W == worths(n, after)
           left == gathered(applied, reserve)
<1>1. /\ left.slices = after /\ left.interest = Total(I) /\ left.principal = Total(P)
      /\ left.reserve = reserve + Total(R)
  BY DEF gathered
<1>2. ASSUME NEW i \in 1..n
      PROVE  /\ I[i] \in Nat /\ P[i] \in Nat /\ R[i] \in Nat
             /\ I[i] + P[i] + R[i] <= f[i] + g[i]
             /\ SlicePaid(slices[i], after[i], f[i] + g[i] - (I[i] + P[i] + R[i]))
  BY DEF GivenTo
<1>3. after \in Slices(n)
  <2>1. \A i \in 1..n : after[i] \in PoolSlice
    BY <1>2 DEF SlicePaid
  <2> QED
    BY <2>1 DEF Slices
<1>4. I \in Amounts(n) /\ P \in Amounts(n) /\ R \in Amounts(n)
  BY <1>2 DEF Amounts
<1>5. V \in Amounts(n) /\ W \in Amounts(n)
  BY <1>3, WorthsType
<1>6. SameBooks(n, slices, after)
  BY <1>2 DEF SameBooks, SlicePaid
<1>7. ASSUME NEW i \in 1..n
      PROVE  W[i] + I[i] + P[i] + R[i] <= V[i] + f[i] + g[i]
  <2>1. W[i] = sliceWorth(after[i]) /\ V[i] = sliceWorth(slices[i])
    BY DEF worths
  <2>2. sliceWorth(after[i]) <= sliceWorth(slices[i]) + (f[i] + g[i] - (I[i] + P[i] + R[i]))
    BY <1>2 DEF SlicePaid
  <2>3. W[i] \in Nat /\ V[i] \in Nat /\ f[i] \in Nat /\ g[i] \in Nat
    BY <1>5 DEF Amounts
  <2>4. I[i] \in Nat /\ P[i] \in Nat /\ R[i] \in Nat
    BY <1>2
  <2>5. W[i] <= V[i] + (f[i] + g[i] - (I[i] + P[i] + R[i]))
    BY <2>1, <2>2
  <2>6. \A w, x, y, z, v, a, b \in Nat :
          w <= v + (a + b - (x + y + z)) => w + x + y + z <= v + a + b
    OBVIOUS
  <2> HIDE DEF W, V, I, P, R, after
  <2> QED
    BY <2>3, <2>4, <2>5, <2>6
<1> HIDE DEF after, I, P, R, V, W, left
<1>8. Total(W) + Total(I) + Total(P) + Total(R) <= Total(V) + Total(f) + Total(g)
  <2> DEFINE A == plus(n, plus(n, plus(n, W, I), P), R)
             B == plus(n, plus(n, V, f), g)
  <2>1. plus(n, W, I) \in Amounts(n) /\ Total(plus(n, W, I)) = Total(W) + Total(I)
        /\ \A i \in 1..n : plus(n, W, I)[i] = W[i] + I[i]
    BY <1>4, <1>5, PlusIs
  <2>2. plus(n, plus(n, W, I), P) \in Amounts(n)
        /\ Total(plus(n, plus(n, W, I), P)) = Total(plus(n, W, I)) + Total(P)
        /\ \A i \in 1..n : plus(n, plus(n, W, I), P)[i] = plus(n, W, I)[i] + P[i]
    BY <1>4, <2>1, PlusIs
  <2>3. A \in Amounts(n) /\ Total(A) = Total(plus(n, plus(n, W, I), P)) + Total(R)
        /\ \A i \in 1..n : A[i] = plus(n, plus(n, W, I), P)[i] + R[i]
    BY <1>4, <2>2, PlusIs
  <2>4. plus(n, V, f) \in Amounts(n) /\ Total(plus(n, V, f)) = Total(V) + Total(f)
        /\ \A i \in 1..n : plus(n, V, f)[i] = V[i] + f[i]
    BY <1>5, PlusIs
  <2>5. B \in Amounts(n) /\ Total(B) = Total(plus(n, V, f)) + Total(g)
        /\ \A i \in 1..n : B[i] = plus(n, V, f)[i] + g[i]
    BY <2>4, PlusIs
  <2> HIDE DEF A, B
  <2>6. \A i \in 1..n : A[i] <= B[i]
    BY <1>7, <2>1, <2>2, <2>3, <2>4, <2>5
  <2>7. Total(A) <= Total(B)
    BY <2>3, <2>5, <2>6, TotalMonotone
  <2> QED
    BY <2>1, <2>2, <2>3, <2>4, <2>5, <2>7
<1>9. /\ Total(W) \in Nat /\ Total(I) \in Nat /\ Total(P) \in Nat /\ Total(R) \in Nat
      /\ Total(V) \in Nat /\ Total(f) \in Nat /\ Total(g) \in Nat
  BY <1>4, <1>5, TotalIs
<1>10. Total(W) + Total(I) + Total(P) + (reserve + Total(R)) <= Total(V) + amount
  BY <1>8, <1>9
<1>11. reserve + Total(R) \in Nat
  BY <1>9
<1> QED
  BY <1>1, <1>3, <1>6, <1>9, <1>10, <1>11 DEF SharedBy, left, W, V

\* What the checked arithmetic of the waterfall relies on.
Collectable(n, slices, line, deployed) ==
  /\ line.balance \in Nat /\ line.principalOwed \in Nat /\ line.balance <= deployed
  /\ \A i \in 1..n : /\ TotalDeposited(slices[i]) # 0
                     /\ slices[i].principalDeployed <= TotalDeposited(slices[i])

\* The principal a slice is due is a number where the waterfall calculates it.
LEMMA PrincipalAccruedType ==
  ASSUME NEW n \in Nat, NEW slices \in Slices(n), NEW deployed \in Nat \ {0}, NEW line,
         Collectable(n, slices, line, deployed), NEW i \in 1..n
  PROVE  principalAccrued(slices[i], line, deployed) \in Nat
<1> DEFINE slice == slices[i]
           rest == deployed - line.balance + line.principalOwed
<1>1. slice \in PoolSlice
  BY DEF Slices
<1>2. TotalDeposited(slice) - slice.principalDeployed \in Nat
  BY <1>1, SliceType DEF Collectable
<1>3. rest \in Nat
  BY DEF Collectable
<1>4. slice.principalDeployed \in Nat
  BY <1>1, SliceType
<1>5. scaleByFraction(rest, slice.principalDeployed, deployed) \in Nat
  <2> HIDE DEF rest
  <2> QED
    BY <1>3, <1>4, ScaleByFractionIs
<1> QED
  BY <1>2, <1>5 DEF principalAccrued, scaleForSlice

\* All the senior tranches share a payment.
LEMMA SeniorsShare ==
  ASSUME NEW n \in Nat, NEW slices \in Slices(n), NEW deployed, DeployedIs(n, slices, deployed),
         NEW line, Collectable(n, slices, line, deployed),
         NEW interest \in Nat, NEW principal \in Nat
  PROVE  SharedBy(n, slices, interest + principal,
           applyToAllSeniorTranches(slices, interest, principal, reserveFeePercent, deployed, line,
                                    juniorFeePercent))
<1> DEFINE f == shares(n, slices, interest, deployed)
           g == shares(n, slices, principal, deployed)
           applied == [i \in 1..n |->
                         applyToSeniorTranche(slices[i], scaleForSlice(slices[i], interest, deployed),
                           scaleForSlice(slices[i], principal, deployed), juniorFeePercent,
                           reserveFeePercent, principalAccrued(slices[i], line, deployed))]
<1>1. f \in Amounts(n) /\ Total(f) <= interest
  BY SharesAre
<1>2. g \in Amounts(n) /\ Total(g) <= principal
  BY SharesAre
<1>3. DOMAIN slices = 1..n
  BY DEF Slices
<1>4. applyToAllSeniorTranches(slices, interest, principal, reserveFeePercent, deployed, line,
                               juniorFeePercent) = gathered(applied, 0)
  BY <1>3 DEF applyToAllSeniorTranches
<1>5. ASSUME NEW i \in 1..n
      PROVE  /\ GivenTo(slices[i], f[i], g[i], applied[i])
             /\ Capped(slices[i]) => Capped(applied[i].slice)
  <2> DEFINE due == principalAccrued(slices[i], line, deployed)
             r == applyToSeniorTranche(slices[i], f[i], g[i], juniorFeePercent, reserveFeePercent,
                                       due)
  <2>1. slices[i] \in PoolSlice /\ TotalDeposited(slices[i]) # 0
    BY DEF Slices, Collectable
  <2>2. f[i] = scaleForSlice(slices[i], interest, deployed)
        /\ g[i] = scaleForSlice(slices[i], principal, deployed)
    BY DEF shares
  <2>3. applied[i] = r
    BY <2>2
  <2>4. f[i] \in Nat /\ g[i] \in Nat
    BY <1>1, <1>2 DEF Amounts
  <2>5. due \in Nat
    BY PrincipalAccruedType DEF DeployedIs
  <2> HIDE DEF f, g, due, applied
  <2>6. GivenTo(slices[i], f[i], g[i], r)
    BY <2>1, <2>4, <2>5, SeniorIsGiven
  <2>7. Capped(slices[i]) => Capped(r.slice)
    BY <2>1, <2>4, <2>5, SeniorIsGiven
  <2> QED
    BY <2>3, <2>6, <2>7
<1>6. Total(f) + Total(g) + 0 <= interest + principal
  BY <1>1, <1>2, TotalIs
<1>7. DOMAIN applied = 1..n
  OBVIOUS
<1> HIDE DEF f, g, applied
<1>8. SharedBy(n, slices, interest + principal, gathered(applied, 0))
  BY <1>1, <1>2, <1>5, <1>6, <1>7, GatheredIsShared
<1> QED
  BY <1>4, <1>8

\* The waterfall needs what it does not touch.
LEMMA SameBooksHold ==
  ASSUME NEW n \in Nat, NEW before \in Slices(n), NEW after \in Slices(n),
         SameBooks(n, before, after), NEW line, NEW deployed
  PROVE  /\ deployedIn(n, after) = deployedIn(n, before)
         /\ DeployedIs(n, before, deployed) => DeployedIs(n, after, deployed)
         /\ Collectable(n, before, line, deployed) => Collectable(n, after, line, deployed)
<1>1. deployedIn(n, after) = deployedIn(n, before)
  BY DEF SameBooks, deployedIn
<1>2. \A i \in 1..n : /\ TotalDeposited(after[i]) = TotalDeposited(before[i])
                      /\ after[i].principalDeployed = before[i].principalDeployed
  BY DEF SameBooks, SameTerms, TotalDeposited
<1>3. Collectable(n, before, line, deployed) => Collectable(n, after, line, deployed)
  BY <1>2 DEF Collectable
<1> QED
  BY <1>1, <1>3 DEF DeployedIs

\* All the junior tranches share what the senior ones left.
LEMMA JuniorsShare ==
  ASSUME NEW n \in Nat, NEW slices \in Slices(n), NEW deployed, DeployedIs(n, slices, deployed),
         NEW line, Collectable(n, slices, line, deployed),
         NEW amount \in Nat, NEW left, SharedBy(n, slices, amount, left)
  PROVE  SharedBy(n, slices, amount,
                  applyToAllJuniorTranches(left, reserveFeePercent, deployed, line))
<1> DEFINE f == shares(n, left.slices, left.interest, deployed)
           g == shares(n, left.slices, left.principal, deployed)
           applied == [i \in 1..n |->
                         applyToJuniorTranche(left.slices[i],
                           scaleForSlice(left.slices[i], left.interest, deployed),
                           scaleForSlice(left.slices[i], left.principal, deployed),
                           reserveFeePercent, principalAccrued(left.slices[i], line, deployed))]
           rest == left.interest + left.principal + left.reserve
<1>1. /\ left.slices \in Slices(n) /\ SameBooks(n, slices, left.slices)
      /\ left.interest \in Nat /\ left.principal \in Nat /\ left.reserve \in Nat
      /\ Total(worths(n, left.slices)) + left.interest + left.principal + left.reserve
           <= Total(worths(n, slices)) + amount
  BY DEF SharedBy
<1>2. DeployedIs(n, left.slices, deployed) /\ Collectable(n, left.slices, line, deployed)
  BY <1>1, SameBooksHold
<1>3. f \in Amounts(n) /\ Total(f) <= left.interest
  BY <1>1, <1>2, SharesAre
<1>4. g \in Amounts(n) /\ Total(g) <= left.principal
  BY <1>1, <1>2, SharesAre
<1>5. DOMAIN left.slices = 1..n
  BY <1>1 DEF Slices
<1>6. applyToAllJuniorTranches(left, reserveFeePercent, deployed, line)
        = gathered(applied, left.reserve)
  BY <1>5 DEF applyToAllJuniorTranches
<1>7. ASSUME NEW i \in 1..n
      PROVE  /\ GivenTo(left.slices[i], f[i], g[i], applied[i])
             /\ Capped(left.slices[i]) => Capped(applied[i].slice)
  <2> DEFINE due == principalAccrued(left.slices[i], line, deployed)
             r == applyToJuniorTranche(left.slices[i], f[i], g[i], reserveFeePercent, due)
  <2>1. left.slices[i] \in PoolSlice /\ TotalDeposited(left.slices[i]) # 0
    BY <1>1, <1>2 DEF Slices, Collectable
  <2>2. f[i] = scaleForSlice(left.slices[i], left.interest, deployed)
        /\ g[i] = scaleForSlice(left.slices[i], left.principal, deployed)
    BY DEF shares
  <2>3. applied[i] = r
    BY <2>2
  <2>4. f[i] \in Nat /\ g[i] \in Nat
    BY <1>3, <1>4 DEF Amounts
  <2>5. due \in Nat
    BY <1>1, <1>2, PrincipalAccruedType DEF DeployedIs
  <2> HIDE DEF f, g, due, applied
  <2>6. GivenTo(left.slices[i], f[i], g[i], r)
    BY <2>1, <2>4, <2>5, JuniorIsGiven
  <2>7. Capped(left.slices[i]) => Capped(r.slice)
    BY <2>1, <2>4, <2>5, JuniorIsGiven
  <2> QED
    BY <2>3, <2>6, <2>7
<1>8. Total(f) + Total(g) + left.reserve <= rest /\ rest \in Nat
  BY <1>1, <1>3, <1>4, TotalIs
<1>9. DOMAIN applied = 1..n
  OBVIOUS
<1> DEFINE final == gathered(applied, left.reserve)
<1> HIDE DEF f, g, applied, rest
<1>10. SharedBy(n, left.slices, rest, final)
  BY <1>1, <1>3, <1>4, <1>7, <1>8, <1>9, GatheredIsShared
<1> HIDE DEF final
<1>11. final.slices \in Slices(n) /\ SameBooks(n, slices, final.slices)
  BY <1>1, <1>10 DEF SharedBy, SameBooks, SameTerms
<1>12. /\ final.interest \in Nat /\ final.principal \in Nat /\ final.reserve \in Nat
       /\ Total(worths(n, final.slices)) + final.interest + final.principal + final.reserve
            <= Total(worths(n, left.slices)) + rest
  BY <1>10 DEF SharedBy
<1>13. /\ Total(worths(n, final.slices)) \in Nat /\ Total(worths(n, left.slices)) \in Nat
       /\ Total(worths(n, slices)) \in Nat
  BY <1>1, <1>11, WorthsType
<1>14. Total(worths(n, final.slices)) + final.interest + final.principal + final.reserve
         <= Total(worths(n, slices)) + amount
  BY <1>1, <1>8, <1>12, <1>13 DEF rest
<1>15. SharedBy(n, slices, amount, final)
  BY <1>11, <1>12, <1>14 DEF SharedBy
<1> QED
  BY <1>6, <1>15 DEF final

\* The waterfall hands out at most the payment: what the share prices promise and
\* what goes to the reserve grow by no more (collectInterestAndPrincipal).
LEMMA WaterfallShares ==
  ASSUME NEW n \in Nat, NEW slices \in Slices(n), DeployedIs(n, slices, totalDeployed),
         NEW line, Collectable(n, slices, line, totalDeployed),
         NEW interest \in Nat, NEW principal \in Nat
  PROVE  SharedBy(n, slices, interest + principal,
                  collectInterestAndPrincipal(slices, interest, principal, line))
<1> DEFINE left == applyToAllSeniorTranches(slices, interest, principal, reserveFeePercent,
                                            totalDeployed, line, juniorFeePercent)
<1>1. SharedBy(n, slices, interest + principal, left)
  BY SeniorsShare
<1> HIDE DEF left
<1>2. interest + principal \in Nat
  OBVIOUS
<1>3. SharedBy(n, slices, interest + principal,
               applyToAllJuniorTranches(left, reserveFeePercent, totalDeployed, line))
  BY <1>1, <1>2, JuniorsShare
<1> QED
  BY <1>3 DEF collectInterestAndPrincipal, left

----------------------------------------------------------------------------
(* The credit line.                                                        *)

\* The fields of a credit line.
LEMMA LineType ==
  ASSUME NEW cl \in CreditLineState
  PROVE  /\ cl.maxLimit \in Nat /\ cl.interestApr \in Nat /\ cl.lateFeeApr \in Nat
         /\ cl.paymentPeriodInDays \in Nat \ {0} /\ cl.termInDays \in Nat \ {0}
         /\ cl.currentLimit \in Nat /\ cl.balance \in Nat
         /\ cl.interestOwed \in Nat /\ cl.principalOwed \in Nat
         /\ cl.termEndTime \in Nat /\ cl.nextDueTime \in Nat /\ cl.interestAccruedAsOf \in Nat
         /\ cl.lastFullPaymentTime \in Nat /\ cl.totalInterestAccrued \in Nat
         /\ secondsPerPeriod(cl) \in Nat \ {0} /\ termInSeconds(cl) \in Nat \ {0}
<1>1. cl.paymentPeriodInDays \in Nat \ {0} /\ cl.termInDays \in Nat \ {0}
  BY DEF CreditLineState
<1>2. secondsPerPeriod(cl) \in Nat \ {0} /\ termInSeconds(cl) \in Nat \ {0}
  <2>1. SECONDS_PER_DAY \in Nat \ {0}
    BY CalendarAssumption
  <2>2. \A a, b \in Nat \ {0} : a * b \in Nat \ {0}
    BY TimesType
  <2> QED
    BY <1>1, <2>1, <2>2 DEF secondsPerPeriod, termInSeconds
<1> QED
  BY <1>1, <1>2 DEF CreditLineState

\* Interest at a rate is a number, and nothing for no time.
LEMMA InterestAtRateIs ==
  ASSUME NEW balance \in Nat, NEW apr \in Nat, NEW seconds \in Nat
  PROVE  /\ InterestAtRate(balance, apr, seconds) \in Nat
         /\ seconds = 0 => InterestAtRate(balance, apr, seconds) = 0
<1> DEFINE rate == (balance * apr) \div INTEREST_DECIMALS
<1>1. SECONDS_PER_YEAR \in Nat \ {0}
  <2>1. SECONDS_PER_YEAR \in Nat
    BY CalendarAssumption, TimesType DEF SECONDS_PER_YEAR
  <2> QED
    BY <2>1, CalendarAssumption DEF SECONDS_PER_YEAR
<1>2. rate \in Nat
  BY CalendarAssumption, TimesType, DivType
<1>3. InterestAtRate(balance, apr, seconds) = (rate * seconds) \div SECONDS_PER_YEAR
  BY DEF InterestAtRate
<1> HIDE DEF rate
<1>4. rate * seconds \in Nat /\ (seconds = 0 => rate * seconds = 0)
  BY <1>2, TimesType
<1>5. (rate * seconds) \div SECONDS_PER_YEAR \in Nat
  BY <1>1, <1>4, DivType
<1>6. seconds = 0 => (rate * seconds) \div SECONDS_PER_YEAR = 0
  BY <1>1, <1>4
<1> QED
  BY <1>3, <1>5, <1>6

\* Interest accrues for the time since it last did only.
LEMMA InterestAccruedIs ==
  ASSUME NEW cl \in CreditLineState, NEW timestamp \in Nat, NEW grace, NEW status
  PROVE  LET interest == calculateInterestAccrued(cl, timestamp, grace, status)
         IN  interest \in Nat /\ (interest > 0 => timestamp > cl.interestAccruedAsOf)
<1> DEFINE interest == calculateInterestAccrued(cl, timestamp, grace, status)
           start == AtMostOf(timestamp, cl.interestAccruedAsOf)
           seconds == timestamp - start
           regular == InterestAtRate(cl.balance, cl.interestApr, seconds)
           late == InterestAtRate(cl.balance, cl.lateFeeApr, seconds)
<1>1. /\ cl.balance \in Nat /\ cl.interestApr \in Nat /\ cl.lateFeeApr \in Nat
      /\ cl.interestAccruedAsOf \in Nat
  BY LineType
<1>2. seconds \in Nat /\ (timestamp <= cl.interestAccruedAsOf => seconds = 0)
  BY <1>1 DEF AtMostOf
<1>3. /\ regular \in Nat /\ late \in Nat
      /\ seconds = 0 => regular = 0 /\ late = 0
  <2> HIDE DEF seconds
  <2> QED
    BY <1>1, <1>2, InterestAtRateIs
<1>4. interest \in {0, regular, regular + late}
  BY <1>3 DEF calculateInterestAccrued, calculateInterestAccruedOverPeriod
<1> HIDE DEF interest, seconds, regular, late
<1>5. interest \in Nat /\ (seconds = 0 => interest = 0)
  BY <1>3, <1>4
<1> QED
  BY <1>1, <1>2, <1>5 DEF interest

\* The line when interest and principal fall due.
SameLoan(before, after) ==
  /\ after.balance = before.balance
  /\ after.currentLimit = before.currentLimit /\ after.maxLimit = before.maxLimit
  /\ after.paymentPeriodInDays = before.paymentPeriodInDays
  /\ after.termInDays = before.termInDays
  /\ after.termEndTime = before.termEndTime

\* updateAndGetInterestAndPrincipalOwedAsOf charges once: interestAccruedAsOf never
\* goes back, and the loan stays the same.
LEMMA OwedIs ==
  ASSUME NEW cl \in CreditLineState, NEW timestamp \in Nat, NEW status
  PROVE  LET owed == updateOwedAsOf(cl, timestamp, status)
         IN  /\ owed \in CreditLineState /\ SameLoan(cl, owed)
             /\ owed.nextDueTime = cl.nextDueTime
             /\ owed.lastFullPaymentTime = cl.lastFullPaymentTime
             /\ owed.totalInterestAccrued >= cl.totalInterestAccrued
             /\ owed.principalOwed \in {cl.principalOwed, cl.principalOwed + cl.balance}
             /\ owed.interestAccruedAsOf >= cl.interestAccruedAsOf
             /\ owed.interestAccruedAsOf \in {cl.interestAccruedAsOf, timestamp}
<1> DEFINE interest == calculateInterestAccrued(cl, timestamp, LATENESS_GRACE_PERIOD_IN_DAYS, status)
           principal == calculatePrincipalAccrued(cl, timestamp, status)
           owed == [cl EXCEPT !.interestAccruedAsOf = IF interest > 0 THEN timestamp ELSE @,
             !.totalInterestAccrued = @ + interest,
             !.interestOwed = @ + interest, !.principalOwed = @ + principal]
<1>1. interest \in Nat /\ (interest > 0 => timestamp > cl.interestAccruedAsOf)
  BY InterestAccruedIs
<1>2. principal \in {0, cl.balance}
  BY DEF calculatePrincipalAccrued
<1>3. updateOwedAsOf(cl, timestamp, status) = owed
  BY DEF updateOwedAsOf, withAccrual
<1> HIDE DEF interest, principal
<1>4. /\ cl.balance \in Nat /\ cl.interestOwed \in Nat /\ cl.principalOwed \in Nat
      /\ cl.interestAccruedAsOf \in Nat /\ cl.totalInterestAccrued \in Nat
  BY LineType
<1>5. /\ owed.interestAccruedAsOf = IF interest > 0 THEN timestamp ELSE cl.interestAccruedAsOf
      /\ owed.totalInterestAccrued = cl.totalInterestAccrued + interest
      /\ owed.interestOwed = cl.interestOwed + interest
      /\ owed.principalOwed = cl.principalOwed + principal
  BY DEF CreditLineState
<1>6. SameLoan(cl, owed) /\ owed.nextDueTime = cl.nextDueTime
      /\ owed.lastFullPaymentTime = cl.lastFullPaymentTime
  BY DEF SameLoan, CreditLineState
<1>7. owed \in CreditLineState
  <2>1. /\ cl.totalInterestAccrued + interest \in Nat /\ cl.interestOwed + interest \in Nat
        /\ cl.principalOwed + principal \in Nat
    BY <1>1, <1>2, <1>4
  <2> QED
    BY <1>4, <2>1 DEF CreditLineState
<1>8. /\ owed.totalInterestAccrued >= cl.totalInterestAccrued
      /\ owed.principalOwed \in {cl.principalOwed, cl.principalOwed + cl.balance}
      /\ owed.interestAccruedAsOf >= cl.interestAccruedAsOf
      /\ owed.interestAccruedAsOf \in {cl.interestAccruedAsOf, timestamp}
  <2> HIDE DEF owed
  <2> QED
    BY <1>1, <1>2, <1>4, <1>5
<1> QED
  BY <1>3, <1>6, <1>7, <1>8

\* A due time ahead, or the end of the term when that has passed.
LEMMA NextDueTimeIs ==
  ASSUME NEW cl \in CreditLineState, NEW now \in Nat
  PROVE  /\ calculateNextDueTime(cl, now) \in Nat
         /\ cl.balance > 0 =>
              \/ calculateNextDueTime(cl, now) > now
              \/ calculateNextDueTime(cl, now) = cl.termEndTime
         /\ \/ calculateNextDueTime(cl, now) = cl.nextDueTime
            \/ calculateNextDueTime(cl, now) <= now + secondsPerPeriod(cl)
<1> DEFINE p == secondsPerPeriod(cl)
           k == (now - cl.nextDueTime) \div p
           n == cl.nextDueTime + (k + 1) * p
           next == calculateNextDueTime(cl, now)
<1>1. /\ cl.balance \in Nat /\ cl.nextDueTime \in Nat /\ cl.termEndTime \in Nat
      /\ p \in Nat \ {0}
  BY LineType
<1>2. CASE cl.balance = 0
  <2>1. next = 0
    BY <1>2 DEF calculateNextDueTime
  <2> HIDE DEF next, p
  <2> QED
    BY <1>1, <1>2, <2>1 DEF next, p
<1>3. CASE cl.balance > 0 /\ cl.nextDueTime = 0
  <2>1. next = now + p
    BY <1>1, <1>3 DEF calculateNextDueTime
  <2> HIDE DEF next, p
  <2> QED
    BY <1>1, <1>3, <2>1 DEF next, p
<1>4. CASE cl.balance > 0 /\ cl.nextDueTime # 0 /\ now < cl.nextDueTime
  <2>1. next = cl.nextDueTime
    BY <1>1, <1>4 DEF calculateNextDueTime
  <2> HIDE DEF next, p
  <2> QED
    BY <1>1, <1>4, <2>1 DEF next, p
<1>5. CASE cl.balance > 0 /\ cl.nextDueTime # 0 /\ ~ (now < cl.nextDueTime)
  <2>1. next = AtMostOf(n, cl.termEndTime)
    BY <1>1, <1>5 DEF calculateNextDueTime
  <2>2. now - cl.nextDueTime \in Nat
    BY <1>1, <1>5
  <2>3. IsFloor(k, now - cl.nextDueTime, p)
    <3> HIDE DEF p
    <3> QED
      BY <1>1, <2>2, QuotientIsFloor
  <2>4. k \in Nat /\ k * p <= now - cl.nextDueTime /\ now - cl.nextDueTime < k * p + p
    BY <2>3 DEF IsFloor
  <2> HIDE DEF k, next, p
  <2>5. (k + 1) * p = k * p + p /\ k * p \in Nat
    BY <1>1, <2>4, TimesType
  <2>6. n \in Nat /\ n > now /\ n <= now + p
    BY <1>1, <2>2, <2>4, <2>5
  <2> HIDE DEF n
  <2>7. next \in Nat /\ (next > now \/ next = cl.termEndTime) /\ next <= now + p
    BY <1>1, <2>1, <2>6 DEF AtMostOf
  <2> QED
    BY <2>7 DEF next, p
<1> QED
  BY <1>1, <1>2, <1>3, <1>4, <1>5

\* The accounting moves the due time and the time of the last payment.
LEMMA AccountedIs ==
  ASSUME NEW cl \in CreditLineState, NEW now \in Nat,
         updateCreditLineAccounting(cl, now).lastFullPaymentTime >= 0
  PROVE  LET line == updateCreditLineAccounting(cl, now)
         IN  /\ line \in CreditLineState /\ SameLoan(cl, line)
             /\ line.nextDueTime = calculateNextDueTime(cl, now)
             /\ line.interestOwed = cl.interestOwed /\ line.principalOwed = cl.principalOwed
             /\ line.interestAccruedAsOf = cl.interestAccruedAsOf
             /\ line.totalInterestAccrued = cl.totalInterestAccrued
             /\ line.lastFullPaymentTime = IF cl.interestOwed = 0 /\ cl.nextDueTime # 0
                             THEN mostRecentLastDueTime(cl, now) ELSE cl.lastFullPaymentTime
<1> DEFINE last == IF cl.interestOwed = 0 /\ cl.nextDueTime # 0
                   THEN mostRecentLastDueTime(cl, now) ELSE cl.lastFullPaymentTime
           next == calculateNextDueTime(cl, now)
           line == [cl EXCEPT !.lastFullPaymentTime = last, !.nextDueTime = next]
<1>1. updateCreditLineAccounting(cl, now) = line
  BY DEF updateCreditLineAccounting
<1>2. next \in Nat
  BY NextDueTimeIs
<1>3. last \in Int
  BY LineType DEF mostRecentLastDueTime
<1> HIDE DEF last, next
<1>4. line.lastFullPaymentTime = last /\ line.nextDueTime = next
  BY DEF CreditLineState
<1>5. last \in Nat
  BY <1>1, <1>3, <1>4
<1>6. line \in CreditLineState
  BY <1>2, <1>5 DEF CreditLineState
<1>7. /\ SameLoan(cl, line)
      /\ line.interestOwed = cl.interestOwed /\ line.principalOwed = cl.principalOwed
      /\ line.interestAccruedAsOf = cl.interestAccruedAsOf
      /\ line.totalInterestAccrued = cl.totalInterestAccrued
  BY DEF SameLoan, CreditLineState
<1> QED
  BY <1>1, <1>4, <1>6, <1>7 DEF last, next

\* allocatePayment divides the payment: no part exceeds what is owed, and the parts
\* not the payment.
LEMMA AllocatedIs ==
  ASSUME NEW amount \in Nat, NEW balance \in Nat, NEW interestOwed \in Nat,
         NEW principalOwed \in Nat, NEW status,
         allocatePayment(amount, balance, interestOwed, principalOwed, status).principalPayment
           <= balance
  PROVE  LET pa == allocatePayment(amount, balance, interestOwed, principalOwed, status)
         IN  /\ pa.interestPayment \in 0..interestOwed
             /\ pa.principalPayment \in 0..principalOwed
             /\ pa.additionalBalancePayment \in Nat
             /\ pa.principalPayment + pa.additionalBalancePayment <= balance
             /\ pa.interestPayment + pa.principalPayment + pa.additionalBalancePayment <= amount
<1> DEFINE pa == allocatePayment(amount, balance, interestOwed, principalOwed, status)
           i == pa.interestPayment
           q == pa.principalPayment
           b == pa.additionalBalancePayment
<1>1. CASE status = "NotInProcess"
  <2>1. /\ i = AtMostOf(interestOwed, amount)
        /\ q = AtMostOf(principalOwed, amount - i)
        /\ b = AtMostOf(amount - i - q, balance - q)
    BY <1>1 DEF allocatePayment
  <2> HIDE DEF i, q, b
  <2>2. i \in 0..interestOwed /\ i <= amount
    BY <2>1 DEF AtMostOf
  <2>3. q \in 0..principalOwed /\ q <= amount - i
    BY <2>1, <2>2 DEF AtMostOf
  <2>4. q <= balance
    BY DEF q
  <2>5. b \in Nat /\ b <= amount - i - q /\ b <= balance - q
    BY <2>1, <2>2, <2>3, <2>4 DEF AtMostOf
  <2>6. q + b <= balance /\ i + q + b <= amount
    BY <2>2, <2>3, <2>5
  <2> QED
    BY <2>2, <2>3, <2>5, <2>6 DEF i, q, b
<1>2. CASE status # "NotInProcess"
  <2>1. /\ q = AtMostOf(principalOwed, amount)
        /\ i = AtMostOf(interestOwed, amount - AtMostOf(principalOwed, amount))
        /\ b = AtMostOf(amount - i - q, balance - q)
    BY <1>2 DEF allocatePayment
  <2> HIDE DEF i, q, b
  <2>2. q \in 0..principalOwed /\ q <= amount
    BY <2>1 DEF AtMostOf
  <2>3. i = AtMostOf(interestOwed, amount - q)
    BY <2>1
  <2>4. i \in 0..interestOwed /\ i <= amount - q
    BY <2>2, <2>3 DEF AtMostOf
  <2>5. q <= balance
    BY DEF q
  <2>6. b \in Nat /\ b <= amount - i - q /\ b <= balance - q
    BY <2>1, <2>2, <2>4, <2>5 DEF AtMostOf
  <2>7. q + b <= balance /\ i + q + b <= amount
    BY <2>2, <2>4, <2>6
  <2> QED
    BY <2>2, <2>4, <2>6, <2>7 DEF i, q, b
<1> QED
  BY <1>1, <1>2

\* The line after a payment.
LEMMA PaidOffIs ==
  ASSUME NEW owed \in CreditLineState, NEW pa, NEW now \in Nat,
         pa.interestPayment \in 0..owed.interestOwed,
         pa.principalPayment \in 0..owed.principalOwed,
         pa.additionalBalancePayment \in Nat,
         pa.principalPayment + pa.additionalBalancePayment <= owed.balance,
         paidOff(owed, pa, now).lastFullPaymentTime >= 0
  PROVE  LET line == paidOff(owed, pa, now)
             repaid == pa.principalPayment + pa.additionalBalancePayment
         IN  /\ line \in CreditLineState
             /\ line.balance = owed.balance - repaid
             /\ line.paymentPeriodInDays = owed.paymentPeriodInDays
             /\ line.termEndTime = owed.termEndTime
             /\ line.interestAccruedAsOf = owed.interestAccruedAsOf
             /\ line.totalInterestAccrued = owed.totalInterestAccrued
             /\ \/ line.nextDueTime \in {0, owed.nextDueTime}
                \/ line.nextDueTime <= now + secondsPerPeriod(owed)
             /\ line.interestOwed = 0 /\ owed.nextDueTime # 0
                => line.lastFullPaymentTime = mostRecentLastDueTime(owed, now)
<1> DEFINE i == pa.interestPayment
           q == pa.principalPayment
           b == pa.additionalBalancePayment
           paid == [owed EXCEPT !.balance       = @ - q - b,
                                !.interestOwed  = @ - i,
                                !.principalOwed = @ - q]
           line == updateCreditLineAccounting(paid, now)
<1>1. paidOff(owed, pa, now) = line
  BY DEF paidOff
<1>2. owed.balance \in Nat /\ owed.interestOwed \in Nat /\ owed.principalOwed \in Nat
  BY LineType
<1>3. /\ owed.balance - q - b \in Nat /\ owed.interestOwed - i \in Nat
      /\ owed.principalOwed - q \in Nat /\ owed.balance - q - b = owed.balance - (q + b)
  BY <1>2
<1> HIDE DEF i, q, b
<1>4. paid \in CreditLineState
  BY <1>3 DEF CreditLineState
<1>5. /\ paid.balance = owed.balance - q - b /\ paid.interestOwed = owed.interestOwed - i
      /\ paid.paymentPeriodInDays = owed.paymentPeriodInDays
      /\ paid.termEndTime = owed.termEndTime /\ paid.nextDueTime = owed.nextDueTime
      /\ paid.interestAccruedAsOf = owed.interestAccruedAsOf
      /\ paid.totalInterestAccrued = owed.totalInterestAccrued
  BY DEF CreditLineState
<1> HIDE DEF paid
<1>6. line \in CreditLineState /\ SameLoan(paid, line)
      /\ line.nextDueTime = calculateNextDueTime(paid, now)
      /\ line.interestOwed = paid.interestOwed
      /\ line.interestAccruedAsOf = paid.interestAccruedAsOf
      /\ line.totalInterestAccrued = paid.totalInterestAccrued
      /\ line.lastFullPaymentTime = IF paid.interestOwed = 0 /\ paid.nextDueTime # 0
                             THEN mostRecentLastDueTime(paid, now) ELSE paid.lastFullPaymentTime
  BY <1>1, <1>4, AccountedIs
<1> HIDE DEF line
<1>7. secondsPerPeriod(paid) = secondsPerPeriod(owed)
      /\ mostRecentLastDueTime(paid, now) = mostRecentLastDueTime(owed, now)
  BY <1>5 DEF secondsPerPeriod, mostRecentLastDueTime
<1>8. \/ calculateNextDueTime(paid, now) = paid.nextDueTime
      \/ calculateNextDueTime(paid, now) <= now + secondsPerPeriod(paid)
  BY <1>4, NextDueTimeIs
<1>9. /\ line.balance = paid.balance /\ line.paymentPeriodInDays = paid.paymentPeriodInDays
      /\ line.termEndTime = paid.termEndTime
  BY <1>6 DEF SameLoan
<1>10. \/ line.nextDueTime \in {0, owed.nextDueTime}
       \/ line.nextDueTime <= now + secondsPerPeriod(owed)
  BY <1>5, <1>6, <1>7, <1>8
<1>11. line.interestOwed = 0 /\ owed.nextDueTime # 0
       => line.lastFullPaymentTime = mostRecentLastDueTime(owed, now)
  BY <1>5, <1>6, <1>7
<1>12. line.balance = owed.balance - (q + b)
  BY <1>3, <1>5, <1>9
<1> QED
  BY <1>1, <1>5, <1>6, <1>9, <1>10, <1>11, <1>12 DEF q, b

\* What an assessment reports of the line.
Assessed(cl, available, timestamp, now, o) ==
  /\ o.line \in CreditLineState
  /\ o.interest \in Nat /\ o.principal \in 0..cl.balance /\ o.remaining \in Nat
  /\ o.interest + o.principal + o.remaining <= available
  /\ o.line.balance = cl.balance - o.principal
  /\ o.line.paymentPeriodInDays = cl.paymentPeriodInDays
  /\ o.line.termEndTime = cl.termEndTime
  /\ o.line.totalInterestAccrued >= cl.totalInterestAccrued
  /\ o.line.interestAccruedAsOf >= cl.interestAccruedAsOf
  /\ o.line.interestAccruedAsOf \in {cl.interestAccruedAsOf, timestamp}
  /\ \/ o.line.nextDueTime \in {0, cl.nextDueTime}
     \/ o.line.nextDueTime <= now + secondsPerPeriod(cl)

\* What handlePayment reports; with all interest paid, the payment counts for the
\* most recent due time.
LEMMA PaymentIs ==
  ASSUME NEW cl \in CreditLineState, NEW amount \in Nat, NEW timestamp \in Int, NEW now \in Nat,
         NEW status, handlePayment(cl, amount, timestamp, now, status).defined
  PROVE  LET o == handlePayment(cl, amount, timestamp, now, status)
         IN  /\ Assessed(cl, amount, timestamp, now, o)
             /\ o.line.interestOwed = 0 /\ cl.nextDueTime # 0
                => o.line.lastFullPaymentTime = mostRecentLastDueTime(cl, now)
<1> DEFINE owed == updateOwedAsOf(cl, timestamp, status)
           pa == allocatePayment(amount, cl.balance, owed.interestOwed, owed.principalOwed, status)
           i == pa.interestPayment
           q == pa.principalPayment
           b == pa.additionalBalancePayment
           line == paidOff(owed, pa, now)
           o == handlePayment(cl, amount, timestamp, now, status)
<1>1. /\ o.line = line /\ o.interest = i /\ o.principal = q + b
      /\ o.remaining = amount - i - q - b
      /\ timestamp >= 0 /\ q <= cl.balance /\ line.lastFullPaymentTime >= 0
  BY DEF handlePayment, outcomeOfPayment
<1>2. timestamp \in Nat
  BY <1>1
<1>3. /\ owed \in CreditLineState /\ SameLoan(cl, owed)
      /\ owed.nextDueTime = cl.nextDueTime
      /\ owed.totalInterestAccrued >= cl.totalInterestAccrued
      /\ owed.interestAccruedAsOf >= cl.interestAccruedAsOf
      /\ owed.interestAccruedAsOf \in {cl.interestAccruedAsOf, timestamp}
  BY <1>2, OwedIs
<1> HIDE DEF owed, o
<1>4. owed.interestOwed \in Nat /\ owed.principalOwed \in Nat /\ cl.balance \in Nat
  BY <1>3, LineType
<1>5. /\ i \in 0..owed.interestOwed /\ q \in 0..owed.principalOwed /\ b \in Nat
      /\ q + b <= cl.balance /\ i + q + b <= amount
  BY <1>1, <1>4, AllocatedIs
<1> HIDE DEF pa
<1>6. /\ owed.balance = cl.balance /\ owed.paymentPeriodInDays = cl.paymentPeriodInDays
      /\ owed.termEndTime = cl.termEndTime
  BY <1>3 DEF SameLoan
<1>7. /\ line \in CreditLineState
      /\ line.balance = owed.balance - (q + b)
      /\ line.paymentPeriodInDays = owed.paymentPeriodInDays
      /\ line.termEndTime = owed.termEndTime
      /\ line.interestAccruedAsOf = owed.interestAccruedAsOf
      /\ line.totalInterestAccrued = owed.totalInterestAccrued
      /\ \/ line.nextDueTime \in {0, owed.nextDueTime}
         \/ line.nextDueTime <= now + secondsPerPeriod(owed)
      /\ line.interestOwed = 0 /\ owed.nextDueTime # 0
         => line.lastFullPaymentTime = mostRecentLastDueTime(owed, now)
  BY <1>1, <1>3, <1>5, <1>6, PaidOffIs
<1> HIDE DEF line
<1>8. /\ secondsPerPeriod(owed) = secondsPerPeriod(cl)
      /\ mostRecentLastDueTime(owed, now) = mostRecentLastDueTime(cl, now)
  BY <1>3, <1>6 DEF secondsPerPeriod, mostRecentLastDueTime
<1>9. /\ o.interest \in Nat /\ o.principal \in 0..cl.balance /\ o.remaining \in Nat
      /\ o.interest + o.principal + o.remaining <= amount
  <2>1. i \in Nat /\ q \in Nat /\ q + b \in 0..cl.balance
    BY <1>4, <1>5
  <2> HIDE DEF i, q, b
  <2>2. amount - i - q - b \in Nat /\ i + (q + b) + (amount - i - q - b) <= amount
    BY <1>5, <2>1
  <2> QED
    BY <1>1, <2>1, <2>2
<1>10. Assessed(cl, amount, timestamp, now, o)
  BY <1>1, <1>3, <1>6, <1>7, <1>8, <1>9 DEF Assessed
<1>11. o.line.interestOwed = 0 /\ cl.nextDueTime # 0
         => o.line.lastFullPaymentTime = mostRecentLastDueTime(cl, now)
  BY <1>1, <1>3, <1>7, <1>8
<1> QED
  BY <1>10, <1>11 DEF o

\* An assessment, early or not.
LEMMA AssessIs ==
  ASSUME NEW cl \in CreditLineState, NEW available \in Nat, NEW now \in Nat, NEW status,
         assess(cl, available, now, status).defined
  PROVE  LET o == assess(cl, available, now, status)
         IN  /\ \E timestamp \in {cl.interestAccruedAsOf, timeToAssess(cl, now)} :
                  Assessed(cl, available, timestamp, now, o)
             /\ now > 0 /\ o.line.interestOwed = 0 /\ now <= cl.termEndTime
                => ~ _isLate(o.line, now)
<1> DEFINE o == assess(cl, available, now, status)
           next == calculateNextDueTime(cl, now)
           due == [cl EXCEPT !.nextDueTime = next]
           timestamp == timeToAssess(cl, now)
           paid == handlePayment(due, available, timestamp, now, status)
<1>0. /\ cl.balance \in Nat /\ cl.nextDueTime \in Nat /\ cl.interestAccruedAsOf \in Nat
      /\ cl.totalInterestAccrued \in Nat /\ cl.termEndTime \in Nat
      /\ secondsPerPeriod(cl) \in Nat \ {0}
  BY LineType
<1>1. CASE notAssessedEarly(cl, now)
  <2>1. o.line = cl /\ o.interest = 0 /\ o.principal = 0 /\ o.remaining = 0
    BY <1>1 DEF assess
  <2>2. ~ _isLate(cl, now)
    BY <1>1 DEF notAssessedEarly
  <2> HIDE DEF o, timestamp
  <2>3. Assessed(cl, available, cl.interestAccruedAsOf, now, o)
    BY <1>0, <2>1 DEF Assessed
  <2> QED
    BY <2>1, <2>2, <2>3 DEF o, timestamp
<1>2. CASE ~ notAssessedEarly(cl, now)
  <2>1. paid.defined /\ o.line = paid.line /\ o.interest = paid.interest
        /\ o.principal = paid.principal /\ o.remaining = paid.remaining /\ cl.balance > 0
    BY <1>2 DEF assess, handlePayment, outcomeOfPayment
  <2>2. next \in Nat /\ (next > now \/ next = cl.termEndTime)
        /\ (next = cl.nextDueTime \/ next <= now + secondsPerPeriod(cl))
    BY <1>0, <2>1, NextDueTimeIs
  <2>3. timestamp = IF next > now THEN next - secondsPerPeriod(cl) ELSE next
    BY DEF timeToAssess
  <2> HIDE DEF next, timestamp, o
  <2>4. due \in CreditLineState
    BY <2>2 DEF CreditLineState
  <2>5. /\ due.balance = cl.balance /\ due.paymentPeriodInDays = cl.paymentPeriodInDays
        /\ due.termEndTime = cl.termEndTime /\ due.nextDueTime = next
        /\ due.totalInterestAccrued = cl.totalInterestAccrued
        /\ due.interestAccruedAsOf = cl.interestAccruedAsOf
    BY DEF CreditLineState
  <2>6. secondsPerPeriod(due) = secondsPerPeriod(cl)
    BY <2>5 DEF secondsPerPeriod
  <2>7. timestamp \in Int
    BY <1>0, <2>2, <2>3
  <2> HIDE DEF due
  <2>8. /\ Assessed(due, available, timestamp, now, paid)
        /\ paid.line.interestOwed = 0 /\ due.nextDueTime # 0
           => paid.line.lastFullPaymentTime = mostRecentLastDueTime(due, now)
    BY <2>1, <2>4, <2>7, PaymentIs
  <2> HIDE DEF paid
  <2>9. Assessed(cl, available, timestamp, now, o)
    BY <2>1, <2>2, <2>5, <2>6, <2>8 DEF Assessed
  <2>10. ASSUME now > 0, o.line.interestOwed = 0, now <= cl.termEndTime
         PROVE  ~ _isLate(o.line, now)
    <3>1. next # 0
      BY <1>0, <2>2, <2>10
    <3>2. o.line.lastFullPaymentTime
            = IF now < next THEN next - secondsPerPeriod(cl) ELSE next
      BY <2>1, <2>5, <2>6, <2>8, <2>10, <3>1 DEF mostRecentLastDueTime
    <3>3. secondsPerPeriod(o.line) = secondsPerPeriod(cl)
      BY <2>9 DEF Assessed, secondsPerPeriod
    <3>4. ~ (now - o.line.lastFullPaymentTime > secondsPerPeriod(o.line))
      BY <1>0, <2>2, <2>10, <3>2, <3>3
    <3> QED
      BY <3>4 DEF _isLate
  <2> QED
    BY <2>9, <2>10 DEF o, timestamp
<1> QED
  BY <1>1, <1>2

\* A drawdown of a line without balance starts a new loan.
LEMMA StartedIs ==
  ASSUME NEW cl \in CreditLineState, NEW now \in Nat
  PROVE  LET line == started(cl, now)
         IN  /\ line \in CreditLineState
             /\ line.balance = cl.balance
             /\ line.paymentPeriodInDays = cl.paymentPeriodInDays
             /\ line.nextDueTime = cl.nextDueTime
             /\ line.interestAccruedAsOf = IF cl.balance > 0 THEN cl.interestAccruedAsOf ELSE now
<1> DEFINE new == [cl EXCEPT !.interestAccruedAsOf = now, !.lastFullPaymentTime = now,
                             !.totalInterestAccrued = 0, !.termEndTime = now + termInSeconds(cl)]
<1>1. now + termInSeconds(cl) \in Nat
  BY LineType
<1>2. new \in CreditLineState
  BY <1>1 DEF CreditLineState
<1>3. /\ new.balance = cl.balance /\ new.paymentPeriodInDays = cl.paymentPeriodInDays
      /\ new.nextDueTime = cl.nextDueTime /\ new.interestAccruedAsOf = now
  BY DEF CreditLineState
<1>4. started(cl, now) = IF cl.balance > 0 THEN cl ELSE new
  BY DEF started
<1> HIDE DEF new
<1> QED
  BY <1>2, <1>3, <1>4

\* The credit line after a drawdown.
LEMMA DrawnDownIs ==
  ASSUME NEW cl \in CreditLineState, NEW amount \in Nat, NEW now \in Nat,
         canDrawdown(cl, amount, now)
  PROVE  LET line == drawnDown(cl, amount, now)
         IN  /\ line \in CreditLineState
             /\ line.balance = cl.balance + amount
             /\ line.paymentPeriodInDays = cl.paymentPeriodInDays
             /\ \/ line.nextDueTime \in {0, cl.nextDueTime}
                \/ line.nextDueTime <= now + secondsPerPeriod(cl)
             /\ line.interestAccruedAsOf \in {cl.interestAccruedAsOf, now}
             /\ \/ line.interestAccruedAsOf >= cl.interestAccruedAsOf
                \/ cl.balance = 0 /\ line.interestAccruedAsOf = now
<1> DEFINE begun == started(cl, now)
           owed == updateOwedAsOf(begun, now, "NotInProcess")
           paid == [owed EXCEPT !.balance = @ + amount]
           line == updateCreditLineAccounting(paid, now)
<1>1. drawnDown(cl, amount, now) = line /\ line.lastFullPaymentTime >= 0
  BY DEF drawnDown, canDrawdown
<1>2. begun \in CreditLineState /\ begun.balance = cl.balance
      /\ begun.paymentPeriodInDays = cl.paymentPeriodInDays
      /\ begun.nextDueTime = cl.nextDueTime
      /\ begun.interestAccruedAsOf = IF cl.balance > 0 THEN cl.interestAccruedAsOf ELSE now
  BY StartedIs
<1> HIDE DEF begun
<1>3. owed \in CreditLineState /\ SameLoan(begun, owed)
      /\ owed.nextDueTime = begun.nextDueTime
      /\ owed.interestAccruedAsOf >= begun.interestAccruedAsOf
      /\ owed.interestAccruedAsOf \in {begun.interestAccruedAsOf, now}
  BY <1>2, OwedIs
<1> HIDE DEF owed
<1>4. owed.balance = cl.balance /\ owed.paymentPeriodInDays = cl.paymentPeriodInDays
      /\ owed.balance \in Nat
  BY <1>2, <1>3, LineType DEF SameLoan
<1>5. paid \in CreditLineState
  <2>1. owed.balance + amount \in Nat
    BY <1>4
  <2> QED
    BY <1>3, <2>1 DEF CreditLineState
<1>6. paid.balance = owed.balance + amount /\ paid.nextDueTime = owed.nextDueTime
      /\ paid.paymentPeriodInDays = owed.paymentPeriodInDays
      /\ paid.interestAccruedAsOf = owed.interestAccruedAsOf
  BY <1>3 DEF CreditLineState
<1> HIDE DEF paid
<1>7. /\ line \in CreditLineState /\ SameLoan(paid, line)
      /\ line.nextDueTime = calculateNextDueTime(paid, now)
      /\ line.interestAccruedAsOf = paid.interestAccruedAsOf
  BY <1>1, <1>5, AccountedIs
<1> HIDE DEF line
<1>8. \/ calculateNextDueTime(paid, now) = paid.nextDueTime
      \/ calculateNextDueTime(paid, now) <= now + secondsPerPeriod(paid)
  BY <1>5, NextDueTimeIs
<1>9. secondsPerPeriod(paid) = secondsPerPeriod(cl)
  BY <1>4, <1>6 DEF secondsPerPeriod
<1>10. line.balance = cl.balance + amount /\ line.paymentPeriodInDays = cl.paymentPeriodInDays
  BY <1>4, <1>6, <1>7 DEF SameLoan
<1>11. cl.interestAccruedAsOf \in Nat /\ cl.balance \in Nat
  BY LineType
<1> QED
  BY <1>1, <1>2, <1>3, <1>6, <1>7, <1>8, <1>9, <1>10, <1>11

\* The lock raises the limit only.
LEMMA RaisedIs ==
  ASSUME TypeOK
  PROVE  /\ raisedCreditLine \in CreditLineState
         /\ raisedCreditLine.balance = creditLine.balance
         /\ raisedCreditLine.paymentPeriodInDays = creditLine.paymentPeriodInDays
         /\ raisedCreditLine.termEndTime = creditLine.termEndTime
         /\ raisedCreditLine.nextDueTime = creditLine.nextDueTime
         /\ raisedCreditLine.interestAccruedAsOf = creditLine.interestAccruedAsOf
         /\ raisedCreditLine.lastFullPaymentTime = creditLine.lastFullPaymentTime
         /\ raisedCreditLine.termInDays = creditLine.termInDays
         /\ raisedCreditLine.principalOwed = creditLine.principalOwed
<1>1. creditLine \in CreditLineState /\ poolSlices[currentSlice] \in PoolSlice
  BY DEF TypeOK, currentSlice
<1>2. /\ creditLine.currentLimit \in Nat /\ creditLine.maxLimit \in Nat
      /\ TotalDeposited(poolSlices[currentSlice]) \in Nat
  BY <1>1, LineType, SliceType
<1> DEFINE limit == AtMost(creditLine.currentLimit + TotalDeposited(poolSlices[currentSlice]),
                           creditLine.maxLimit)
<1>3. limit \in Nat
  BY <1>2 DEF AtMost
<1>4. raisedCreditLine = [creditLine EXCEPT !.currentLimit = limit]
  BY DEF raisedCreditLine
<1> HIDE DEF limit
<1> QED
  BY <1>1, <1>3, <1>4 DEF CreditLineState

----------------------------------------------------------------------------
(* The books of the pool, of any list of slices and tokens.                *)

\* What each slice was deposited, each token brought, and each token redeemed.
deposits(n, slices) == [i \in 1..n |-> TotalDeposited(slices[i])]
brought(m, ts) == [k \in 1..m |-> ts[k].principalAmount]
redeemed(m, ts) == [k \in 1..m |-> ts[k].principalRedeemed + ts[k].interestRedeemed]

\* The tokens of a pool, as a function.
Tokens(m) == [1..m -> TokenInfo]

\* The share prices of a tranche are the initial ones until it is locked.
Untouched(tranche) ==
  tranche.lockedUntil = 0
  => tranche.principalSharePrice = FP_SCALING_FACTOR /\ tranche.interestSharePrice = 0

\* What a slice keeps by itself: the junior tranche is locked first, share prices
\* move once the tranche is locked, and the senior interest is capped.
SliceInOrder(slice) ==
  /\ slice.senior.lockedUntil > 0 => slice.junior.lockedUntil > 0
  /\ Untouched(slice.senior) /\ Untouched(slice.junior)
  /\ Capped(slice)

\* All the slices but the last are locked.
SlicesInOrder(n, slices) ==
  \A i \in 1..n : /\ SliceInOrder(slices[i])
                  /\ i # n => slices[i].senior.lockedUntil > 0

\* Every token is of a slice there is.
TokensInSlices(m, ts, n) == \A k \in 1..m : ts[k].slice \in 1..n

\* SharePricesAreFunded.
Funded(n, slices, m, ts, cash) ==
  Total(worths(n, slices)) + Total(brought(m, ts))
    <= cash + Total(redeemed(m, ts)) + Total(deposits(n, slices))

\* DeployedIsTheLoan.
LoanBooks(n, slices, deployed, balance) ==
  /\ deployed = Total(deployedIn(n, slices))
  /\ balance <= deployed
  /\ n = 1 => balance = deployed

\* The inductive invariant: the books agree, and what a slice keeps by itself
\* makes the actions keep them.  Deposits that may be withdrawn again are worth
\* what they were (Untouched), assessments find every slice locked (all but the
\* last are, and the last is when the loan is drawn down).
PoolInv ==
  /\ TypeOK
  /\ time >= 1
  /\ SlicesInOrder(Len(poolSlices), poolSlices)
  /\ TokensInSlices(Len(tokens), tokens, Len(poolSlices))
  /\ LoanBooks(Len(poolSlices), poolSlices, totalDeployed, creditLine.balance)
  /\ Funded(Len(poolSlices), poolSlices, Len(tokens), tokens, usdc)

\* Sequences as functions, and back.
LEMMA SlicesAreSeq ==
  ASSUME NEW n \in Nat, NEW slices \in Slices(n)
  PROVE  slices \in Seq(PoolSlice) /\ Len(slices) = n /\ DOMAIN slices = 1..n
BY DEF Slices

\* So are tokens.
LEMMA TokensAreSeq ==
  ASSUME NEW m \in Nat, NEW ts \in Tokens(m)
  PROVE  ts \in Seq(TokenInfo) /\ Len(ts) = m /\ DOMAIN ts = 1..m
BY DEF Tokens

\* The slices and the tokens of the pool as functions.
LEMMA PoolIs ==
  ASSUME TypeOK
  PROVE  /\ Len(poolSlices) \in Nat \ {0} /\ poolSlices \in Slices(Len(poolSlices))
         /\ DOMAIN poolSlices = 1..Len(poolSlices)
         /\ currentSlice = Len(poolSlices) /\ currentSlice \in 1..Len(poolSlices)
         /\ Len(tokens) \in Nat /\ tokens \in Tokens(Len(tokens))
         /\ DOMAIN tokens = 1..Len(tokens)
BY DEF TypeOK, Slices, Tokens, currentSlice

\* A list with one element more.
LEMMA AppendIs ==
  ASSUME NEW S, NEW list \in Seq(S), NEW element \in S
  PROVE  /\ Append(list, element) \in [1..(Len(list) + 1) -> S]
         /\ Append(list, element)[Len(list) + 1] = element
         /\ \A i \in 1..Len(list) : Append(list, element)[i] = list[i]
<1> DEFINE longer == Append(list, element)
<1>1. /\ longer \in Seq(S) /\ Len(longer) = Len(list) + 1 /\ Len(list) \in Nat
      /\ longer[Len(list) + 1] = element
      /\ \A i \in 1..Len(list) : longer[i] = list[i]
  OBVIOUS
<1> HIDE DEF longer
<1>2. longer \in [1..Len(longer) -> S]
  BY <1>1
<1> QED
  BY <1>1, <1>2 DEF longer

\* The fields of a token.
LEMMA TokenType ==
  ASSUME NEW token \in TokenInfo
  PROVE  /\ token.slice \in Nat \ {0} /\ token.tranche \in TrancheNames
         /\ token.principalAmount \in Nat /\ token.principalRedeemed \in Nat
         /\ token.interestRedeemed \in Nat
BY DEF TokenInfo

\* The totals over slices are amounts.
LEMMA SliceTotalsType ==
  ASSUME NEW n \in Nat, NEW slices \in Slices(n)
  PROVE  /\ worths(n, slices) \in Amounts(n) /\ Total(worths(n, slices)) \in Nat
         /\ deposits(n, slices) \in Amounts(n) /\ Total(deposits(n, slices)) \in Nat
         /\ deployedIn(n, slices) \in Amounts(n) /\ Total(deployedIn(n, slices)) \in Nat
<1>1. \A i \in 1..n : TotalDeposited(slices[i]) \in Nat /\ slices[i].principalDeployed \in Nat
  BY SliceType DEF Slices
<1>2. deposits(n, slices) \in Amounts(n) /\ deployedIn(n, slices) \in Amounts(n)
  BY <1>1 DEF deposits, deployedIn, Amounts
<1> QED
  BY <1>2, WorthsType, TotalIs

\* The totals over tokens are amounts.
LEMMA TokenTotalsType ==
  ASSUME NEW m \in Nat, NEW ts \in Tokens(m)
  PROVE  /\ brought(m, ts) \in Amounts(m) /\ Total(brought(m, ts)) \in Nat
         /\ redeemed(m, ts) \in Amounts(m) /\ Total(redeemed(m, ts)) \in Nat
<1>1. ASSUME NEW k \in 1..m
      PROVE  ts[k].principalAmount \in Nat /\ ts[k].principalRedeemed + ts[k].interestRedeemed \in Nat
  <2>1. ts[k] \in TokenInfo
    BY DEF Tokens
  <2> QED
    BY <2>1, TokenType
<1>2. brought(m, ts) \in Amounts(m) /\ redeemed(m, ts) \in Amounts(m)
  BY <1>1 DEF brought, redeemed, Amounts
<1> QED
  BY <1>2, TotalIs

\* A slice changes: the totals change by what it does.
SliceChanged(n, slices, s, slice, after) ==
  /\ after \in Slices(n)
  /\ after[s] = slice /\ \A i \in 1..n : i # s => after[i] = slices[i]
  /\ Total(worths(n, after)) + sliceWorth(slices[s])
       = Total(worths(n, slices)) + sliceWorth(slice)
  /\ Total(deposits(n, after)) + TotalDeposited(slices[s])
       = Total(deposits(n, slices)) + TotalDeposited(slice)
  /\ Total(deployedIn(n, after)) + slices[s].principalDeployed
       = Total(deployedIn(n, slices)) + slice.principalDeployed

\* Each of the three totals changes by the difference of the one slice.
LEMMA OneSliceChanges ==
  ASSUME NEW n \in Nat, NEW slices \in Slices(n), NEW s \in 1..n, NEW slice \in PoolSlice
  PROVE  SliceChanged(n, slices, s, slice, [slices EXCEPT ![s] = slice])
<1> DEFINE after == [slices EXCEPT ![s] = slice]
<1>1. after \in Slices(n) /\ after[s] = slice /\ \A i \in 1..n : i # s => after[i] = slices[i]
  BY DEF Slices
<1> HIDE DEF after
<1>2. /\ worths(n, slices) \in Amounts(n) /\ worths(n, after) \in Amounts(n)
      /\ deposits(n, slices) \in Amounts(n) /\ deposits(n, after) \in Amounts(n)
      /\ deployedIn(n, slices) \in Amounts(n) /\ deployedIn(n, after) \in Amounts(n)
  BY <1>1, SliceTotalsType
<1>3. Total(worths(n, after)) + worths(n, slices)[s] = Total(worths(n, slices)) + worths(n, after)[s]
  <2>1. \A i \in 1..n : i # s => worths(n, after)[i] = worths(n, slices)[i]
    BY <1>1 DEF worths
  <2> QED
    BY <1>2, <2>1, TotalChange
<1>4. Total(deposits(n, after)) + deposits(n, slices)[s]
        = Total(deposits(n, slices)) + deposits(n, after)[s]
  <2>1. \A i \in 1..n : i # s => deposits(n, after)[i] = deposits(n, slices)[i]
    BY <1>1 DEF deposits
  <2> QED
    BY <1>2, <2>1, TotalChange
<1>5. Total(deployedIn(n, after)) + deployedIn(n, slices)[s]
        = Total(deployedIn(n, slices)) + deployedIn(n, after)[s]
  <2>1. \A i \in 1..n : i # s => deployedIn(n, after)[i] = deployedIn(n, slices)[i]
    BY <1>1 DEF deployedIn
  <2> QED
    BY <1>2, <2>1, TotalChange
<1>6. /\ worths(n, slices)[s] = sliceWorth(slices[s]) /\ worths(n, after)[s] = sliceWorth(slice)
      /\ deposits(n, slices)[s] = TotalDeposited(slices[s])
      /\ deposits(n, after)[s] = TotalDeposited(slice)
      /\ deployedIn(n, slices)[s] = slices[s].principalDeployed
      /\ deployedIn(n, after)[s] = slice.principalDeployed
  BY <1>1 DEF worths, deposits, deployedIn
<1> QED
  BY <1>1, <1>3, <1>4, <1>5, <1>6 DEF SliceChanged, after

\* One slice more.
LEMMA OneSliceMore ==
  ASSUME NEW n \in Nat, NEW slices \in Slices(n), NEW after \in Slices(n + 1),
         \A i \in 1..n : after[i] = slices[i]
  PROVE  /\ Total(worths(n + 1, after)) = Total(worths(n, slices)) + sliceWorth(after[n + 1])
         /\ Total(deposits(n + 1, after)) = Total(deposits(n, slices)) + TotalDeposited(after[n + 1])
         /\ Total(deployedIn(n + 1, after))
              = Total(deployedIn(n, slices)) + after[n + 1].principalDeployed
<1>1. /\ worths(n, slices) \in Amounts(n) /\ worths(n + 1, after) \in Amounts(n + 1)
      /\ deposits(n, slices) \in Amounts(n) /\ deposits(n + 1, after) \in Amounts(n + 1)
      /\ deployedIn(n, slices) \in Amounts(n) /\ deployedIn(n + 1, after) \in Amounts(n + 1)
  BY SliceTotalsType
<1>2. \A i \in 1..n : /\ worths(n, slices)[i] = worths(n + 1, after)[i]
                      /\ deposits(n, slices)[i] = deposits(n + 1, after)[i]
                      /\ deployedIn(n, slices)[i] = deployedIn(n + 1, after)[i]
  BY DEF worths, deposits, deployedIn
<1>3. /\ worths(n + 1, after)[n + 1] = sliceWorth(after[n + 1])
      /\ deposits(n + 1, after)[n + 1] = TotalDeposited(after[n + 1])
      /\ deployedIn(n + 1, after)[n + 1] = after[n + 1].principalDeployed
  BY DEF worths, deposits, deployedIn
<1>4. Total(worths(n + 1, after)) = Total(worths(n, slices)) + worths(n + 1, after)[n + 1]
  BY <1>1, <1>2, TotalAppend
<1>5. Total(deposits(n + 1, after)) = Total(deposits(n, slices)) + deposits(n + 1, after)[n + 1]
  BY <1>1, <1>2, TotalAppend
<1>6. Total(deployedIn(n + 1, after))
        = Total(deployedIn(n, slices)) + deployedIn(n + 1, after)[n + 1]
  BY <1>1, <1>2, TotalAppend
<1> QED
  BY <1>3, <1>4, <1>5, <1>6

\* A token more, and a token that redeems.
LEMMA OneTokenMore ==
  ASSUME NEW m \in Nat, NEW ts \in Tokens(m), NEW after \in Tokens(m + 1),
         \A k \in 1..m : after[k] = ts[k]
  PROVE  /\ Total(brought(m + 1, after)) = Total(brought(m, ts)) + after[m + 1].principalAmount
         /\ Total(redeemed(m + 1, after)) = Total(redeemed(m, ts))
              + (after[m + 1].principalRedeemed + after[m + 1].interestRedeemed)
<1>1. /\ brought(m, ts) \in Amounts(m) /\ brought(m + 1, after) \in Amounts(m + 1)
      /\ redeemed(m, ts) \in Amounts(m) /\ redeemed(m + 1, after) \in Amounts(m + 1)
  BY TokenTotalsType
<1>2. \A k \in 1..m : /\ brought(m, ts)[k] = brought(m + 1, after)[k]
                      /\ redeemed(m, ts)[k] = redeemed(m + 1, after)[k]
  BY DEF brought, redeemed
<1>3. /\ brought(m + 1, after)[m + 1] = after[m + 1].principalAmount
      /\ redeemed(m + 1, after)[m + 1]
           = after[m + 1].principalRedeemed + after[m + 1].interestRedeemed
  BY DEF brought, redeemed
<1>4. Total(brought(m + 1, after)) = Total(brought(m, ts)) + brought(m + 1, after)[m + 1]
  BY <1>1, <1>2, TotalAppend
<1>5. Total(redeemed(m + 1, after)) = Total(redeemed(m, ts)) + redeemed(m + 1, after)[m + 1]
  BY <1>1, <1>2, TotalAppend
<1> QED
  BY <1>3, <1>4, <1>5

\* A token redeems principal and interest.
redeeming(ts, k, principal, interest) ==
  [ts EXCEPT ![k].principalRedeemed = @ + principal, ![k].interestRedeemed = @ + interest]

\* The totals after it.
TokenRedeemed(m, ts, amount, after) ==
  /\ after \in Tokens(m)
  /\ \A i \in 1..m : after[i].slice = ts[i].slice
  /\ Total(brought(m, after)) = Total(brought(m, ts))
  /\ Total(redeemed(m, after)) = Total(redeemed(m, ts)) + amount

\* A token that redeems adds to what was redeemed, and brings nothing.
LEMMA OneTokenRedeems ==
  ASSUME NEW m \in Nat, NEW ts \in Tokens(m), NEW k \in 1..m,
         NEW principal \in Nat, NEW interest \in Nat
  PROVE  TokenRedeemed(m, ts, principal + interest, redeeming(ts, k, principal, interest))
<1> DEFINE token == [ts[k] EXCEPT !.principalRedeemed = @ + principal,
                                  !.interestRedeemed = @ + interest]
           after == redeeming(ts, k, principal, interest)
<1>1. ts[k] \in TokenInfo
  BY DEF Tokens
<1>2. after = [ts EXCEPT ![k] = token]
  BY <1>1 DEF TokenInfo, Tokens, redeeming
<1>3. ts[k].principalRedeemed \in Nat /\ ts[k].interestRedeemed \in Nat
  BY <1>1, TokenType
<1>4. token \in TokenInfo
  <2>1. ts[k].principalRedeemed + principal \in Nat /\ ts[k].interestRedeemed + interest \in Nat
    BY <1>3
  <2> QED
    BY <1>1, <2>1 DEF TokenInfo
<1>5. /\ token.slice = ts[k].slice /\ token.principalAmount = ts[k].principalAmount
      /\ token.principalRedeemed = ts[k].principalRedeemed + principal
      /\ token.interestRedeemed = ts[k].interestRedeemed + interest
  BY <1>1 DEF TokenInfo
<1> HIDE DEF token, after
<1>6. after \in Tokens(m) /\ after[k] = token /\ \A i \in 1..m : i # k => after[i] = ts[i]
  BY <1>2, <1>4 DEF Tokens
<1>7. \A i \in 1..m : after[i].slice = ts[i].slice
                      /\ after[i].principalAmount = ts[i].principalAmount
  BY <1>5, <1>6
<1>8. brought(m, after) = brought(m, ts)
  BY <1>7 DEF brought
<1>9. /\ redeemed(m, ts) \in Amounts(m) /\ redeemed(m, after) \in Amounts(m)
      /\ Total(redeemed(m, ts)) \in Nat /\ Total(redeemed(m, after)) \in Nat
  BY <1>6, TokenTotalsType
<1>10. ASSUME NEW i \in 1..m, i # k PROVE redeemed(m, after)[i] = redeemed(m, ts)[i]
  <2>1. after[i] = ts[i]
    BY <1>6, <1>10
  <2>2. /\ redeemed(m, ts)[i] = ts[i].principalRedeemed + ts[i].interestRedeemed
        /\ redeemed(m, after)[i] = after[i].principalRedeemed + after[i].interestRedeemed
    BY DEF redeemed
  <2> QED
    BY <2>1, <2>2
<1>11. Total(redeemed(m, after)) + redeemed(m, ts)[k]
         = Total(redeemed(m, ts)) + redeemed(m, after)[k]
  BY <1>9, <1>10, TotalChange
<1>12. /\ redeemed(m, ts)[k] = ts[k].principalRedeemed + ts[k].interestRedeemed
       /\ redeemed(m, after)[k]
            = (ts[k].principalRedeemed + principal) + (ts[k].interestRedeemed + interest)
  <2>1. /\ redeemed(m, ts)[k] = ts[k].principalRedeemed + ts[k].interestRedeemed
        /\ redeemed(m, after)[k] = after[k].principalRedeemed + after[k].interestRedeemed
    BY DEF redeemed
  <2>2. /\ after[k].principalRedeemed = ts[k].principalRedeemed + principal
        /\ after[k].interestRedeemed = ts[k].interestRedeemed + interest
    BY <1>5, <1>6
  <2> QED
    BY <2>1, <2>2
<1>13. Total(redeemed(m, after)) = Total(redeemed(m, ts)) + (principal + interest)
  <2>1. \A R, Q, p, i, x, y \in Nat :
          Q + (p + i) = R + ((p + x) + (i + y)) => Q = R + (x + y)
    OBVIOUS
  <2>2. Total(redeemed(m, after)) + (ts[k].principalRedeemed + ts[k].interestRedeemed)
          = Total(redeemed(m, ts))
              + ((ts[k].principalRedeemed + principal) + (ts[k].interestRedeemed + interest))
    BY <1>11, <1>12
  <2> QED
    BY <1>3, <1>9, <2>1, <2>2
<1> QED
  BY <1>6, <1>7, <1>8, <1>13 DEF TokenRedeemed, after

\* The properties follow from the books.
LEMMA BooksAreProperties ==
  ASSUME PoolInv
  PROVE  SharePricesAreFunded /\ DeployedIsTheLoan /\ SeniorInterestIsCapped
<1> DEFINE n == Len(poolSlices)
           m == Len(tokens)
<1>1. /\ n \in Nat /\ poolSlices \in Slices(n) /\ DOMAIN poolSlices = 1..n
      /\ m \in Nat /\ tokens \in Tokens(m) /\ DOMAIN tokens = 1..m
  BY PoolIs DEF PoolInv
<1>2. DeployedIsTheLoan
  <2>1. OverSlices(LAMBDA slice : slice.principalDeployed) = Total(deployedIn(n, poolSlices))
    BY <1>1 DEF OverSlices, deployedIn
  <2> QED
    BY <2>1 DEF PoolInv, LoanBooks, DeployedIsTheLoan
<1>3. SeniorInterestIsCapped
  BY <1>1 DEF PoolInv, SlicesInOrder, SliceInOrder, Capped, SeniorInterestIsCapped
<1>4. SharePricesAreFunded
  <2>1. OverSlices(LAMBDA slice : worth(slice.senior) + worth(slice.junior))
          = Total(worths(n, poolSlices))
    BY <1>1 DEF OverSlices, worths, sliceWorth
  <2>2. OverSlices(TotalDeposited) = Total(deposits(n, poolSlices))
    BY <1>1 DEF OverSlices, deposits
  <2>3. OverTokens(LAMBDA token : token.principalRedeemed + token.interestRedeemed)
          = Total(redeemed(m, tokens))
    BY <1>1 DEF OverTokens, redeemed
  <2>4. OverTokens(LAMBDA token : token.principalAmount) = Total(brought(m, tokens))
    BY <1>1 DEF OverTokens, brought
  <2>5. /\ Total(worths(n, poolSlices)) \in Nat /\ Total(deposits(n, poolSlices)) \in Nat
        /\ Total(redeemed(m, tokens)) \in Nat /\ Total(brought(m, tokens)) \in Nat /\ usdc \in Nat
    BY <1>1, SliceTotalsType, TokenTotalsType DEF PoolInv, TypeOK
  <2>6. Total(worths(n, poolSlices)) + Total(brought(m, tokens))
          <= usdc + Total(redeemed(m, tokens)) + Total(deposits(n, poolSlices))
    BY DEF PoolInv, Funded
  <2>7. Total(worths(n, poolSlices))
          <= usdc + (Total(redeemed(m, tokens))
                     - (Total(brought(m, tokens)) - Total(deposits(n, poolSlices))))
    <3> HIDE DEF n, m
    <3> QED
      BY <2>5, <2>6
  <2> QED
    BY <2>1, <2>2, <2>3, <2>4, <2>7 DEF SharePricesAreFunded, WithdrawnAfterLock
<1> QED
  BY <1>2, <1>3, <1>4

\* A slice of which the senior tranche was given no interest is within the cap.
LEMMA NoInterestIsCapped ==
  ASSUME NEW slice \in PoolSlice, slice.senior.interestSharePrice = 0
  PROVE  Capped(slice)
<1> DEFINE tot == TotalDeposited(slice)
           part == ONE_HUNDRED - juniorFeePercent - reserveFeePercent
           all == slice.totalInterestAccrued * FP_SCALING_FACTOR
<1>1. tot \in Nat /\ slice.totalInterestAccrued \in Nat
  BY SliceType
<1>2. part \in Nat /\ ONE_HUNDRED = 100
  BY FeesAre
<1>3. all \in Nat
  BY <1>1, ScalingAssumption, TimesType
<1> HIDE DEF tot, part, all
<1>4. all * part \in Nat
  BY <1>2, <1>3, TimesType
<1>5. (0 * tot) * ONE_HUNDRED = 0
  BY <1>1, <1>2
<1> QED
  BY <1>4, <1>5 DEF Capped, tot, part, all

\* A tranche that is not locked is worth its deposits.
LEMMA UntouchedWorth ==
  ASSUME NEW tranche \in Tranche, tranche.principalSharePrice = FP_SCALING_FACTOR,
         tranche.interestSharePrice = 0
  PROVE  worth(tranche) = tranche.principalDeposited
<1> DEFINE d == tranche.principalDeposited
           F == FP_SCALING_FACTOR
<1>1. d \in Nat /\ F \in Nat \ {0}
  BY ScalingAssumption DEF Tranche
<1>2. sharePriceToUsdc(F, d) = d
  <2>1. /\ sharePriceToUsdc(F, d) \in Nat /\ sharePriceToUsdc(F, d) * F <= F * d
        /\ F * d < (sharePriceToUsdc(F, d) + 1) * F
    BY <1>1, SharePriceToUsdcIs
  <2> DEFINE u == sharePriceToUsdc(F, d)
  <2> HIDE DEF u, F, d
  <2>2. u \in Nat /\ u * F <= d * F /\ d * F < (u + 1) * F
    BY <1>1, <2>1 DEF u
  <2>3. u <= d
    BY <1>1, <2>2, TimesCancelLe
  <2>4. d < u + 1
    BY <1>1, <2>2, TimesCancel
  <2> QED
    BY <1>1, <2>2, <2>3, <2>4 DEF u
<1>3. sharePriceToUsdc(0, d) = 0
  <2>1. 0 * d = 0 /\ 0 \div F = 0
    BY <1>1
  <2> QED
    BY <2>1 DEF sharePriceToUsdc
<1> QED
  BY <1>1, <1>2, <1>3 DEF worth

\* A tranche that is not locked gets other deposits.
depositing(slice, name, amount) == [slice EXCEPT ![name].principalDeposited = amount]

\* The slice after it: its worth and its deposits change alike.
DepositsChanged(slice, name, amount, after) ==
  /\ after \in PoolSlice /\ SliceInOrder(after)
  /\ slice[name].principalDeposited \in Nat
  /\ after.principalDeployed = slice.principalDeployed
  /\ after.senior.lockedUntil = slice.senior.lockedUntil
  /\ sliceWorth(after) + slice[name].principalDeposited = sliceWorth(slice) + amount
  /\ TotalDeposited(after) + slice[name].principalDeposited = TotalDeposited(slice) + amount

\* Deposits of a tranche that is not locked may grow or shrink: it is worth them.
LEMMA DepositsOfUnlocked ==
  ASSUME NEW slice \in PoolSlice, SliceInOrder(slice), NEW name \in TrancheNames,
         slice[name].lockedUntil = 0, NEW amount \in Nat
  PROVE  DepositsChanged(slice, name, amount, depositing(slice, name, amount))
<1> DEFINE tranche == [slice[name] EXCEPT !.principalDeposited = amount]
           after == [slice EXCEPT ![name] = tranche]
<1>0. depositing(slice, name, amount) = after
  BY DEF PoolSlice, depositing
<1>1. slice.senior \in Tranche /\ slice.junior \in Tranche /\ slice[name] \in Tranche
  BY SliceType DEF TrancheNames
<1>2. slice[name].principalSharePrice = FP_SCALING_FACTOR /\ slice[name].interestSharePrice = 0
  BY DEF SliceInOrder, Untouched, TrancheNames
<1>3. slice.senior.lockedUntil = 0 /\ slice.senior.interestSharePrice = 0
  <2>1. slice.senior.lockedUntil \in Nat /\ slice.junior.lockedUntil \in Nat
    BY SliceType
  <2>2. slice.senior.lockedUntil = 0
    BY <2>1 DEF SliceInOrder, TrancheNames
  <2> QED
    BY <2>2 DEF SliceInOrder, Untouched
<1>4. /\ tranche \in Tranche /\ tranche.principalDeposited = amount
      /\ tranche.lockedUntil = slice[name].lockedUntil
      /\ tranche.principalSharePrice = FP_SCALING_FACTOR /\ tranche.interestSharePrice = 0
  BY <1>1, <1>2 DEF Tranche
<1>5. worth(tranche) = amount /\ worth(slice[name]) = slice[name].principalDeposited
  BY <1>1, <1>2, <1>4, UntouchedWorth
<1>6. slice[name].principalDeposited \in Nat
  BY <1>1 DEF Tranche
<1> HIDE DEF tranche
<1>7. after \in PoolSlice
  BY <1>4 DEF PoolSlice, TrancheNames
<1>8. /\ after.principalDeployed = slice.principalDeployed
      /\ after.totalInterestAccrued = slice.totalInterestAccrued
      /\ name = "senior" => after.senior = tranche /\ after.junior = slice.junior
      /\ name = "junior" => after.junior = tranche /\ after.senior = slice.senior
  BY DEF PoolSlice, TrancheNames
<1>9. after.senior.lockedUntil = slice.senior.lockedUntil
      /\ after.junior.lockedUntil = slice.junior.lockedUntil
      /\ after.senior.interestSharePrice = 0
  BY <1>3, <1>4, <1>8 DEF TrancheNames
<1>10. Capped(after)
  BY <1>7, <1>9, NoInterestIsCapped
<1>11. Untouched(after.senior) /\ Untouched(after.junior)
  BY <1>4, <1>8 DEF SliceInOrder, Untouched, TrancheNames
<1>12. SliceInOrder(after)
  BY <1>9, <1>10, <1>11 DEF SliceInOrder
<1> HIDE DEF after
<1>13. /\ worth(slice.senior) \in Nat /\ worth(slice.junior) \in Nat
       /\ slice.senior.principalDeposited \in Nat /\ slice.junior.principalDeposited \in Nat
  BY <1>1, WorthType, SliceType
<1>14. CASE name = "senior"
  <2>1. sliceWorth(after) + slice[name].principalDeposited = sliceWorth(slice) + amount
    BY <1>5, <1>8, <1>13, <1>14 DEF sliceWorth
  <2>2. TotalDeposited(after) + slice[name].principalDeposited = TotalDeposited(slice) + amount
    BY <1>4, <1>8, <1>13, <1>14 DEF TotalDeposited
  <2> QED
    BY <1>0, <1>6, <1>7, <1>8, <1>9, <1>12, <2>1, <2>2 DEF DepositsChanged
<1>15. CASE name = "junior"
  <2>1. sliceWorth(after) + slice[name].principalDeposited = sliceWorth(slice) + amount
    BY <1>5, <1>8, <1>13, <1>15 DEF sliceWorth
  <2>2. TotalDeposited(after) + slice[name].principalDeposited = TotalDeposited(slice) + amount
    BY <1>4, <1>8, <1>13, <1>15 DEF TotalDeposited
  <2> QED
    BY <1>0, <1>6, <1>7, <1>8, <1>9, <1>12, <2>1, <2>2 DEF DepositsChanged
<1> QED
  BY <1>14, <1>15 DEF TrancheNames

----------------------------------------------------------------------------
(* The books after each action.                                            *)

\* Slices in order, of which one changed.
LEMMA OneSliceInOrder ==
  ASSUME NEW n \in Nat, NEW slices \in Slices(n), SlicesInOrder(n, slices), NEW s \in 1..n,
         NEW slice, SliceInOrder(slice),
         slices[s].senior.lockedUntil > 0 => slice.senior.lockedUntil > 0,
         NEW after, SliceChanged(n, slices, s, slice, after)
  PROVE  SlicesInOrder(n, after)
<1>1. after[s] = slice /\ \A i \in 1..n : i # s => after[i] = slices[i]
  BY DEF SliceChanged
<1> QED
  BY <1>1 DEF SlicesInOrder

\* Deposits of a tranche that is not locked count in full.
DepositsAdded(n, slices, changed, deposited, amount) ==
  /\ Total(worths(n, changed)) + deposited = Total(worths(n, slices)) + amount
  /\ Total(deposits(n, changed)) + deposited = Total(deposits(n, slices)) + amount
  /\ Total(deployedIn(n, changed)) = Total(deployedIn(n, slices))

\* The totals grow by what the one tranche was given.
LEMMA DepositsAddUp ==
  ASSUME NEW n \in Nat, NEW slices \in Slices(n), NEW s \in 1..n, NEW slice \in PoolSlice,
         slice = slices[s], NEW after, NEW name, NEW amount \in Nat,
         DepositsChanged(slice, name, amount, after),
         NEW changed, SliceChanged(n, slices, s, after, changed)
  PROVE  DepositsAdded(n, slices, changed, slice[name].principalDeposited, amount)
<1> DEFINE W == Total(worths(n, slices))
           V == Total(worths(n, changed))
           D == Total(deposits(n, slices))
           E == Total(deposits(n, changed))
           P == Total(deployedIn(n, slices))
           Q == Total(deployedIn(n, changed))
           d == slice[name].principalDeposited
<1>1. changed \in Slices(n) /\ after \in PoolSlice
  BY DEF SliceChanged, DepositsChanged
<1>2. /\ W \in Nat /\ V \in Nat /\ D \in Nat /\ E \in Nat /\ P \in Nat /\ Q \in Nat
  BY <1>1, SliceTotalsType
<1>3. /\ sliceWorth(slice) \in Nat /\ TotalDeposited(slice) \in Nat
      /\ slice.principalDeployed \in Nat
      /\ sliceWorth(after) \in Nat /\ TotalDeposited(after) \in Nat
  BY <1>1, SliceType
<1>4. /\ V + sliceWorth(slice) = W + sliceWorth(after)
      /\ E + TotalDeposited(slice) = D + TotalDeposited(after)
      /\ Q + slice.principalDeployed = P + after.principalDeployed
  BY DEF SliceChanged
<1>5. /\ sliceWorth(after) + d = sliceWorth(slice) + amount
      /\ TotalDeposited(after) + d = TotalDeposited(slice) + amount
      /\ after.principalDeployed = slice.principalDeployed
  BY DEF DepositsChanged
<1> HIDE DEF W, V, D, E, P, Q, d
<1>6. d \in Nat
  BY DEF d, DepositsChanged
<1>7. V + d = W + amount
  BY <1>2, <1>3, <1>4, <1>5, <1>6
<1>8. E + d = D + amount
  BY <1>2, <1>3, <1>4, <1>5, <1>6
<1>9. Q = P
  BY <1>2, <1>3, <1>4, <1>5
<1> QED
  BY <1>7, <1>8, <1>9 DEF W, V, D, E, P, Q, d, DepositsAdded

\* A deposit brings as much as it promises.
LEMMA DepositInv ==
  ASSUME PoolInv, NEW s \in DOMAIN poolSlices, NEW name \in TrancheNames, NEW amount \in Nat,
         Deposit(s, name, amount)
  PROVE  PoolInv'
<1> DEFINE n == Len(poolSlices)
           m == Len(tokens)
           slice == poolSlices[s]
           deposited == slice[name].principalDeposited
           after == depositing(slice, name, deposited + amount)
           token == [slice |-> s, tranche |-> name, principalAmount |-> amount,
                     principalRedeemed |-> 0, interestRedeemed |-> 0]
<1>1. /\ n \in Nat \ {0} /\ poolSlices \in Slices(n) /\ s \in 1..n
      /\ m \in Nat /\ tokens \in Tokens(m)
  BY PoolIs DEF PoolInv
<1>2. slice \in PoolSlice /\ SliceInOrder(slice)
  BY <1>1 DEF Slices, PoolInv, SlicesInOrder
<1>3. slice[name].lockedUntil = 0 /\ slice[name].principalDeposited \in Nat
  BY <1>2, SliceType DEF Deposit, TrancheNames
<1>4. poolSlices' = [poolSlices EXCEPT ![s] = after]
  BY DEF Deposit, depositing
<1>5. DepositsChanged(slice, name, deposited + amount, after)
  <2>1. deposited + amount \in Nat
    BY <1>3
  <2> HIDE DEF slice, deposited
  <2> QED
    BY <1>2, <1>3, <2>1, DepositsOfUnlocked DEF deposited
<1>6. SliceChanged(n, poolSlices, s, after, poolSlices')
  <2>1. after \in PoolSlice
    BY <1>5 DEF DepositsChanged
  <2> HIDE DEF after, n
  <2> QED
    BY <1>1, <1>4, <2>1, OneSliceChanges
<1> HIDE DEF after, deposited, slice
<1>7. poolSlices' \in Slices(n) /\ Len(poolSlices') = n /\ poolSlices' \in Seq(PoolSlice)
  BY <1>1, <1>6, SlicesAreSeq DEF SliceChanged
<1>8. SlicesInOrder(n, poolSlices')
  BY <1>1, <1>5, <1>6, OneSliceInOrder DEF PoolInv, DepositsChanged, slice
<1>9. token \in TokenInfo
  BY <1>1 DEF TokenInfo
<1>10. /\ tokens' \in Tokens(m + 1) /\ tokens'[m + 1] = token
       /\ \A k \in 1..m : tokens'[k] = tokens[k]
  <2>1. tokens' = Append(tokens, token) /\ tokens \in Seq(TokenInfo)
    BY DEF Deposit, PoolInv, TypeOK
  <2> HIDE DEF token
  <2> QED
    BY <1>9, <2>1, AppendIs DEF Tokens
<1>11. Len(tokens') = m + 1 /\ tokens' \in Seq(TokenInfo)
  BY <1>1, <1>10, TokensAreSeq
<1>12. TokensInSlices(m + 1, tokens', n)
  <2>1. \A k \in 1..m : tokens[k].slice \in 1..n
    BY DEF PoolInv, TokensInSlices
  <2>2. \A k \in 1..m : tokens'[k].slice \in 1..n
    BY <1>10, <2>1
  <2>3. tokens'[m + 1].slice \in 1..n
    BY <1>1, <1>10
  <2> HIDE DEF n, m, token
  <2>4. \A k \in 1..(m + 1) : k \in 1..m \/ k = m + 1
    BY <1>1
  <2> QED
    BY <2>2, <2>3, <2>4 DEF TokensInSlices
<1>13. /\ Total(brought(m + 1, tokens')) = Total(brought(m, tokens)) + amount
       /\ Total(redeemed(m + 1, tokens')) = Total(redeemed(m, tokens)) + (0 + 0)
  BY <1>1, <1>10, OneTokenMore
<1>14. /\ Total(worths(n, poolSlices)) \in Nat /\ Total(deposits(n, poolSlices)) \in Nat
       /\ Total(redeemed(m, tokens)) \in Nat /\ Total(brought(m, tokens)) \in Nat
       /\ Total(deployedIn(n, poolSlices)) \in Nat /\ usdc \in Nat
  BY <1>1, SliceTotalsType, TokenTotalsType DEF PoolInv, TypeOK
<1>15. /\ Total(worths(n, poolSlices')) \in Nat /\ Total(deposits(n, poolSlices')) \in Nat
       /\ Total(deployedIn(n, poolSlices')) \in Nat
  BY <1>1, <1>7, SliceTotalsType
<1>16. /\ totalDeployed' = totalDeployed /\ usdc' = usdc + amount /\ creditLine' = creditLine
       /\ time' = time /\ creditLineUsdc' = creditLineUsdc /\ liquidated' = liquidated
       /\ fundableAt' = fundableAt /\ drawdownsPaused' = drawdownsPaused /\ paused' = paused
  BY DEF Deposit, switches
<1> HIDE DEF n, m, token
<1>17. /\ Total(worths(n, poolSlices')) = Total(worths(n, poolSlices)) + amount
       /\ Total(deposits(n, poolSlices')) = Total(deposits(n, poolSlices)) + amount
       /\ Total(deployedIn(n, poolSlices')) = Total(deployedIn(n, poolSlices))
  <2>1. deposited + amount \in Nat /\ slice = poolSlices[s] /\ deposited = slice[name].principalDeposited
    BY <1>3 DEF slice, deposited
  <2>2. DepositsAdded(n, poolSlices, poolSlices', slice[name].principalDeposited,
                      deposited + amount)
    <3>1. n \in Nat
      BY <1>1
    <3> QED
      BY <1>1, <1>2, <1>5, <1>6, <2>1, <3>1, DepositsAddUp
  <2> QED
    BY <1>3, <1>14, <1>15, <2>1, <2>2 DEF DepositsAdded
<1>18. LoanBooks(n, poolSlices', totalDeployed', creditLine'.balance)
  BY <1>16, <1>17 DEF PoolInv, LoanBooks, n
<1>19. Funded(n, poolSlices', m + 1, tokens', usdc')
  <2>1. Total(worths(n, poolSlices)) + Total(brought(m, tokens))
          <= usdc + Total(redeemed(m, tokens)) + Total(deposits(n, poolSlices))
    BY DEF PoolInv, Funded, n, m
  <2>2. Total(worths(n, poolSlices')) + Total(brought(m + 1, tokens'))
          <= usdc' + Total(redeemed(m + 1, tokens')) + Total(deposits(n, poolSlices'))
    BY <1>13, <1>14, <1>16, <1>17, <2>1
  <2> QED
    BY <2>2 DEF Funded
<1>20. TypeOK'
  <2>1. usdc + amount \in Nat
    BY <1>14
  <2> QED
    BY <1>7, <1>11, <1>16, <2>1 DEF PoolInv, TypeOK, n
<1> QED
  BY <1>7, <1>8, <1>11, <1>12, <1>16, <1>18, <1>19, <1>20 DEF PoolInv, n, m

\* What a token may redeem.
LEMMA RedeemableType ==
  ASSUME PoolInv, NEW k \in 1..Len(tokens)
  PROVE  /\ tokens[k] \in TokenInfo /\ tokens[k].slice \in 1..Len(poolSlices)
         /\ tokens[k].tranche \in TrancheNames
         /\ poolSlices[tokens[k].slice] \in PoolSlice
         /\ SliceInOrder(poolSlices[tokens[k].slice])
         /\ TrancheOf(tokens[k]) \in Tranche
         /\ interestRedeemable(tokens[k]) \in Int /\ principalRedeemable(tokens[k]) \in Int
<1> DEFINE token == tokens[k]
           tranche == TrancheOf(token)
<1>1. /\ Len(poolSlices) \in Nat /\ poolSlices \in Slices(Len(poolSlices))
      /\ tokens \in Tokens(Len(tokens))
  BY PoolIs DEF PoolInv
<1>2. token \in TokenInfo /\ token.slice \in 1..Len(poolSlices)
  BY <1>1 DEF Tokens, PoolInv, TokensInSlices
<1>3. poolSlices[token.slice] \in PoolSlice /\ SliceInOrder(poolSlices[token.slice])
  BY <1>1, <1>2 DEF Slices, PoolInv, SlicesInOrder
<1>4. /\ token.tranche \in TrancheNames /\ token.principalAmount \in Nat
      /\ token.interestRedeemed \in Nat /\ token.principalRedeemed \in Nat
  BY <1>2, TokenType
<1>5. tranche \in Tranche
  BY <1>3, <1>4, SliceType DEF TrancheOf, TrancheNames
<1>6. tranche.interestSharePrice \in Nat /\ tranche.principalSharePrice \in Nat
  BY <1>5 DEF Tranche
<1>7. /\ sharePriceToUsdc(tranche.interestSharePrice, token.principalAmount) \in Nat
      /\ sharePriceToUsdc(tranche.principalSharePrice, token.principalAmount) \in Nat
  BY <1>4, <1>6, SharePriceToUsdcIs
<1>8. interestRedeemable(token) \in Int /\ principalRedeemable(token) \in Int
  BY <1>4, <1>7 DEF interestRedeemable, principalRedeemable
<1> QED
  BY <1>2, <1>3, <1>4, <1>5, <1>8

\* A withdrawal takes as much as it redeems; before the lock the deposits shrink
\* with it.
LEMMA WithdrawInv ==
  ASSUME PoolInv, NEW k \in DOMAIN tokens, NEW amount \in Int, _Withdraw(k, amount)
  PROVE  PoolInv'
<1> DEFINE n == Len(poolSlices)
           m == Len(tokens)
           token == tokens[k]
           s == token.slice
           name == token.tranche
           interest == AtMost(interestRedeemable(token), amount)
           principal == AtMost(principalRedeemable(token), amount - interest)
           slice == poolSlices[s]
           deposited == slice[name].principalDeposited
           after == depositing(slice, name, deposited - amount)
<1>1. /\ n \in Nat /\ n # 0 /\ poolSlices \in Slices(n)
      /\ m \in Nat /\ tokens \in Tokens(m) /\ k \in 1..m
  BY PoolIs DEF PoolInv
<1>2. /\ s \in 1..n /\ name \in TrancheNames /\ slice \in PoolSlice /\ SliceInOrder(slice)
      /\ interestRedeemable(token) \in Int /\ principalRedeemable(token) \in Int
      /\ slice[name] \in Tranche
  BY <1>1, RedeemableType DEF TrancheOf
<1>3. /\ interestRedeemable(token) >= 0 /\ principalRedeemable(token) >= 0 /\ amount > 0
      /\ interest + principal <= usdc
      /\ tokens' = [tokens EXCEPT ![k].principalRedeemed = @ + principal,
                                  ![k].interestRedeemed = @ + interest]
      /\ usdc' = usdc - (interest + principal)
      /\ totalDeployed' = totalDeployed /\ creditLine' = creditLine
      /\ time' = time /\ creditLineUsdc' = creditLineUsdc /\ liquidated' = liquidated
      /\ fundableAt' = fundableAt /\ drawdownsPaused' = drawdownsPaused /\ paused' = paused
  BY DEF _Withdraw, switches
<1>4. \/ poolSlices' = poolSlices
      \/ /\ slice[name].lockedUntil = 0 /\ amount <= deposited
         /\ poolSlices' = [poolSlices EXCEPT ![s] = after]
  BY DEF _Withdraw, TrancheOf, depositing
<1>5. interest \in Nat /\ principal \in Nat
  <2>1. interest \in Nat /\ interest <= amount
    BY <1>2, <1>3 DEF AtMost
  <2> HIDE DEF interest
  <2>2. principal \in Nat
    BY <1>2, <1>3, <2>1 DEF AtMost
  <2> QED
    BY <2>1, <2>2
<1> HIDE DEF interest, principal, after, n, m, slice, deposited
<1>6. TokenRedeemed(m, tokens, principal + interest, tokens')
  <2>1. tokens' = redeeming(tokens, k, principal, interest)
    BY <1>3 DEF redeeming
  <2> QED
    BY <1>1, <1>5, <2>1, OneTokenRedeems
<1>7. Len(tokens') = m /\ tokens' \in Seq(TokenInfo)
  BY <1>1, <1>6, TokensAreSeq DEF TokenRedeemed
<1>8. TokensInSlices(m, tokens', n)
  BY <1>6 DEF PoolInv, TokensInSlices, TokenRedeemed, m, n
<1>9. usdc \in Nat /\ usdc - (interest + principal) \in Nat
  <2>1. usdc \in Nat
    BY DEF PoolInv, TypeOK
  <2> QED
    BY <1>3, <1>5, <2>1
<1>10. /\ Total(worths(n, poolSlices)) \in Nat /\ Total(deposits(n, poolSlices)) \in Nat
       /\ Total(redeemed(m, tokens)) \in Nat /\ Total(brought(m, tokens)) \in Nat
       /\ Total(deployedIn(n, poolSlices)) \in Nat
  BY <1>1, SliceTotalsType, TokenTotalsType
<1>11. /\ poolSlices' \in Slices(n) /\ SlicesInOrder(n, poolSlices')
       /\ Total(deployedIn(n, poolSlices')) = Total(deployedIn(n, poolSlices))
       /\ \E less \in Nat :
            /\ Total(worths(n, poolSlices')) + less = Total(worths(n, poolSlices))
            /\ Total(deposits(n, poolSlices')) + less = Total(deposits(n, poolSlices))
  <2>1. CASE poolSlices' = poolSlices
    <3>1. /\ Total(worths(n, poolSlices)) + 0 = Total(worths(n, poolSlices))
          /\ Total(deposits(n, poolSlices)) + 0 = Total(deposits(n, poolSlices)) /\ 0 \in Nat
      BY <1>10
    <3> QED
      BY <1>1, <2>1, <3>1 DEF PoolInv, n
  <2>2. CASE /\ slice[name].lockedUntil = 0 /\ amount <= deposited
             /\ poolSlices' = [poolSlices EXCEPT ![s] = after]
    <3>1. deposited \in Nat
      BY <1>2 DEF Tranche, deposited
    <3>2. deposited - amount \in Nat /\ amount \in Nat
      BY <1>3, <2>2, <3>1
    <3>3. DepositsChanged(slice, name, deposited - amount, after)
      BY <1>2, <2>2, <3>2, DepositsOfUnlocked DEF after
    <3>4. after \in PoolSlice
      BY <3>3 DEF DepositsChanged
    <3>5. SliceChanged(n, poolSlices, s, after, poolSlices')
      BY <1>1, <1>2, <2>2, <3>4, OneSliceChanges
    <3>6. poolSlices' \in Slices(n)
      BY <3>5 DEF SliceChanged
    <3>7. SlicesInOrder(n, poolSlices')
      BY <1>1, <1>2, <3>3, <3>5, OneSliceInOrder DEF PoolInv, DepositsChanged, slice, n
    <3>8. DepositsAdded(n, poolSlices, poolSlices', slice[name].principalDeposited,
                        deposited - amount)
      <4>1. slice = poolSlices[s]
        BY DEF slice
      <4> QED
        BY <1>1, <1>2, <3>2, <3>3, <3>5, <4>1, DepositsAddUp
    <3>9. DepositsAdded(n, poolSlices, poolSlices', deposited, deposited - amount)
      BY <3>8 DEF deposited
    <3>10. Total(worths(n, poolSlices')) \in Nat /\ Total(deposits(n, poolSlices')) \in Nat
      BY <1>1, <3>6, SliceTotalsType
    <3>11. /\ Total(worths(n, poolSlices')) + amount = Total(worths(n, poolSlices))
           /\ Total(deposits(n, poolSlices')) + amount = Total(deposits(n, poolSlices))
      <4>1. \A v, w, d, a \in Nat : v + d = w + (d - a) => v + a = w
        OBVIOUS
      <4>2. /\ Total(worths(n, poolSlices')) + deposited
                 = Total(worths(n, poolSlices)) + (deposited - amount)
            /\ Total(deposits(n, poolSlices')) + deposited
                 = Total(deposits(n, poolSlices)) + (deposited - amount)
        BY <3>9 DEF DepositsAdded
      <4> QED
        BY <1>10, <3>1, <3>2, <3>10, <4>1, <4>2
    <3> QED
      BY <3>2, <3>6, <3>7, <3>9, <3>11 DEF DepositsAdded
  <2> QED
    BY <1>4, <2>1, <2>2
<1>12. Len(poolSlices') = n /\ poolSlices' \in Seq(PoolSlice)
  BY <1>1, <1>11, SlicesAreSeq
<1>13. LoanBooks(n, poolSlices', totalDeployed', creditLine'.balance)
  BY <1>3, <1>11 DEF PoolInv, LoanBooks, n
<1>14. Funded(n, poolSlices', m, tokens', usdc')
  <2>1. PICK less \in Nat :
          /\ Total(worths(n, poolSlices')) + less = Total(worths(n, poolSlices))
          /\ Total(deposits(n, poolSlices')) + less = Total(deposits(n, poolSlices))
    BY <1>11
  <2>2. Total(worths(n, poolSlices)) + Total(brought(m, tokens))
          <= usdc + Total(redeemed(m, tokens)) + Total(deposits(n, poolSlices))
    BY DEF PoolInv, Funded, n, m
  <2>3. Total(worths(n, poolSlices')) \in Nat /\ Total(deposits(n, poolSlices')) \in Nat
    BY <1>1, <1>11, SliceTotalsType
  <2>4. Total(worths(n, poolSlices')) + Total(brought(m, tokens'))
          <= usdc' + Total(redeemed(m, tokens')) + Total(deposits(n, poolSlices'))
    BY <1>3, <1>5, <1>6, <1>9, <1>10, <2>1, <2>2, <2>3 DEF TokenRedeemed
  <2> QED
    BY <2>4 DEF Funded
<1>15. TypeOK'
  BY <1>3, <1>7, <1>9, <1>12 DEF PoolInv, TypeOK, n
<1> QED
  BY <1>3, <1>7, <1>8, <1>11, <1>12, <1>13, <1>14, <1>15 DEF PoolInv, n, m

\* Two lists of slices with the same totals.
SameTotals(n, before, after) ==
  /\ Total(worths(n, after)) = Total(worths(n, before))
  /\ Total(deposits(n, after)) = Total(deposits(n, before))
  /\ Total(deployedIn(n, after)) = Total(deployedIn(n, before))

\* A change of one slice that is worth the same and holds the same.
LEMMA SameSliceTotals ==
  ASSUME NEW n \in Nat, NEW slices \in Slices(n), NEW s \in 1..n, NEW slice \in PoolSlice,
         NEW after, SliceChanged(n, slices, s, slice, after),
         sliceWorth(slice) = sliceWorth(slices[s]),
         TotalDeposited(slice) = TotalDeposited(slices[s]),
         slice.principalDeployed = slices[s].principalDeployed
  PROVE  SameTotals(n, slices, after)
<1>1. after \in Slices(n)
  BY DEF SliceChanged
<1>2. /\ Total(worths(n, slices)) \in Nat /\ Total(deposits(n, slices)) \in Nat
      /\ Total(deployedIn(n, slices)) \in Nat
      /\ Total(worths(n, after)) \in Nat /\ Total(deposits(n, after)) \in Nat
      /\ Total(deployedIn(n, after)) \in Nat
  BY <1>1, SliceTotalsType
<1>3. sliceWorth(slice) \in Nat /\ TotalDeposited(slice) \in Nat /\ slice.principalDeployed \in Nat
  BY SliceType
<1>4. \A a, b, x \in Nat : a + x = b + x => a = b
  OBVIOUS
<1>5. /\ Total(worths(n, after)) + sliceWorth(slice) = Total(worths(n, slices)) + sliceWorth(slice)
      /\ Total(deposits(n, after)) + TotalDeposited(slice)
           = Total(deposits(n, slices)) + TotalDeposited(slice)
      /\ Total(deployedIn(n, after)) + slice.principalDeployed
           = Total(deployedIn(n, slices)) + slice.principalDeployed
  BY DEF SliceChanged
<1> QED
  BY <1>2, <1>3, <1>4, <1>5 DEF SameTotals

\* A tranche with another lock.
LEMMA LockedTrancheIs ==
  ASSUME NEW tranche \in Tranche, NEW until \in Nat
  PROVE  LET after == [tranche EXCEPT !.lockedUntil = until]
         IN  /\ after \in Tranche /\ after.lockedUntil = until
             /\ worth(after) = worth(tranche)
             /\ after.principalDeposited = tranche.principalDeposited
             /\ after.interestSharePrice = tranche.interestSharePrice
             /\ until > 0 => Untouched(after)
BY DEF Tranche, worth, Untouched

\* A slice with other locks.
locking(slice, senior, junior) ==
  [slice EXCEPT !.senior = [slice.senior EXCEPT !.lockedUntil = senior],
                !.junior = [slice.junior EXCEPT !.lockedUntil = junior]]

\* The slice after it: worth the same.
SliceLocked(slice, senior, junior, after) ==
  /\ after \in PoolSlice /\ SliceInOrder(after)
  /\ after.senior.lockedUntil = senior /\ after.junior.lockedUntil = junior
  /\ sliceWorth(after) = sliceWorth(slice)
  /\ TotalDeposited(after) = TotalDeposited(slice)
  /\ after.principalDeployed = slice.principalDeployed

\* Locks change nothing else of a slice in order, if the junior one comes first.
LEMMA LockedSliceIs ==
  ASSUME NEW slice \in PoolSlice, SliceInOrder(slice), NEW senior \in Nat, NEW junior \in Nat,
         senior > 0 \/ senior = slice.senior.lockedUntil, junior > 0
  PROVE  SliceLocked(slice, senior, junior, locking(slice, senior, junior))
<1> DEFINE S == [slice.senior EXCEPT !.lockedUntil = senior]
           J == [slice.junior EXCEPT !.lockedUntil = junior]
           after == locking(slice, senior, junior)
<1>1. slice.senior \in Tranche /\ slice.junior \in Tranche
  BY SliceType
<1>2. /\ S \in Tranche /\ S.lockedUntil = senior /\ worth(S) = worth(slice.senior)
      /\ S.principalDeposited = slice.senior.principalDeposited
      /\ S.interestSharePrice = slice.senior.interestSharePrice
      /\ senior > 0 => Untouched(S)
  BY <1>1, LockedTrancheIs
<1>3. /\ J \in Tranche /\ J.lockedUntil = junior /\ worth(J) = worth(slice.junior)
      /\ J.principalDeposited = slice.junior.principalDeposited
      /\ junior > 0 => Untouched(J)
  BY <1>1, LockedTrancheIs
<1>4. senior = slice.senior.lockedUntil => S = slice.senior
  BY <1>1 DEF Tranche
<1> HIDE DEF S, J
<1>5. /\ after.senior = S /\ after.junior = J /\ after \in PoolSlice
      /\ after.principalDeployed = slice.principalDeployed
      /\ after.totalInterestAccrued = slice.totalInterestAccrued
  BY <1>2, <1>3 DEF locking, PoolSlice, S, J
<1> HIDE DEF after
<1>6. Untouched(after.senior) /\ Untouched(after.junior)
  BY <1>2, <1>3, <1>4, <1>5 DEF SliceInOrder
<1>7. sliceWorth(after) = sliceWorth(slice)
  BY <1>2, <1>3, <1>5 DEF sliceWorth
<1>8. TotalDeposited(after) = TotalDeposited(slice)
  BY <1>2, <1>3, <1>5 DEF TotalDeposited
<1>9. Capped(after)
  BY <1>2, <1>5, <1>8 DEF SliceInOrder, Capped
<1>10. SliceInOrder(after)
  BY <1>3, <1>5, <1>6, <1>9 DEF SliceInOrder
<1> QED
  BY <1>2, <1>3, <1>5, <1>7, <1>8, <1>10 DEF SliceLocked, after

\* Locks of the current slice leave the books as they are.
LEMMA LockingKeeps ==
  ASSUME PoolInv, NEW senior \in Nat, NEW junior \in Nat,
         senior > 0 \/ senior = poolSlices[currentSlice].senior.lockedUntil, junior > 0,
         poolSlices[currentSlice].senior.lockedUntil = 0, NEW after,
         after = [poolSlices EXCEPT ![currentSlice]
                    = locking(poolSlices[currentSlice], senior, junior)]
  PROVE  /\ after \in Slices(Len(poolSlices)) /\ SlicesInOrder(Len(poolSlices), after)
         /\ SameTotals(Len(poolSlices), poolSlices, after)
         /\ after[currentSlice].senior.lockedUntil = senior
         /\ after[currentSlice].junior.lockedUntil = junior
<1> DEFINE n == Len(poolSlices)
           slice == poolSlices[currentSlice]
           locked1 == locking(slice, senior, junior)
<1>1. /\ n \in Nat /\ poolSlices \in Slices(n) /\ currentSlice = n /\ currentSlice \in 1..n
  BY PoolIs DEF PoolInv
<1>2. slice \in PoolSlice /\ SliceInOrder(slice)
  BY <1>1 DEF Slices, PoolInv, SlicesInOrder
<1>3. SliceLocked(slice, senior, junior, locked1)
  BY <1>2, LockedSliceIs
<1> HIDE DEF locked1, n
<1>4. locked1 \in PoolSlice
  BY <1>3 DEF SliceLocked
<1>5. SliceChanged(n, poolSlices, currentSlice, locked1, after)
  BY <1>1, <1>4, OneSliceChanges DEF locked1
<1>6. after \in Slices(n) /\ after[currentSlice] = locked1
  BY <1>5 DEF SliceChanged
<1>7. SameTotals(n, poolSlices, after)
  BY <1>1, <1>3, <1>4, <1>5, SameSliceTotals DEF SliceLocked
<1>8. SlicesInOrder(n, after)
  <2>1. SlicesInOrder(n, poolSlices)
    BY DEF PoolInv, n
  <2>2. SliceInOrder(locked1)
    BY <1>3 DEF SliceLocked
  <2>3. ~ (poolSlices[currentSlice].senior.lockedUntil > 0)
    OBVIOUS
  <2> QED
    BY <1>1, <1>5, <2>1, <2>2, <2>3, OneSliceInOrder
<1> QED
  BY <1>3, <1>6, <1>7, <1>8 DEF SliceLocked, n

\* Nothing but the locks changed.
LEMMA SameTotalsInv ==
  ASSUME PoolInv, poolSlices' \in Slices(Len(poolSlices)),
         SlicesInOrder(Len(poolSlices), poolSlices'),
         SameTotals(Len(poolSlices), poolSlices, poolSlices'),
         creditLine' \in CreditLineState, creditLine'.balance = creditLine.balance,
         totalDeployed' = totalDeployed, usdc' = usdc, tokens' = tokens,
         time' \in Nat, time' >= 1, creditLineUsdc' = creditLineUsdc, liquidated' = liquidated,
         fundableAt' \in Nat, drawdownsPaused' \in BOOLEAN, paused' \in BOOLEAN
  PROVE  PoolInv'
<1> DEFINE n == Len(poolSlices)
<1>1. n \in Nat
  BY PoolIs DEF PoolInv
<1>2. poolSlices' \in Seq(PoolSlice) /\ Len(poolSlices') = n
  BY <1>1, SlicesAreSeq
<1>3. TypeOK'
  BY <1>2 DEF PoolInv, TypeOK
<1>4. LoanBooks(n, poolSlices', totalDeployed', creditLine'.balance)
  BY DEF PoolInv, LoanBooks, SameTotals
<1>5. Funded(n, poolSlices', Len(tokens), tokens', usdc')
  BY DEF PoolInv, Funded, SameTotals
<1> QED
  BY <1>2, <1>3, <1>4, <1>5 DEF PoolInv

\* Locking the junior tranche keeps the books.
LEMMA LockJuniorInv ==
  ASSUME PoolInv, LockJuniorCapital
  PROVE  PoolInv'
<1> DEFINE until == time + DrawdownPeriod
           slice == poolSlices[currentSlice]
<1>1. until \in Nat /\ until > 0
  BY PeriodAssumption DEF PoolInv, TypeOK
<1>2. slice \in PoolSlice /\ currentSlice \in DOMAIN poolSlices
  BY PoolIs DEF PoolInv, Slices
<1>3. slice.senior.lockedUntil \in Nat /\ slice.senior.lockedUntil = 0
  BY <1>2, SliceType DEF LockJuniorCapital, locked
<1>4. locking(slice, 0, until) = [slice EXCEPT !.junior = [slice.junior EXCEPT !.lockedUntil = until]]
  BY <1>2, <1>3 DEF locking, PoolSlice, Tranche
<1>5. poolSlices' = [poolSlices EXCEPT ![currentSlice] = locking(slice, 0, until)]
  BY <1>4 DEF LockJuniorCapital
<1> HIDE DEF until
<1>6. /\ poolSlices' \in Slices(Len(poolSlices)) /\ SlicesInOrder(Len(poolSlices), poolSlices')
      /\ SameTotals(Len(poolSlices), poolSlices, poolSlices')
  BY <1>1, <1>3, <1>5, LockingKeeps
<1>7. /\ creditLine' = creditLine /\ totalDeployed' = totalDeployed /\ usdc' = usdc
      /\ tokens' = tokens /\ time' = time /\ creditLineUsdc' = creditLineUsdc
      /\ liquidated' = liquidated /\ fundableAt' = fundableAt
      /\ drawdownsPaused' = drawdownsPaused /\ paused' = paused
  BY DEF LockJuniorCapital, switches
<1>8. /\ time' \in Nat /\ time' >= 1 /\ creditLine' \in CreditLineState /\ fundableAt' \in Nat
      /\ drawdownsPaused' \in BOOLEAN /\ paused' \in BOOLEAN
  BY <1>7 DEF PoolInv, TypeOK
<1> QED
  BY <1>6, <1>7, <1>8, SameTotalsInv

\* The slices once the pool is locked, by lockPool or by a drawdown.
LEMMA LockedSlicesAre ==
  ASSUME PoolInv, canLockPool
  PROVE  /\ lockedSlices \in Slices(Len(poolSlices))
         /\ SlicesInOrder(Len(poolSlices), lockedSlices)
         /\ SameTotals(Len(poolSlices), poolSlices, lockedSlices)
         /\ lockedSlices[currentSlice].senior.lockedUntil > 0
<1> DEFINE until == time + DrawdownPeriod
           slice == poolSlices[currentSlice]
<1>1. until \in Nat /\ until > 0
  BY PeriodAssumption DEF PoolInv, TypeOK
<1>2. slice \in PoolSlice /\ currentSlice \in DOMAIN poolSlices
  BY PoolIs DEF PoolInv, Slices
<1>3. slice.senior.lockedUntil = 0
  BY DEF canLockPool
<1>4. lockedSlices = [poolSlices EXCEPT ![currentSlice] = locking(slice, until, until)]
  BY <1>2 DEF lockedSlices, locking, PoolSlice
<1> HIDE DEF until
<1>5. /\ lockedSlices \in Slices(Len(poolSlices)) /\ SlicesInOrder(Len(poolSlices), lockedSlices)
      /\ SameTotals(Len(poolSlices), poolSlices, lockedSlices)
      /\ lockedSlices[currentSlice].senior.lockedUntil = until
  BY <1>1, <1>3, <1>4, LockingKeeps
<1> QED
  BY <1>1, <1>5

\* Locking the pool keeps the books.
LEMMA LockPoolInv ==
  ASSUME PoolInv, LockPool
  PROVE  PoolInv'
<1>1. /\ poolSlices' \in Slices(Len(poolSlices)) /\ SlicesInOrder(Len(poolSlices), poolSlices')
      /\ SameTotals(Len(poolSlices), poolSlices, poolSlices')
  BY LockedSlicesAre DEF LockPool
<1>2. /\ totalDeployed' = totalDeployed /\ usdc' = usdc
      /\ tokens' = tokens /\ time' = time /\ creditLineUsdc' = creditLineUsdc
      /\ liquidated' = liquidated /\ fundableAt' = fundableAt
      /\ drawdownsPaused' = drawdownsPaused /\ paused' = paused
  BY DEF LockPool, switches
<1>3. /\ time' \in Nat /\ time' >= 1 /\ fundableAt' \in Nat
      /\ drawdownsPaused' \in BOOLEAN /\ paused' \in BOOLEAN
  BY <1>2 DEF PoolInv, TypeOK
<1>4. creditLine' \in CreditLineState /\ creditLine'.balance = creditLine.balance
  BY RaisedIs DEF LockPool, PoolInv
<1> QED
  BY <1>1, <1>2, <1>3, <1>4, SameTotalsInv

\* After a drawdown the share prices promise what remains, at most.
LEMMA RemainingIsShared ==
  ASSUME NEW slice \in PoolSlice, TotalDeposited(slice) # 0, NEW remaining \in Nat
  PROVE  sharePriceToUsdc(calculateExpectedSharePrice(slice.junior, remaining, slice),
                          slice.junior.principalDeposited)
           + sharePriceToUsdc(calculateExpectedSharePrice(slice.senior, remaining, slice),
                              slice.senior.principalDeposited)
           <= remaining
<1> DEFINE F == FP_SCALING_FACTOR
           tot == TotalDeposited(slice)
           dj == slice.junior.principalDeposited
           ds == slice.senior.principalDeposited
           ej == calculateExpectedSharePrice(slice.junior, remaining, slice)
           es == calculateExpectedSharePrice(slice.senior, remaining, slice)
           vj == sharePriceToUsdc(ej, dj)
           vs == sharePriceToUsdc(es, ds)
           R == remaining * F
<1>1. /\ F \in Nat \ {0} /\ dj \in Nat /\ ds \in Nat /\ tot \in Nat \ {0} /\ tot = dj + ds
  BY ScalingAssumption, SliceType DEF TotalDeposited
<1>2. /\ ej \in Nat /\ ej * tot <= R
  BY <1>1, ExpectedSharePriceIs
<1>3. /\ es \in Nat /\ es * tot <= R
  BY <1>1, ExpectedSharePriceIs
<1>4. vj \in Nat /\ vj * F <= ej * dj
  <2> HIDE DEF ej, dj
  <2> QED
    BY <1>1, <1>2, SharePriceToUsdcIs
<1>5. vs \in Nat /\ vs * F <= es * ds
  <2> HIDE DEF es, ds
  <2> QED
    BY <1>1, <1>3, SharePriceToUsdcIs
<1>6. R \in Nat
  BY <1>1, TimesType
<1> HIDE DEF F, tot, dj, ds, ej, es, vj, vs, R
<1>7. (vj * F) * tot <= R * dj
  <2>1. vj * F \in Nat /\ ej * dj \in Nat /\ ej * tot \in Nat
    BY <1>1, <1>2, <1>4, TimesType
  <2>2. (vj * F) * tot <= (ej * dj) * tot
    BY <1>1, <1>4, <2>1, TimesMonotone
  <2>3. (ej * tot) * dj <= R * dj
    BY <1>1, <1>2, <1>6, <2>1, TimesMonotone
  <2>4. (ej * dj) * tot = (ej * tot) * dj
    BY <1>1, <1>2
  <2>5. (vj * F) * tot \in Nat /\ (ej * tot) * dj \in Nat /\ R * dj \in Nat
    BY <1>1, <1>6, <2>1, TimesType
  <2> QED
    BY <2>2, <2>3, <2>4, <2>5
<1>8. (vs * F) * tot <= R * ds
  <2>1. vs * F \in Nat /\ es * ds \in Nat /\ es * tot \in Nat
    BY <1>1, <1>3, <1>5, TimesType
  <2>2. (vs * F) * tot <= (es * ds) * tot
    BY <1>1, <1>5, <2>1, TimesMonotone
  <2>3. (es * tot) * ds <= R * ds
    BY <1>1, <1>3, <1>6, <2>1, TimesMonotone
  <2>4. (es * ds) * tot = (es * tot) * ds
    BY <1>1, <1>3
  <2>5. (vs * F) * tot \in Nat /\ (es * tot) * ds \in Nat /\ R * ds \in Nat
    BY <1>1, <1>6, <2>1, TimesType
  <2> QED
    BY <2>2, <2>3, <2>4, <2>5
<1>9. ((vj + vs) * F) * tot = (vj * F) * tot + (vs * F) * tot
  BY <1>1, <1>4, <1>5
<1>10. R * dj + R * ds = R * tot
  BY <1>1, <1>6
<1>11. ((vj + vs) * F) * tot <= R * tot
  <2>1. (vj * F) * tot \in Nat /\ (vs * F) * tot \in Nat /\ R * dj \in Nat /\ R * ds \in Nat
    BY <1>1, <1>4, <1>5, <1>6, TimesType
  <2> QED
    BY <1>7, <1>8, <1>9, <1>10, <2>1
<1>12. (vj + vs) * F <= R
  <2>1. (vj + vs) \in Nat
    BY <1>4, <1>5
  <2>2. (vj + vs) * F \in Nat
    BY <1>1, <2>1, TimesType
  <2> QED
    BY <1>1, <1>6, <1>11, <2>2, TimesCancelLe
<1>13. vj + vs <= remaining
  <2>1. (vj + vs) \in Nat
    BY <1>4, <1>5
  <2> QED
    BY <1>1, <1>12, <2>1, TimesCancelLe DEF R
<1> QED
  BY <1>13 DEF vj, vs, ej, es, dj, ds

\* A slice after a drawdown.
SliceDrawn(slice, amount, after) ==
  /\ after \in PoolSlice
  /\ SameTerms(slice.senior, after.senior) /\ SameTerms(slice.junior, after.junior)
  /\ after.senior.interestSharePrice = slice.senior.interestSharePrice
  /\ after.totalInterestAccrued = slice.totalInterestAccrued
  /\ after.principalDeployed = slice.principalDeployed + amount
  /\ sliceWorth(after) + amount <= sliceWorth(slice)

\* A drawdown lowers the share prices by at least what leaves the pool.
LEMMA DrawnSliceIs ==
  ASSUME NEW slice \in PoolSlice, NEW amount \in Nat, amount > 0, amount <= amountAvailable(slice)
  PROVE  SliceDrawn(slice, amount, sliceAfterDrawdown(slice, amount))
<1> DEFINE dj == slice.junior.principalDeposited
           ds == slice.senior.principalDeposited
           bj == sharePriceToUsdc(slice.junior.principalSharePrice, dj)
           bs == sharePriceToUsdc(slice.senior.principalSharePrice, ds)
           ij == sharePriceToUsdc(slice.junior.interestSharePrice, dj)
           is == sharePriceToUsdc(slice.senior.interestSharePrice, ds)
           remaining == amountAvailable(slice) - amount
           ej == calculateExpectedSharePrice(slice.junior, remaining, slice)
           es == calculateExpectedSharePrice(slice.senior, remaining, slice)
           J == [slice.junior EXCEPT !.principalSharePrice = ej]
           S == [slice.senior EXCEPT !.principalSharePrice = es]
           after == sliceAfterDrawdown(slice, amount)
<1>1. /\ slice.senior \in Tranche /\ slice.junior \in Tranche /\ dj \in Nat /\ ds \in Nat
      /\ slice.junior.principalSharePrice \in Nat /\ slice.senior.principalSharePrice \in Nat
      /\ slice.junior.interestSharePrice \in Nat /\ slice.senior.interestSharePrice \in Nat
      /\ slice.principalDeployed \in Nat
  BY SliceType
<1>2. bj \in Nat /\ bs \in Nat /\ ij \in Nat /\ is \in Nat
  BY <1>1, SharePriceToUsdcIs
<1>3. amountAvailable(slice) = bj + bs
  BY DEF amountAvailable
<1>4. remaining \in Nat
  BY <1>2, <1>3
<1>5. TotalDeposited(slice) # 0 /\ TotalDeposited(slice) \in Nat
  <2>1. CASE TotalDeposited(slice) = 0
    <3>1. dj = 0 /\ ds = 0
      BY <1>1, <2>1 DEF TotalDeposited
    <3>2. \A price \in Nat : sharePriceToUsdc(price, 0) = 0
      <4>1. \A price \in Nat : price * 0 = 0
        OBVIOUS
      <4>2. 0 \div FP_SCALING_FACTOR = 0
        BY ScalingAssumption
      <4> QED
        BY <4>1, <4>2 DEF sharePriceToUsdc
    <3>3. bj = 0 /\ bs = 0
      BY <1>1, <3>1, <3>2
    <3> QED
      BY <1>3, <3>3
  <2> QED
    BY <2>1, SliceType
<1> HIDE DEF remaining, after
<1>6. ej \in Nat /\ es \in Nat
  BY <1>1, <1>4, <1>5, ExpectedSharePriceIs
<1>7. sharePriceToUsdc(ej, dj) + sharePriceToUsdc(es, ds) <= remaining
  BY <1>4, <1>5, RemainingIsShared
<1>8. sharePriceToUsdc(ej, dj) \in Nat /\ sharePriceToUsdc(es, ds) \in Nat
  <2> HIDE DEF ej, es
  <2> QED
    BY <1>1, <1>6, SharePriceToUsdcIs
<1>9. after = [slice EXCEPT !.junior = J, !.senior = S, !.principalDeployed = @ + amount]
  BY DEF after, sliceAfterDrawdown, remaining, PoolSlice
<1> HIDE DEF ej, es
<1>10. /\ J \in Tranche /\ J.principalDeposited = dj /\ J.lockedUntil = slice.junior.lockedUntil
       /\ J.interestSharePrice = slice.junior.interestSharePrice /\ J.principalSharePrice = ej
  BY <1>1, <1>6 DEF Tranche
<1>11. /\ S \in Tranche /\ S.principalDeposited = ds /\ S.lockedUntil = slice.senior.lockedUntil
       /\ S.interestSharePrice = slice.senior.interestSharePrice /\ S.principalSharePrice = es
  BY <1>1, <1>6 DEF Tranche
<1>12. worth(J) = sharePriceToUsdc(ej, dj) + ij /\ worth(S) = sharePriceToUsdc(es, ds) + is
  BY <1>10, <1>11 DEF worth
<1> HIDE DEF J, S
<1>13. /\ after.junior = J /\ after.senior = S
       /\ after.principalDeployed = slice.principalDeployed + amount
       /\ after.totalInterestAccrued = slice.totalInterestAccrued
  BY <1>9 DEF PoolSlice
<1>14. after \in PoolSlice
  <2>1. slice.principalDeployed + amount \in Nat
    BY <1>1
  <2> QED
    BY <1>9, <1>10, <1>11, <2>1 DEF PoolSlice
<1>15. sliceWorth(after) + amount <= sliceWorth(slice)
  <2>1. sliceWorth(slice) = (bs + is) + (bj + ij)
    BY DEF sliceWorth, worth
  <2>2. sliceWorth(after) = (sharePriceToUsdc(es, ds) + is) + (sharePriceToUsdc(ej, dj) + ij)
    BY <1>12, <1>13 DEF sliceWorth
  <2>3. remaining = bj + bs - amount
    <3> HIDE DEF bj, bs
    <3> QED
      BY <1>2, <1>3 DEF remaining
  <2> DEFINE x == sharePriceToUsdc(ej, dj)
             y == sharePriceToUsdc(es, ds)
  <2> HIDE DEF bj, bs, ij, is, x, y
  <2>4. x \in Nat /\ y \in Nat /\ x + y <= bj + bs - amount
    BY <1>7, <1>8, <2>3 DEF x, y
  <2>5. sliceWorth(after) = (y + is) + (x + ij)
    BY <2>2 DEF x, y
  <2> QED
    BY <1>2, <2>1, <2>4, <2>5
<1> QED
  BY <1>10, <1>11, <1>13, <1>14, <1>15 DEF SliceDrawn, SameTerms, after

\* A drawdown takes from the share prices at least what it takes from the pool,
\* and the slice, the pool and the credit line note the same principal.
LEMMA DrawdownInv ==
  ASSUME PoolInv, NEW amount \in Nat, Drawdown(amount)
  PROVE  PoolInv'
<1> DEFINE n == Len(poolSlices)
           m == Len(tokens)
           slices == IF locked THEN poolSlices ELSE lockedSlices
           line == IF locked THEN creditLine ELSE raisedCreditLine
           before == slices[currentSlice]
           after == sliceAfterDrawdown(before, amount)
<1>1. /\ n \in Nat \ {0} /\ poolSlices \in Slices(n) /\ currentSlice = n /\ currentSlice \in 1..n
      /\ m \in Nat /\ tokens \in Tokens(m)
  BY PoolIs DEF PoolInv
<1>2. /\ locked \/ canLockPool
      /\ amount <= amountAvailable(before)
      /\ canDrawdown(line, amount, time)
      /\ amount <= usdc
      /\ poolSlices' = [slices EXCEPT ![currentSlice] = after]
      /\ creditLine' = drawnDown(line, amount, time)
      /\ totalDeployed' = totalDeployed + amount
      /\ usdc' = usdc - amount
      /\ tokens' = tokens /\ creditLineUsdc' = creditLineUsdc /\ time' = time
      /\ liquidated' = liquidated /\ fundableAt' = fundableAt
      /\ drawdownsPaused' = drawdownsPaused /\ paused' = paused
  BY DEF Drawdown, switches
<1>3. /\ slices \in Slices(n) /\ SlicesInOrder(n, slices) /\ SameTotals(n, poolSlices, slices)
      /\ before.senior.lockedUntil > 0
  <2>1. CASE locked
    BY <1>1, <2>1 DEF PoolInv, SameTotals, locked
  <2>2. CASE ~ locked
    BY <1>2, <2>2, LockedSlicesAre
  <2> QED
    BY <2>1, <2>2
<1>4. line \in CreditLineState /\ line.balance = creditLine.balance
  <2>1. CASE locked
    BY <2>1 DEF PoolInv, TypeOK
  <2>2. CASE ~ locked
    BY <2>2, RaisedIs DEF PoolInv
  <2> QED
    BY <2>1, <2>2
<1> HIDE DEF slices, line, before, after, n, m
<1>5. before \in PoolSlice /\ SliceInOrder(before)
  BY <1>1, <1>3 DEF Slices, SlicesInOrder, before
<1>6. amount > 0
  BY <1>2 DEF canDrawdown
<1>7. SliceDrawn(before, amount, after)
  BY <1>2, <1>5, <1>6, DrawnSliceIs DEF after
<1>8. after \in PoolSlice
  BY <1>7 DEF SliceDrawn
<1>9. SliceInOrder(after)
  <2>1. before.senior.lockedUntil > 0 /\ before.junior.lockedUntil > 0
    BY <1>3, <1>5 DEF SliceInOrder
  <2>2. after.senior.lockedUntil > 0 /\ after.junior.lockedUntil > 0
    BY <1>7, <2>1 DEF SliceDrawn, SameTerms
  <2>3. TotalDeposited(after) = TotalDeposited(before)
    BY <1>7 DEF SliceDrawn, SameTerms, TotalDeposited
  <2>4. Capped(after)
    BY <1>5, <1>7, <2>3 DEF SliceInOrder, Capped, SliceDrawn
  <2> QED
    BY <2>2, <2>4 DEF SliceInOrder, Untouched
<1>10. SliceChanged(n, slices, currentSlice, after, poolSlices')
  <2>1. n \in Nat
    BY <1>1
  <2> QED
    BY <1>1, <1>2, <1>3, <1>8, <2>1, OneSliceChanges
<1>11. poolSlices' \in Slices(n) /\ Len(poolSlices') = n /\ poolSlices' \in Seq(PoolSlice)
  BY <1>1, <1>10, SlicesAreSeq DEF SliceChanged
<1>12. SlicesInOrder(n, poolSlices')
  <2>1. slices[currentSlice].senior.lockedUntil > 0 => after.senior.lockedUntil > 0
    BY <1>7 DEF SliceDrawn, SameTerms, before
  <2> QED
    BY <1>1, <1>3, <1>9, <1>10, <2>1, OneSliceInOrder
<1>13. /\ Total(worths(n, slices)) \in Nat /\ Total(deposits(n, slices)) \in Nat
       /\ Total(deployedIn(n, slices)) \in Nat
       /\ Total(worths(n, poolSlices')) \in Nat /\ Total(deposits(n, poolSlices')) \in Nat
       /\ Total(deployedIn(n, poolSlices')) \in Nat
       /\ Total(redeemed(m, tokens)) \in Nat /\ Total(brought(m, tokens)) \in Nat
  BY <1>1, <1>3, <1>11, SliceTotalsType, TokenTotalsType
<1>14. /\ sliceWorth(before) \in Nat /\ sliceWorth(after) \in Nat
       /\ TotalDeposited(before) \in Nat /\ before.principalDeployed \in Nat
  BY <1>5, <1>8, SliceType
<1>15. /\ Total(worths(n, poolSlices')) + sliceWorth(before)
            = Total(worths(n, slices)) + sliceWorth(after)
       /\ Total(deposits(n, poolSlices')) + TotalDeposited(before)
            = Total(deposits(n, slices)) + TotalDeposited(after)
       /\ Total(deployedIn(n, poolSlices')) + before.principalDeployed
            = Total(deployedIn(n, slices)) + after.principalDeployed
  BY <1>10 DEF SliceChanged, before
<1>16. /\ sliceWorth(after) + amount <= sliceWorth(before)
       /\ TotalDeposited(after) = TotalDeposited(before)
       /\ after.principalDeployed = before.principalDeployed + amount
  BY <1>7 DEF SliceDrawn, SameTerms, TotalDeposited
<1>17. /\ Total(worths(n, poolSlices')) + amount <= Total(worths(n, slices))
       /\ Total(deposits(n, poolSlices')) = Total(deposits(n, slices))
       /\ Total(deployedIn(n, poolSlices')) = Total(deployedIn(n, slices)) + amount
  <2>1. \A v, w, a, b \in Nat : v + b = w + a /\ a + amount <= b => v + amount <= w
    OBVIOUS
  <2>2. \A v, w, b \in Nat : v + b = w + b => v = w
    OBVIOUS
  <2>3. \A v, w, b \in Nat : v + b = w + (b + amount) => v = w + amount
    OBVIOUS
  <2>4. Total(worths(n, poolSlices')) + amount <= Total(worths(n, slices))
    BY <1>13, <1>14, <1>15, <1>16, <2>1
  <2>5. Total(deposits(n, poolSlices')) = Total(deposits(n, slices))
    <3>1. Total(deposits(n, poolSlices')) + TotalDeposited(before)
            = Total(deposits(n, slices)) + TotalDeposited(before)
      BY <1>15, <1>16
    <3> QED
      BY <1>13, <1>14, <2>2, <3>1
  <2>6. Total(deployedIn(n, poolSlices')) = Total(deployedIn(n, slices)) + amount
    BY <1>13, <1>14, <1>15, <1>16, <2>3
  <2> QED
    BY <2>4, <2>5, <2>6
<1>18. /\ Total(worths(n, slices)) = Total(worths(n, poolSlices))
       /\ Total(deposits(n, slices)) = Total(deposits(n, poolSlices))
       /\ Total(deployedIn(n, slices)) = Total(deployedIn(n, poolSlices))
  BY <1>3 DEF SameTotals
<1>19. creditLine' \in CreditLineState /\ creditLine'.balance = creditLine.balance + amount
  BY <1>2, <1>4, DrawnDownIs DEF PoolInv, TypeOK
<1>20. creditLine.balance \in Nat /\ totalDeployed \in Nat /\ usdc \in Nat
  BY LineType DEF PoolInv, TypeOK
<1>21. LoanBooks(n, poolSlices', totalDeployed', creditLine'.balance)
  <2>1. /\ totalDeployed = Total(deployedIn(n, poolSlices))
        /\ creditLine.balance <= totalDeployed
        /\ n = 1 => creditLine.balance = totalDeployed
    BY DEF PoolInv, LoanBooks, n
  <2>2. totalDeployed' = Total(deployedIn(n, poolSlices'))
    BY <1>2, <1>17, <1>18, <2>1
  <2>3. creditLine'.balance <= totalDeployed'
        /\ (n = 1 => creditLine'.balance = totalDeployed')
    BY <1>2, <1>19, <1>20, <2>1
  <2> QED
    BY <2>2, <2>3 DEF LoanBooks
<1>22. Funded(n, poolSlices', m, tokens', usdc')
  <2>1. Total(worths(n, poolSlices)) + Total(brought(m, tokens))
          <= usdc + Total(redeemed(m, tokens)) + Total(deposits(n, poolSlices))
    BY DEF PoolInv, Funded, n, m
  <2>2. \A v, w, b, u, r, d \in Nat :
          w + b <= u + r + d /\ v + amount <= w => v + b <= (u - amount) + r + d
    OBVIOUS
  <2>3. Total(worths(n, poolSlices')) + Total(brought(m, tokens))
          <= (usdc - amount) + Total(redeemed(m, tokens)) + Total(deposits(n, poolSlices'))
    BY <1>13, <1>17, <1>18, <1>20, <2>1, <2>2
  <2> QED
    BY <1>2, <2>3 DEF Funded
<1>23. TypeOK'
  <2>1. usdc' \in Nat /\ totalDeployed' \in Nat
    BY <1>2, <1>20
  <2> QED
    BY <1>2, <1>11, <1>19, <2>1 DEF PoolInv, TypeOK, n
<1>24. TokensInSlices(m, tokens', n)
  BY <1>2 DEF PoolInv, n, m
<1> QED
  BY <1>2, <1>11, <1>12, <1>21, <1>22, <1>23, <1>24 DEF PoolInv, n, m

\* The slice that is added.
LEMMA EmptySliceIs ==
  /\ EmptySlice \in PoolSlice /\ SliceInOrder(EmptySlice)
  /\ sliceWorth(EmptySlice) = 0 /\ TotalDeposited(EmptySlice) = 0
  /\ EmptySlice.principalDeployed = 0
<1>1. usdcToSharePrice(1, 1) = FP_SCALING_FACTOR
  BY ScalingAssumption DEF usdcToSharePrice
<1>2. /\ EmptyTranche \in Tranche /\ EmptyTranche.principalDeposited = 0
      /\ EmptyTranche.lockedUntil = 0
      /\ EmptyTranche.principalSharePrice = FP_SCALING_FACTOR
      /\ EmptyTranche.interestSharePrice = 0
  BY <1>1, ScalingAssumption DEF EmptyTranche, Tranche
<1>3. /\ EmptySlice \in PoolSlice
      /\ EmptySlice.senior = EmptyTranche /\ EmptySlice.junior = EmptyTranche
      /\ EmptySlice.principalDeployed = 0
  BY <1>2 DEF EmptySlice, PoolSlice
<1>4. worth(EmptyTranche) = 0
  BY <1>2, UntouchedWorth
<1>5. Capped(EmptySlice)
  BY <1>2, <1>3, NoInterestIsCapped
<1>6. SliceInOrder(EmptySlice)
  BY <1>2, <1>3, <1>5 DEF SliceInOrder, Untouched
<1> QED
  BY <1>2, <1>3, <1>4, <1>6 DEF sliceWorth, TotalDeposited

\* A new slice is empty; there is another one, which is locked.
LEMMA NextSliceInv ==
  ASSUME PoolInv, NEW t \in Nat, InitializeNextSlice(t)
  PROVE  PoolInv'
<1> DEFINE n == Len(poolSlices)
           m == Len(tokens)
<1>1. /\ n \in Nat /\ n # 0 /\ poolSlices \in Slices(n) /\ currentSlice = n
      /\ m \in Nat /\ tokens \in Tokens(m)
  BY PoolIs DEF PoolInv
<1>2. /\ locked /\ n < MaxSlices
      /\ poolSlices' = Append(poolSlices, EmptySlice) /\ fundableAt' = t
      /\ totalDeployed' = totalDeployed /\ liquidated' = liquidated
      /\ drawdownsPaused' = drawdownsPaused /\ paused' = paused
      /\ creditLine' = creditLine /\ tokens' = tokens /\ usdc' = usdc
      /\ creditLineUsdc' = creditLineUsdc /\ time' = time
  BY DEF InitializeNextSlice
<1>3. /\ poolSlices' \in Slices(n + 1) /\ poolSlices'[n + 1] = EmptySlice
      /\ \A i \in 1..n : poolSlices'[i] = poolSlices[i]
  <2>1. poolSlices \in Seq(PoolSlice)
    BY DEF PoolInv, TypeOK
  <2> QED
    BY <1>2, <2>1, EmptySliceIs, AppendIs DEF Slices
<1> HIDE DEF n, m
<1>4. poolSlices' \in Seq(PoolSlice) /\ Len(poolSlices') = n + 1
  BY <1>1, <1>3, SlicesAreSeq
<1>5. /\ Total(worths(n + 1, poolSlices')) = Total(worths(n, poolSlices))
      /\ Total(deposits(n + 1, poolSlices')) = Total(deposits(n, poolSlices))
      /\ Total(deployedIn(n + 1, poolSlices')) = Total(deployedIn(n, poolSlices))
  <2>1. /\ Total(worths(n + 1, poolSlices')) = Total(worths(n, poolSlices)) + 0
        /\ Total(deposits(n + 1, poolSlices')) = Total(deposits(n, poolSlices)) + 0
        /\ Total(deployedIn(n + 1, poolSlices')) = Total(deployedIn(n, poolSlices)) + 0
    BY <1>1, <1>3, EmptySliceIs, OneSliceMore
  <2>2. /\ Total(worths(n, poolSlices)) \in Nat /\ Total(deposits(n, poolSlices)) \in Nat
        /\ Total(deployedIn(n, poolSlices)) \in Nat
    BY <1>1, SliceTotalsType
  <2> QED
    BY <2>1, <2>2
<1>6. SlicesInOrder(n + 1, poolSlices')
  <2> SUFFICES ASSUME NEW i \in 1..(n + 1)
               PROVE  /\ SliceInOrder(poolSlices'[i])
                      /\ i # n + 1 => poolSlices'[i].senior.lockedUntil > 0
    BY DEF SlicesInOrder
  <2>1. CASE i = n + 1
    BY <1>3, <2>1, EmptySliceIs
  <2>2. CASE i # n + 1
    <3>1. i \in 1..n
      BY <1>1, <2>2
    <3>2. SliceInOrder(poolSlices[i]) /\ (i # n => poolSlices[i].senior.lockedUntil > 0)
      BY <3>1 DEF PoolInv, SlicesInOrder, n
    <3>3. poolSlices[n].senior.lockedUntil > 0
      BY <1>1, <1>2 DEF locked
    <3> QED
      BY <1>3, <3>1, <3>2, <3>3
  <2> QED
    BY <2>1, <2>2
<1>7. LoanBooks(n + 1, poolSlices', totalDeployed', creditLine'.balance)
  <2>1. n + 1 # 1
    BY <1>1
  <2>2. totalDeployed = Total(deployedIn(n, poolSlices)) /\ creditLine.balance <= totalDeployed
    BY DEF PoolInv, LoanBooks, n
  <2> QED
    BY <1>2, <1>5, <2>1, <2>2 DEF LoanBooks
<1>8. Funded(n + 1, poolSlices', m, tokens', usdc')
  BY <1>2, <1>5 DEF PoolInv, Funded, n, m
<1>9. TokensInSlices(m, tokens', n + 1)
  <2>1. \A k \in 1..m : tokens[k].slice \in 1..n
    BY DEF PoolInv, TokensInSlices, n, m
  <2> QED
    BY <1>1, <1>2, <2>1 DEF TokensInSlices
<1>10. TypeOK'
  <2>1. n + 1 \in 1..MaxSlices
    BY <1>1, <1>2, BoundAssumption
  <2> QED
    BY <1>2, <1>4, <2>1 DEF PoolInv, TypeOK
<1> QED
  BY <1>2, <1>4, <1>6, <1>7, <1>8, <1>9, <1>10 DEF PoolInv, m

----------------------------------------------------------------------------
(* Payments.  They are made once every slice is locked.                    *)

\* Every slice is locked, within its cap.
AllLocked(n, slices) ==
  \A i \in 1..n : /\ slices[i].senior.lockedUntil > 0 /\ slices[i].junior.lockedUntil > 0
                  /\ Capped(slices[i])

\* Once the last slice is locked, all slices are.
LEMMA LockedPoolIs ==
  ASSUME NEW n \in Nat \ {0}, NEW slices \in Slices(n), SlicesInOrder(n, slices),
         slices[n].senior.lockedUntil > 0
  PROVE  AllLocked(n, slices)
<1> SUFFICES ASSUME NEW i \in 1..n
             PROVE  /\ slices[i].senior.lockedUntil > 0 /\ slices[i].junior.lockedUntil > 0
                    /\ Capped(slices[i])
  BY DEF AllLocked
<1>1. slices[i].senior.lockedUntil > 0
  BY DEF SlicesInOrder
<1> QED
  BY <1>1 DEF SlicesInOrder, SliceInOrder

\* Locked slices are in order whatever their share prices.
LEMMA AllLockedInOrder ==
  ASSUME NEW n \in Nat, NEW slices \in Slices(n), AllLocked(n, slices)
  PROVE  SlicesInOrder(n, slices)
<1> SUFFICES ASSUME NEW i \in 1..n
             PROVE  SliceInOrder(slices[i]) /\ slices[i].senior.lockedUntil > 0
  BY DEF SlicesInOrder
<1>1. slices[i].senior.lockedUntil > 0 /\ slices[i].junior.lockedUntil > 0 /\ Capped(slices[i])
  BY DEF AllLocked
<1> QED
  BY <1>1 DEF SliceInOrder, Untouched

\* What the locks and the deposits of the slices say is the same.
SameCapitals(n, before, after) ==
  /\ after \in Slices(n)
  /\ AllLocked(n, before) => AllLocked(n, after)
  /\ deposits(n, after) = deposits(n, before)

\* Slices that accrue interest are worth the same.
charged(n, slices, accrued) ==
  [i \in 1..n |-> [slices[i] EXCEPT !.totalInterestAccrued = @ + accrued[i]]]

\* Accrued interest only lifts the cap.
LEMMA ChargedIs ==
  ASSUME NEW n \in Nat, NEW slices \in Slices(n), NEW accrued \in Amounts(n)
  PROVE  /\ SameCapitals(n, slices, charged(n, slices, accrued))
         /\ worths(n, charged(n, slices, accrued)) = worths(n, slices)
         /\ deployedIn(n, charged(n, slices, accrued)) = deployedIn(n, slices)
<1> DEFINE after == charged(n, slices, accrued)
<1>1. ASSUME NEW i \in 1..n
      PROVE  /\ after[i] \in PoolSlice
             /\ after[i].senior = slices[i].senior /\ after[i].junior = slices[i].junior
             /\ after[i].principalDeployed = slices[i].principalDeployed
             /\ after[i].totalInterestAccrued = slices[i].totalInterestAccrued + accrued[i]
             /\ Capped(slices[i]) => Capped(after[i])
  <2> DEFINE slice == slices[i]
             more == accrued[i]
             next == [slice EXCEPT !.totalInterestAccrued = @ + more]
  <2>1. slice \in PoolSlice /\ more \in Nat /\ after[i] = next
    BY DEF Slices, Amounts, charged
  <2> HIDE DEF slice, more
  <2>2. slice.totalInterestAccrued \in Nat
    BY <2>1, SliceType
  <2>3. slice.totalInterestAccrued + more \in Nat
    BY <2>1, <2>2
  <2>4. /\ next \in PoolSlice
        /\ next.senior = slice.senior /\ next.junior = slice.junior
        /\ next.principalDeployed = slice.principalDeployed
        /\ next.totalInterestAccrued = slice.totalInterestAccrued + more
    BY <2>1, <2>3 DEF PoolSlice
  <2> HIDE DEF next
  <2>5. ASSUME Capped(slice) PROVE Capped(next)
    <3> DEFINE part == ONE_HUNDRED - juniorFeePercent - reserveFeePercent
               F == FP_SCALING_FACTOR
               a == slice.totalInterestAccrued
    <3>1. part \in Nat
      BY FeesAre
    <3>2. F \in Nat /\ a \in Nat
      BY <2>2, ScalingAssumption
    <3>3. TotalDeposited(next) = TotalDeposited(slice)
      BY <2>4 DEF TotalDeposited
    <3>4. slice.senior.interestSharePrice * TotalDeposited(slice) * ONE_HUNDRED <= a * F * part
      BY <2>5 DEF Capped
    <3>5. slice.senior.interestSharePrice * TotalDeposited(slice) * ONE_HUNDRED \in Nat
      <4>1. slice.senior.interestSharePrice \in Nat /\ TotalDeposited(slice) \in Nat
        BY <2>1, SliceType
      <4>2. slice.senior.interestSharePrice * TotalDeposited(slice) \in Nat /\ ONE_HUNDRED \in Nat
        BY <4>1, TimesType, FeesAre
      <4> QED
        BY <4>2, TimesType
    <3> HIDE DEF part, F, a
    <3>6. a * F * part <= (a + more) * F * part
      <4>1. a * F \in Nat /\ more * F \in Nat /\ (a + more) * F = a * F + more * F
        BY <2>1, <3>2, TimesType
      <4>2. a * F <= (a + more) * F /\ (a + more) * F \in Nat
        BY <4>1
      <4> QED
        BY <3>1, <4>1, <4>2, TimesMonotone
    <3>7. a * F * part \in Nat /\ (a + more) * F * part \in Nat
      <4>1. a * F \in Nat /\ (a + more) * F \in Nat
        BY <2>1, <3>2, TimesType
      <4> QED
        BY <3>1, <4>1, TimesType
    <3>8. next.senior.interestSharePrice * TotalDeposited(next) * ONE_HUNDRED
            <= (a + more) * F * part
      <4>1. \A x, y, z \in Nat : x <= y /\ y <= z => x <= z
        OBVIOUS
      <4>2. slice.senior.interestSharePrice * TotalDeposited(slice) * ONE_HUNDRED
              <= (a + more) * F * part
        BY <3>4, <3>5, <3>6, <3>7, <4>1
      <4> QED
        BY <2>4, <3>3, <4>2
    <3> QED
      BY <2>4, <3>8 DEF Capped, part, F, a
  <2> QED
    BY <2>1, <2>4, <2>5 DEF slice, more
<1>2. after = [i \in 1..n |-> after[i]]
  BY DEF charged
<1> HIDE DEF after
<1>3. after \in Slices(n)
  BY <1>1, <1>2 DEF Slices
<1>4. deposits(n, after) = deposits(n, slices)
  BY <1>1 DEF deposits, TotalDeposited
<1>5. worths(n, after) = worths(n, slices)
  BY <1>1 DEF worths, sliceWorth
<1>6. deployedIn(n, after) = deployedIn(n, slices)
  BY <1>1 DEF deployedIn
<1>7. AllLocked(n, slices) => AllLocked(n, after)
  BY <1>1 DEF AllLocked
<1> QED
  BY <1>3, <1>4, <1>5, <1>6, <1>7 DEF SameCapitals, after

\* Slices to which money was applied.
LEMMA SharedCapitals ==
  ASSUME NEW n \in Nat, NEW before \in Slices(n), NEW amount, NEW left,
         SharedBy(n, before, amount, left)
  PROVE  /\ SameCapitals(n, before, left.slices)
         /\ deployedIn(n, left.slices) = deployedIn(n, before)
<1> DEFINE after == left.slices
<1>1. after \in Slices(n) /\ SameBooks(n, before, after)
  BY DEF SharedBy
<1> HIDE DEF after
<1>2. \A i \in 1..n : /\ after[i].senior.lockedUntil = before[i].senior.lockedUntil
                      /\ after[i].junior.lockedUntil = before[i].junior.lockedUntil
                      /\ TotalDeposited(after[i]) = TotalDeposited(before[i])
                      /\ after[i].principalDeployed = before[i].principalDeployed
                      /\ Capped(before[i]) => Capped(after[i])
  BY <1>1 DEF SameBooks, SameTerms, TotalDeposited
<1>3. deposits(n, after) = deposits(n, before)
  BY <1>2 DEF deposits
<1>4. deployedIn(n, after) = deployedIn(n, before)
  BY <1>2 DEF deployedIn
<1>5. AllLocked(n, before) => AllLocked(n, after)
  BY <1>2 DEF AllLocked
<1> QED
  BY <1>1, <1>3, <1>4, <1>5 DEF SameCapitals, after

\* Slices of which principal is repaid.
repaying(n, slices, repaid) ==
  [i \in 1..n |-> [slices[i] EXCEPT !.principalDeployed = @ - repaid[i]]]

\* Repaid principal is missing in what is deployed, and nowhere else.
LEMMA RepaidIs ==
  ASSUME NEW n \in Nat, NEW slices \in Slices(n), NEW repaid \in Amounts(n),
         \A i \in 1..n : repaid[i] <= slices[i].principalDeployed
  PROVE  /\ SameCapitals(n, slices, repaying(n, slices, repaid))
         /\ worths(n, repaying(n, slices, repaid)) = worths(n, slices)
         /\ Total(deployedIn(n, slices))
              = Total(deployedIn(n, repaying(n, slices, repaid))) + Total(repaid)
<1> DEFINE after == repaying(n, slices, repaid)
<1>1. ASSUME NEW i \in 1..n
      PROVE  /\ after[i] \in PoolSlice
             /\ after[i].senior = slices[i].senior /\ after[i].junior = slices[i].junior
             /\ slices[i].principalDeployed = after[i].principalDeployed + repaid[i]
             /\ Capped(slices[i]) => Capped(after[i])
  <2> DEFINE slice == slices[i]
             less == repaid[i]
             next == [slice EXCEPT !.principalDeployed = @ - less]
  <2>1. slice \in PoolSlice /\ less \in Nat /\ after[i] = next /\ less <= slice.principalDeployed
    BY DEF Slices, Amounts, repaying
  <2> HIDE DEF slice, less
  <2>2. slice.principalDeployed \in Nat
    BY <2>1, SliceType
  <2>3. slice.principalDeployed - less \in Nat
    BY <2>1, <2>2
  <2>4. /\ next \in PoolSlice
        /\ next.senior = slice.senior /\ next.junior = slice.junior
        /\ next.principalDeployed = slice.principalDeployed - less
        /\ next.totalInterestAccrued = slice.totalInterestAccrued
    BY <2>1, <2>3 DEF PoolSlice
  <2> HIDE DEF next
  <2>5. Capped(slice) => Capped(next)
    BY <2>4 DEF Capped, TotalDeposited
  <2>6. slice.principalDeployed = next.principalDeployed + less
    BY <2>1, <2>2, <2>4
  <2> QED
    BY <2>1, <2>4, <2>5, <2>6 DEF slice, less
<1>2. after = [i \in 1..n |-> after[i]]
  BY DEF repaying
<1> HIDE DEF after
<1>3. after \in Slices(n)
  BY <1>1, <1>2 DEF Slices
<1>4. deposits(n, after) = deposits(n, slices)
  BY <1>1 DEF deposits, TotalDeposited
<1>5. worths(n, after) = worths(n, slices)
  BY <1>1 DEF worths, sliceWorth
<1>6. Total(deployedIn(n, slices)) = Total(deployedIn(n, after)) + Total(repaid)
  <2>1. deployedIn(n, slices) \in Amounts(n) /\ deployedIn(n, after) \in Amounts(n)
    BY <1>3, SliceTotalsType
  <2>2. \A i \in 1..n : deployedIn(n, slices)[i] = deployedIn(n, after)[i] + repaid[i]
    BY <1>1 DEF deployedIn
  <2> QED
    BY <2>1, <2>2, TotalAdd
<1>7. AllLocked(n, slices) => AllLocked(n, after)
  BY <1>1 DEF AllLocked
<1> QED
  BY <1>3, <1>4, <1>5, <1>6, <1>7 DEF SameCapitals, after

\* An assessment keeps the books, with a payment or without.
LEMMA AssessmentInv ==
  ASSUME PoolInv, NEW available \in Nat, NEW status, _Assess(available, status),
         tokens' = tokens, time' = time, fundableAt' = fundableAt,
         drawdownsPaused' = drawdownsPaused, paused' = paused,
         liquidated' \in LiquidationProcess
  PROVE  PoolInv'
<1> DEFINE n == Len(poolSlices)
           m == Len(tokens)
           o == outcomeOf(available, status)
           accrued == o.line.totalInterestAccrued - creditLine.totalInterestAccrued
           base == assessedSlices(o)
           paid == amountPaid(o)
<1>1. /\ n \in Nat /\ n # 0 /\ poolSlices \in Slices(n) /\ currentSlice = n /\ currentSlice \in 1..n
      /\ DOMAIN poolSlices = 1..n
      /\ m \in Nat /\ tokens \in Tokens(m)
  BY PoolIs DEF PoolInv
<1>2. settle(o, available)
  BY DEF _Assess
<1>3. /\ locked /\ totalDeployed > 0 /\ o.defined /\ creditLine' = o.line
      /\ hasPayment(o) => /\ collectable(base, o.line)
                          /\ resultOf(o).reserve <= usdc + paid
  BY <1>2 DEF settle, accepted
<1>4. /\ creditLine \in CreditLineState /\ totalDeployed \in Nat /\ usdc \in Nat /\ time \in Nat
      /\ creditLine.balance \in Nat /\ creditLine.totalInterestAccrued \in Nat
  BY LineType DEF PoolInv, TypeOK
<1>5. /\ o.line \in CreditLineState
      /\ o.interest \in Nat /\ o.principal \in 0..creditLine.balance /\ o.remaining \in Nat
      /\ o.interest + o.principal + o.remaining <= available
      /\ o.line.balance = creditLine.balance - o.principal
      /\ o.line.totalInterestAccrued >= creditLine.totalInterestAccrued
  <2>1. \E timestamp \in {creditLine.interestAccruedAsOf, timeToAssess(creditLine, time)} :
          Assessed(creditLine, available, timestamp, time, o)
    BY <1>3, <1>4, AssessIs DEF outcomeOf
  <2> HIDE DEF o
  <2> QED
    BY <2>1 DEF Assessed
<1> HIDE DEF o
<1>6. accrued \in Nat /\ paid \in Nat /\ o.principal \in Nat /\ paid <= available
  <2>1. o.line.totalInterestAccrued \in Nat
    BY <1>5, LineType
  <2> QED
    BY <1>4, <1>5, <2>1 DEF amountPaid
<1>7. DeployedIs(n, poolSlices, totalDeployed) /\ creditLine.balance <= totalDeployed
      /\ (n = 1 => creditLine.balance = totalDeployed)
      /\ totalDeployed = Total(deployedIn(n, poolSlices))
  BY <1>3, <1>4 DEF PoolInv, LoanBooks, DeployedIs
<1>8. \A x : perSlice(x) = shares(n, poolSlices, x, totalDeployed)
  BY <1>1 DEF perSlice, shares
<1>9. base = charged(n, poolSlices, perSlice(accrued))
  BY <1>1 DEF assessedSlices, slicesWithInterest, charged
<1> HIDE DEF n, m, accrued, base
<1>10. perSlice(accrued) \in Amounts(n)
  <2>1. n \in Nat
    BY <1>1
  <2> QED
    BY <1>1, <1>6, <1>7, <1>8, <2>1, SharesAre
<1>11. /\ SameCapitals(n, poolSlices, base) /\ base \in Slices(n)
       /\ worths(n, base) = worths(n, poolSlices)
       /\ deployedIn(n, base) = deployedIn(n, poolSlices)
       /\ deposits(n, base) = deposits(n, poolSlices)
  <2>1. n \in Nat
    BY <1>1
  <2> QED
    BY <1>1, <1>9, <1>10, <2>1, ChargedIs DEF SameCapitals
<1>12. AllLocked(n, poolSlices)
  <2>1. n \in Nat \ {0} /\ SlicesInOrder(n, poolSlices) /\ poolSlices[n].senior.lockedUntil > 0
    BY <1>1, <1>3 DEF PoolInv, locked, n
  <2> QED
    BY <1>1, <2>1, LockedPoolIs
<1>13. Total(worths(n, poolSlices)) + Total(brought(m, tokens))
         <= usdc + Total(redeemed(m, tokens)) + Total(deposits(n, poolSlices))
  BY DEF PoolInv, Funded, n, m
<1>14. /\ AllLocked(n, poolSlices') /\ poolSlices' \in Slices(n)
       /\ Funded(n, poolSlices', m, tokens, usdc')
       /\ LoanBooks(n, poolSlices', totalDeployed', creditLine'.balance)
       /\ totalDeployed' \in Nat /\ usdc' \in Nat /\ creditLineUsdc' \in Nat
  <2>1. CASE ~ hasPayment(o)
    <3>1. /\ poolSlices' = base /\ totalDeployed' = totalDeployed /\ usdc' = usdc
          /\ creditLineUsdc' = available
      BY <1>2, <2>1 DEF settle, base
    <3>2. o.principal = 0
      BY <1>6, <2>1 DEF hasPayment
    <3>3. creditLine'.balance = creditLine.balance
      BY <1>3, <1>4, <1>5, <3>2
    <3>4. AllLocked(n, base)
      BY <1>11, <1>12 DEF SameCapitals
    <3>5. Funded(n, base, m, tokens, usdc)
      BY <1>11, <1>13 DEF Funded
    <3>6. LoanBooks(n, base, totalDeployed, creditLine.balance)
      BY <1>7, <1>11 DEF LoanBooks
    <3> QED
      BY <1>4, <1>11, <3>1, <3>3, <3>4, <3>5, <3>6
  <2>2. CASE hasPayment(o)
    <3> DEFINE result == resultOf(o)
               repaid == perSlice(o.principal)
               after == repaidSlices(result.slices, repaid)
    <3>1. /\ poolSlices' = after /\ totalDeployed' = totalDeployed - Total(repaid)
          /\ creditLineUsdc' = available - paid
          /\ usdc' = usdc + paid - result.reserve
          /\ result.reserve <= usdc + paid
      BY <1>2, <1>3, <2>2 DEF settle
    <3>2. SharedBy(n, base, paid, result)
      <4> DEFINE rest == o.principal + o.remaining
      <4>1. rest \in Nat /\ paid = o.interest + rest
        BY <1>5, <1>6 DEF amountPaid
      <4>2. Collectable(n, base, o.line, totalDeployed)
        <5>1. DOMAIN base = 1..n
          BY <1>11 DEF Slices
        <5>2. o.line.balance \in Nat /\ o.line.principalOwed \in Nat
          BY <1>5, LineType
        <5>3. collectable(base, o.line)
          BY <1>3, <2>2
        <5> QED
          BY <5>1, <5>2, <5>3 DEF collectable, Collectable
      <4>3. DeployedIs(n, base, totalDeployed)
        BY <1>7, <1>11 DEF DeployedIs
      <4>4. n \in Nat /\ o.interest \in Nat
        BY <1>1, <1>5
      <4>5. result = collectInterestAndPrincipal(base, o.interest, rest, o.line)
        BY DEF resultOf, base
      <4> HIDE DEF rest, result
      <4>6. SharedBy(n, base, o.interest + rest,
                     collectInterestAndPrincipal(base, o.interest, rest, o.line))
        BY <1>11, <4>1, <4>2, <4>3, <4>4, WaterfallShares
      <4> QED
        BY <4>1, <4>5, <4>6
    <3>3. /\ repaid \in Amounts(n) /\ Total(repaid) <= o.principal
          /\ \A i \in 1..n : repaid[i] <= poolSlices[i].principalDeployed
          /\ n = 1 => Total(repaid) = o.principal
      <4>1. n \in Nat /\ o.principal <= totalDeployed
        BY <1>1, <1>4, <1>5, <1>7
      <4> QED
        BY <1>1, <1>6, <1>7, <1>8, <4>1, SharesAre
    <3> HIDE DEF result, repaid
    <3>4. /\ SameCapitals(n, base, result.slices) /\ result.slices \in Slices(n)
          /\ deployedIn(n, result.slices) = deployedIn(n, base)
          /\ deposits(n, result.slices) = deposits(n, base)
      <4>1. n \in Nat
        BY <1>1
      <4> QED
        BY <1>11, <3>2, <4>1, SharedCapitals DEF SameCapitals
    <3>5. after = repaying(n, result.slices, repaid)
      BY <3>4 DEF repaidSlices, repaying, Slices
    <3> HIDE DEF after
    <3>6. /\ SameCapitals(n, result.slices, after) /\ after \in Slices(n)
          /\ worths(n, after) = worths(n, result.slices)
          /\ deposits(n, after) = deposits(n, result.slices)
          /\ Total(deployedIn(n, result.slices)) = Total(deployedIn(n, after)) + Total(repaid)
      <4>1. ASSUME NEW i \in 1..n PROVE repaid[i] <= result.slices[i].principalDeployed
        <5>1. deployedIn(n, result.slices) = deployedIn(n, poolSlices)
          BY <1>11, <3>4
        <5>2. /\ deployedIn(n, result.slices)[i] = result.slices[i].principalDeployed
              /\ deployedIn(n, poolSlices)[i] = poolSlices[i].principalDeployed
          BY DEF deployedIn
        <5>3. repaid[i] <= poolSlices[i].principalDeployed
          BY <3>3
        <5> QED
          BY <5>1, <5>2, <5>3
      <4>2. n \in Nat
        BY <1>1
      <4> QED
        BY <3>3, <3>4, <3>5, <4>1, <4>2, RepaidIs DEF SameCapitals
    <3>7. /\ Total(repaid) \in Nat /\ Total(deployedIn(n, after)) \in Nat
          /\ Total(worths(n, after)) \in Nat /\ Total(worths(n, poolSlices)) \in Nat
          /\ Total(deposits(n, poolSlices)) \in Nat
          /\ Total(brought(m, tokens)) \in Nat /\ Total(redeemed(m, tokens)) \in Nat
      <4>1. Total(repaid) \in Nat
        BY <1>1, <3>3, TotalIs
      <4> QED
        BY <1>1, <3>6, <4>1, SliceTotalsType, TokenTotalsType
    <3>8. totalDeployed = Total(deployedIn(n, after)) + Total(repaid)
      BY <1>7, <1>11, <3>4, <3>6
    <3>9. totalDeployed' = Total(deployedIn(n, after)) /\ totalDeployed' \in Nat
      <4>1. \A t, d, r \in Nat : t = d + r => t - r = d
        OBVIOUS
      <4>2. totalDeployed - Total(repaid) = Total(deployedIn(n, after))
        BY <1>4, <3>7, <3>8, <4>1
      <4> QED
        BY <3>1, <3>7, <4>2
    <3>10. /\ creditLine'.balance <= totalDeployed'
           /\ n = 1 => creditLine'.balance = totalDeployed'
      BY <1>3, <1>4, <1>5, <1>6, <1>7, <3>1, <3>3, <3>7
    <3>11. LoanBooks(n, poolSlices', totalDeployed', creditLine'.balance)
      BY <3>1, <3>9, <3>10 DEF LoanBooks
    <3>12. result.reserve \in Nat /\ usdc' \in Nat /\ creditLineUsdc' \in Nat
      <4>1. result.reserve \in Nat
        BY <3>2 DEF SharedBy
      <4> QED
        BY <1>4, <1>6, <3>1, <4>1
    <3>13. Total(worths(n, after)) + result.reserve <= Total(worths(n, poolSlices)) + paid
      <4>1. /\ Total(worths(n, result.slices)) + result.interest + result.principal + result.reserve
                 <= Total(worths(n, base)) + paid
            /\ result.interest \in Nat /\ result.principal \in Nat
        BY <3>2 DEF SharedBy
      <4>2. \A w, i, p, r, v \in Nat : w + i + p + r <= v + paid => w + r <= v + paid
        BY <1>6
      <4>3. Total(worths(n, after)) + result.interest + result.principal + result.reserve
              <= Total(worths(n, poolSlices)) + paid
        BY <1>11, <3>6, <4>1
      <4> QED
        BY <3>7, <3>12, <4>1, <4>2, <4>3
    <3>14. Funded(n, poolSlices', m, tokens, usdc')
      <4>1. \A v, w, b, u, r, d, x, p \in Nat :
              w + b <= u + r + d /\ v + x <= w + p => v + b <= (u + p - x) + r + d
        OBVIOUS
      <4>2. Total(worths(n, after)) + Total(brought(m, tokens))
              <= (usdc + paid - result.reserve) + Total(redeemed(m, tokens))
                   + Total(deposits(n, poolSlices))
        BY <1>4, <1>6, <1>13, <3>7, <3>12, <3>13, <4>1
      <4>3. deposits(n, after) = deposits(n, poolSlices)
        BY <1>11, <3>4, <3>6
      <4> QED
        BY <3>1, <4>2, <4>3 DEF Funded
    <3>15. AllLocked(n, after)
      BY <1>11, <1>12, <3>4, <3>6 DEF SameCapitals
    <3> QED
      BY <3>1, <3>6, <3>9, <3>11, <3>12, <3>14, <3>15
  <2> QED
    BY <2>1, <2>2
<1>15. SlicesInOrder(n, poolSlices') /\ poolSlices' \in Seq(PoolSlice) /\ Len(poolSlices') = n
  <2>1. n \in Nat
    BY <1>1
  <2> QED
    BY <1>14, <2>1, AllLockedInOrder, SlicesAreSeq
<1>16. TypeOK'
  BY <1>3, <1>5, <1>14, <1>15 DEF PoolInv, TypeOK, n
<1>17. Len(tokens') = m /\ TokensInSlices(m, tokens', n)
  BY DEF PoolInv, n, m
<1>18. Funded(n, poolSlices', m, tokens', usdc')
  BY <1>14
<1> QED
  BY <1>14, <1>15, <1>16, <1>17, <1>18 DEF PoolInv

----------------------------------------------------------------------------
(* The steps.                                                              *)

\* An assessment with what is in the credit line keeps the books.
LEMMA AssessInv ==
  ASSUME PoolInv, Assess
  PROVE  PoolInv'
<1>1. /\ _Assess(creditLineUsdc, liquidated)
      /\ tokens' = tokens /\ time' = time /\ liquidated' = liquidated /\ fundableAt' = fundableAt
      /\ drawdownsPaused' = drawdownsPaused /\ paused' = paused
  BY DEF Assess, switches
<1>2. creditLineUsdc \in Nat /\ liquidated' \in LiquidationProcess
  BY <1>1 DEF PoolInv, TypeOK
<1> QED
  BY <1>1, <1>2, AssessmentInv

\* So does a payment.
LEMMA PayInv ==
  ASSUME PoolInv, NEW amount \in Nat, Pay(amount)
  PROVE  PoolInv'
<1>1. /\ _Assess(creditLineUsdc + amount, liquidated)
      /\ tokens' = tokens /\ time' = time /\ liquidated' = liquidated /\ fundableAt' = fundableAt
      /\ drawdownsPaused' = drawdownsPaused /\ paused' = paused
  BY DEF Pay, switches
<1>2. creditLineUsdc + amount \in Nat /\ liquidated' \in LiquidationProcess
  BY <1>1 DEF PoolInv, TypeOK
<1> QED
  BY <1>1, <1>2, AssessmentInv

\* So does the assessment that starts the liquidation.
LEMMA LiquidateInv ==
  ASSUME PoolInv, Liquidate
  PROVE  PoolInv'
<1>1. /\ _Assess(creditLineUsdc, "Starting")
      /\ tokens' = tokens /\ time' = time /\ liquidated' = "Processing"
      /\ fundableAt' = fundableAt
      /\ drawdownsPaused' = drawdownsPaused /\ paused' = paused
  BY DEF Liquidate
<1>2. creditLineUsdc \in Nat /\ liquidated' \in LiquidationProcess
  BY <1>1 DEF PoolInv, TypeOK, LiquidationProcess
<1> QED
  BY <1>1, <1>2, AssessmentInv

\* A step that leaves the slices and the money alone.
LEMMA SameSlicesInv ==
  ASSUME PoolInv, poolSlices' = poolSlices,
         creditLine' \in CreditLineState, creditLine'.balance = creditLine.balance,
         totalDeployed' = totalDeployed, usdc' = usdc, tokens' = tokens,
         time' \in Nat, time' >= 1, creditLineUsdc' = creditLineUsdc, liquidated' = liquidated,
         fundableAt' \in Nat, drawdownsPaused' \in BOOLEAN, paused' \in BOOLEAN
  PROVE  PoolInv'
<1>1. poolSlices' \in Slices(Len(poolSlices))
  BY PoolIs DEF PoolInv
<1>2. SlicesInOrder(Len(poolSlices), poolSlices')
  BY DEF PoolInv
<1>3. SameTotals(Len(poolSlices), poolSlices, poolSlices')
  BY DEF SameTotals
<1> QED
  BY <1>1, <1>2, <1>3, SameTotalsInv

\* The admin changes the terms of the loan, its limits or a switch.
NewTerms(cl, line) ==
  /\ line \in CreditLineState /\ line.balance = cl.balance
  /\ line.nextDueTime = cl.nextDueTime /\ line.interestAccruedAsOf = cl.interestAccruedAsOf
  /\ line.termEndTime = cl.termEndTime /\ line.lastFullPaymentTime = cl.lastFullPaymentTime
  /\ line.principalOwed = cl.principalOwed

\* A migration moves the accounting as it is.
LEMMA MigratedIs ==
  ASSUME TypeOK, NEW terms \in Terms, MigrateCreditLine(terms)
  PROVE  /\ NewTerms(creditLine, creditLine')
         /\ creditLine'.paymentPeriodInDays = terms.paymentPeriodInDays
         /\ creditLine'.termInDays = terms.termInDays
<1>1. creditLine \in CreditLineState
  BY DEF TypeOK
<1>2. /\ terms.maxLimit \in Nat /\ terms.interestApr \in Nat /\ terms.lateFeeApr \in Nat
      /\ terms.paymentPeriodInDays \in Nat \ {0} /\ terms.termInDays \in Nat \ {0}
      /\ terms.principalGracePeriodInDays \in Nat
  BY TermsAssumption DEF LoanTerms
<1>3. creditLine' = [creditLine EXCEPT
       !.maxLimit = terms.maxLimit, !.interestApr = terms.interestApr,
       !.paymentPeriodInDays = terms.paymentPeriodInDays, !.termInDays = terms.termInDays,
       !.lateFeeApr = terms.lateFeeApr,
       !.principalGracePeriodInDays = terms.principalGracePeriodInDays]
  BY DEF MigrateCreditLine
<1> QED
  BY <1>1, <1>2, <1>3 DEF CreditLineState, NewTerms

\* A limit changes nothing else.
LEMMA LimitedIs ==
  ASSUME TypeOK, NEW limit \in Nat, SetLimit(limit) \/ SetMaxLimit(limit)
  PROVE  /\ NewTerms(creditLine, creditLine')
         /\ creditLine'.paymentPeriodInDays = creditLine.paymentPeriodInDays
         /\ creditLine'.termInDays = creditLine.termInDays
<1>1. creditLine \in CreditLineState
  BY DEF TypeOK
<1>2. \/ creditLine' = [creditLine EXCEPT !.currentLimit = limit]
      \/ creditLine' = [creditLine EXCEPT !.maxLimit = limit]
  BY DEF SetLimit, SetMaxLimit
<1> QED
  BY <1>1, <1>2 DEF CreditLineState, NewTerms

\* The admin keeps the books.
LEMMA AdminInv ==
  ASSUME PoolInv, AdminStep
  PROVE  PoolInv'
<1>1. TypeOK /\ time \in Nat /\ time >= 1 /\ fundableAt \in Nat
      /\ drawdownsPaused \in BOOLEAN /\ paused \in BOOLEAN /\ creditLine \in CreditLineState
  BY DEF PoolInv, TypeOK
<1>2. ASSUME NEW terms \in Terms, MigrateCreditLine(terms) PROVE PoolInv'
  <2>1. NewTerms(creditLine, creditLine')
    BY <1>1, <1>2, MigratedIs
  <2> QED
    BY <1>1, <1>2, <2>1, SameSlicesInv DEF MigrateCreditLine, poolVars, switches, NewTerms
<1>3. ASSUME NEW limit \in Limits, SetLimit(limit) \/ SetMaxLimit(limit) PROVE PoolInv'
  <2>1. NewTerms(creditLine, creditLine')
    BY <1>1, <1>3, DepositAssumption, LimitedIs
  <2> QED
    BY <1>1, <1>3, <2>1, SameSlicesInv DEF SetLimit, SetMaxLimit, poolVars, switches, NewTerms
<1>4. ASSUME NEW pause \in BOOLEAN, SetDrawdownsPaused(pause) \/ SetPaused(pause) PROVE PoolInv'
  BY <1>1, <1>4, SameSlicesInv DEF SetDrawdownsPaused, SetPaused, poolVars
<1> QED
  BY <1>2, <1>3, <1>4 DEF AdminStep

\* The time from which deposits are taken is in no book.
LEMMA FundableInv ==
  ASSUME PoolInv, NEW t \in FundableTimes, SetFundableAt(t)
  PROVE  PoolInv'
<1>1. t \in Nat
  BY DepositAssumption
<1>2. time \in Nat /\ time >= 1 /\ drawdownsPaused \in BOOLEAN /\ paused \in BOOLEAN
      /\ creditLine \in CreditLineState
  BY DEF PoolInv, TypeOK
<1> QED
  BY <1>1, <1>2, SameSlicesInv DEF SetFundableAt, poolVars

\* Nor is the time of the block.
LEMMA TickInv ==
  ASSUME PoolInv, Tick
  PROVE  PoolInv'
<1>1. time \in Nat /\ time >= 1 /\ drawdownsPaused \in BOOLEAN /\ paused \in BOOLEAN
      /\ creditLine \in CreditLineState /\ fundableAt \in Nat
  BY DEF PoolInv, TypeOK
<1>2. time' \in Nat /\ time' >= 1
  BY <1>1 DEF Tick
<1> QED
  BY <1>1, <1>2, SameSlicesInv DEF Tick, poolVars, switches

\* A stuttering step keeps the books.
LEMMA UnchangedInv ==
  ASSUME PoolInv, UNCHANGED vars
  PROVE  PoolInv'
<1>1. time \in Nat /\ time >= 1 /\ drawdownsPaused \in BOOLEAN /\ paused \in BOOLEAN
      /\ creditLine \in CreditLineState /\ fundableAt \in Nat
  BY DEF PoolInv, TypeOK
<1> QED
  BY <1>1, SameSlicesInv DEF vars, poolVars, switches

\* The invariant is inductive: one case per action.
LEMMA NextInv ==
  ASSUME PoolInv, [Next]_vars
  PROVE  PoolInv'
<1>1. CASE DepositorStep
  <2>1. ASSUME NEW s \in DOMAIN poolSlices, NEW name \in TrancheNames,
               NEW amount \in JuniorDeposits \cup SeniorDeposits, Deposit(s, name, amount)
        PROVE  PoolInv'
    <3>1. amount \in Nat
      BY DepositAssumption
    <3> QED
      BY <2>1, <3>1, DepositInv
  <2>2. ASSUME NEW k \in DOMAIN tokens, NEW amount \in Withdrawals, Withdraw(k, amount)
        PROVE  PoolInv'
    <3>1. amount \in Int /\ _Withdraw(k, amount)
      BY <2>2, DepositAssumption DEF Withdraw
    <3> QED
      BY <3>1, WithdrawInv
  <2>3. ASSUME NEW k \in DOMAIN tokens, WithdrawMax(k) PROVE PoolInv'
    <3> DEFINE amount == interestRedeemable(tokens[k]) + principalRedeemable(tokens[k])
    <3>1. k \in 1..Len(tokens)
      BY PoolIs DEF PoolInv
    <3>2. amount \in Int
      BY <3>1, RedeemableType
    <3>3. _Withdraw(k, amount)
      BY <2>3 DEF WithdrawMax
    <3> HIDE DEF amount
    <3> QED
      BY <3>2, <3>3, WithdrawInv
  <2> QED
    BY <1>1, <2>1, <2>2, <2>3 DEF DepositorStep, TrancheNames
<1>2. CASE LockerStep
  <2>1. ASSUME NEW amount \in Drawdowns, Drawdown(amount) PROVE PoolInv'
    BY <2>1, DepositAssumption, DrawdownInv
  <2>2. ASSUME NEW t \in FundableTimes, InitializeNextSlice(t) PROVE PoolInv'
    BY <2>2, DepositAssumption, NextSliceInv
  <2> QED
    BY <1>2, <2>1, <2>2, LockJuniorInv, LockPoolInv, FundableInv DEF LockerStep
<1>3. CASE PaymentStep
  <2>1. ASSUME NEW amount \in Payments, Pay(amount) PROVE PoolInv'
    BY <2>1, DepositAssumption, PayInv
  <2> QED
    BY <1>3, <2>1, AssessInv, LiquidateInv DEF PaymentStep
<1> QED
  BY <1>1, <1>2, <1>3, AdminInv, TickInv, UnchangedInv DEF Next

----------------------------------------------------------------------------
(* The initial states.                                                     *)

\* A credit line without a loan.
LEMMA NewLineIs ==
  ASSUME NEW terms \in Terms
  PROVE  LET line == NewCreditLine(terms, 1)
         IN  /\ line \in CreditLineState /\ line.balance = 0
             /\ line.interestAccruedAsOf = 1 /\ line.nextDueTime = 0
             /\ line.paymentPeriodInDays = terms.paymentPeriodInDays
<1>1. /\ terms.maxLimit \in Nat /\ terms.interestApr \in Nat /\ terms.lateFeeApr \in Nat
      /\ terms.paymentPeriodInDays \in Nat \ {0} /\ terms.termInDays \in Nat \ {0}
      /\ terms.principalGracePeriodInDays \in Nat
  BY TermsAssumption DEF LoanTerms
<1> QED
  BY <1>1 DEF NewCreditLine, CreditLineState

\* No amounts add up to nothing.
LEMMA TotalOfNone ==
  ASSUME NEW f \in Amounts(0)
  PROVE  Total(f) = 0
<1>1. NatValued(f) /\ Total(f) = PrefixSum(f)[0]
  BY TotalIs
<1> QED
  BY <1>1, PrefixSumStep

\* The invariant holds initially: one empty slice, no loan, no tokens.
LEMMA InitInv == Init => PoolInv
<1> SUFFICES ASSUME Init PROVE PoolInv
  OBVIOUS
<1>1. /\ poolSlices = <<EmptySlice>> /\ totalDeployed = 0 /\ liquidated = "NotInProcess"
      /\ fundableAt \in Nat /\ drawdownsPaused = FALSE /\ paused = FALSE /\ time = 1
      /\ tokens = <<>> /\ usdc = 0 /\ creditLineUsdc = 0
  BY DepositAssumption DEF Init
<1>2. creditLine \in CreditLineState /\ creditLine.balance = 0
  <2>1. PICK terms \in Terms : creditLine = NewCreditLine(terms, 1)
    BY <1>1 DEF Init
  <2> QED
    BY <2>1, NewLineIs
<1>3. poolSlices \in Seq(PoolSlice) /\ Len(poolSlices) = 1 /\ poolSlices[1] = EmptySlice
  BY <1>1, EmptySliceIs
<1>4. poolSlices \in Slices(1)
  BY <1>3 DEF Slices
<1>5. tokens \in Seq(TokenInfo) /\ Len(tokens) = 0
  BY <1>1
<1>6. tokens \in Tokens(0)
  BY <1>5 DEF Tokens
<1>7. /\ Total(worths(1, poolSlices)) = 0 /\ Total(deposits(1, poolSlices)) = 0
      /\ Total(deployedIn(1, poolSlices)) = 0
  <2>1. /\ worths(1, poolSlices) \in Amounts(1) /\ deposits(1, poolSlices) \in Amounts(1)
        /\ deployedIn(1, poolSlices) \in Amounts(1)
    BY <1>4, SliceTotalsType
  <2>2. /\ worths(1, poolSlices)[1] = 0 /\ deposits(1, poolSlices)[1] = 0
        /\ deployedIn(1, poolSlices)[1] = 0
    BY <1>3, EmptySliceIs DEF worths, deposits, deployedIn
  <2> QED
    BY <2>1, <2>2, TotalOfOne
<1>8. Total(brought(0, tokens)) = 0 /\ Total(redeemed(0, tokens)) = 0
  <2>1. brought(0, tokens) \in Amounts(0) /\ redeemed(0, tokens) \in Amounts(0)
    BY <1>6, TokenTotalsType
  <2> QED
    BY <2>1, TotalOfNone
<1>9. SlicesInOrder(1, poolSlices)
  BY <1>3, EmptySliceIs DEF SlicesInOrder
<1>10. TokensInSlices(0, tokens, 1)
  BY DEF TokensInSlices
<1>11. LoanBooks(1, poolSlices, totalDeployed, creditLine.balance)
  BY <1>1, <1>2, <1>7 DEF LoanBooks
<1>12. Funded(1, poolSlices, 0, tokens, usdc)
  BY <1>1, <1>7, <1>8 DEF Funded
<1>13. TypeOK
  <2>1. Len(poolSlices) \in 1..MaxSlices
    BY <1>3, BoundAssumption
  <2>2. liquidated \in LiquidationProcess /\ drawdownsPaused \in BOOLEAN /\ paused \in BOOLEAN
    BY <1>1 DEF LiquidationProcess
  <2>3. totalDeployed \in Nat /\ usdc \in Nat /\ creditLineUsdc \in Nat /\ time \in Nat
    BY <1>1
  <2> QED
    BY <1>1, <1>2, <1>3, <1>5, <2>1, <2>2, <2>3 DEF TypeOK
<1> QED
  BY <1>1, <1>3, <1>5, <1>9, <1>10, <1>11, <1>12, <1>13 DEF PoolInv

----------------------------------------------------------------------------
(* When interest is charged.                                               *)

\* A loan is assessed for a time that has come.
LEMMA AssessedInTime ==
  ASSUME NEW cl \in CreditLineState, NEW now \in Nat,
         cl.nextDueTime <= now + secondsPerPeriod(cl)
  PROVE  timeToAssess(cl, now) <= now
<1> DEFINE next == calculateNextDueTime(cl, now)
           p == secondsPerPeriod(cl)
<1>1. next \in Nat /\ p \in Nat /\ next <= now + p
  BY NextDueTimeIs, LineType
<1>2. timeToAssess(cl, now) = IF next > now THEN next - p ELSE next
  BY DEF timeToAssess
<1> HIDE DEF next, p
<1> QED
  BY <1>1, <1>2

\* How a step moves the times of the credit line.
TimesMove(cl, line, now) ==
  /\ line.paymentPeriodInDays = cl.paymentPeriodInDays
  /\ \/ line.nextDueTime \in {0, cl.nextDueTime}
     \/ line.nextDueTime <= now + secondsPerPeriod(cl)
  /\ line.interestAccruedAsOf \in {cl.interestAccruedAsOf, timeToAssess(cl, now), now}
  /\ \/ line.interestAccruedAsOf >= cl.interestAccruedAsOf
     \/ cl.balance = 0 /\ line.interestAccruedAsOf = now

\* The outcome of an assessment.
LEMMA AssessmentMoves ==
  ASSUME PoolInv, NEW available \in Nat, NEW status, _Assess(available, status)
  PROVE  /\ TimesMove(creditLine, creditLine', time)
         /\ creditLine'.interestOwed = 0 /\ time <= creditLine.termEndTime
            => ~ _isLate(creditLine', time)
<1> DEFINE o == outcomeOf(available, status)
<1>1. o.defined /\ creditLine' = o.line
  BY DEF _Assess, settle, accepted
<1>2. creditLine \in CreditLineState /\ time \in Nat /\ time > 0
  BY DEF PoolInv, TypeOK
<1>3. /\ \E timestamp \in {creditLine.interestAccruedAsOf, timeToAssess(creditLine, time)} :
           Assessed(creditLine, available, timestamp, time, o)
      /\ time > 0 /\ o.line.interestOwed = 0 /\ time <= creditLine.termEndTime
         => ~ _isLate(o.line, time)
  BY <1>1, <1>2, AssessIs DEF outcomeOf
<1> HIDE DEF o
<1>4. TimesMove(creditLine, o.line, time)
  BY <1>3 DEF Assessed, TimesMove
<1> QED
  BY <1>1, <1>2, <1>3, <1>4

\* Every payment step is an assessment.
LEMMA PaymentMoves ==
  ASSUME PoolInv, PaymentStep
  PROVE  /\ TimesMove(creditLine, creditLine', time) /\ time' = time
         /\ creditLine'.interestOwed = 0 /\ time <= creditLine.termEndTime
            => ~ _isLate(creditLine', time)
<1>1. creditLineUsdc \in Nat /\ \A amount \in Payments : creditLineUsdc + amount \in Nat
  BY DepositAssumption DEF PoolInv, TypeOK
<1>2. CASE Assess
  BY <1>1, <1>2, AssessmentMoves DEF Assess
<1>3. ASSUME NEW amount \in Payments, Pay(amount)
      PROVE  /\ TimesMove(creditLine, creditLine', time) /\ time' = time
             /\ creditLine'.interestOwed = 0 /\ time <= creditLine.termEndTime
                => ~ _isLate(creditLine', time)
  BY <1>1, <1>3, AssessmentMoves DEF Pay
<1>4. CASE Liquidate
  BY <1>1, <1>4, AssessmentMoves DEF Liquidate
<1> QED
  BY <1>2, <1>3, <1>4 DEF PaymentStep

\* A drawdown charges interest up to its own time, or starts a loan.
LEMMA DrawdownMoves ==
  ASSUME PoolInv, NEW amount \in Nat, Drawdown(amount)
  PROVE  TimesMove(creditLine, creditLine', time) /\ time' = time
<1> DEFINE line == IF locked THEN creditLine ELSE raisedCreditLine
<1>1. canDrawdown(line, amount, time) /\ creditLine' = drawnDown(line, amount, time)
      /\ time' = time
  BY DEF Drawdown
<1>2. time \in Nat /\ TypeOK
  BY DEF PoolInv, TypeOK
<1>3. /\ line \in CreditLineState /\ line.balance = creditLine.balance
      /\ line.paymentPeriodInDays = creditLine.paymentPeriodInDays
      /\ line.nextDueTime = creditLine.nextDueTime
      /\ line.interestAccruedAsOf = creditLine.interestAccruedAsOf
  <2>1. CASE locked
    BY <1>2, <2>1 DEF TypeOK
  <2>2. CASE ~ locked
    BY <1>2, <2>2, RaisedIs
  <2> QED
    BY <2>1, <2>2
<1> HIDE DEF line
<1>4. secondsPerPeriod(line) = secondsPerPeriod(creditLine)
  BY <1>3 DEF secondsPerPeriod
<1>5. LET after == drawnDown(line, amount, time)
      IN  /\ after.paymentPeriodInDays = line.paymentPeriodInDays
          /\ \/ after.nextDueTime \in {0, line.nextDueTime}
             \/ after.nextDueTime <= time + secondsPerPeriod(line)
          /\ after.interestAccruedAsOf \in {line.interestAccruedAsOf, time}
          /\ \/ after.interestAccruedAsOf >= line.interestAccruedAsOf
             \/ line.balance = 0 /\ after.interestAccruedAsOf = time
  BY <1>1, <1>2, <1>3, DrawnDownIs
<1> QED
  BY <1>1, <1>3, <1>4, <1>5 DEF TimesMove

\* The other steps leave the times of the credit line alone.
LEMMA OtherMoves ==
  ASSUME PoolInv, [Next]_vars, ~ PaymentStep, ~ (\E amount \in Drawdowns : Drawdown(amount))
  PROVE  /\ creditLine'.nextDueTime = creditLine.nextDueTime
         /\ creditLine'.interestAccruedAsOf = creditLine.interestAccruedAsOf
         /\ creditLine'.termEndTime = creditLine.termEndTime
         /\ creditLine'.lastFullPaymentTime = creditLine.lastFullPaymentTime
         /\ creditLine'.balance = creditLine.balance
         /\ creditLine'.principalOwed = creditLine.principalOwed
         /\ time' \in {time, time + 1}
         /\ \/ /\ creditLine'.paymentPeriodInDays = creditLine.paymentPeriodInDays
               /\ creditLine'.termInDays = creditLine.termInDays
            \/ \E terms \in Terms :
                 /\ creditLine'.paymentPeriodInDays = terms.paymentPeriodInDays
                 /\ creditLine'.termInDays = terms.termInDays
<1>1. TypeOK
  BY DEF PoolInv
<1>2. ASSUME NEW terms \in Terms, MigrateCreditLine(terms)
      PROVE  /\ NewTerms(creditLine, creditLine') /\ time' = time
             /\ creditLine'.paymentPeriodInDays = terms.paymentPeriodInDays
             /\ creditLine'.termInDays = terms.termInDays
  BY <1>1, <1>2, MigratedIs DEF MigrateCreditLine
<1>3. ASSUME NEW limit \in Limits, SetLimit(limit) \/ SetMaxLimit(limit)
      PROVE  /\ NewTerms(creditLine, creditLine') /\ time' = time
             /\ creditLine'.paymentPeriodInDays = creditLine.paymentPeriodInDays
             /\ creditLine'.termInDays = creditLine.termInDays
  BY <1>1, <1>3, LimitedIs, DepositAssumption DEF SetLimit, SetMaxLimit
<1>4. ASSUME NEW pause, SetDrawdownsPaused(pause) \/ SetPaused(pause)
      PROVE  creditLine' = creditLine /\ time' = time
  BY <1>4 DEF SetDrawdownsPaused, SetPaused
<1>5. CASE AdminStep
  BY <1>2, <1>3, <1>4, <1>5 DEF AdminStep, NewTerms
<1>6. CASE LockPool
  BY <1>1, <1>6, RaisedIs DEF LockPool
<1>7. CASE LockerStep
  <2>1. CASE LockJuniorCapital
    BY <2>1 DEF LockJuniorCapital
  <2>2. ASSUME NEW t, SetFundableAt(t) \/ InitializeNextSlice(t)
        PROVE  creditLine' = creditLine /\ time' = time
    BY <2>2 DEF SetFundableAt, InitializeNextSlice
  <2> QED
    BY <1>6, <1>7, <2>1, <2>2 DEF LockerStep
<1>8. CASE DepositorStep
  <2>1. ASSUME NEW s, NEW name, NEW amount, Deposit(s, name, amount)
        PROVE  creditLine' = creditLine /\ time' = time
    BY <2>1 DEF Deposit
  <2>2. ASSUME NEW k, NEW amount, _Withdraw(k, amount)
        PROVE  creditLine' = creditLine /\ time' = time
    BY <2>2 DEF _Withdraw
  <2> QED
    BY <1>8, <2>1, <2>2 DEF DepositorStep, Withdraw, WithdrawMax
<1>9. CASE Tick
  BY <1>9 DEF Tick
<1>10. CASE UNCHANGED vars
  BY <1>10 DEF vars
<1> QED
  BY <1>5, <1>7, <1>8, <1>9, <1>10 DEF Next

\* In order, the due time is at most a period ahead.
LEMMA DueWithinAPeriod ==
  ASSUME NEW cl \in CreditLineState, NEW now \in Nat, LoanInOrder(cl, now)
  PROVE  cl.nextDueTime <= now + secondsPerPeriod(cl)
<1>1. cl.balance \in Nat /\ secondsPerPeriod(cl) \in Nat
  BY LineType
<1> QED
  BY <1>1 DEF LoanInOrder, InOrder

\* A payment or a drawdown moves no charge ahead of time.
LEMMA MovesInTime ==
  ASSUME PoolInv, TimesInOrder, TimesMove(creditLine, creditLine', time)
  PROVE  creditLine'.interestAccruedAsOf <= time
<1>1. creditLine \in CreditLineState /\ time \in Nat
  BY DEF PoolInv, TypeOK
<1>2. timeToAssess(creditLine, time) <= time
  BY <1>1, AssessedInTime, DueWithinAPeriod DEF TimesInOrder
<1> QED
  BY <1>1, <1>2, LineType DEF TimesMove, TimesInOrder

\* While the borrower owes something, no time is charged twice.
LEMMA ChargesGoOn ==
  ASSUME PoolInv, [Next]_vars
  PROVE  \/ creditLine'.interestAccruedAsOf >= creditLine.interestAccruedAsOf
         \/ creditLine.balance = 0 /\ creditLine'.interestAccruedAsOf = time
<1>1. creditLine.interestAccruedAsOf \in Nat
  BY LineType DEF PoolInv, TypeOK
<1>2. CASE PaymentStep
  BY <1>2, PaymentMoves DEF TimesMove
<1>3. ASSUME NEW amount \in Drawdowns, Drawdown(amount)
      PROVE  \/ creditLine'.interestAccruedAsOf >= creditLine.interestAccruedAsOf
             \/ creditLine.balance = 0 /\ creditLine'.interestAccruedAsOf = time
  BY <1>3, DepositAssumption, DrawdownMoves DEF TimesMove
<1>4. CASE ~ PaymentStep /\ ~ (\E amount \in Drawdowns : Drawdown(amount))
  BY <1>1, <1>4, OtherMoves
<1> QED
  BY <1>2, <1>3, <1>4

----------------------------------------------------------------------------
(* The due times of a loan.                                                *)

\* A due time moves on by periods, no further than the end of the term.
MovedOn(p, due, end, now, next) ==
  \/ now < due /\ next = due
  \/ now >= due /\ \E n \in Nat : /\ due + p <= n /\ now < n /\ n <= now + p
                                  /\ next = AtMostOf(n, end)

\* The due time of a loan moves on, the one of a new loan is a period ahead.
LEMMA NextDueTimeMoves ==
  ASSUME NEW cl \in CreditLineState, NEW now \in Nat
  PROVE  LET next == calculateNextDueTime(cl, now)
         IN  /\ cl.balance = 0 => next = 0
             /\ cl.balance > 0 /\ cl.nextDueTime = 0 => next = now + secondsPerPeriod(cl)
             /\ cl.balance > 0 /\ cl.nextDueTime # 0
                => MovedOn(secondsPerPeriod(cl), cl.nextDueTime, cl.termEndTime, now, next)
<1> DEFINE p == secondsPerPeriod(cl)
           due == cl.nextDueTime
           k == (now - due) \div p
           n == due + (k + 1) * p
           next == calculateNextDueTime(cl, now)
<1>1. cl.balance \in Nat /\ due \in Nat /\ cl.termEndTime \in Nat /\ p \in Nat \ {0}
  BY LineType
<1>2. cl.balance = 0 => next = 0
  BY DEF calculateNextDueTime
<1>3. cl.balance > 0 /\ due = 0 => next = now + p
  BY <1>1 DEF calculateNextDueTime
<1>4. ASSUME cl.balance > 0, due # 0
      PROVE  MovedOn(p, due, cl.termEndTime, now, next)
  <2>1. CASE now < due
    <3>1. next = due
      BY <1>1, <1>4, <2>1 DEF calculateNextDueTime
    <3> QED
      BY <2>1, <3>1 DEF MovedOn
  <2>2. CASE ~ (now < due)
    <3>1. next = AtMostOf(n, cl.termEndTime)
      BY <1>1, <1>4, <2>2 DEF calculateNextDueTime
    <3>2. now - due \in Nat
      BY <1>1, <2>2
    <3>3. IsFloor(k, now - due, p)
      <4> HIDE DEF p, due
      <4> QED
        BY <1>1, <3>2, QuotientIsFloor
    <3>4. k \in Nat /\ k * p <= now - due /\ now - due < k * p + p
      BY <3>3 DEF IsFloor
    <3> HIDE DEF k, next, p, due
    <3>5. (k + 1) * p = k * p + p /\ k * p \in Nat
      BY <1>1, <3>4, TimesType
    <3>6. n \in Nat /\ due + p <= n /\ now < n /\ n <= now + p
      BY <1>1, <3>2, <3>4, <3>5
    <3> HIDE DEF n
    <3> QED
      BY <1>1, <2>2, <3>1, <3>6 DEF MovedOn
  <2> QED
    BY <2>1, <2>2
<1> QED
  BY <1>2, <1>3, <1>4

\* A due time that moves on stays in order: after a payment that was late (last),
\* after one in full at the new due time, and after a drawdown; it moves once.
LEMMA MovesInOrder ==
  ASSUME NEW p \in Nat \ {0}, NEW due \in Nat, NEW end \in Nat, NEW last \in Nat, NEW now \in Nat,
         InOrder(p, due, end, last, now), NEW next, MovedOn(p, due, end, now, next)
  PROVE  /\ next \in Nat \ {0} /\ (next > now \/ next = end)
         /\ InOrder(p, next, end, last, now)
         /\ InOrder(p, next, end, IF now < next THEN next - p ELSE next, now)
         /\ InOrder(p, next, end, IF now < due THEN due - p ELSE due, now)
         /\ \A again : MovedOn(p, next, end, now, again) => again = next
         /\ LET timestamp == IF next > now THEN next - p ELSE next
            IN  /\ timestamp \in Nat
                /\ (now < due => now - last > p) => last <= timestamp
<1>1. p \in Nat /\ p > 0 /\ due > 0
  BY DEF InOrder
<1>2. CASE now < due
  <2>1. next = due
    BY <1>2 DEF MovedOn
  <2> QED
    BY <1>1, <1>2, <2>1 DEF InOrder, MovedOn
<1>3. CASE now >= due
  <2>1. PICK n \in Nat : /\ due + p <= n /\ now < n /\ n <= now + p
                         /\ next = AtMostOf(n, end)
    BY <1>3 DEF MovedOn
  <2>2. CASE n < end
    <3>1. next = n
      BY <2>1, <2>2 DEF AtMostOf
    <3> QED
      BY <1>1, <1>3, <2>1, <2>2, <3>1 DEF InOrder, MovedOn
  <2>3. CASE n >= end
    <3>1. next = end
      BY <2>1, <2>3 DEF AtMostOf
    <3>2. \A again : MovedOn(p, next, end, now, again) => again = next
      BY <3>1 DEF MovedOn, AtMostOf
    <3> QED
      BY <1>1, <1>3, <2>1, <2>3, <3>1, <3>2 DEF InOrder
  <2> QED
    BY <2>1, <2>2, <2>3
<1> QED
  BY <1>2, <1>3

\* The accounting after a drawdown or a payment, of a line with its new balance.
LEMMA AccountedInOrder ==
  ASSUME NEW cl \in CreditLineState, NEW now \in Nat,
         cl.paymentPeriodInDays <= cl.termInDays,
         cl.nextDueTime # 0 =>
           LET p == secondsPerPeriod(cl)
               next == calculateNextDueTime(cl, now)
           IN  /\ p <= cl.nextDueTime
               /\ cl.balance > 0
                  => /\ InOrder(p, next, cl.termEndTime, cl.lastFullPaymentTime, now)
                     /\ InOrder(p, next, cl.termEndTime, mostRecentLastDueTime(cl, now), now),
         cl.nextDueTime = 0 =>
           cl.lastFullPaymentTime = now
             /\ cl.termEndTime = now + termInSeconds(cl)
  PROVE  LET line == updateCreditLineAccounting(cl, now)
         IN  line.lastFullPaymentTime >= 0 /\ LoanInOrder(line, now)
<1> DEFINE line == updateCreditLineAccounting(cl, now)
           p == secondsPerPeriod(cl)
           next == calculateNextDueTime(cl, now)
           last == IF cl.interestOwed = 0 /\ cl.nextDueTime # 0
                   THEN mostRecentLastDueTime(cl, now) ELSE cl.lastFullPaymentTime
<1>1. /\ cl.balance \in Nat /\ cl.nextDueTime \in Nat /\ cl.termEndTime \in Nat /\ p \in Nat \ {0}
      /\ cl.lastFullPaymentTime \in Nat /\ termInSeconds(cl) \in Nat
  BY LineType
<1>2. line.lastFullPaymentTime = last
  BY DEF updateCreditLineAccounting, CreditLineState
<1>3. last >= 0
  <2>1. cl.nextDueTime # 0 => mostRecentLastDueTime(cl, now) >= 0
    BY <1>1 DEF mostRecentLastDueTime
  <2> QED
    BY <1>1, <2>1
<1>4. line.lastFullPaymentTime >= 0
  BY <1>2, <1>3
<1>5. /\ line.nextDueTime = next /\ line.balance = cl.balance
      /\ line.paymentPeriodInDays = cl.paymentPeriodInDays /\ line.termInDays = cl.termInDays
      /\ line.termEndTime = cl.termEndTime
  BY <1>4, AccountedIs DEF SameLoan
<1>6. secondsPerPeriod(line) = p
  BY <1>5 DEF secondsPerPeriod
<1>7. cl.balance = 0 => next = 0
  BY NextDueTimeMoves
<1>8. cl.balance > 0 => InOrder(p, next, cl.termEndTime, last, now)
  <2>1. ASSUME cl.balance > 0, cl.nextDueTime = 0
        PROVE  InOrder(p, next, cl.termEndTime, last, now)
    <3>1. next = now + p /\ last = now
      BY <2>1, NextDueTimeMoves
    <3>2. p <= termInSeconds(cl)
      <4>1. cl.paymentPeriodInDays \in Nat /\ cl.termInDays \in Nat /\ SECONDS_PER_DAY \in Nat
        BY LineType, CalendarAssumption
      <4> QED
        BY <4>1, TimesMonotone DEF secondsPerPeriod, termInSeconds
    <3> HIDE DEF p, next, last
    <3> QED
      BY <1>1, <2>1, <3>1, <3>2 DEF InOrder
  <2>2. ASSUME cl.balance > 0, cl.nextDueTime # 0
        PROVE  InOrder(p, next, cl.termEndTime, last, now)
    BY <2>2
  <2> QED
    BY <1>1, <2>1, <2>2
<1> HIDE DEF line, next, last, p
<1>9. LoanInOrder(line, now)
  BY <1>2, <1>5, <1>6, <1>7, <1>8 DEF LoanInOrder
<1> QED
  BY <1>4, <1>9 DEF line

\* The principal payment is within what is owed.
LEMMA PrincipalPaymentWithin ==
  ASSUME NEW amount, NEW balance, NEW interestOwed, NEW principalOwed \in Nat, NEW status
  PROVE  allocatePayment(amount, balance, interestOwed, principalOwed, status).principalPayment
           <= principalOwed
<1> DEFINE q == allocatePayment(amount, balance, interestOwed, principalOwed, status).principalPayment
<1>1. \E x : q = AtMostOf(principalOwed, x)
  BY DEF allocatePayment
<1> HIDE DEF q
<1>2. q <= principalOwed
  BY <1>1 DEF AtMostOf
<1> QED
  BY <1>2 DEF q

\* A payment that can be made keeps the times in order.
LEMMA PaymentInOrder ==
  ASSUME NEW owed \in CreditLineState, NEW amount \in Nat, NEW status, NEW now \in Nat,
         owed.balance > 0, owed.paymentPeriodInDays <= owed.termInDays,
         owed.nextDueTime # 0,
         InOrder(secondsPerPeriod(owed), owed.nextDueTime, owed.termEndTime,
                 owed.lastFullPaymentTime, now),
         InOrder(secondsPerPeriod(owed), owed.nextDueTime, owed.termEndTime,
                 mostRecentLastDueTime(owed, now), now),
         \A again : MovedOn(secondsPerPeriod(owed), owed.nextDueTime, owed.termEndTime, now, again)
                    => again = owed.nextDueTime,
         allocatePayment(amount, owed.balance, owed.interestOwed, owed.principalOwed, status)
           .principalPayment <= owed.balance
  PROVE  LET line == paidOff(owed, allocatePayment(amount, owed.balance, owed.interestOwed,
                                                   owed.principalOwed, status), now)
         IN  line.lastFullPaymentTime >= 0 /\ LoanInOrder(line, now)
<1> DEFINE pa == allocatePayment(amount, owed.balance, owed.interestOwed, owed.principalOwed, status)
           i == pa.interestPayment
           q == pa.principalPayment
           b == pa.additionalBalancePayment
           paid == [owed EXCEPT !.balance       = @ - q - b,
                                !.interestOwed  = @ - i,
                                !.principalOwed = @ - q]
           line == updateCreditLineAccounting(paid, now)
           p == secondsPerPeriod(owed)
           due == owed.nextDueTime
<1>1. paidOff(owed, pa, now) = line
  BY DEF paidOff
<1>2. owed.balance \in Nat /\ owed.interestOwed \in Nat /\ owed.principalOwed \in Nat
  BY LineType
<1>3. /\ i \in 0..owed.interestOwed /\ q \in 0..owed.principalOwed /\ b \in Nat
      /\ q + b <= owed.balance
  BY <1>2, AllocatedIs
<1> HIDE DEF i, q, b
<1>4. /\ owed.balance - q - b \in Nat /\ owed.interestOwed - i \in Nat
      /\ owed.principalOwed - q \in Nat
  BY <1>2, <1>3
<1>5. paid \in CreditLineState
  BY <1>4 DEF CreditLineState
<1>6. /\ paid.nextDueTime = due /\ paid.termEndTime = owed.termEndTime
      /\ paid.paymentPeriodInDays = owed.paymentPeriodInDays
      /\ paid.termInDays = owed.termInDays
      /\ paid.lastFullPaymentTime = owed.lastFullPaymentTime
  BY DEF CreditLineState
<1> HIDE DEF paid
<1>7. secondsPerPeriod(paid) = p /\ mostRecentLastDueTime(paid, now) = mostRecentLastDueTime(owed, now)
  BY <1>6 DEF secondsPerPeriod, mostRecentLastDueTime
<1>8. p <= due
  BY DEF InOrder
<1>9. paid.balance > 0 => calculateNextDueTime(paid, now) = due
  BY <1>5, <1>6, <1>7, NextDueTimeMoves
<1>10. /\ paid.paymentPeriodInDays <= paid.termInDays
       /\ paid.nextDueTime # 0
       /\ secondsPerPeriod(paid) <= paid.nextDueTime
       /\ paid.balance > 0
          => /\ InOrder(secondsPerPeriod(paid), calculateNextDueTime(paid, now), paid.termEndTime,
                        paid.lastFullPaymentTime, now)
             /\ InOrder(secondsPerPeriod(paid), calculateNextDueTime(paid, now), paid.termEndTime,
                        mostRecentLastDueTime(paid, now), now)
  BY <1>6, <1>7, <1>8, <1>9
<1>11. line.lastFullPaymentTime >= 0 /\ LoanInOrder(line, now)
  BY <1>5, <1>10, AccountedInOrder
<1> QED
  BY <1>1, <1>11

\* An assessment is possible unless principal falls due twice, and keeps the times
\* in order.
LEMMA AssessInOrder ==
  ASSUME NEW cl \in CreditLineState, NEW available \in Nat, NEW now \in Nat, NEW status,
         cl.balance > 0, LoanInOrder(cl, now)
  PROVE  LET o == assess(cl, available, now, status)
         IN  /\ cl.principalOwed + calculatePrincipalAccrued(cl, timeToAssess(cl, now), status)
                  <= cl.balance
                => o.defined
             /\ o.defined => LoanInOrder(o.line, now)
<1> DEFINE o == assess(cl, available, now, status)
           next == calculateNextDueTime(cl, now)
           due == [cl EXCEPT !.nextDueTime = next]
           timestamp == timeToAssess(cl, now)
           owed == updateOwedAsOf(due, timestamp, status)
           pa == allocatePayment(available, due.balance, owed.interestOwed, owed.principalOwed, status)
           line == paidOff(owed, pa, now)
           p == secondsPerPeriod(cl)
           last == cl.lastFullPaymentTime
<1>1. /\ cl.balance \in Nat /\ cl.nextDueTime \in Nat /\ cl.termEndTime \in Nat
      /\ p \in Nat \ {0} /\ last \in Nat /\ cl.principalOwed \in Nat
  BY LineType
<1>2. /\ InOrder(p, cl.nextDueTime, cl.termEndTime, last, now)
      /\ cl.paymentPeriodInDays <= cl.termInDays
  BY DEF LoanInOrder
<1>3. cl.nextDueTime # 0 /\ last <= now
  BY <1>1, <1>2 DEF InOrder
<1>4. CASE notAssessedEarly(cl, now)
  <2>1. o.line = cl /\ o.defined
    BY <1>3, <1>4 DEF assess, LatenessIsDefined
  <2> QED
    BY <2>1
<1>5. CASE ~ notAssessedEarly(cl, now)
  <2>1. MovedOn(p, cl.nextDueTime, cl.termEndTime, now, next)
    BY <1>3, NextDueTimeMoves
  <2>2. timestamp = IF next > now THEN next - p ELSE next
    BY DEF timeToAssess
  <2>3. now < cl.nextDueTime => now - last > p
    BY <1>5 DEF notAssessedEarly, _isLate
  <2> HIDE DEF p, last, next, timestamp
  <2>4. /\ next \in Nat \ {0}
        /\ InOrder(p, next, cl.termEndTime, last, now)
        /\ InOrder(p, next, cl.termEndTime, IF now < next THEN next - p ELSE next, now)
        /\ \A again : MovedOn(p, next, cl.termEndTime, now, again) => again = next
        /\ timestamp \in Nat /\ last <= timestamp
    <3>1. next \in Nat \ {0} /\ InOrder(p, next, cl.termEndTime, last, now)
      BY <1>1, <1>2, <2>1, MovesInOrder
    <3>2. InOrder(p, next, cl.termEndTime, IF now < next THEN next - p ELSE next, now)
      BY <1>1, <1>2, <2>1, MovesInOrder
    <3>3. \A again : MovedOn(p, next, cl.termEndTime, now, again) => again = next
      BY <1>1, <1>2, <2>1, MovesInOrder
    <3>4. timestamp \in Nat /\ last <= timestamp
      BY <1>1, <1>2, <2>1, <2>2, <2>3, MovesInOrder
    <3> QED
      BY <3>1, <3>2, <3>3, <3>4
  <2>5. due \in CreditLineState
    BY <2>4 DEF CreditLineState
  <2>6. /\ due.balance = cl.balance /\ due.paymentPeriodInDays = cl.paymentPeriodInDays
        /\ due.termInDays = cl.termInDays /\ due.principalOwed = cl.principalOwed
        /\ due.termEndTime = cl.termEndTime /\ due.nextDueTime = next
        /\ due.lastFullPaymentTime = last
        /\ due.interestAccruedAsOf = cl.interestAccruedAsOf
    BY DEF CreditLineState, last
  <2> HIDE DEF due
  <2>7. /\ owed \in CreditLineState /\ SameLoan(due, owed)
        /\ owed.nextDueTime = due.nextDueTime
        /\ owed.lastFullPaymentTime = due.lastFullPaymentTime
    BY <2>4, <2>5, OwedIs
  <2>8. owed.principalOwed = due.principalOwed + calculatePrincipalAccrued(due, timestamp, status)
    BY <2>5 DEF updateOwedAsOf, withAccrual, CreditLineState
  <2>9. calculatePrincipalAccrued(due, timestamp, status)
          = calculatePrincipalAccrued(cl, timestamp, status)
    BY <2>6 DEF calculatePrincipalAccrued
  <2> HIDE DEF owed
  <2>10. /\ owed.balance = cl.balance /\ owed.paymentPeriodInDays = cl.paymentPeriodInDays
         /\ owed.termInDays = cl.termInDays /\ owed.termEndTime = cl.termEndTime
         /\ owed.nextDueTime = next /\ owed.lastFullPaymentTime = last
    BY <2>6, <2>7 DEF SameLoan
  <2>11. /\ secondsPerPeriod(owed) = p
         /\ mostRecentLastDueTime(owed, now) = IF now < next THEN next - p ELSE next
    BY <2>10 DEF secondsPerPeriod, mostRecentLastDueTime, p
  <2>12. /\ owed.balance > 0 /\ owed.paymentPeriodInDays <= owed.termInDays
         /\ owed.nextDueTime # 0
         /\ InOrder(secondsPerPeriod(owed), owed.nextDueTime, owed.termEndTime,
                    owed.lastFullPaymentTime, now)
         /\ InOrder(secondsPerPeriod(owed), owed.nextDueTime, owed.termEndTime,
                    mostRecentLastDueTime(owed, now), now)
         /\ \A again : MovedOn(secondsPerPeriod(owed), owed.nextDueTime, owed.termEndTime, now, again)
                       => again = owed.nextDueTime
    BY <1>2, <2>4, <2>10, <2>11
  <2>13. pa = allocatePayment(available, owed.balance, owed.interestOwed, owed.principalOwed, status)
    BY <2>6, <2>10
  <2> HIDE DEF pa
  <2>14. ASSUME pa.principalPayment <= owed.balance
         PROVE  line.lastFullPaymentTime >= 0 /\ LoanInOrder(line, now)
    BY <2>7, <2>12, <2>13, <2>14, PaymentInOrder
  <2> HIDE DEF line
  <2>15. /\ o.line = line
         /\ o.defined <=> /\ timestamp >= 0 /\ AccrualIsDefined(due, timestamp, status)
                          /\ pa.principalPayment <= due.balance
                          /\ line.lastFullPaymentTime >= 0
                          /\ cl.balance > 0
                          /\ now < cl.nextDueTime => LatenessIsDefined(cl, now)
    BY <1>5 DEF assess, handlePayment, outcomeOfPayment, line, pa, owed, due, next, timestamp
  <2>16. ASSUME o.defined PROVE LoanInOrder(o.line, now)
    BY <2>6, <2>10, <2>14, <2>15, <2>16
  <2>17. ASSUME cl.principalOwed + calculatePrincipalAccrued(cl, timestamp, status) <= cl.balance
         PROVE  o.defined
    <3>1. AccrualIsDefined(due, timestamp, status) /\ LatenessIsDefined(cl, now)
      BY <1>3, <2>4, <2>6 DEF AccrualIsDefined, LatenessIsDefined, last
    <3>2. owed.principalOwed <= owed.balance
      BY <2>6, <2>8, <2>9, <2>10, <2>17
    <3>3. owed.principalOwed \in Nat /\ owed.balance \in Nat
      BY <2>7, LineType
    <3>4. pa.principalPayment <= owed.principalOwed
      BY <2>13, <3>3, PrincipalPaymentWithin
    <3>5. pa.principalPayment <= owed.balance
      <4>1. pa.principalPayment \in Int
        BY <2>7, <2>13, LineType DEF allocatePayment, AtMostOf
      <4> QED
        BY <3>2, <3>3, <3>4, <4>1
    <3>6. timestamp >= 0
      BY <2>4
    <3> QED
      BY <2>6, <2>10, <2>14, <2>15, <3>1, <3>5, <3>6
  <2> QED
    BY <2>16, <2>17 DEF timestamp
<1> QED
  BY <1>4, <1>5

\* A drawdown keeps the times in order, or starts them.
LEMMA DrawdownInOrder ==
  ASSUME NEW cl \in CreditLineState, NEW amount \in Nat, NEW now \in Nat, LoanInOrder(cl, now)
  PROVE  LoanInOrder(drawnDown(cl, amount, now), now)
<1> DEFINE begun == started(cl, now)
           owed == updateOwedAsOf(begun, now, "NotInProcess")
           paid == [owed EXCEPT !.balance = @ + amount]
           line == updateCreditLineAccounting(paid, now)
           p == secondsPerPeriod(cl)
           due == cl.nextDueTime
           next == calculateNextDueTime(paid, now)
<1>1. drawnDown(cl, amount, now) = line
  BY DEF drawnDown
<1>2. /\ cl.balance \in Nat /\ due \in Nat /\ cl.termEndTime \in Nat
      /\ p \in Nat \ {0} /\ cl.lastFullPaymentTime \in Nat
      /\ now + termInSeconds(cl) \in Nat
  BY LineType
<1>3. /\ begun \in CreditLineState
      /\ begun.paymentPeriodInDays = cl.paymentPeriodInDays /\ begun.termInDays = cl.termInDays
      /\ begun.nextDueTime = due
      /\ cl.balance > 0 => /\ begun.lastFullPaymentTime = cl.lastFullPaymentTime
                           /\ begun.termEndTime = cl.termEndTime
      /\ cl.balance = 0 => /\ begun.lastFullPaymentTime = now
                           /\ begun.termEndTime = now + termInSeconds(cl)
  <2>1. CASE cl.balance > 0
    BY <1>2, <2>1 DEF started
  <2>2. CASE cl.balance = 0
    <3>1. begun = [cl EXCEPT !.interestAccruedAsOf = now, !.lastFullPaymentTime = now,
                  !.totalInterestAccrued = 0, !.termEndTime = now + termInSeconds(cl)]
      BY <1>2, <2>2 DEF started
    <3> HIDE DEF begun
    <3>2. begun \in CreditLineState
      BY <1>2, <3>1 DEF CreditLineState
    <3> QED
      BY <1>2, <2>2, <3>1, <3>2 DEF CreditLineState
  <2> QED
    BY <1>2, <2>1, <2>2
<1> HIDE DEF begun
<1>4. /\ owed \in CreditLineState /\ SameLoan(begun, owed)
      /\ owed.nextDueTime = begun.nextDueTime
      /\ owed.lastFullPaymentTime = begun.lastFullPaymentTime
  BY <1>3, OwedIs
<1> HIDE DEF owed
<1>5. paid \in CreditLineState
  <2>1. owed.balance + amount \in Nat
    BY <1>4, LineType
  <2> QED
    BY <1>4, <2>1 DEF CreditLineState
<1>6. /\ paid.nextDueTime = due /\ paid.termEndTime = begun.termEndTime
      /\ paid.paymentPeriodInDays = cl.paymentPeriodInDays
      /\ paid.termInDays = cl.termInDays
      /\ paid.lastFullPaymentTime = begun.lastFullPaymentTime
  BY <1>3, <1>4 DEF CreditLineState, SameLoan
<1> HIDE DEF paid
<1>7. /\ secondsPerPeriod(paid) = p /\ termInSeconds(paid) = termInSeconds(cl)
      /\ mostRecentLastDueTime(paid, now) = IF now < due THEN due - p ELSE due
  BY <1>6 DEF secondsPerPeriod, termInSeconds, mostRecentLastDueTime
<1>8. ASSUME due # 0
      PROVE  /\ p <= due
             /\ paid.balance > 0
                => /\ InOrder(p, next, paid.termEndTime, paid.lastFullPaymentTime, now)
                   /\ InOrder(p, next, paid.termEndTime, mostRecentLastDueTime(paid, now), now)
  <2>1. cl.balance > 0
    BY <1>2, <1>8 DEF LoanInOrder
  <2>2. InOrder(p, due, cl.termEndTime, cl.lastFullPaymentTime, now)
    BY <2>1 DEF LoanInOrder
  <2>3. p <= due
    BY <2>2 DEF InOrder
  <2>4. paid.termEndTime = cl.termEndTime /\ paid.lastFullPaymentTime = cl.lastFullPaymentTime
    BY <1>3, <1>6, <2>1
  <2>5. ASSUME paid.balance > 0
        PROVE  /\ InOrder(p, next, cl.termEndTime, cl.lastFullPaymentTime, now)
               /\ InOrder(p, next, cl.termEndTime, IF now < due THEN due - p ELSE due, now)
    <3>1. MovedOn(p, due, cl.termEndTime, now, next)
      BY <1>5, <1>6, <1>7, <1>8, <2>4, <2>5, NextDueTimeMoves
    <3> HIDE DEF p, due, next
    <3>2. InOrder(p, next, cl.termEndTime, cl.lastFullPaymentTime, now)
      BY <1>2, <2>2, <3>1, MovesInOrder
    <3>3. InOrder(p, next, cl.termEndTime, IF now < due THEN due - p ELSE due, now)
      BY <1>2, <2>2, <3>1, MovesInOrder
    <3> QED
      BY <3>2, <3>3
  <2> QED
    BY <1>7, <2>3, <2>4, <2>5
<1>9. ASSUME due = 0
      PROVE  /\ paid.lastFullPaymentTime = now
             /\ paid.termEndTime = now + termInSeconds(paid)
  <2>1. ~ (cl.balance > 0)
    <3> SUFFICES ASSUME cl.balance > 0 PROVE FALSE
      OBVIOUS
    <3>1. p <= due
      BY DEF LoanInOrder, InOrder
    <3> QED
      BY <1>2, <1>9, <3>1
  <2>2. cl.balance = 0
    BY <1>2, <2>1
  <2> QED
    BY <1>3, <1>6, <1>7, <2>2
<1>10. paid.paymentPeriodInDays <= paid.termInDays
  BY <1>6 DEF LoanInOrder
<1>11. LoanInOrder(line, now)
  BY <1>5, <1>6, <1>7, <1>8, <1>9, <1>10, AccountedInOrder
<1> QED
  BY <1>1, <1>11

----------------------------------------------------------------------------
(* The times of the loan of the pool.                                      *)

\* A new credit line has no due time.
LEMMA InitInOrder == Init => TimesInOrder
<1> SUFFICES ASSUME Init PROVE TimesInOrder
  OBVIOUS
<1>1. PICK terms \in Terms : /\ terms.termInDays > terms.paymentPeriodInDays
                             /\ creditLine = NewCreditLine(terms, 1) /\ time = 1
  BY DEF Init
<1>2. terms.paymentPeriodInDays \in Nat /\ terms.termInDays \in Nat
  BY TermsAssumption DEF LoanTerms
<1>3. /\ creditLine.balance = 0 /\ creditLine.nextDueTime = 0
      /\ creditLine.interestAccruedAsOf = 1
      /\ creditLine.paymentPeriodInDays = terms.paymentPeriodInDays
      /\ creditLine.termInDays = terms.termInDays
  BY <1>1 DEF NewCreditLine
<1> QED
  BY <1>1, <1>2, <1>3 DEF TimesInOrder, LoanInOrder

\* An assessment keeps the times in order.
LEMMA AssessmentStaysInOrder ==
  ASSUME PoolInv, TimesInOrder, NEW available \in Nat, NEW status, _Assess(available, status),
         time' = time
  PROVE  TimesInOrder'
<1> DEFINE o == outcomeOf(available, status)
<1>1. o.defined /\ creditLine' = o.line
  BY DEF _Assess, settle, accepted
<1>2. creditLine \in CreditLineState /\ time \in Nat /\ creditLine.balance \in Nat
  BY LineType DEF PoolInv, TypeOK
<1>3. creditLine.balance > 0
  BY <1>1 DEF outcomeOf, assess, handlePayment, outcomeOfPayment
<1>4. LoanInOrder(creditLine, time)
  BY DEF TimesInOrder
<1>5. LoanInOrder(o.line, time)
  BY <1>1, <1>2, <1>3, <1>4, AssessInOrder DEF outcomeOf
<1>6. TimesMove(creditLine, creditLine', time)
  BY AssessmentMoves
<1>7. creditLine'.interestAccruedAsOf <= time
  BY <1>6, MovesInTime
<1> QED
  BY <1>1, <1>5, <1>7 DEF TimesInOrder

\* A drawdown keeps the times in order.
LEMMA DrawdownStaysInOrder ==
  ASSUME PoolInv, TimesInOrder, NEW amount \in Nat, Drawdown(amount)
  PROVE  TimesInOrder'
<1> DEFINE line == IF locked THEN creditLine ELSE raisedCreditLine
<1>1. creditLine' = drawnDown(line, amount, time) /\ time' = time
  BY DEF Drawdown
<1>2. time \in Nat /\ TypeOK
  BY DEF PoolInv, TypeOK
<1>3. /\ line \in CreditLineState /\ line.balance = creditLine.balance
      /\ line.paymentPeriodInDays = creditLine.paymentPeriodInDays
      /\ line.termInDays = creditLine.termInDays /\ line.termEndTime = creditLine.termEndTime
      /\ line.nextDueTime = creditLine.nextDueTime
      /\ line.lastFullPaymentTime = creditLine.lastFullPaymentTime
  <2>1. CASE locked
    BY <1>2, <2>1 DEF TypeOK
  <2>2. CASE ~ locked
    BY <1>2, <2>2, RaisedIs
  <2> QED
    BY <2>1, <2>2
<1> HIDE DEF line
<1>4. LoanInOrder(line, time)
  BY <1>3 DEF TimesInOrder, LoanInOrder, secondsPerPeriod
<1>5. LoanInOrder(drawnDown(line, amount, time), time)
  BY <1>2, <1>3, <1>4, DrawdownInOrder
<1>6. TimesMove(creditLine, creditLine', time)
  BY DrawdownMoves
<1>7. creditLine'.interestAccruedAsOf <= time
  BY <1>6, MovesInTime
<1> QED
  BY <1>1, <1>5, <1>7 DEF TimesInOrder

\* No step disturbs the order that keeps the period and leaves it within the term.
LEMMA TimesStayInOrder ==
  ASSUME PoolInv, TimesInOrder, [Next]_vars,
         creditLine'.paymentPeriodInDays = creditLine.paymentPeriodInDays,
         ~ (creditLine'.paymentPeriodInDays > creditLine'.termInDays)
  PROVE  TimesInOrder'
<1>0. creditLine \in CreditLineState /\ time \in Nat /\ creditLineUsdc \in Nat
  BY DEF PoolInv, TypeOK
<1>1. CASE PaymentStep
  <2>1. CASE Assess
    BY <1>0, <2>1, AssessmentStaysInOrder DEF Assess
  <2>2. ASSUME NEW amount \in Payments, Pay(amount) PROVE TimesInOrder'
    <3>1. creditLineUsdc + amount \in Nat
      BY <1>0, DepositAssumption
    <3> QED
      BY <2>2, <3>1, AssessmentStaysInOrder DEF Pay
  <2>3. CASE Liquidate
    BY <1>0, <2>3, AssessmentStaysInOrder DEF Liquidate
  <2> QED
    BY <1>1, <2>1, <2>2, <2>3 DEF PaymentStep
<1>2. ASSUME NEW amount \in Drawdowns, Drawdown(amount) PROVE TimesInOrder'
  BY <1>2, DepositAssumption, DrawdownStaysInOrder
<1>3. CASE ~ PaymentStep /\ ~ (\E amount \in Drawdowns : Drawdown(amount))
  <2>1. /\ creditLine'.nextDueTime = creditLine.nextDueTime
        /\ creditLine'.termEndTime = creditLine.termEndTime
        /\ creditLine'.lastFullPaymentTime = creditLine.lastFullPaymentTime
        /\ creditLine'.interestAccruedAsOf = creditLine.interestAccruedAsOf
        /\ creditLine'.balance = creditLine.balance
        /\ time' \in {time, time + 1}
        /\ \/ /\ creditLine'.paymentPeriodInDays = creditLine.paymentPeriodInDays
              /\ creditLine'.termInDays = creditLine.termInDays
           \/ \E terms \in Terms :
                /\ creditLine'.paymentPeriodInDays = terms.paymentPeriodInDays
                /\ creditLine'.termInDays = terms.termInDays
    BY <1>3, OtherMoves
  <2>2. creditLine'.paymentPeriodInDays <= creditLine'.termInDays
    <3>1. /\ creditLine.paymentPeriodInDays \in Nat /\ creditLine.termInDays \in Nat
          /\ \A terms \in Terms : terms.paymentPeriodInDays \in Nat /\ terms.termInDays \in Nat
      BY <1>0, TermsAssumption DEF CreditLineState, LoanTerms
    <3>2. creditLine'.paymentPeriodInDays \in Nat /\ creditLine'.termInDays \in Nat
      BY <2>1, <3>1
    <3> QED
      BY <3>2
  <2>3. secondsPerPeriod(creditLine') = secondsPerPeriod(creditLine)
    BY DEF secondsPerPeriod
  <2>4. /\ creditLine.nextDueTime \in Nat /\ creditLine.lastFullPaymentTime \in Nat
        /\ secondsPerPeriod(creditLine) \in Nat
    BY <1>0, LineType
  <2>5. ASSUME creditLine.balance > 0
        PROVE  InOrder(secondsPerPeriod(creditLine), creditLine.nextDueTime,
                       creditLine.termEndTime, creditLine.lastFullPaymentTime, time')
    <3>1. InOrder(secondsPerPeriod(creditLine), creditLine.nextDueTime,
                  creditLine.termEndTime, creditLine.lastFullPaymentTime, time)
      BY <2>5 DEF TimesInOrder, LoanInOrder
    <3> QED
      BY <1>0, <2>1, <2>4, <3>1 DEF InOrder
  <2>6. LoanInOrder(creditLine', time')
    BY <2>1, <2>2, <2>3, <2>5 DEF TimesInOrder, LoanInOrder
  <2>7. creditLine'.interestAccruedAsOf <= time'
    <3>1. creditLine.interestAccruedAsOf \in Nat /\ creditLine.interestAccruedAsOf <= time
      BY <1>0, LineType DEF TimesInOrder
    <3> QED
      BY <1>0, <2>1, <3>1
  <2> QED
    BY <2>6, <2>7 DEF TimesInOrder
<1> QED
  BY <1>1, <1>2, <1>3

----------------------------------------------------------------------------
(* Principal applied to a tranche and to the only slice of a pool.         *)

\* A share price rose towards the desired one: it costs what it adds, and money
\* is left only when the price is as high as whole USDC make it.
PriceRaised(before, after, cost, left, desired, dep) ==
  /\ after \in Nat /\ before <= after
  /\ after = before \/ after <= desired
  /\ cost = 0 => after = before
  /\ sharePriceToUsdc(after, dep) <= sharePriceToUsdc(before, dep) + cost
  /\ left > 0 => desired * dep <= after * dep + FP_SCALING_FACTOR + dep

\* What it takes to raise a share price, rounded down.
LEMMA DesiredIsMissing ==
  ASSUME NEW desired \in Nat, NEW actual \in Nat, NEW dep \in Nat
  PROVE  desired * dep
           <= actual * dep + desiredAmountFromSharePrice(desired, actual, dep) * FP_SCALING_FACTOR
                + FP_SCALING_FACTOR
<1> DEFINE F == FP_SCALING_FACTOR
           a == desiredAmountFromSharePrice(desired, actual, dep)
<1>1. F \in Nat /\ desired * dep \in Nat /\ actual * dep \in Nat
  BY ScalingAssumption, TimesType
<1>2. CASE desired < actual
  <2>1. a = 0
    BY <1>2, DesiredAmountIs
  <2>2. desired * dep <= actual * dep
    BY <1>2, TimesMonotone
  <2> HIDE DEF a, F
  <2>3. a * F = 0
    BY <1>1, <2>1
  <2>4. desired * dep <= actual * dep + 0 + F
    BY <1>1, <2>2
  <2> QED
    BY <2>3, <2>4 DEF a, F
<1>3. CASE desired >= actual
  <2> DEFINE rest == desired - actual
  <2>1. rest \in Nat /\ ~ (desired < actual) /\ desired = actual + rest
    BY <1>3
  <2>2. a = sharePriceToUsdc(rest, dep)
    BY <2>1 DEF desiredAmountFromSharePrice
  <2> HIDE DEF rest, a
  <2>3. a \in Nat /\ rest * dep < (a + 1) * F
    BY <2>1, <2>2, SharePriceToUsdcIs
  <2> HIDE DEF F
  <2>4. (a + 1) * F = a * F + F /\ a * F \in Nat /\ rest * dep \in Nat
    BY <1>1, <2>1, <2>3, TimesType
  <2>5. desired * dep = actual * dep + rest * dep
    BY <2>1
  <2>6. desired * dep <= actual * dep + a * F + F
    BY <1>1, <2>3, <2>4, <2>5
  <2> QED
    BY <2>6 DEF a, F
<1> QED
  BY <1>2, <1>3

\* What an amount adds to a share price, times the deposits, is the amount but for
\* less than the deposits.
LEMMA PriceIsNear ==
  ASSUME NEW amount \in Nat, NEW dep \in Nat \ {0}
  PROVE  amount * FP_SCALING_FACTOR <= usdcToSharePrice(amount, dep) * dep + dep
<1> DEFINE F == FP_SCALING_FACTOR
           x == (amount * F) \div dep
<1>1. amount * F \in Nat
  BY ScalingAssumption, TimesType
<1>2. IsFloor(x, amount * F, dep)
  BY <1>1, QuotientIsFloor
<1>3. usdcToSharePrice(amount, dep) = x
  BY DEF usdcToSharePrice
<1> HIDE DEF x
<1>4. x \in Nat /\ amount * F < x * dep + dep
  BY <1>2 DEF IsFloor
<1>5. x * dep \in Nat
  BY <1>4, TimesType
<1>6. amount * F <= x * dep + dep
  BY <1>1, <1>4, <1>5
<1> QED
  BY <1>3, <1>6

\* Paying at most what is desired raises the price no higher.
LEMMA PaidPrice ==
  ASSUME NEW before \in Nat, NEW desired \in Nat, NEW dep \in Nat, NEW principal \in Nat
  PROVE  LET paid  == AtMost(principal, desiredAmountFromSharePrice(desired, before, dep))
             after == before + usdcToSharePrice(paid, dep)
         IN  /\ paid \in 0..principal
             /\ PriceRaised(before, after, paid, principal - paid, desired, dep)
<1> DEFINE F == FP_SCALING_FACTOR
           a == desiredAmountFromSharePrice(desired, before, dep)
           paid == AtMost(principal, a)
           rise == usdcToSharePrice(paid, dep)
           after == before + rise
<1>1. /\ a \in Nat /\ F \in Nat \ {0}
      /\ desired < before => a = 0
      /\ desired >= before => a * F <= (desired - before) * dep
  BY DesiredAmountIs, ScalingAssumption
<1>2. desired * dep <= before * dep + a * F + F
  BY DesiredIsMissing
<1> HIDE DEF a
<1>3. paid \in 0..principal /\ paid <= a /\ paid \in Nat /\ (principal - paid > 0 => paid = a)
  BY <1>1 DEF AtMost
<1> HIDE DEF paid
<1>4. /\ rise \in Nat /\ rise * dep <= paid * F
      /\ dep = 0 \/ paid = 0 => rise = 0
  BY <1>3, UsdcToSharePriceIs
<1>5. sharePriceToUsdc(after, dep) <= sharePriceToUsdc(before, dep) + paid
  BY <1>3, WorthRises
<1>6. dep # 0 => paid * F <= rise * dep + dep
  BY <1>3, PriceIsNear
<1> HIDE DEF rise, F
<1>7. after = before \/ after <= desired
  <2>1. CASE desired < before
    BY <1>1, <1>3, <1>4, <2>1
  <2>2. CASE dep = 0
    BY <1>4, <2>2
  <2>3. CASE desired >= before /\ dep # 0
    <3>1. desired - before \in Nat
      BY <2>3
    <3>2. /\ rise * dep \in Nat /\ paid * F \in Nat /\ a * F \in Nat
          /\ (desired - before) * dep \in Nat
      BY <1>1, <1>3, <1>4, <3>1, TimesType
    <3>3. paid * F <= a * F
      BY <1>1, <1>3, TimesMonotone
    <3>4. rise * dep <= (desired - before) * dep
      BY <1>1, <1>4, <2>3, <3>2, <3>3
    <3>5. rise <= desired - before
      BY <1>4, <2>3, <3>1, <3>4, TimesCancelLe
    <3> QED
      BY <1>4, <2>3, <3>1, <3>5
  <2> QED
    BY <2>1, <2>2, <2>3
<1>8. ASSUME principal - paid > 0
      PROVE  desired * dep <= after * dep + F + dep
  <2>1. paid = a
    BY <1>3, <1>8
  <2>2. /\ before * dep \in Nat /\ rise * dep \in Nat /\ a * F \in Nat /\ desired * dep \in Nat
    BY <1>1, <1>4, TimesType
  <2>3. after * dep = before * dep + rise * dep
    BY <1>4
  <2>4. a * F <= rise * dep + dep
    <3>1. CASE dep = 0
      <4>1. desired * dep = 0 /\ before * dep = 0
        BY <3>1
      <4>2. a = 0
        <5>1. CASE desired < before
          BY <1>1, <5>1
        <5>2. CASE desired >= before
          <6>1. desired - before \in Nat /\ (desired - before) * 0 = 0
            BY <5>2
          <6>2. a * F <= 0 * F
            BY <1>1, <3>1, <5>2, <6>1
          <6>3. a <= 0
            BY <1>1, <6>2, TimesCancelLe
          <6> QED
            BY <1>1, <6>3
        <5> QED
          BY <5>1, <5>2
      <4> QED
        BY <1>1, <1>4, <2>2, <3>1, <4>2
    <3>2. CASE dep # 0
      BY <1>6, <2>1, <3>2
    <3> QED
      BY <3>1, <3>2
  <2> QED
    BY <1>1, <1>2, <2>2, <2>3, <2>4
<1>9. after \in Nat /\ before <= after /\ (paid = 0 => after = before)
  BY <1>4
<1> HIDE DEF after
<1>10. PriceRaised(before, after, paid, principal - paid, desired, dep)
  BY <1>5, <1>7, <1>8, <1>9 DEF PriceRaised, F
<1> QED
  BY <1>3, <1>10 DEF after, rise, paid, a


\* The principal price of a tranche, and what it promises.
PrincipalRaised(before, after, cost, left, desired) ==
  PriceRaised(before.principalSharePrice, after.principalSharePrice, cost, left, desired,
              before.principalDeposited)

\* The same of a part of the principal.
PrincipalTaken(before, after, principal, desired) ==
  \E left \in 0..principal : PrincipalRaised(before, after, principal - left, left, desired)

\* applyBySharePrice, seen from the principal.
LEMMA PrincipalApplied ==
  ASSUME NEW tranche \in Tranche, NEW interest \in Nat, NEW principal \in Nat,
         NEW desiredInterest \in Nat, NEW desiredPrincipal \in Nat
  PROVE  LET r == applyBySharePrice(tranche, interest, principal, desiredInterest,
                                    desiredPrincipal)
         IN  /\ r.principal \in 0..principal
             /\ PrincipalRaised(tranche, r.tranche, principal - r.principal, r.principal,
                                desiredPrincipal)
<1> DEFINE r == applyBySharePrice(tranche, interest, principal, desiredInterest, desiredPrincipal)
           dep == tranche.principalDeposited
           old == tranche.principalSharePrice
           b == desiredAmountFromSharePrice(desiredPrincipal, old, dep)
           paid == AtMost(principal, b)
           new == old + usdcToSharePrice(paid, dep)
<1>1. old \in Nat /\ dep \in Nat
  BY DEF Tranche
<1>2. r.principal = principal - paid
  BY DEF applyBySharePrice, applyByAmount
<1>3. r.tranche.principalSharePrice = new
  BY DEF applyBySharePrice, applyByAmount, Tranche
<1>4. /\ paid \in 0..principal
      /\ PriceRaised(old, new, paid, principal - paid, desiredPrincipal, dep)
  <2> HIDE DEF old, dep
  <2> QED
    BY <1>1, PaidPrice
<1> HIDE DEF paid, new, r
<1>5. r.principal \in 0..principal /\ principal - r.principal = paid
  BY <1>2, <1>4
<1>6. PrincipalRaised(tranche, r.tranche, principal - r.principal, r.principal, desiredPrincipal)
  BY <1>2, <1>3, <1>4, <1>5 DEF PrincipalRaised
<1> QED
  BY <1>5, <1>6 DEF r

\* The senior tranche of a slice takes principal first.
LEMMA SeniorPrincipal ==
  ASSUME NEW slice \in PoolSlice, TotalDeposited(slice) # 0,
         NEW interest \in Nat, NEW principal \in Nat, NEW due \in Nat
  PROVE  LET r == applyToSeniorTranche(slice, interest, principal, juniorFeePercent,
                                       reserveFeePercent, due)
         IN  /\ r.principal \in 0..principal
             /\ PrincipalRaised(slice.senior, r.slice.senior, principal - r.principal, r.principal,
                                calculateExpectedSharePrice(slice.senior, due, slice))
             /\ r.slice.junior = slice.junior
<1> DEFINE r == applyToSeniorTranche(slice, interest, principal, juniorFeePercent,
                                     reserveFeePercent, due)
           reserve == scaleByFraction(interest, reserveFeePercent, ONE_HUNDRED)
           i == interest - reserve
           net == seniorNetInterestSharePrice(slice, juniorFeePercent, reserveFeePercent)
           e == calculateExpectedSharePrice(slice.senior, due, slice)
           a == applyBySharePrice(slice.senior, i, principal, net, e)
<1>1. i \in Nat
  <2>1. reserve \in 0..interest
    BY ReserveIs
  <2> QED
    BY <2>1
<1>2. net \in Nat
  BY NetInterestIsCapped
<1>3. slice.senior \in Tranche /\ slice.senior.principalDeposited \in Nat
      /\ TotalDeposited(slice) \in Nat \ {0}
  BY SliceType
<1>4. e \in Nat
  BY <1>3, ExpectedSharePriceIs
<1>5. /\ r.principal = a.principal /\ r.slice.senior = a.tranche /\ r.slice.junior = slice.junior
  BY DEF applyToSeniorTranche, PoolSlice
<1> HIDE DEF i, net, e, r
<1>6. /\ a.principal \in 0..principal
      /\ PrincipalRaised(slice.senior, a.tranche, principal - a.principal, a.principal, e)
  BY <1>1, <1>2, <1>3, <1>4, PrincipalApplied
<1> HIDE DEF a
<1> QED
  BY <1>5, <1>6 DEF r, e

\* The junior tranche takes principal next; what is left is interest.
LEMMA JuniorPrincipal ==
  ASSUME NEW slice \in PoolSlice, TotalDeposited(slice) # 0,
         NEW interest \in Nat, NEW principal \in Nat, NEW due \in Nat
  PROVE  LET r == applyToJuniorTranche(slice, interest, principal, reserveFeePercent, due)
         IN  /\ PrincipalTaken(slice.junior, r.slice.junior, principal,
                               calculateExpectedSharePrice(slice.junior, due, slice))
             /\ r.slice.senior = slice.senior
<1> DEFINE r == applyToJuniorTranche(slice, interest, principal, reserveFeePercent, due)
           price == slice.junior.interestSharePrice
                      + usdcToSharePrice(interest, slice.junior.principalDeposited)
           e == calculateExpectedSharePrice(slice.junior, due, slice)
           a == applyBySharePrice(slice.junior, interest, principal, price, e)
           reserve == scaleByFraction(a.principal, reserveFeePercent, ONE_HUNDRED)
           extra == a.interest + a.principal - reserve
           b == applyByAmount(a.tranche, extra, 0, extra, 0)
<1>1. /\ slice.junior \in Tranche /\ slice.junior.principalDeposited \in Nat
      /\ TotalDeposited(slice) \in Nat \ {0} /\ slice.junior.interestSharePrice \in Nat
  BY SliceType
<1>2. price \in Nat
  <2>1. usdcToSharePrice(interest, slice.junior.principalDeposited) \in Nat
    BY <1>1, UsdcToSharePriceIs
  <2> QED
    BY <1>1, <2>1
<1>3. e \in Nat
  BY <1>1, ExpectedSharePriceIs
<1>4. r.slice.junior = b.tranche /\ r.slice.senior = slice.senior
  BY DEF applyToJuniorTranche, PoolSlice
<1> HIDE DEF r, price, e
<1>5. PaidTo(slice.junior, interest, principal, a)
  BY <1>1, <1>2, <1>3, ApplyBySharePriceIs
<1>6. /\ a.principal \in 0..principal
      /\ PrincipalRaised(slice.junior, a.tranche, principal - a.principal, a.principal, e)
  BY <1>1, <1>2, <1>3, PrincipalApplied
<1> HIDE DEF a
<1>7. a.tranche \in Tranche
  BY <1>5 DEF PaidTo, Applied
<1>8. b.tranche.principalSharePrice = a.tranche.principalSharePrice
  <2>1. AtMost(0, 0) = 0
    BY DEF AtMost
  <2>2. a.tranche.principalSharePrice \in Nat /\ a.tranche.principalDeposited \in Nat
    BY <1>7 DEF Tranche
  <2>3. usdcToSharePrice(0, a.tranche.principalDeposited) = 0
    BY <2>2, UsdcToSharePriceIs
  <2>4. b.tranche.principalSharePrice
          = a.tranche.principalSharePrice + usdcToSharePrice(AtMost(0, 0), a.tranche.principalDeposited)
    BY <1>7 DEF applyByAmount, Tranche
  <2> QED
    BY <2>1, <2>2, <2>3, <2>4
<1> HIDE DEF b
<1>9. PrincipalRaised(slice.junior, b.tranche, principal - a.principal, a.principal, e)
  BY <1>6, <1>8 DEF PrincipalRaised
<1> QED
  BY <1>4, <1>6, <1>9 DEF r, e, PrincipalTaken

\* What is gathered from one slice.
LEMMA GatheredFromOne ==
  ASSUME NEW applied, DOMAIN applied = 1..1, NEW reserve \in Nat,
         applied[1].interest \in Nat, applied[1].principal \in Nat, applied[1].reserve \in Nat
  PROVE  LET left == gathered(applied, reserve)
         IN  /\ DOMAIN left.slices = 1..1 /\ left.slices[1] = applied[1].slice
             /\ left.interest = applied[1].interest /\ left.principal = applied[1].principal
             /\ left.reserve = reserve + applied[1].reserve
<1> DEFINE I == [i \in 1..1 |-> applied[i].interest]
           P == [i \in 1..1 |-> applied[i].principal]
           R == [i \in 1..1 |-> applied[i].reserve]
<1>1. I \in Amounts(1) /\ P \in Amounts(1) /\ R \in Amounts(1)
  BY DEF Amounts
<1>2. I[1] = applied[1].interest /\ P[1] = applied[1].principal /\ R[1] = applied[1].reserve
  OBVIOUS
<1>3. gathered(applied, reserve) =
        [slices |-> [i \in 1..1 |-> applied[i].slice], interest |-> Total(I),
         principal |-> Total(P), reserve |-> reserve + Total(R)]
  BY DEF gathered
<1> HIDE DEF I, P, R
<1>4. Total(I) = I[1] /\ Total(P) = P[1] /\ Total(R) = R[1]
  BY <1>1, TotalOfOne
<1> QED
  BY <1>2, <1>3, <1>4

\* Principal came to a slice whose tranches should have the prices dS and dJ: no
\* price rises above them, the slice promises no more than came, and the junior
\* price rises only once the senior one is as high as whole USDC make it.
PrincipalPoured(slice, principal, dS, dJ, after) ==
  /\ after.senior.principalDeposited = slice.senior.principalDeposited
  /\ after.junior.principalDeposited = slice.junior.principalDeposited
  /\ after.principalDeployed = slice.principalDeployed
  /\ after.senior.lockedUntil = slice.senior.lockedUntil
  /\ after.senior.principalSharePrice >= slice.senior.principalSharePrice
  /\ \/ after.senior.principalSharePrice = slice.senior.principalSharePrice
     \/ after.senior.principalSharePrice <= dS
  /\ \/ after.junior.principalSharePrice = slice.junior.principalSharePrice
     \/ /\ after.junior.principalSharePrice <= dJ
        /\ dS * slice.senior.principalDeposited
             <= after.senior.principalSharePrice * slice.senior.principalDeposited
                  + FP_SCALING_FACTOR + slice.senior.principalDeposited
  /\ amountAvailable(after) <= amountAvailable(slice) + principal

\* The waterfall over the only slice of a pool.
LEMMA WaterfallOfOne ==
  ASSUME NEW slices \in Slices(1), DeployedIs(1, slices, totalDeployed),
         NEW line, Collectable(1, slices, line, totalDeployed),
         NEW interest \in Nat, NEW principal \in Nat
  PROVE  LET slice  == slices[1]
             result == collectInterestAndPrincipal(slices, interest, principal, line)
             due    == TotalDeposited(slice) - line.balance + line.principalOwed
         IN  /\ due \in Nat
             /\ result.reserve <= interest + principal
             /\ PrincipalPoured(slice, principal,
                                calculateExpectedSharePrice(slice.senior, due, slice),
                                calculateExpectedSharePrice(slice.junior, due, slice),
                                result.slices[1])
<1> DEFINE slice == slices[1]
           result == collectInterestAndPrincipal(slices, interest, principal, line)
           due == TotalDeposited(slice) - line.balance + line.principalOwed
           sen == applyToSeniorTranche(slice, interest, principal, juniorFeePercent,
                                       reserveFeePercent, due)
           jun == applyToJuniorTranche(sen.slice, sen.interest, sen.principal, reserveFeePercent,
                                       due)
           seniors == [i \in 1..1 |->
                         applyToSeniorTranche(slices[i],
                           scaleForSlice(slices[i], interest, totalDeployed),
                           scaleForSlice(slices[i], principal, totalDeployed), juniorFeePercent,
                           reserveFeePercent, principalAccrued(slices[i], line, totalDeployed))]
           left == gathered(seniors, 0)
           juniors == [i \in 1..1 |->
                         applyToJuniorTranche(left.slices[i],
                           scaleForSlice(left.slices[i], left.interest, totalDeployed),
                           scaleForSlice(left.slices[i], left.principal, totalDeployed),
                           reserveFeePercent, principalAccrued(left.slices[i], line, totalDeployed))]
<1>1. slice \in PoolSlice /\ totalDeployed \in Nat \ {0} /\ totalDeployed = slice.principalDeployed
  <2>1. deployedIn(1, slices) \in Amounts(1)
    BY SliceTotalsType
  <2>2. Total(deployedIn(1, slices)) = deployedIn(1, slices)[1]
    BY <2>1, TotalOfOne
  <2>3. deployedIn(1, slices)[1] = slice.principalDeployed
    BY DEF deployedIn
  <2> QED
    BY <2>2, <2>3 DEF Slices, DeployedIs
<1>2. /\ TotalDeposited(slice) # 0 /\ slice.principalDeployed <= TotalDeposited(slice)
      /\ line.balance \in Nat /\ line.principalOwed \in Nat /\ line.balance <= totalDeployed
  BY DEF Collectable
<1>3. ASSUME NEW s, s.principalDeployed = totalDeployed
      PROVE  \A x \in Nat : scaleForSlice(s, x, totalDeployed) = x
  BY <1>1, <1>3, ScaleByFractionIs DEF scaleForSlice
<1>4. ASSUME NEW s, s.principalDeployed = totalDeployed, TotalDeposited(s) = TotalDeposited(slice)
      PROVE  principalAccrued(s, line, totalDeployed) = due
  <2>1. totalDeployed - line.balance + line.principalOwed \in Nat
    BY <1>1, <1>2
  <2>2. scaleForSlice(s, totalDeployed - line.balance + line.principalOwed, totalDeployed)
          = totalDeployed - line.balance + line.principalOwed
    BY <1>3, <1>4, <2>1
  <2>3. TotalDeposited(slice) \in Nat
    BY <1>1, SliceType
  <2> QED
    BY <1>1, <1>2, <1>4, <2>2, <2>3 DEF principalAccrued
<1>5. due \in Nat
  <2>1. TotalDeposited(slice) \in Nat
    BY <1>1, SliceType
  <2> QED
    BY <1>1, <1>2, <2>1
<1>6. DOMAIN slices = 1..1
  BY DEF Slices
<1>7. applyToAllSeniorTranches(slices, interest, principal, reserveFeePercent, totalDeployed, line,
                               juniorFeePercent) = left
  BY <1>6 DEF applyToAllSeniorTranches
<1>8. seniors[1] = sen /\ DOMAIN seniors = 1..1
  <2>1. /\ scaleForSlice(slice, interest, totalDeployed) = interest
        /\ scaleForSlice(slice, principal, totalDeployed) = principal
        /\ principalAccrued(slice, line, totalDeployed) = due
    BY <1>1, <1>3, <1>4
  <2> QED
    BY <2>1
<1> HIDE DEF seniors, due, slice
<1>9. GivenTo(slice, interest, principal, sen)
  BY <1>1, <1>2, <1>5, SeniorIsGiven
<1>10. /\ sen.principal \in 0..principal
       /\ PrincipalRaised(slice.senior, sen.slice.senior, principal - sen.principal, sen.principal,
                          calculateExpectedSharePrice(slice.senior, due, slice))
       /\ sen.slice.junior = slice.junior
  BY <1>1, <1>2, <1>5, SeniorPrincipal
<1> HIDE DEF sen
<1>11. /\ sen.interest \in Nat /\ sen.principal \in Nat /\ sen.reserve \in Nat
       /\ sen.interest + sen.principal + sen.reserve <= interest + principal
       /\ sen.slice \in PoolSlice
       /\ SameTerms(slice.senior, sen.slice.senior) /\ SameTerms(slice.junior, sen.slice.junior)
       /\ sen.slice.principalDeployed = slice.principalDeployed
  BY <1>9 DEF GivenTo, SlicePaid
<1>12. TotalDeposited(sen.slice) = TotalDeposited(slice)
  BY <1>11 DEF SameTerms, TotalDeposited
<1>13. /\ DOMAIN left.slices = 1..1 /\ left.slices[1] = sen.slice /\ left.interest = sen.interest
       /\ left.principal = sen.principal /\ left.reserve = sen.reserve
  <2>1. 0 \in Nat /\ 0 + sen.reserve = sen.reserve
    BY <1>11
  <2> QED
    BY <1>8, <1>11, <2>1, GatheredFromOne
<1> HIDE DEF left
<1>14. result = gathered(juniors, left.reserve)
  BY <1>7, <1>13 DEF collectInterestAndPrincipal, applyToAllJuniorTranches
<1>15. juniors[1] = jun /\ DOMAIN juniors = 1..1
  <2>1. /\ scaleForSlice(sen.slice, sen.interest, totalDeployed) = sen.interest
        /\ scaleForSlice(sen.slice, sen.principal, totalDeployed) = sen.principal
    BY <1>1, <1>3, <1>11
  <2>2. principalAccrued(sen.slice, line, totalDeployed) = due
    BY <1>1, <1>4, <1>11, <1>12
  <2> QED
    BY <1>13, <2>1, <2>2
<1> HIDE DEF juniors, result
<1>16. GivenTo(sen.slice, sen.interest, sen.principal, jun)
  BY <1>2, <1>5, <1>11, <1>12, JuniorIsGiven
<1>17. /\ PrincipalTaken(sen.slice.junior, jun.slice.junior, sen.principal,
                         calculateExpectedSharePrice(sen.slice.junior, due, sen.slice))
       /\ jun.slice.senior = sen.slice.senior
  <2>1. TotalDeposited(sen.slice) # 0
    BY <1>2, <1>12
  <2>2. jun.slice.senior = sen.slice.senior
    BY <1>5, <1>11, <2>1, JuniorPrincipal
  <2>3. PrincipalTaken(sen.slice.junior, jun.slice.junior, sen.principal,
                       calculateExpectedSharePrice(sen.slice.junior, due, sen.slice))
    BY <1>5, <1>11, <2>1, JuniorPrincipal
  <2> QED
    BY <2>2, <2>3
<1> HIDE DEF jun
<1>18. /\ jun.interest \in Nat /\ jun.principal \in Nat /\ jun.reserve \in Nat
       /\ jun.interest + jun.principal + jun.reserve <= sen.interest + sen.principal
       /\ SameTerms(sen.slice.senior, jun.slice.senior)
       /\ SameTerms(sen.slice.junior, jun.slice.junior)
       /\ jun.slice.principalDeployed = sen.slice.principalDeployed
  BY <1>16 DEF GivenTo, SlicePaid
<1>19. result.slices[1] = jun.slice /\ result.reserve = sen.reserve + jun.reserve
  BY <1>11, <1>13, <1>14, <1>15, <1>18, GatheredFromOne
<1>20. result.reserve <= interest + principal
  BY <1>11, <1>18, <1>19
<1>21. calculateExpectedSharePrice(sen.slice.junior, due, sen.slice)
         = calculateExpectedSharePrice(slice.junior, due, slice)
  BY <1>10, <1>12 DEF calculateExpectedSharePrice
<1>22. PrincipalPoured(slice, principal, calculateExpectedSharePrice(slice.senior, due, slice),
                       calculateExpectedSharePrice(slice.junior, due, slice), jun.slice)
  <2> DEFINE dS == calculateExpectedSharePrice(slice.senior, due, slice)
             dJ == calculateExpectedSharePrice(slice.junior, due, slice)
             S == slice.senior.principalDeposited
             J == slice.junior.principalDeposited
             a == slice.senior.principalSharePrice
             b == slice.junior.principalSharePrice
             c == jun.slice.senior.principalSharePrice
             d == jun.slice.junior.principalSharePrice
  <2>1. PICK rest \in 0..sen.principal :
               PriceRaised(b, d, sen.principal - rest, rest, dJ, J)
    BY <1>10, <1>17, <1>21 DEF PrincipalRaised, PrincipalTaken
  <2>2. PriceRaised(a, c, principal - sen.principal, sen.principal, dS, S)
    BY <1>10, <1>17 DEF PrincipalRaised
  <2>3. /\ jun.slice.senior.principalDeposited = S /\ jun.slice.junior.principalDeposited = J
        /\ jun.slice.principalDeployed = slice.principalDeployed
        /\ jun.slice.senior.lockedUntil = slice.senior.lockedUntil
    BY <1>11, <1>18 DEF SameTerms
  <2>4. S \in Nat /\ J \in Nat /\ a \in Nat /\ b \in Nat
    BY <1>1, SliceType
  <2>5. amountAvailable(slice) = sharePriceToUsdc(b, J) + sharePriceToUsdc(a, S)
        /\ amountAvailable(jun.slice) = sharePriceToUsdc(d, J) + sharePriceToUsdc(c, S)
    BY <2>3 DEF amountAvailable
  <2> HIDE DEF dS, dJ, S, J, a, b, c, d
  <2>6. c \in Nat /\ d \in Nat /\ a <= c
    BY <2>1, <2>2 DEF PriceRaised
  <2>7. /\ sharePriceToUsdc(a, S) \in Nat /\ sharePriceToUsdc(b, J) \in Nat
        /\ sharePriceToUsdc(c, S) \in Nat /\ sharePriceToUsdc(d, J) \in Nat
    BY <2>4, <2>6, SharePriceToUsdcIs
  <2>8. /\ sharePriceToUsdc(c, S) <= sharePriceToUsdc(a, S) + (principal - sen.principal)
        /\ sharePriceToUsdc(d, J) <= sharePriceToUsdc(b, J) + (sen.principal - rest)
    BY <2>1, <2>2 DEF PriceRaised
  <2>9. amountAvailable(jun.slice) <= amountAvailable(slice) + principal
    <3>1. \A u, v, w, x, p, q, r \in Nat :
             q <= p /\ r <= q /\ u <= w + (p - q) /\ v <= x + (q - r) => v + u <= x + w + p
      OBVIOUS
    <3>2. sen.principal <= principal /\ rest <= sen.principal /\ rest \in Nat
      BY <1>10
    <3> QED
      BY <1>11, <2>5, <2>7, <2>8, <3>1, <3>2
  <2>10. c = a \/ c <= dS
    BY <2>2 DEF PriceRaised
  <2>11. \/ d = b
         \/ d <= dJ /\ dS * S <= c * S + FP_SCALING_FACTOR + S
    <3>1. d = b \/ d <= dJ
      BY <2>1 DEF PriceRaised
    <3>2. CASE sen.principal = 0
      <4>1. rest \in Int /\ 0 <= rest /\ rest <= sen.principal
        BY <1>11, <2>1
      <4>2. \A q, r \in Int : q = 0 /\ 0 <= r /\ r <= q => q - r = 0
        OBVIOUS
      <4> DEFINE q == sen.principal
      <4>3. q \in Int /\ q = 0 /\ rest <= q
        BY <3>2, <4>1
      <4> HIDE DEF q
      <4>4. q - rest = 0
        BY <4>1, <4>2, <4>3
      <4>5. sen.principal - rest = 0
        BY <4>4 DEF q
      <4> QED
        BY <2>1, <4>5 DEF PriceRaised
    <3>3. CASE sen.principal # 0
      <4>1. sen.principal > 0
        BY <1>11, <3>3
      <4>2. dS * S <= c * S + FP_SCALING_FACTOR + S
        BY <2>2, <4>1 DEF PriceRaised
      <4> QED
        BY <3>1, <4>2
    <3> QED
      BY <3>2, <3>3
  <2> QED
    BY <2>3, <2>6, <2>9, <2>10, <2>11 DEF PrincipalPoured, dS, dJ, S, J, a, b, c, d
<1> QED
  BY <1>5, <1>19, <1>20, <1>22 DEF slice, result, due

----------------------------------------------------------------------------
(* The prices two tranches of a slice should have.                         *)

\* The arithmetic of two prices that share an amount by their deposits, one rounded
\* down and the other three times: S and dep are the deposits of the senior tranche
\* and of the slice, q and p what is rounded on the way to the senior price.
LEMMA PricesApart ==
  ASSUME NEW S \in Nat, NEW R \in Nat, NEW dep \in Nat \ {0}, NEW F \in Nat \ {0},
         NEW junior \in Nat, NEW senior \in Nat, NEW q \in Nat, NEW p \in Nat,
         junior * dep <= R * F, S * F <= q * dep + dep, q <= F,
         R * F <= p * S + S, q * p <= senior * F + F
  PROVE  junior * S <= senior * S + R + S + S
<1>1. dep \in Nat /\ F \in Nat
  OBVIOUS
<1>2. /\ senior * S \in Nat /\ q * R \in Nat /\ q * p \in Nat /\ junior * S \in Nat
      /\ junior * dep \in Nat /\ R * F \in Nat /\ S * F \in Nat /\ senior * F \in Nat
      /\ q * dep \in Nat /\ p * S \in Nat /\ q * S \in Nat /\ F * S \in Nat
  BY <1>1, TimesType
<1>3. (q * R) * F <= (senior * S + S + S) * F
  <2>1. (q * p) * S <= (senior * F + F) * S
    BY <1>1, <1>2, TimesMonotone
  <2>2. (R * F) * q <= (p * S + S) * q
    BY <1>1, <1>2, TimesMonotone
  <2>3. q * S <= F * S
    BY <1>1, TimesMonotone
  <2>4. (senior * F + F) * S = (senior * S) * F + F * S
    OBVIOUS
  <2>5. (R * F) * q = (q * R) * F
    OBVIOUS
  <2>6. (p * S + S) * q = (q * p) * S + q * S
    OBVIOUS
  <2>7. (senior * S + S + S) * F = (senior * S) * F + F * S + F * S
    OBVIOUS
  <2>8. (q * p) * S \in Nat /\ (q * R) * F \in Nat /\ (senior * S) * F \in Nat
    BY <1>1, <1>2, TimesType
  <2> QED
    BY <1>2, <2>1, <2>2, <2>3, <2>4, <2>5, <2>6, <2>7, <2>8
<1>4. q * R <= senior * S + S + S
  BY <1>2, <1>3, TimesCancelLe
<1>5. (junior * S) * dep <= (senior * S + R + S + S) * dep
  <2>1. (q * R) * dep <= (senior * S + S + S) * dep
    BY <1>1, <1>2, <1>4, TimesMonotone
  <2>2. (S * F) * R <= (q * dep + dep) * R
    BY <1>1, <1>2, TimesMonotone
  <2>3. (junior * dep) * S <= (R * F) * S
    BY <1>1, <1>2, TimesMonotone
  <2>4. (junior * dep) * S = (junior * S) * dep /\ (R * F) * S = (S * F) * R
    OBVIOUS
  <2>5. (q * dep + dep) * R = (q * R) * dep + R * dep
    OBVIOUS
  <2>6. (senior * S + R + S + S) * dep = (senior * S + S + S) * dep + R * dep
    OBVIOUS
  <2>7. /\ (S * F) * R \in Nat /\ (q * R) * dep \in Nat /\ R * dep \in Nat
        /\ (junior * S) * dep \in Nat
        /\ senior * S + S + S \in Nat /\ (senior * S + S + S) * dep \in Nat
    BY <1>1, <1>2, TimesType
  <2> QED
    BY <2>1, <2>2, <2>3, <2>4, <2>5, <2>6, <2>7
<1>6. senior * S + R + S + S \in Nat
  BY <1>2
<1> QED
  BY <1>2, <1>5, <1>6, TimesCancelLe

\* The junior tranche should have at most the price of the senior one, but for what
\* the three roundings of the senior price lose.
LEMMA ExpectedPricesAreClose ==
  ASSUME NEW slice \in PoolSlice, TotalDeposited(slice) # 0, NEW amount \in Nat
  PROVE  calculateExpectedSharePrice(slice.junior, amount, slice) * slice.senior.principalDeposited
           <= calculateExpectedSharePrice(slice.senior, amount, slice)
                * slice.senior.principalDeposited
              + amount + slice.senior.principalDeposited + slice.senior.principalDeposited
<1> DEFINE F == FP_SCALING_FACTOR
           S == slice.senior.principalDeposited
           dep == TotalDeposited(slice)
           p == usdcToSharePrice(amount, S)
           q == ((S * F) * F) \div (dep * F)
           x == calculateExpectedSharePrice(slice.junior, amount, slice)
           e == calculateExpectedSharePrice(slice.senior, amount, slice)
<1>1. /\ S \in Nat /\ dep \in Nat \ {0} /\ slice.junior.principalDeposited \in Nat
      /\ dep = slice.junior.principalDeposited + S /\ F \in Nat \ {0}
  BY SliceType, ScalingAssumption DEF TotalDeposited
<1>2. x \in Nat /\ x * dep <= amount * F
  BY <1>1, ExpectedSharePriceIs
<1>3. e \in Nat
  BY <1>1, ExpectedSharePriceIs
<1>4. e = (q * p) \div F
  BY DEF calculateExpectedSharePrice, scaleByFraction, fpDiv, fromUnscaledUint
<1>5. p \in Nat /\ (S # 0 => amount * F <= p * S + S)
  BY <1>1, UsdcToSharePriceIs, PriceIsNear
<1> HIDE DEF x, e, p, dep, S, F
<1>6. dep \in Nat /\ F \in Nat /\ dep * F \in Nat \ {0} /\ S * F \in Nat /\ (S * F) * F \in Nat
  BY <1>1, TimesType
<1>7. IsFloor(q, S * F, dep)
  <2>1. IsFloor(q, (S * F) * F, dep * F)
    BY <1>6, QuotientIsFloor
  <2> QED
    BY <1>1, <1>6, <2>1, FloorReduced
<1>8. q \in Nat /\ q * dep <= S * F /\ S * F < q * dep + dep
  BY <1>7 DEF IsFloor
<1> HIDE DEF q
<1>9. q * dep \in Nat /\ q * p \in Nat
  BY <1>5, <1>6, <1>8, TimesType
<1>10. IsFloor(e, q * p, F)
  BY <1>1, <1>4, <1>9, QuotientIsFloor
<1>11. e * F \in Nat /\ q * p < e * F + F
  BY <1>3, <1>6, <1>10, TimesType DEF IsFloor
<1>12. q <= F
  <2>1. S * F <= dep * F
    BY <1>1, <1>6, TimesMonotone
  <2>2. dep * F = F * dep
    BY <1>6
  <2>3. q * dep <= F * dep
    BY <1>6, <1>8, <1>9, <2>1, <2>2
  <2> QED
    BY <1>1, <1>6, <1>8, <2>3, TimesCancelLe
<1>13. CASE S = 0
  <2>1. x * S = 0 /\ e * S = 0
    BY <1>2, <1>3, <1>13
  <2>2. x * S <= e * S + amount + S + S
    BY <1>1, <2>1
  <2> QED
    BY <2>2 DEF x, e, S
<1>14. CASE S # 0
  <2>1. S * F <= q * dep + dep /\ q * p <= e * F + F
    BY <1>6, <1>8, <1>9, <1>11
  <2>2. x * S <= e * S + amount + S + S
    BY <1>1, <1>2, <1>3, <1>5, <1>8, <1>12, <1>14, <2>1, PricesApart
  <2> QED
    BY <2>2 DEF x, e, S
<1> QED
  BY <1>13, <1>14

\* No price is above one USDC per deposited USDC unless the slice has more than its
\* deposits.
LEMMA ExpectedPriceWithin ==
  ASSUME NEW slice \in PoolSlice, TotalDeposited(slice) # 0, NEW amount \in Nat,
         amount <= TotalDeposited(slice), NEW tranche \in {slice.senior, slice.junior}
  PROVE  calculateExpectedSharePrice(tranche, amount, slice) <= FP_SCALING_FACTOR
<1> DEFINE F == FP_SCALING_FACTOR
           dep == TotalDeposited(slice)
           x == calculateExpectedSharePrice(tranche, amount, slice)
<1>1. dep \in Nat \ {0} /\ dep \in Nat /\ tranche.principalDeposited \in Nat /\ F \in Nat
  BY SliceType, ScalingAssumption
<1>2. x \in Nat /\ x * dep <= amount * F
  BY <1>1, ExpectedSharePriceIs
<1> HIDE DEF F, dep, x
<1>3. amount * F <= dep * F
  BY <1>1, TimesMonotone DEF dep
<1>4. x * dep \in Nat /\ amount * F \in Nat /\ dep * F \in Nat /\ dep * F = F * dep
  BY <1>1, <1>2, TimesType
<1>5. x * dep <= F * dep
  BY <1>2, <1>3, <1>4
<1>6. x <= F
  BY <1>1, <1>2, <1>5, TimesCancelLe
<1> QED
  BY <1>6 DEF x, F

----------------------------------------------------------------------------
(* What a payment leaves of the principal owed.                            *)

\* Money is left over only of a loan that is paid off.
LEMMA LeftOverIs ==
  ASSUME NEW amount \in Nat, NEW balance \in Nat, NEW interestOwed \in Nat,
         NEW principalOwed \in Nat, NEW status, NEW pa,
         pa = allocatePayment(amount, balance, interestOwed, principalOwed, status),
         pa.principalPayment <= balance,
         amount - pa.interestPayment - pa.principalPayment - pa.additionalBalancePayment > 0
  PROVE  /\ pa.principalPayment = principalOwed
         /\ pa.principalPayment + pa.additionalBalancePayment = balance
<1> DEFINE i == pa.interestPayment
           q == pa.principalPayment
           b == pa.additionalBalancePayment
<1>1. i \in 0..interestOwed /\ q \in 0..principalOwed /\ b \in Nat
  BY AllocatedIs
<1>2. b = AtMostOf(amount - i - q, balance - q)
  BY DEF allocatePayment
<1>3. \/ q = AtMostOf(principalOwed, amount - i)
      \/ q = AtMostOf(principalOwed, amount) /\ i = AtMostOf(interestOwed, amount - q)
  <2>1. CASE status = "NotInProcess"
    BY <2>1 DEF allocatePayment
  <2>2. CASE status # "NotInProcess"
    <3>1. q = AtMostOf(principalOwed, amount)
      BY <2>2 DEF allocatePayment
    <3>2. i = AtMostOf(interestOwed, amount - AtMostOf(principalOwed, amount))
      BY <2>2 DEF allocatePayment
    <3> QED
      BY <3>1, <3>2
  <2> QED
    BY <2>1, <2>2
<1>4. q <= balance /\ amount - i - q - b > 0
  OBVIOUS
<1> HIDE DEF i, q, b
<1>5. b = balance - q
  BY <1>1, <1>2, <1>4 DEF AtMostOf
<1>6. q = principalOwed
  <2>1. amount - i - q > 0
    BY <1>1, <1>4
  <2>2. CASE q = AtMostOf(principalOwed, amount - i)
    BY <1>1, <2>1, <2>2 DEF AtMostOf
  <2>3. CASE q = AtMostOf(principalOwed, amount) /\ i = AtMostOf(interestOwed, amount - q)
    BY <1>1, <2>1, <2>3 DEF AtMostOf
  <2> QED
    BY <1>3, <2>2, <2>3
<1>7. q + b = balance
  BY <1>1, <1>5
<1> QED
  BY <1>6, <1>7 DEF q, b

\* A payment never makes up for principal that fell due twice, and what is left of
\* one is left of a loan that is paid off.
OwedWithin(cl, o) ==
  /\ o.line.principalOwed \in Nat
  /\ o.line.principalOwed <= o.line.balance => cl.principalOwed <= cl.balance
  /\ o.remaining > 0 => o.line.principalOwed = 0 /\ o.line.balance = 0

\* The principal owed after a payment.
LEMMA PaidOffOwes ==
  ASSUME NEW owed \in CreditLineState, NEW pa, NEW now,
         pa.interestPayment \in 0..owed.interestOwed,
         pa.principalPayment \in 0..owed.principalOwed,
         pa.additionalBalancePayment \in Nat,
         pa.principalPayment + pa.additionalBalancePayment <= owed.balance
  PROVE  paidOff(owed, pa, now).principalOwed = owed.principalOwed - pa.principalPayment
<1> DEFINE i == pa.interestPayment
           q == pa.principalPayment
           b == pa.additionalBalancePayment
           paid == [owed EXCEPT !.balance       = @ - q - b,
                                !.interestOwed  = @ - i,
                                !.principalOwed = @ - q]
<1>1. paidOff(owed, pa, now) = updateCreditLineAccounting(paid, now)
  BY DEF paidOff
<1>2. owed.balance \in Nat /\ owed.interestOwed \in Nat /\ owed.principalOwed \in Nat
  BY LineType
<1>3. /\ owed.balance - q - b \in Nat /\ owed.interestOwed - i \in Nat
      /\ owed.principalOwed - q \in Nat
  BY <1>2
<1> HIDE DEF i, q, b
<1>4. paid \in CreditLineState /\ paid.principalOwed = owed.principalOwed - q
  BY <1>3 DEF CreditLineState
<1> HIDE DEF paid
<1>5. updateCreditLineAccounting(paid, now).principalOwed = paid.principalOwed
  BY <1>4 DEF updateCreditLineAccounting, CreditLineState
<1> QED
  BY <1>1, <1>4, <1>5 DEF q

\* handlePayment, seen from the principal owed.
LEMMA PaymentOwes ==
  ASSUME NEW cl \in CreditLineState, NEW amount \in Nat, NEW timestamp \in Int, NEW now \in Nat,
         NEW status, handlePayment(cl, amount, timestamp, now, status).defined
  PROVE  OwedWithin(cl, handlePayment(cl, amount, timestamp, now, status))
<1> DEFINE owed == updateOwedAsOf(cl, timestamp, status)
           pa == allocatePayment(amount, cl.balance, owed.interestOwed, owed.principalOwed, status)
           i == pa.interestPayment
           q == pa.principalPayment
           b == pa.additionalBalancePayment
           line == paidOff(owed, pa, now)
           o == handlePayment(cl, amount, timestamp, now, status)
<1>1. /\ o.line = line /\ o.remaining = amount - i - q - b
      /\ timestamp >= 0 /\ q <= cl.balance /\ line.lastFullPaymentTime >= 0
  BY DEF handlePayment, outcomeOfPayment
<1>2. timestamp \in Nat
  BY <1>1
<1>3. /\ owed \in CreditLineState /\ SameLoan(cl, owed)
      /\ owed.principalOwed \in {cl.principalOwed, cl.principalOwed + cl.balance}
  BY <1>2, OwedIs
<1> HIDE DEF owed, o
<1>4. /\ owed.interestOwed \in Nat /\ owed.principalOwed \in Nat
      /\ cl.balance \in Nat /\ cl.principalOwed \in Nat
  BY <1>3, LineType
<1>5. /\ i \in 0..owed.interestOwed /\ q \in 0..owed.principalOwed /\ b \in Nat
      /\ q + b <= cl.balance /\ i + q + b <= amount
  BY <1>1, <1>4, AllocatedIs
<1>6. amount - i - q - b > 0 => q = owed.principalOwed /\ q + b = cl.balance
  BY <1>1, <1>4, LeftOverIs
<1> HIDE DEF pa
<1>7. owed.balance = cl.balance
  BY <1>3 DEF SameLoan
<1>8. line.balance = owed.balance - (q + b)
  BY <1>1, <1>2, <1>3, <1>5, <1>7, PaidOffIs
<1>9. line.principalOwed = owed.principalOwed - q
  BY <1>3, <1>5, <1>7, PaidOffOwes
<1> HIDE DEF line, i, q, b
<1>10. line.principalOwed \in Nat
  BY <1>4, <1>5, <1>9
<1>11. line.principalOwed <= line.balance => cl.principalOwed <= cl.balance
  BY <1>3, <1>4, <1>5, <1>7, <1>8, <1>9
<1>12. amount - i - q - b > 0 => line.principalOwed = 0 /\ line.balance = 0
  BY <1>4, <1>5, <1>6, <1>7, <1>8, <1>9
<1>13. OwedWithin(cl, o)
  BY <1>1, <1>10, <1>11, <1>12 DEF OwedWithin
<1> QED
  BY <1>13 DEF o

\* The same of an assessment, early or not.
LEMMA AssessOwes ==
  ASSUME NEW cl \in CreditLineState, NEW available \in Nat, NEW now \in Nat, NEW status,
         assess(cl, available, now, status).defined
  PROVE  OwedWithin(cl, assess(cl, available, now, status))
<1> DEFINE o == assess(cl, available, now, status)
           next == calculateNextDueTime(cl, now)
           due == [cl EXCEPT !.nextDueTime = next]
           timestamp == timeToAssess(cl, now)
           paid == handlePayment(due, available, timestamp, now, status)
<1>0. cl.balance \in Nat /\ cl.principalOwed \in Nat /\ secondsPerPeriod(cl) \in Nat \ {0}
  BY LineType
<1>1. CASE notAssessedEarly(cl, now)
  <2>1. o.line = cl /\ o.remaining = 0
    BY <1>1 DEF assess
  <2> HIDE DEF o
  <2>2. OwedWithin(cl, o)
    BY <1>0, <2>1 DEF OwedWithin
  <2> QED
    BY <2>2 DEF o
<1>2. CASE ~ notAssessedEarly(cl, now)
  <2>1. paid.defined /\ o.line = paid.line /\ o.remaining = paid.remaining
    BY <1>2 DEF assess, handlePayment, outcomeOfPayment
  <2>2. next \in Nat
    BY NextDueTimeIs
  <2>3. timestamp = IF next > now THEN next - secondsPerPeriod(cl) ELSE next
    BY DEF timeToAssess
  <2> HIDE DEF next, timestamp, o
  <2>4. due \in CreditLineState
    BY <2>2 DEF CreditLineState
  <2>5. due.balance = cl.balance /\ due.principalOwed = cl.principalOwed
    BY DEF CreditLineState
  <2>6. timestamp \in Int
    BY <1>0, <2>2, <2>3
  <2> HIDE DEF due
  <2>7. OwedWithin(due, paid)
    BY <2>1, <2>4, <2>6, PaymentOwes
  <2> HIDE DEF paid
  <2>8. OwedWithin(cl, o)
    BY <2>1, <2>5, <2>7 DEF OwedWithin
  <2> QED
    BY <2>8 DEF o
<1> QED
  BY <1>1, <1>2

----------------------------------------------------------------------------
(* The steps of a pool with one slice, by what they do to it.              *)

\* Deposits, principal prices and the principal that is out stay as they are.
SameHoldings(before, after) ==
  /\ after.senior.principalDeposited = before.senior.principalDeposited
  /\ after.junior.principalDeposited = before.junior.principalDeposited
  /\ after.senior.principalSharePrice = before.senior.principalSharePrice
  /\ after.junior.principalSharePrice = before.junior.principalSharePrice
  /\ after.principalDeployed = before.principalDeployed
  /\ before.senior.lockedUntil > 0 => after.senior.lockedUntil > 0

\* A depositor brings an amount to a tranche that is not locked, or takes one back.
DepositsMove(slice, after) ==
  \E name \in TrancheNames, amount \in Nat :
    /\ slice[name].lockedUntil = 0
    /\ after = depositing(slice, name, amount)
    /\ \/ amount <= slice[name].principalDeposited /\ Len(tokens') = Len(tokens)
       \/ /\ Len(tokens) < MaxTokens /\ Len(tokens') = Len(tokens) + 1
          /\ \E more \in JuniorDeposits \cup SeniorDeposits :
               amount = slice[name].principalDeposited + more

SameDebt ==
  creditLine'.balance = creditLine.balance /\ creditLine'.principalOwed = creditLine.principalOwed

OneSliceMoves ==
  \/ /\ SameHoldings(poolSlices[1], poolSlices'[1])
     /\ SameDebt /\ Len(tokens') = Len(tokens)
  \/ DepositsMove(poolSlices[1], poolSlices'[1]) /\ SameDebt
  \/ \E amount \in Nat : Drawdown(amount)
  \/ \E available \in Nat, status \in LiquidationProcess :
       _Assess(available, status) /\ tokens' = tokens

\* A pool with one slice had one before, unless a slice was added.
LEMMA OneSliceStays ==
  ASSUME PoolInv, PoolInv', Len(poolSlices') = 1, DOMAIN poolSlices' = DOMAIN poolSlices
  PROVE  Len(poolSlices) = 1
<1>1. Len(poolSlices) \in Nat \ {0} /\ DOMAIN poolSlices = 1..Len(poolSlices)
  BY PoolIs DEF PoolInv
<1>2. DOMAIN poolSlices' = 1..1
  BY DEF PoolInv, TypeOK
<1>3. 1..Len(poolSlices) = 1..1
  BY <1>1, <1>2
<1>4. Len(poolSlices) \in 1..1
  <2>1. Len(poolSlices) \in 1..Len(poolSlices)
    BY <1>1
  <2> QED
    BY <1>3, <2>1
<1> QED
  BY <1>1, <1>4

\* The only slice of a pool.
LEMMA OneSliceIs ==
  ASSUME PoolInv, Len(poolSlices) = 1
  PROVE  /\ poolSlices[1] \in PoolSlice /\ SliceInOrder(poolSlices[1])
         /\ currentSlice = 1 /\ DOMAIN poolSlices = 1..1 /\ poolSlices \in Slices(1)
         /\ totalDeployed \in Nat /\ creditLine.balance \in Nat /\ creditLine.principalOwed \in Nat
         /\ poolSlices[1].principalDeployed = totalDeployed
         /\ creditLine.balance = totalDeployed
<1>1. poolSlices \in Slices(1) /\ currentSlice = 1 /\ DOMAIN poolSlices = 1..1
  BY PoolIs DEF PoolInv
<1>2. poolSlices[1] \in PoolSlice /\ SliceInOrder(poolSlices[1])
  BY <1>1 DEF Slices, PoolInv, SlicesInOrder
<1>3. totalDeployed \in Nat /\ creditLine.balance \in Nat /\ creditLine.principalOwed \in Nat
  BY LineType DEF PoolInv, TypeOK
<1>4. /\ totalDeployed = Total(deployedIn(1, poolSlices))
      /\ creditLine.balance = totalDeployed
  BY DEF PoolInv, LoanBooks
<1>5. deployedIn(1, poolSlices) \in Amounts(1)
  BY <1>1, SliceTotalsType
<1>6. Total(deployedIn(1, poolSlices)) = deployedIn(1, poolSlices)[1]
  BY <1>5, TotalOfOne
<1>7. deployedIn(1, poolSlices)[1] = poolSlices[1].principalDeployed
  BY DEF deployedIn
<1> QED
  BY <1>1, <1>2, <1>3, <1>4, <1>6, <1>7

\* A deposit.
LEMMA DepositMoves ==
  ASSUME PoolInv, PoolInv', Len(poolSlices') = 1, NEW s \in DOMAIN poolSlices,
         NEW name \in TrancheNames, NEW amount \in JuniorDeposits \cup SeniorDeposits,
         Deposit(s, name, amount)
  PROVE  Len(poolSlices) = 1 /\ OneSliceMoves
<1> DEFINE slice == poolSlices[1]
           deposited == slice[name].principalDeposited
<1>1. poolSlices' = [poolSlices EXCEPT ![s] = depositing(poolSlices[s], name,
                                          poolSlices[s][name].principalDeposited + amount)]
  BY DEF Deposit, depositing
<1>2. Len(poolSlices) = 1
  BY <1>1, OneSliceStays
<1>3. s = 1 /\ slice \in PoolSlice
  BY <1>2, OneSliceIs
<1>4. poolSlices'[1] = depositing(slice, name, deposited + amount)
  BY <1>1, <1>3
<1>5. deposited \in Nat /\ amount \in Nat
  BY <1>3, SliceType, DepositAssumption DEF TrancheNames
<1>6. deposited + amount \in Nat
  BY <1>5
<1>7. slice[name].lockedUntil = 0 /\ Len(tokens) < MaxTokens /\ creditLine' = creditLine
  BY <1>3 DEF Deposit
<1>8. Len(tokens') = Len(tokens) + 1
  <2>1. tokens \in Seq(TokenInfo)
    BY DEF PoolInv, TypeOK
  <2>2. \E token : tokens' = Append(tokens, token)
    BY DEF Deposit
  <2> QED
    BY <2>1, <2>2
<1>9. DepositsMove(slice, poolSlices'[1])
  BY <1>4, <1>6, <1>7, <1>8 DEF DepositsMove
<1> QED
  BY <1>2, <1>7, <1>9 DEF OneSliceMoves, SameDebt

\* A withdrawal, before the tranche is locked or after.
LEMMA WithdrawMoves ==
  ASSUME PoolInv, PoolInv', Len(poolSlices') = 1, NEW k \in DOMAIN tokens, NEW amount \in Int,
         _Withdraw(k, amount)
  PROVE  Len(poolSlices) = 1 /\ OneSliceMoves
<1> DEFINE slice == poolSlices[1]
           s == tokens[k].slice
           name == tokens[k].tranche
           deposited == slice[name].principalDeposited
<1>1. \/ poolSlices' = poolSlices
      \/ /\ poolSlices[s][name].lockedUntil = 0
         /\ amount <= poolSlices[s][name].principalDeposited
         /\ poolSlices' = [poolSlices EXCEPT ![s] = depositing(poolSlices[s], name,
                                               poolSlices[s][name].principalDeposited - amount)]
  BY DEF _Withdraw, TrancheOf, depositing
<1>2. Len(poolSlices) = 1
  BY <1>1, OneSliceStays
<1>3. k \in 1..Len(tokens)
  BY PoolIs DEF PoolInv
<1>4. s = 1 /\ name \in TrancheNames /\ slice \in PoolSlice
  BY <1>2, <1>3, RedeemableType
<1>5. amount > 0 /\ creditLine' = creditLine
  BY DEF _Withdraw
<1>6. Len(tokens') = Len(tokens)
  <2>1. tokens \in Seq(TokenInfo) /\ tokens' \in Seq(TokenInfo)
    BY DEF PoolInv, TypeOK
  <2>2. DOMAIN tokens' = DOMAIN tokens
    BY DEF _Withdraw
  <2> QED
    BY <2>1, <2>2
<1>7. CASE poolSlices' = poolSlices
  BY <1>2, <1>5, <1>6, <1>7 DEF OneSliceMoves, SameHoldings, SameDebt
<1>8. CASE /\ poolSlices[s][name].lockedUntil = 0
           /\ amount <= poolSlices[s][name].principalDeposited
           /\ poolSlices' = [poolSlices EXCEPT ![s] = depositing(poolSlices[s], name,
                                                 poolSlices[s][name].principalDeposited - amount)]
  <2>1. deposited \in Nat
    BY <1>4, SliceType DEF TrancheNames
  <2>2. amount <= deposited
    BY <1>4, <1>8
  <2>3. deposited - amount \in Nat /\ deposited - amount <= deposited
    BY <1>5, <2>1, <2>2
  <2>4. poolSlices'[1] = depositing(slice, name, deposited - amount)
    <3>1. 1 \in DOMAIN poolSlices
      BY <1>2, OneSliceIs
    <3> QED
      BY <1>4, <1>8, <3>1
  <2>5. slice[name].lockedUntil = 0
    BY <1>4, <1>8
  <2>6. DepositsMove(slice, poolSlices'[1])
    BY <1>4, <1>6, <2>3, <2>4, <2>5 DEF DepositsMove
  <2> QED
    BY <1>2, <1>5, <2>6 DEF OneSliceMoves, SameDebt
<1> QED
  BY <1>1, <1>7, <1>8

\* Locking a slice keeps its holdings.
LEMMA LockingKeepsHoldings ==
  ASSUME NEW slice \in PoolSlice, slice.senior.lockedUntil = 0, NEW senior, NEW junior
  PROVE  SameHoldings(slice, locking(slice, senior, junior))
BY DEF SameHoldings, locking, PoolSlice, Tranche

\* The only slice once the pool is locked.
LEMMA OneSliceLocked ==
  ASSUME PoolInv, Len(poolSlices) = 1, canLockPool
  PROVE  /\ SameHoldings(poolSlices[1], lockedSlices[1]) /\ DOMAIN lockedSlices = DOMAIN poolSlices
         /\ raisedCreditLine.balance = creditLine.balance
         /\ raisedCreditLine.principalOwed = creditLine.principalOwed
<1> DEFINE until == time + DrawdownPeriod
<1>1. poolSlices[1] \in PoolSlice /\ currentSlice = 1 /\ DOMAIN poolSlices = 1..1
  BY OneSliceIs
<1>2. poolSlices[1].senior.lockedUntil = 0
  BY <1>1 DEF canLockPool
<1>3. lockedSlices = [poolSlices EXCEPT ![1] = locking(poolSlices[1], until, until)]
  BY <1>1 DEF lockedSlices, locking, PoolSlice
<1> HIDE DEF until
<1>4. lockedSlices[1] = locking(poolSlices[1], until, until)
  BY <1>1, <1>3
<1>5. SameHoldings(poolSlices[1], lockedSlices[1])
  BY <1>1, <1>2, <1>4, LockingKeepsHoldings
<1>6. TypeOK
  BY DEF PoolInv
<1> QED
  BY <1>3, <1>5, <1>6, RaisedIs

\* The steps that lock.
LEMMA LocksMove ==
  ASSUME PoolInv, PoolInv', Len(poolSlices') = 1, LockJuniorCapital \/ LockPool
  PROVE  Len(poolSlices) = 1 /\ OneSliceMoves
<1>1. CASE LockJuniorCapital
  <2> DEFINE until == time + DrawdownPeriod
  <2>1. DOMAIN poolSlices' = DOMAIN poolSlices
    BY <1>1 DEF LockJuniorCapital
  <2>2. Len(poolSlices) = 1
    BY <2>1, OneSliceStays
  <2>3. poolSlices[1] \in PoolSlice /\ currentSlice = 1 /\ DOMAIN poolSlices = 1..1
    BY <2>2, OneSliceIs
  <2>4. poolSlices[1].senior.lockedUntil \in Nat
    BY <2>3, SliceType
  <2>5. poolSlices[1].senior.lockedUntil = 0
    BY <1>1, <2>3, <2>4 DEF LockJuniorCapital, locked
  <2>6. locking(poolSlices[1], 0, until)
          = [poolSlices[1] EXCEPT !.junior = [poolSlices[1].junior EXCEPT !.lockedUntil = until]]
    BY <2>3, <2>5 DEF locking, PoolSlice, Tranche
  <2>7. poolSlices'[1]
          = [poolSlices[1] EXCEPT !.junior = [poolSlices[1].junior EXCEPT !.lockedUntil = until]]
    BY <1>1, <2>3 DEF LockJuniorCapital
  <2>8. creditLine' = creditLine /\ tokens' = tokens
    BY <1>1 DEF LockJuniorCapital
  <2> HIDE DEF until
  <2>9. SameHoldings(poolSlices[1], poolSlices'[1])
    BY <2>3, <2>5, <2>6, <2>7, LockingKeepsHoldings
  <2> QED
    BY <2>2, <2>8, <2>9 DEF OneSliceMoves, SameDebt
<1>2. CASE LockPool
  <2>1. /\ poolSlices' = lockedSlices /\ canLockPool /\ creditLine' = raisedCreditLine
        /\ tokens' = tokens
    BY <1>2 DEF LockPool
  <2>2. DOMAIN poolSlices' = DOMAIN poolSlices
    BY <2>1 DEF lockedSlices
  <2>3. Len(poolSlices) = 1
    BY <2>2, OneSliceStays
  <2>4. /\ SameHoldings(poolSlices[1], lockedSlices[1])
        /\ raisedCreditLine.balance = creditLine.balance
        /\ raisedCreditLine.principalOwed = creditLine.principalOwed
    BY <2>1, <2>3, OneSliceLocked
  <2>5. SameHoldings(poolSlices[1], poolSlices'[1]) /\ SameDebt /\ Len(tokens') = Len(tokens)
    BY <2>1, <2>4 DEF SameDebt
  <2> QED
    BY <2>3, <2>5 DEF OneSliceMoves
<1> QED
  BY <1>1, <1>2

\* A drawdown is of the only slice.
LEMMA DrawdownIsOfOne ==
  ASSUME PoolInv, PoolInv', Len(poolSlices') = 1, NEW amount \in Nat, Drawdown(amount)
  PROVE  Len(poolSlices) = 1 /\ OneSliceMoves
<1>1. DOMAIN poolSlices' = DOMAIN poolSlices
  BY DEF Drawdown, lockedSlices
<1>2. Len(poolSlices) = 1
  BY <1>1, OneSliceStays
<1> QED
  BY <1>2 DEF OneSliceMoves

\* So is an assessment.
LEMMA AssessmentIsOfOne ==
  ASSUME PoolInv, PoolInv', Len(poolSlices') = 1, NEW available \in Nat,
         NEW status \in LiquidationProcess, _Assess(available, status), tokens' = tokens
  PROVE  Len(poolSlices) = 1 /\ OneSliceMoves
<1>1. SlicesShape(poolSlices)
  <2>1. poolSlices \in Seq(PoolSlice) /\ Len(poolSlices) # 0
    BY PoolIs DEF PoolInv, TypeOK
  <2>2. poolSlices # <<>>
    BY <2>1
  <2>3. \A i \in DOMAIN poolSlices : poolSlices[i] \in PoolSlice
    BY <2>1
  <2>4. \A slice \in PoolSlice : SliceShape(slice)
    BY DEF SliceShape, TrancheShape, PoolSlice, Tranche
  <2> QED
    BY <2>1, <2>2, <2>3, <2>4 DEF SlicesShape
<1>2. SameCapitalInAll(poolSlices, poolSlices')
  BY <1>1, SettleKeeps DEF _Assess
<1>3. Len(poolSlices) = 1
  BY <1>2, OneSliceStays DEF SameCapitalInAll
<1> QED
  BY <1>3 DEF OneSliceMoves

\* Steps that leave the slices alone.
LEMMA OthersMove ==
  ASSUME PoolInv, PoolInv', Len(poolSlices') = 1,
         \/ AdminStep \/ Tick \/ UNCHANGED vars
         \/ \E t \in FundableTimes : SetFundableAt(t)
  PROVE  Len(poolSlices) = 1 /\ OneSliceMoves
<1>1. poolSlices' = poolSlices /\ tokens' = tokens
  BY DEF AdminStep, Tick, MigrateCreditLine, SetLimit, SetMaxLimit, SetDrawdownsPaused,
     SetPaused, SetFundableAt, vars, poolVars
<1>2. SameDebt
  <2>1. ASSUME NEW terms \in Terms, MigrateCreditLine(terms) PROVE SameDebt
    <3>1. /\ creditLine'.balance = creditLine.balance
          /\ creditLine'.principalOwed = creditLine.principalOwed
      BY <2>1 DEF MigrateCreditLine, PoolInv, TypeOK, CreditLineState
    <3> QED
      BY <3>1 DEF SameDebt
  <2>2. ASSUME NEW limit \in Limits, SetLimit(limit) \/ SetMaxLimit(limit) PROVE SameDebt
    <3>1. /\ creditLine'.balance = creditLine.balance
          /\ creditLine'.principalOwed = creditLine.principalOwed
      BY <2>2 DEF SetLimit, SetMaxLimit, PoolInv, TypeOK, CreditLineState
    <3> QED
      BY <3>1 DEF SameDebt
  <2>3. CASE creditLine' = creditLine
    BY <2>3 DEF SameDebt
  <2> QED
    BY <2>1, <2>2, <2>3 DEF AdminStep, Tick, SetDrawdownsPaused, SetPaused, SetFundableAt, vars
<1> QED
  BY <1>1, <1>2 DEF OneSliceMoves, SameHoldings

\* Every step of a pool that has one slice after it.
LEMMA OneSliceSteps ==
  ASSUME PoolInv, PoolInv', [Next]_vars, Len(poolSlices') = 1
  PROVE  Len(poolSlices) = 1 /\ OneSliceMoves
<1> DEFINE Goal == Len(poolSlices) = 1 /\ OneSliceMoves
<1>1. CASE DepositorStep
  <2>1. ASSUME NEW s \in DOMAIN poolSlices, NEW name \in TrancheNames,
               NEW amount \in JuniorDeposits \cup SeniorDeposits, Deposit(s, name, amount)
        PROVE  Goal
    BY <2>1, DepositMoves
  <2>2. ASSUME NEW k \in DOMAIN tokens, NEW amount \in Withdrawals, Withdraw(k, amount)
        PROVE  Goal
    <3>1. amount \in Int /\ _Withdraw(k, amount)
      BY <2>2, DepositAssumption DEF Withdraw
    <3> QED
      BY <3>1, WithdrawMoves
  <2>3. ASSUME NEW k \in DOMAIN tokens, WithdrawMax(k) PROVE Goal
    <3> DEFINE amount == interestRedeemable(tokens[k]) + principalRedeemable(tokens[k])
    <3>1. k \in 1..Len(tokens)
      BY PoolIs DEF PoolInv
    <3>2. amount \in Int
      BY <3>1, RedeemableType
    <3>3. _Withdraw(k, amount)
      BY <2>3 DEF WithdrawMax
    <3> HIDE DEF amount
    <3> QED
      BY <3>2, <3>3, WithdrawMoves
  <2> QED
    BY <1>1, <2>1, <2>2, <2>3 DEF DepositorStep, TrancheNames
<1>2. CASE LockerStep
  <2>1. ASSUME NEW amount \in Drawdowns, Drawdown(amount) PROVE Goal
    BY <2>1, DepositAssumption, DrawdownIsOfOne
  <2>2. ASSUME NEW t \in FundableTimes, InitializeNextSlice(t) PROVE FALSE
    <3>1. poolSlices' = Append(poolSlices, EmptySlice)
      BY <2>2 DEF InitializeNextSlice
    <3>2. poolSlices \in Seq(PoolSlice) /\ Len(poolSlices) \in Nat \ {0}
      BY PoolIs DEF PoolInv, TypeOK
    <3>3. Len(poolSlices') = Len(poolSlices) + 1
      BY <3>1, <3>2
    <3>4. \A n \in Nat \ {0} : n + 1 # 1
      OBVIOUS
    <3>5. Len(poolSlices) + 1 # 1
      BY <3>2, <3>4
    <3> QED
      BY <3>3, <3>5
  <2> QED
    BY <1>2, <2>1, <2>2, LocksMove, OthersMove DEF LockerStep
<1>3. CASE PaymentStep
  <2>1. ASSUME NEW available \in Nat, NEW status \in LiquidationProcess,
               _Assess(available, status), tokens' = tokens
        PROVE  Goal
    BY <2>1, AssessmentIsOfOne
  <2>2. creditLineUsdc \in Nat /\ liquidated \in LiquidationProcess
        /\ "Starting" \in LiquidationProcess
    BY DEF PoolInv, TypeOK, LiquidationProcess
  <2>3. CASE Assess
    BY <2>1, <2>2, <2>3 DEF Assess
  <2>4. ASSUME NEW amount \in Payments, Pay(amount) PROVE Goal
    <3>1. creditLineUsdc + amount \in Nat
      BY <2>2, DepositAssumption
    <3> QED
      BY <2>1, <2>2, <2>4, <3>1 DEF Pay
  <2>5. CASE Liquidate
    BY <2>1, <2>2, <2>5 DEF Liquidate
  <2> QED
    BY <1>3, <2>3, <2>4, <2>5 DEF PaymentStep
<1> QED
  BY <1>1, <1>2, <1>3, OthersMove DEF Next

----------------------------------------------------------------------------
(* The principal of a pool with one slice.                                 *)

\* What the share prices say of the principal and what is out make up the deposits
\* at most, and no price is above the initial one unless principal fell due twice.
SliceKept(slice, owed, balance) ==
  /\ amountAvailable(slice) + slice.principalDeployed <= TotalDeposited(slice)
  /\ owed <= balance
     => /\ slice.senior.principalSharePrice <= FP_SCALING_FACTOR
        /\ slice.junior.principalSharePrice <= FP_SCALING_FACTOR

PrincipalKept ==
  Len(poolSlices) = 1 => SliceKept(poolSlices[1], creditLine.principalOwed, creditLine.balance)

\* The holdings of a slice are numbers.
LEMMA AvailableType ==
  ASSUME NEW slice \in PoolSlice
  PROVE  /\ sharePriceToUsdc(slice.junior.principalSharePrice, slice.junior.principalDeposited) \in Nat
         /\ sharePriceToUsdc(slice.senior.principalSharePrice, slice.senior.principalDeposited) \in Nat
         /\ amountAvailable(slice) \in Nat
<1> DEFINE x == sharePriceToUsdc(slice.junior.principalSharePrice, slice.junior.principalDeposited)
           y == sharePriceToUsdc(slice.senior.principalSharePrice, slice.senior.principalDeposited)
<1>1. x \in Nat /\ y \in Nat
  BY SliceType, SharePriceToUsdcIs
<1>2. amountAvailable(slice) = x + y
  BY DEF amountAvailable
<1> HIDE DEF x, y
<1> QED
  BY <1>1, <1>2 DEF x, y

\* At the initial price deposits are worth themselves.
LEMMA InitialPriceIs ==
  ASSUME NEW dep \in Nat
  PROVE  sharePriceToUsdc(FP_SCALING_FACTOR, dep) = dep
<1>1. FP_SCALING_FACTOR \in Nat \ {0}
  BY ScalingAssumption
<1>2. FP_SCALING_FACTOR * dep \in Nat /\ FP_SCALING_FACTOR * dep = dep * FP_SCALING_FACTOR
  BY <1>1, TimesType
<1>3. IsFloor((FP_SCALING_FACTOR * dep) \div FP_SCALING_FACTOR, FP_SCALING_FACTOR * dep,
              FP_SCALING_FACTOR)
  BY <1>1, <1>2, QuotientIsFloor
<1>4. IsFloor(dep, FP_SCALING_FACTOR * dep, FP_SCALING_FACTOR)
  BY <1>1, <1>2 DEF IsFloor
<1>5. (FP_SCALING_FACTOR * dep) \div FP_SCALING_FACTOR <= dep
  BY <1>1, <1>2, <1>3, <1>4, FloorBounds DEF IsFloor
<1>6. dep <= (FP_SCALING_FACTOR * dep) \div FP_SCALING_FACTOR
  BY <1>1, <1>2, <1>3, <1>4, FloorBounds DEF IsFloor
<1>7. (FP_SCALING_FACTOR * dep) \div FP_SCALING_FACTOR \in Nat
  BY <1>3 DEF IsFloor
<1> QED
  BY <1>5, <1>6, <1>7 DEF sharePriceToUsdc

\* No price above the initial one is worth more than the deposits.
LEMMA LowerPriceIs ==
  ASSUME NEW price \in Nat, price <= FP_SCALING_FACTOR, NEW dep \in Nat
  PROVE  sharePriceToUsdc(price, dep) <= dep
<1> DEFINE F == FP_SCALING_FACTOR
           u == sharePriceToUsdc(price, dep)
<1>1. F \in Nat \ {0} /\ F \in Nat
  BY ScalingAssumption
<1>2. u \in Nat /\ u * F <= price * dep
  BY SharePriceToUsdcIs
<1>3. price * dep <= F * dep
  BY <1>1, TimesMonotone
<1> HIDE DEF u, F
<1>4. F * dep = dep * F /\ u * F \in Nat /\ price * dep \in Nat /\ dep * F \in Nat
  BY <1>1, <1>2, TimesType
<1>5. u * F <= dep * F
  BY <1>2, <1>3, <1>4
<1>6. u <= dep
  BY <1>1, <1>2, <1>5, TimesCancelLe
<1> QED
  BY <1>6 DEF u

\* A step that keeps the holdings.
LEMMA SameHoldingsAreKept ==
  ASSUME NEW slice, NEW after, SameHoldings(slice, after), NEW owed, NEW balance,
         SliceKept(slice, owed, balance)
  PROVE  SliceKept(after, owed, balance)
<1>1. amountAvailable(after) = amountAvailable(slice)
  BY DEF SameHoldings, amountAvailable
<1>2. TotalDeposited(after) = TotalDeposited(slice)
  BY DEF SameHoldings, TotalDeposited
<1> QED
  BY <1>1, <1>2 DEF SameHoldings, SliceKept

\* What changes when deposits do: one of the two tranches, at the initial price.
DepositedOnly(slice, name, amount, after) ==
  /\ after.senior.principalSharePrice = slice.senior.principalSharePrice
  /\ after.junior.principalSharePrice = slice.junior.principalSharePrice
  /\ after.principalDeployed = slice.principalDeployed
  /\ after.senior.lockedUntil = slice.senior.lockedUntil
  /\ slice.senior.lockedUntil = 0
  /\ slice[name].principalSharePrice = FP_SCALING_FACTOR
  /\ \/ /\ name = "senior" /\ after.senior.principalDeposited = amount
        /\ after.junior.principalDeposited = slice.junior.principalDeposited
     \/ /\ name = "junior" /\ after.junior.principalDeposited = amount
        /\ after.senior.principalDeposited = slice.senior.principalDeposited

\* A deposit changes no more.
LEMMA DepositingIs ==
  ASSUME NEW slice \in PoolSlice, SliceInOrder(slice), NEW name \in TrancheNames,
         slice[name].lockedUntil = 0, NEW amount \in Nat
  PROVE  DepositedOnly(slice, name, amount, depositing(slice, name, amount))
<1> DEFINE after == [slice EXCEPT ![name] = [slice[name] EXCEPT !.principalDeposited = amount]]
<1>1. depositing(slice, name, amount) = after
  BY DEF PoolSlice, depositing
<1>2. slice[name].principalSharePrice = FP_SCALING_FACTOR
  BY DEF SliceInOrder, Untouched, TrancheNames
<1>3. slice.senior.lockedUntil = 0
  <2>1. slice.senior.lockedUntil \in Nat /\ slice.junior.lockedUntil \in Nat
    BY SliceType
  <2> QED
    BY <2>1 DEF SliceInOrder, TrancheNames
<1>4. CASE name = "senior"
  <2>1. /\ after.senior.principalSharePrice = slice.senior.principalSharePrice
        /\ after.senior.lockedUntil = slice.senior.lockedUntil
        /\ after.senior.principalDeposited = amount
        /\ after.junior = slice.junior /\ after.principalDeployed = slice.principalDeployed
    BY <1>4 DEF PoolSlice, Tranche
  <2> HIDE DEF after
  <2>2. DepositedOnly(slice, name, amount, after)
    BY <1>2, <1>3, <1>4, <2>1 DEF DepositedOnly
  <2> QED
    BY <1>1, <2>2
<1>5. CASE name = "junior"
  <2>1. /\ after.junior.principalSharePrice = slice.junior.principalSharePrice
        /\ after.junior.principalDeposited = amount
        /\ after.senior = slice.senior /\ after.principalDeployed = slice.principalDeployed
    BY <1>5 DEF PoolSlice, Tranche
  <2> HIDE DEF after
  <2>2. DepositedOnly(slice, name, amount, after)
    BY <1>2, <1>3, <1>5, <2>1 DEF DepositedOnly
  <2> QED
    BY <1>1, <2>2
<1> QED
  BY <1>4, <1>5 DEF TrancheNames

\* Deposits before the lock.
LEMMA DepositsAreKept ==
  ASSUME NEW slice \in PoolSlice, NEW name, NEW amount \in Nat, NEW after,
         DepositedOnly(slice, name, amount, after), NEW owed, NEW balance,
         SliceKept(slice, owed, balance)
  PROVE  SliceKept(after, owed, balance)
<1> DEFINE S == slice.senior.principalDeposited
           J == slice.junior.principalDeposited
           x == sharePriceToUsdc(slice.junior.principalSharePrice, J)
           y == sharePriceToUsdc(slice.senior.principalSharePrice, S)
<1>1. S \in Nat /\ J \in Nat /\ x \in Nat /\ y \in Nat /\ slice.principalDeployed \in Nat
  BY SliceType, AvailableType
<1>2. x + y + slice.principalDeployed <= J + S
  BY DEF SliceKept, amountAvailable, TotalDeposited
<1>3. amountAvailable(after) + after.principalDeployed <= TotalDeposited(after)
  <2>1. CASE name = "senior"
    <3>1. /\ amountAvailable(after) = x + sharePriceToUsdc(FP_SCALING_FACTOR, amount)
          /\ TotalDeposited(after) = J + amount
      BY <2>1 DEF DepositedOnly, amountAvailable, TotalDeposited
    <3>2. sharePriceToUsdc(FP_SCALING_FACTOR, amount) = amount
      BY InitialPriceIs
    <3>3. y = S
      BY <1>1, <2>1, InitialPriceIs DEF DepositedOnly
    <3>4. after.principalDeployed = slice.principalDeployed
      BY DEF DepositedOnly
    <3> HIDE DEF x, y, S, J
    <3> QED
      BY <1>1, <1>2, <3>1, <3>2, <3>3, <3>4
  <2>2. CASE name = "junior"
    <3>1. /\ amountAvailable(after) = sharePriceToUsdc(FP_SCALING_FACTOR, amount) + y
          /\ TotalDeposited(after) = amount + S
      BY <2>2 DEF DepositedOnly, amountAvailable, TotalDeposited
    <3>2. sharePriceToUsdc(FP_SCALING_FACTOR, amount) = amount
      BY InitialPriceIs
    <3>3. x = J
      BY <1>1, <2>2, InitialPriceIs DEF DepositedOnly
    <3>4. after.principalDeployed = slice.principalDeployed
      BY DEF DepositedOnly
    <3> HIDE DEF x, y, S, J
    <3> QED
      BY <1>1, <1>2, <3>1, <3>2, <3>3, <3>4
  <2> QED
    BY <2>1, <2>2 DEF DepositedOnly
<1> QED
  BY <1>3 DEF SliceKept, DepositedOnly

\* A drawdown lowers the prices to what remains.
LEMMA DrawdownIsKept ==
  ASSUME NEW slice \in PoolSlice, NEW amount \in Nat, amount > 0, amount <= amountAvailable(slice),
         NEW owed, NEW balance, SliceKept(slice, owed, balance), NEW owedNow, NEW balanceNow
  PROVE  /\ SliceKept(sliceAfterDrawdown(slice, amount), owedNow, balanceNow)
         /\ TotalDeposited(slice) # 0
         /\ amountAvailable(slice) - amount \in 0..TotalDeposited(slice)
<1> DEFINE after == sliceAfterDrawdown(slice, amount)
           remaining == amountAvailable(slice) - amount
           ej == calculateExpectedSharePrice(slice.junior, remaining, slice)
           es == calculateExpectedSharePrice(slice.senior, remaining, slice)
<1>1. /\ amountAvailable(slice) \in Nat /\ slice.principalDeployed \in Nat
      /\ TotalDeposited(slice) \in Nat
  BY AvailableType, SliceType
<1>2. amountAvailable(slice) + slice.principalDeployed <= TotalDeposited(slice)
  BY DEF SliceKept
<1>3. remaining \in Nat /\ remaining <= TotalDeposited(slice) /\ TotalDeposited(slice) # 0
      /\ remaining + amount = amountAvailable(slice)
  BY <1>1, <1>2
<1>4. after = [slice EXCEPT !.junior.principalSharePrice = ej, !.senior.principalSharePrice = es,
                            !.principalDeployed = @ + amount]
  BY DEF sliceAfterDrawdown
<1> HIDE DEF ej, es, remaining, after
<1>5. /\ after.junior.principalSharePrice = ej /\ after.senior.principalSharePrice = es
      /\ after.junior.principalDeposited = slice.junior.principalDeposited
      /\ after.senior.principalDeposited = slice.senior.principalDeposited
      /\ after.principalDeployed = slice.principalDeployed + amount
  BY <1>4 DEF PoolSlice, Tranche
<1>6. amountAvailable(after) = sharePriceToUsdc(ej, slice.junior.principalDeposited)
                                 + sharePriceToUsdc(es, slice.senior.principalDeposited)
  BY <1>5 DEF amountAvailable
<1>7. amountAvailable(after) <= remaining
  BY <1>3, <1>6, RemainingIsShared DEF ej, es
<1>8. ej <= FP_SCALING_FACTOR /\ es <= FP_SCALING_FACTOR
  BY <1>3, ExpectedPriceWithin DEF ej, es
<1>9. amountAvailable(after) \in Nat
  <2>1. ej \in Nat /\ es \in Nat
    BY <1>1, <1>3, SliceType, ExpectedSharePriceIs DEF ej, es
  <2>2. /\ sharePriceToUsdc(ej, slice.junior.principalDeposited) \in Nat
        /\ sharePriceToUsdc(es, slice.senior.principalDeposited) \in Nat
    BY <2>1, SliceType, SharePriceToUsdcIs
  <2> QED
    BY <1>6, <2>2
<1>10. TotalDeposited(after) = TotalDeposited(slice)
  BY <1>5 DEF TotalDeposited
<1>11. amountAvailable(after) + after.principalDeployed <= TotalDeposited(after)
  BY <1>1, <1>2, <1>3, <1>5, <1>7, <1>9, <1>10
<1>12. SliceKept(after, owedNow, balanceNow)
  BY <1>5, <1>8, <1>11 DEF SliceKept
<1>13. remaining \in 0..TotalDeposited(slice)
  BY <1>1, <1>3
<1> QED
  BY <1>3, <1>12, <1>13 DEF after, remaining

----------------------------------------------------------------------------
(* Payments to the only slice.                                             *)

\* The slice in an assessment: interest was charged to it.
LEMMA OneSliceCharged ==
  ASSUME PoolInv, Len(poolSlices) = 1, totalDeployed > 0,
         NEW o, o.line.totalInterestAccrued - creditLine.totalInterestAccrued \in Nat
  PROVE  /\ assessedSlices(o) \in Slices(1) /\ SameHoldings(poolSlices[1], assessedSlices(o)[1])
         /\ assessedSlices(o)[1] \in PoolSlice
         /\ DeployedIs(1, assessedSlices(o), totalDeployed)
<1> DEFINE accrued == o.line.totalInterestAccrued - creditLine.totalInterestAccrued
           base == assessedSlices(o)
<1>1. /\ poolSlices[1] \in PoolSlice /\ DOMAIN poolSlices = 1..1 /\ poolSlices \in Slices(1)
      /\ totalDeployed \in Nat
  BY OneSliceIs
<1>2. DeployedIs(1, poolSlices, totalDeployed)
  BY <1>1 DEF PoolInv, LoanBooks, DeployedIs
<1>3. perSlice(accrued) = shares(1, poolSlices, accrued, totalDeployed)
  BY <1>1 DEF perSlice, shares
<1>4. base = charged(1, poolSlices, perSlice(accrued))
  BY <1>1 DEF assessedSlices, slicesWithInterest, charged
<1> HIDE DEF accrued, base
<1>5. perSlice(accrued) \in Amounts(1)
  BY <1>1, <1>2, <1>3, SharesAre DEF accrued
<1>6. base \in Slices(1) /\ deployedIn(1, base) = deployedIn(1, poolSlices)
  BY <1>1, <1>4, <1>5, ChargedIs DEF SameCapitals
<1>7. base[1] = [poolSlices[1] EXCEPT !.totalInterestAccrued = @ + perSlice(accrued)[1]]
  BY <1>4 DEF charged
<1>8. SameHoldings(poolSlices[1], base[1])
  BY <1>1, <1>7 DEF SameHoldings, PoolSlice
<1>9. DeployedIs(1, base, totalDeployed)
  BY <1>2, <1>6 DEF DeployedIs
<1>10. base[1] \in PoolSlice
  BY <1>6 DEF Slices
<1> QED
  BY <1>6, <1>8, <1>9, <1>10 DEF base

\* What the pool makes of an assessment: the prices both tranches should have.
dueOf(slice, line) == TotalDeposited(slice) - line.balance + line.principalOwed

Poured(slice, principal, due, after) ==
  PrincipalPoured(slice, principal, calculateExpectedSharePrice(slice.senior, due, slice),
                  calculateExpectedSharePrice(slice.junior, due, slice), after)

\* The payment of an assessment that is defined can be collected, unless the slice
\* has no deposits or the books do not cover it, and is poured into the slice.
LEMMA OneSlicePaid ==
  ASSUME PoolInv, Len(poolSlices) = 1, totalDeployed > 0, NEW available \in Nat, NEW status,
         NEW o, o = outcomeOf(available, status), o.defined,
         collectable(assessedSlices(o), o.line)
  PROVE  LET base == assessedSlices(o)[1]
         IN  /\ resultOf(o).slices \in Slices(1)
             /\ resultOf(o).reserve <= amountPaid(o)
             /\ dueOf(base, o.line) \in Nat /\ TotalDeposited(base) # 0
             /\ Poured(base, o.principal + o.remaining, dueOf(base, o.line), resultOf(o).slices[1])
<1> DEFINE base == assessedSlices(o)
           rest == o.principal + o.remaining
           result == collectInterestAndPrincipal(base, o.interest, rest, o.line)
<1>1. creditLine \in CreditLineState /\ time \in Nat
  BY DEF PoolInv, TypeOK
<1>2. /\ o.line \in CreditLineState
      /\ o.interest \in Nat /\ o.principal \in 0..creditLine.balance /\ o.remaining \in Nat
      /\ o.line.totalInterestAccrued >= creditLine.totalInterestAccrued
  <2>1. \E timestamp \in {creditLine.interestAccruedAsOf, timeToAssess(creditLine, time)} :
          Assessed(creditLine, available, timestamp, time, o)
    BY <1>1, AssessIs DEF outcomeOf
  <2> QED
    BY <2>1 DEF Assessed
<1>3. /\ o.line.totalInterestAccrued \in Nat /\ creditLine.totalInterestAccrued \in Nat
      /\ o.line.balance \in Nat /\ o.line.principalOwed \in Nat /\ creditLine.balance \in Nat
  BY <1>1, <1>2, LineType
<1>4. o.line.totalInterestAccrued - creditLine.totalInterestAccrued \in Nat
  BY <1>2, <1>3
<1>5. base \in Slices(1) /\ base[1] \in PoolSlice /\ DeployedIs(1, base, totalDeployed)
  BY <1>4, OneSliceCharged
<1>6. Collectable(1, base, o.line, totalDeployed)
  <2>1. DOMAIN base = 1..1
    BY <1>5 DEF Slices
  <2> QED
    BY <1>3, <2>1 DEF collectable, Collectable
<1>7. resultOf(o) = result /\ amountPaid(o) = o.interest + o.principal + o.remaining
  BY DEF resultOf, amountPaid
<1>8. rest \in Nat /\ o.interest + rest = o.interest + o.principal + o.remaining
  BY <1>2, <1>3
<1> HIDE DEF base, rest
<1>9. /\ TotalDeposited(base[1]) - o.line.balance + o.line.principalOwed \in Nat
      /\ result.reserve <= o.interest + rest
      /\ PrincipalPoured(base[1], rest,
           calculateExpectedSharePrice(base[1].senior,
             TotalDeposited(base[1]) - o.line.balance + o.line.principalOwed, base[1]),
           calculateExpectedSharePrice(base[1].junior,
             TotalDeposited(base[1]) - o.line.balance + o.line.principalOwed, base[1]),
           result.slices[1])
  BY <1>2, <1>5, <1>6, <1>8, WaterfallOfOne
<1>10. SharedBy(1, base, o.interest + rest, result)
  BY <1>2, <1>5, <1>6, <1>8, WaterfallShares
<1> HIDE DEF result
<1>11. result.slices \in Slices(1)
  BY <1>10 DEF SharedBy
<1>12. TotalDeposited(base[1]) # 0
  BY <1>6 DEF Collectable
<1> QED
  BY <1>7, <1>8, <1>9, <1>11, <1>12 DEF base, rest, dueOf, Poured

----------------------------------------------------------------------------
(* What an assessment makes of the only slice.                             *)

\* The slice once what was repaid is no longer deployed.
Repaid(poured, repaid, after) ==
  /\ after.senior = poured.senior /\ after.junior = poured.junior
  /\ after.principalDeployed = poured.principalDeployed - repaid

\* No price above the initial one: the slice holds no more than its deposits.
LEMMA AvailableWithin ==
  ASSUME NEW slice \in PoolSlice,
         slice.senior.principalSharePrice <= FP_SCALING_FACTOR,
         slice.junior.principalSharePrice <= FP_SCALING_FACTOR
  PROVE  amountAvailable(slice) <= TotalDeposited(slice)
<1> DEFINE x == sharePriceToUsdc(slice.junior.principalSharePrice, slice.junior.principalDeposited)
           y == sharePriceToUsdc(slice.senior.principalSharePrice, slice.senior.principalDeposited)
           J == slice.junior.principalDeposited
           S == slice.senior.principalDeposited
<1>1. x \in Nat /\ y \in Nat /\ J \in Nat /\ S \in Nat
  BY AvailableType, SliceType
<1>2. x <= J
  BY SliceType, LowerPriceIs
<1>3. y <= S
  BY SliceType, LowerPriceIs
<1>4. amountAvailable(slice) = x + y /\ TotalDeposited(slice) = J + S
  BY DEF amountAvailable, TotalDeposited
<1> HIDE DEF x, y, J, S
<1> QED
  BY <1>1, <1>2, <1>3, <1>4

\* A payment poured into the slice and taken off what is deployed keeps the bound:
\* what is poured beyond the principal comes only when the loan is paid off, and
\* then no price rises above the initial one.
LEMMA PouringIsKept ==
  ASSUME NEW slice \in PoolSlice, NEW owed \in Nat, NEW balance \in Nat,
         SliceKept(slice, owed, balance), slice.principalDeployed = balance,
         TotalDeposited(slice) # 0, NEW q \in 0..balance, NEW left \in Nat,
         NEW line, line.balance = balance - q, line.principalOwed \in Nat,
         line.principalOwed <= line.balance => owed <= balance,
         left > 0 => line.principalOwed = 0 /\ line.balance = 0,
         dueOf(slice, line) \in Nat,
         NEW poured \in PoolSlice, Poured(slice, q + left, dueOf(slice, line), poured),
         NEW after, Repaid(poured, q, after)
  PROVE  SliceKept(after, line.principalOwed, line.balance)
<1> DEFINE due == dueOf(slice, line)
           dS == calculateExpectedSharePrice(slice.senior, due, slice)
           dJ == calculateExpectedSharePrice(slice.junior, due, slice)
           dep == TotalDeposited(slice)
<1>1. /\ amountAvailable(slice) \in Nat /\ amountAvailable(poured) \in Nat /\ dep \in Nat
  BY AvailableType, SliceType
<1>2. amountAvailable(slice) + balance <= dep
  BY DEF SliceKept
<1>3. PrincipalPoured(slice, q + left, dS, dJ, poured)
  BY DEF Poured
<1>4. due = dep - line.balance + line.principalOwed
  BY DEF dueOf
<1>5. line.balance \in Nat /\ line.balance <= dep /\ q \in Nat
  BY <1>1, <1>2
<1>6. /\ amountAvailable(after) = amountAvailable(poured)
      /\ after.principalDeployed = balance - q
      /\ after.senior = poured.senior /\ after.junior = poured.junior
  BY <1>3 DEF Repaid, amountAvailable, PrincipalPoured
<1>7. TotalDeposited(after) = dep /\ TotalDeposited(poured) = dep
  BY <1>3, <1>6 DEF PrincipalPoured, TotalDeposited
<1> HIDE DEF due, dep
<1>8. line.principalOwed <= line.balance
        => /\ poured.senior.principalSharePrice <= FP_SCALING_FACTOR
           /\ poured.junior.principalSharePrice <= FP_SCALING_FACTOR
  <2> SUFFICES ASSUME line.principalOwed <= line.balance
               PROVE  /\ poured.senior.principalSharePrice <= FP_SCALING_FACTOR
                      /\ poured.junior.principalSharePrice <= FP_SCALING_FACTOR
    OBVIOUS
  <2>1. /\ slice.senior.principalSharePrice <= FP_SCALING_FACTOR
        /\ slice.junior.principalSharePrice <= FP_SCALING_FACTOR
    BY DEF SliceKept
  <2>2. due <= dep
    BY <1>1, <1>4, <1>5
  <2>3. due \in Nat
    BY DEF due
  <2>4. dS <= FP_SCALING_FACTOR
    BY <2>2, <2>3, ExpectedPriceWithin DEF dep
  <2>5. dJ <= FP_SCALING_FACTOR
    BY <2>2, <2>3, ExpectedPriceWithin DEF dep
  <2>6. dS \in Nat /\ dJ \in Nat
    BY <1>1, <2>3, SliceType, ExpectedSharePriceIs DEF dep
  <2> HIDE DEF dS, dJ
  <2>7. FP_SCALING_FACTOR \in Nat
    BY ScalingAssumption
  <2>8. poured.senior.principalSharePrice \in Nat /\ poured.junior.principalSharePrice \in Nat
    BY SliceType
  <2>9. poured.senior.principalSharePrice <= FP_SCALING_FACTOR
    BY <1>3, <2>1, <2>4, <2>6, <2>7, <2>8 DEF PrincipalPoured
  <2>10. poured.junior.principalSharePrice <= FP_SCALING_FACTOR
    BY <1>3, <2>1, <2>5, <2>6, <2>7, <2>8 DEF PrincipalPoured
  <2> QED
    BY <2>9, <2>10
<1>9. amountAvailable(poured) + (balance - q) <= dep
  <2>1. CASE left = 0
    <3>1. amountAvailable(poured) <= amountAvailable(slice) + (q + left)
      BY <1>3 DEF PrincipalPoured
    <3> QED
      BY <1>1, <1>2, <1>5, <2>1, <3>1
  <2>2. CASE left > 0
    <3>1. line.principalOwed = 0 /\ line.balance = 0
      BY <2>2
    <3>2. amountAvailable(poured) <= TotalDeposited(poured)
      BY <1>8, <3>1, AvailableWithin
    <3> QED
      BY <1>1, <1>5, <1>7, <3>1, <3>2
  <2> QED
    BY <2>1, <2>2
<1>10. amountAvailable(after) + after.principalDeployed <= TotalDeposited(after)
  BY <1>6, <1>7, <1>9
<1>11. /\ after.senior.principalSharePrice = poured.senior.principalSharePrice
       /\ after.junior.principalSharePrice = poured.junior.principalSharePrice
  BY <1>6
<1> QED
  BY <1>8, <1>10, <1>11 DEF SliceKept

\* What an assessment makes of the credit line and of the only slice: the holdings
\* stay, or a payment is poured into them.
AssessedOne(o) ==
  /\ creditLine' = o.line /\ o.defined
  /\ o.principal \in 0..creditLine.balance /\ o.remaining \in Nat
  /\ o.line.balance = creditLine.balance - o.principal
  /\ OwedWithin(creditLine, o)
  /\ o.line.principalOwed <= MaxPrincipalOwed
  /\ poolSlices[1].senior.lockedUntil > 0
  /\ \/ o.principal = 0 /\ SameHoldings(poolSlices[1], poolSlices'[1])
     \/ \E base \in PoolSlice, poured \in PoolSlice :
          /\ SameHoldings(poolSlices[1], base)
          /\ TotalDeposited(base) # 0 /\ dueOf(base, o.line) \in Nat
          /\ Poured(base, o.principal + o.remaining, dueOf(base, o.line), poured)
          /\ Repaid(poured, o.principal, poolSlices'[1])

\* An assessment does that.
LEMMA AssessmentOfOne ==
  ASSUME PoolInv, Len(poolSlices) = 1, NEW available \in Nat, NEW status,
         _Assess(available, status)
  PROVE  \E o : o = outcomeOf(available, status) /\ AssessedOne(o)
<1> DEFINE o == outcomeOf(available, status)
           base == assessedSlices(o)
<1>1. /\ creditLine \in CreditLineState /\ time \in Nat /\ creditLine.balance \in Nat
  BY LineType DEF PoolInv, TypeOK
<1>2. /\ poolSlices[1] \in PoolSlice /\ currentSlice = 1 /\ DOMAIN poolSlices = 1..1
      /\ poolSlices \in Slices(1) /\ totalDeployed \in Nat
      /\ creditLine.balance = totalDeployed
  BY OneSliceIs
<1>3. settle(o, available)
  BY DEF _Assess
<1>4. /\ poolSlices[1].senior.lockedUntil > 0 /\ totalDeployed > 0 /\ o.defined
      /\ creditLine' = o.line /\ o.line.principalOwed <= MaxPrincipalOwed
      /\ hasPayment(o) => collectable(base, o.line)
  BY <1>2, <1>3 DEF settle, accepted, locked
<1>5. OwedWithin(creditLine, o)
  BY <1>1, <1>4, AssessOwes DEF outcomeOf
<1>6. /\ o.line \in CreditLineState
      /\ o.interest \in Nat /\ o.principal \in 0..creditLine.balance /\ o.remaining \in Nat
      /\ o.line.balance = creditLine.balance - o.principal
      /\ o.line.totalInterestAccrued >= creditLine.totalInterestAccrued
  <2>1. \E timestamp \in {creditLine.interestAccruedAsOf, timeToAssess(creditLine, time)} :
          Assessed(creditLine, available, timestamp, time, o)
    BY <1>1, <1>4, AssessIs DEF outcomeOf
  <2> HIDE DEF o
  <2> QED
    BY <2>1 DEF Assessed
<1>7. o.line.totalInterestAccrued - creditLine.totalInterestAccrued \in Nat
  <2>1. o.line.totalInterestAccrued \in Nat /\ creditLine.totalInterestAccrued \in Nat
    BY <1>1, <1>6, LineType
  <2> QED
    BY <1>6, <2>1
<1> HIDE DEF o
<1>8. /\ SameHoldings(poolSlices[1], base[1]) /\ base[1] \in PoolSlice
  BY <1>4, <1>7, OneSliceCharged
<1> HIDE DEF base
<1>9. CASE ~ hasPayment(o)
  <2>1. poolSlices' = base
    BY <1>3, <1>9 DEF settle, base
  <2>2. o.principal = 0
    BY <1>1, <1>6, <1>9 DEF hasPayment
  <2>3. SameHoldings(poolSlices[1], poolSlices'[1])
    BY <1>8, <2>1
  <2>4. AssessedOne(o)
    BY <1>4, <1>5, <1>6, <2>2, <2>3 DEF AssessedOne
  <2> QED
    BY <2>4 DEF o
<1>10. CASE hasPayment(o)
  <2> DEFINE poured == resultOf(o).slices
             repaid == perSlice(o.principal)
  <2>1. poolSlices' = repaidSlices(poured, repaid)
    BY <1>3, <1>10 DEF settle
  <2>2. collectable(base, o.line)
    BY <1>4, <1>10
  <2>3. /\ poured \in Slices(1) /\ dueOf(base[1], o.line) \in Nat /\ TotalDeposited(base[1]) # 0
        /\ Poured(base[1], o.principal + o.remaining, dueOf(base[1], o.line), poured[1])
    BY <1>4, <2>2, OneSlicePaid DEF o, base
  <2>4. repaid[1] = o.principal
    <3>1. repaid = shares(1, poolSlices, o.principal, totalDeployed)
      BY <1>2 DEF perSlice, shares
    <3>2. o.principal \in Nat
      BY <1>1, <1>6
    <3>3. DeployedIs(1, poolSlices, totalDeployed)
      BY <1>2, <1>4 DEF PoolInv, LoanBooks, DeployedIs
    <3>4. /\ repaid \in Amounts(1) /\ Total(repaid) = o.principal
      BY <1>2, <3>1, <3>2, <3>3, SharesAre
    <3> HIDE DEF repaid
    <3> QED
      BY <3>4, TotalOfOne
  <2> HIDE DEF poured, repaid
  <2>5. /\ poured[1] \in PoolSlice /\ DOMAIN poured = 1..1
    BY <2>3 DEF Slices
  <2>6. poolSlices'[1] = [poured[1] EXCEPT !.principalDeployed = @ - repaid[1]]
    BY <2>1, <2>5 DEF repaidSlices
  <2>7. Repaid(poured[1], o.principal, poolSlices'[1])
    BY <2>4, <2>5, <2>6 DEF Repaid, PoolSlice
  <2>8. AssessedOne(o)
    BY <1>4, <1>5, <1>6, <1>8, <2>3, <2>5, <2>7 DEF AssessedOne
  <2> QED
    BY <2>8 DEF o
<1> QED
  BY <1>9, <1>10

\* So the bound is kept.
LEMMA AssessmentIsKept ==
  ASSUME PoolInv, Len(poolSlices) = 1, PrincipalKept, NEW o, AssessedOne(o)
  PROVE  SliceKept(poolSlices'[1], creditLine'.principalOwed, creditLine'.balance)
<1>1. /\ SliceKept(poolSlices[1], creditLine.principalOwed, creditLine.balance)
      /\ creditLine.principalOwed \in Nat /\ creditLine.balance \in Nat
      /\ poolSlices[1].principalDeployed = creditLine.balance
  BY OneSliceIs DEF PrincipalKept
<1>2. /\ o.line.principalOwed \in Nat
      /\ o.line.principalOwed <= o.line.balance => creditLine.principalOwed <= creditLine.balance
      /\ o.remaining > 0 => o.line.principalOwed = 0 /\ o.line.balance = 0
  BY DEF AssessedOne, OwedWithin
<1>3. CASE o.principal = 0 /\ SameHoldings(poolSlices[1], poolSlices'[1])
  <2>1. SliceKept(poolSlices'[1], creditLine.principalOwed, creditLine.balance)
    BY <1>1, <1>3, SameHoldingsAreKept
  <2> QED
    BY <1>2, <2>1 DEF SliceKept, AssessedOne
<1>4. ASSUME NEW base \in PoolSlice, NEW poured \in PoolSlice,
             SameHoldings(poolSlices[1], base),
             TotalDeposited(base) # 0, dueOf(base, o.line) \in Nat,
             Poured(base, o.principal + o.remaining, dueOf(base, o.line), poured),
             Repaid(poured, o.principal, poolSlices'[1])
      PROVE  SliceKept(poolSlices'[1], creditLine'.principalOwed, creditLine'.balance)
  <2>1. SliceKept(base, creditLine.principalOwed, creditLine.balance)
    BY <1>1, <1>4, SameHoldingsAreKept
  <2>2. base.principalDeployed = creditLine.balance
    BY <1>1, <1>4 DEF SameHoldings
  <2>3. /\ o.principal \in 0..creditLine.balance /\ o.remaining \in Nat
        /\ o.line.balance = creditLine.balance - o.principal /\ creditLine' = o.line
    BY DEF AssessedOne
  <2>4. SliceKept(poolSlices'[1], o.line.principalOwed, o.line.balance)
    BY <1>1, <1>2, <1>4, <2>1, <2>2, <2>3, PouringIsKept
  <2> QED
    BY <2>3, <2>4
<1> QED
  BY <1>3, <1>4 DEF AssessedOne

----------------------------------------------------------------------------
(* The principal of the only slice, step by step.                          *)

\* What a drawdown makes of it: the prices fall to what remains.
DrawnOne(amount) ==
  \E before \in PoolSlice :
    /\ SameHoldings(poolSlices[1], before) /\ before.senior.lockedUntil > 0
    /\ amount > 0 /\ amount <= amountAvailable(before)
    /\ poolSlices'[1] = sliceAfterDrawdown(before, amount)

\* A drawdown does that, to the slice it finds locked or locks.
LEMMA DrawdownOfOne ==
  ASSUME PoolInv, Len(poolSlices) = 1, NEW amount \in Nat, Drawdown(amount)
  PROVE  DrawnOne(amount)
<1> DEFINE slices == IF locked THEN poolSlices ELSE lockedSlices
           line == IF locked THEN creditLine ELSE raisedCreditLine
           before == slices[1]
<1>1. poolSlices[1] \in PoolSlice /\ currentSlice = 1 /\ DOMAIN poolSlices = 1..1
      /\ Len(poolSlices) = 1 /\ poolSlices \in Slices(1)
  BY OneSliceIs
<1>2. /\ locked \/ canLockPool
      /\ amount <= amountAvailable(before)
      /\ canDrawdown(line, amount, time)
      /\ poolSlices' = [slices EXCEPT ![1] = sliceAfterDrawdown(before, amount)]
  BY <1>1 DEF Drawdown
<1>3. amount > 0
  BY <1>2 DEF canDrawdown
<1>4. /\ slices \in Slices(1) /\ SameHoldings(poolSlices[1], before)
      /\ before.senior.lockedUntil > 0
  <2>1. CASE locked
    BY <1>1, <2>1 DEF SameHoldings, locked
  <2>2. CASE ~ locked
    <3>1. lockedSlices \in Slices(1) /\ lockedSlices[1].senior.lockedUntil > 0
      BY <1>1, <1>2, <2>2, LockedSlicesAre
    <3>2. SameHoldings(poolSlices[1], lockedSlices[1])
      BY <1>2, <2>2, OneSliceLocked
    <3> QED
      BY <2>2, <3>1, <3>2
  <2> QED
    BY <2>1, <2>2
<1> HIDE DEF slices, line
<1>5. before \in PoolSlice /\ DOMAIN slices = 1..1
  BY <1>4 DEF Slices
<1>6. poolSlices'[1] = sliceAfterDrawdown(before, amount)
  BY <1>2, <1>5
<1> HIDE DEF before
<1> QED
  BY <1>2, <1>3, <1>4, <1>5, <1>6 DEF DrawnOne, before

\* Every step keeps the bound.
LEMMA PrincipalStaysKept ==
  ASSUME PoolInv, PoolInv', PrincipalKept, [Next]_vars
  PROVE  PrincipalKept'
<1> SUFFICES ASSUME Len(poolSlices') = 1
             PROVE  SliceKept(poolSlices'[1], creditLine'.principalOwed, creditLine'.balance)
  BY DEF PrincipalKept
<1>1. Len(poolSlices) = 1 /\ OneSliceMoves
  BY OneSliceSteps
<1>2. /\ poolSlices[1] \in PoolSlice /\ SliceInOrder(poolSlices[1])
      /\ SliceKept(poolSlices[1], creditLine.principalOwed, creditLine.balance)
  BY <1>1, OneSliceIs DEF PrincipalKept
<1>3. CASE SameHoldings(poolSlices[1], poolSlices'[1]) /\ SameDebt
  <2>1. SliceKept(poolSlices'[1], creditLine.principalOwed, creditLine.balance)
    BY <1>2, <1>3, SameHoldingsAreKept
  <2> QED
    BY <1>3, <2>1 DEF SameDebt
<1>4. CASE DepositsMove(poolSlices[1], poolSlices'[1]) /\ SameDebt
  <2>1. PICK name \in TrancheNames, amount \in Nat :
          /\ poolSlices[1][name].lockedUntil = 0
          /\ poolSlices'[1] = depositing(poolSlices[1], name, amount)
    BY <1>4 DEF DepositsMove
  <2>2. DepositedOnly(poolSlices[1], name, amount, poolSlices'[1])
    BY <1>2, <2>1, DepositingIs
  <2>3. SliceKept(poolSlices'[1], creditLine.principalOwed, creditLine.balance)
    BY <1>2, <2>2, DepositsAreKept
  <2> QED
    BY <1>4, <2>3 DEF SameDebt
<1>5. ASSUME NEW amount \in Nat, Drawdown(amount)
      PROVE  SliceKept(poolSlices'[1], creditLine'.principalOwed, creditLine'.balance)
  <2>1. DrawnOne(amount)
    BY <1>1, <1>5, DrawdownOfOne
  <2>2. PICK before \in PoolSlice :
          /\ SameHoldings(poolSlices[1], before)
          /\ amount > 0 /\ amount <= amountAvailable(before)
          /\ poolSlices'[1] = sliceAfterDrawdown(before, amount)
    BY <2>1 DEF DrawnOne
  <2>3. SliceKept(before, creditLine.principalOwed, creditLine.balance)
    BY <1>2, <2>2, SameHoldingsAreKept
  <2>4. SliceKept(sliceAfterDrawdown(before, amount), creditLine'.principalOwed,
                  creditLine'.balance)
    BY <2>2, <2>3, DrawdownIsKept
  <2> QED
    BY <2>2, <2>4
<1>6. ASSUME NEW available \in Nat, NEW status \in LiquidationProcess, _Assess(available, status)
      PROVE  SliceKept(poolSlices'[1], creditLine'.principalOwed, creditLine'.balance)
  <2>1. PICK o : o = outcomeOf(available, status) /\ AssessedOne(o)
    BY <1>1, <1>6, AssessmentOfOne
  <2> QED
    BY <1>1, <2>1, AssessmentIsKept
<1> QED
  BY <1>1, <1>3, <1>4, <1>5, <1>6 DEF OneSliceMoves

\* At first the prices are the initial ones and nobody has deposited.
LEMMA InitKept == Init => PrincipalKept
<1> SUFFICES ASSUME Init PROVE PrincipalKept
  OBVIOUS
<1>1. poolSlices[1] = EmptySlice
  BY DEF Init
<1>2. EmptySlice \in PoolSlice /\ EmptySlice.principalDeployed = 0
      /\ TotalDeposited(EmptySlice) = 0
  BY EmptySliceIs
<1>3. /\ EmptySlice.senior.principalSharePrice = FP_SCALING_FACTOR
      /\ EmptySlice.junior.principalSharePrice = FP_SCALING_FACTOR
  <2>1. usdcToSharePrice(1, 1) = FP_SCALING_FACTOR
    BY ScalingAssumption DEF usdcToSharePrice
  <2> QED
    BY <2>1 DEF EmptySlice, EmptyTranche
<1>4. FP_SCALING_FACTOR \in Nat
  BY ScalingAssumption
<1>5. amountAvailable(EmptySlice) \in Nat /\ amountAvailable(EmptySlice) <= 0
  BY <1>2, <1>3, <1>4, AvailableType, AvailableWithin
<1>6. SliceKept(EmptySlice, creditLine.principalOwed, creditLine.balance)
  BY <1>2, <1>3, <1>4, <1>5 DEF SliceKept
<1> QED
  BY <1>1, <1>6 DEF PrincipalKept

\* Then any amount in the credit line can be assessed.
LEMMA PaymentIsAccepted ==
  ASSUME PoolInv, TimesInOrder, PrincipalKept, Len(poolSlices) = 1,
         ~ paused, locked, EverySliceIsFunded, creditLine.balance > 0,
         creditLine.principalOwed + principalFallingDue <= creditLine.balance,
         NEW available \in Nat
  PROVE  accepted(outcomeOf(available, liquidated))
<1> DEFINE o == outcomeOf(available, liquidated)
           base == assessedSlices(o)
<1>1. /\ creditLine \in CreditLineState /\ time \in Nat /\ usdc \in Nat
      /\ LoanInOrder(creditLine, time)
  BY DEF PoolInv, TypeOK, TimesInOrder
<1>2. /\ poolSlices[1] \in PoolSlice /\ DOMAIN poolSlices = 1..1 /\ totalDeployed \in Nat
      /\ creditLine.balance \in Nat /\ creditLine.principalOwed \in Nat
      /\ poolSlices[1].principalDeployed = totalDeployed /\ creditLine.balance = totalDeployed
  BY OneSliceIs
<1>3. o.defined
  BY <1>1, AssessInOrder DEF outcomeOf, principalFallingDue
<1>4. totalDeployed > 0
  BY <1>2
<1>5. /\ o.line \in CreditLineState
      /\ o.interest \in Nat /\ o.principal \in 0..creditLine.balance /\ o.remaining \in Nat
      /\ o.line.balance = creditLine.balance - o.principal
      /\ o.line.totalInterestAccrued >= creditLine.totalInterestAccrued
  <2>1. \E timestamp \in {creditLine.interestAccruedAsOf, timeToAssess(creditLine, time)} :
          Assessed(creditLine, available, timestamp, time, o)
    BY <1>1, <1>3, AssessIs DEF outcomeOf
  <2> HIDE DEF o
  <2> QED
    BY <2>1 DEF Assessed
<1>6. o.line.totalInterestAccrued - creditLine.totalInterestAccrued \in Nat
  <2>1. o.line.totalInterestAccrued \in Nat /\ creditLine.totalInterestAccrued \in Nat
    BY <1>1, <1>5, LineType
  <2> QED
    BY <1>5, <2>1
<1> HIDE DEF o
<1>7. base \in Slices(1) /\ SameHoldings(poolSlices[1], base[1])
  BY <1>4, <1>6, OneSliceCharged
<1> HIDE DEF base
<1>8. collectable(base, o.line)
  <2>1. o.line.balance <= totalDeployed
    BY <1>2, <1>5
  <2>2. DOMAIN base = 1..1 /\ TotalDeposited(base[1]) = TotalDeposited(poolSlices[1])
        /\ base[1].principalDeployed = totalDeployed
    BY <1>2, <1>7 DEF Slices, SameHoldings, TotalDeposited
  <2>3. TotalDeposited(poolSlices[1]) > 0
    BY <1>2 DEF EverySliceIsFunded
  <2>4. totalDeployed <= TotalDeposited(poolSlices[1])
    <3>1. amountAvailable(poolSlices[1]) \in Nat /\ TotalDeposited(poolSlices[1]) \in Nat
      BY <1>2, AvailableType, SliceType
    <3>2. amountAvailable(poolSlices[1]) + totalDeployed <= TotalDeposited(poolSlices[1])
      BY <1>2 DEF PrincipalKept, SliceKept
    <3> QED
      BY <1>2, <3>1, <3>2
  <2> QED
    BY <2>1, <2>2, <2>3, <2>4 DEF collectable
<1>9. resultOf(o).reserve <= usdc + amountPaid(o)
  <2>1. /\ resultOf(o).slices \in Slices(1) /\ resultOf(o).reserve <= amountPaid(o)
    BY <1>3, <1>4, <1>8, OneSlicePaid DEF o, base
  <2>2. amountPaid(o) \in Nat
    BY <1>2, <1>5 DEF amountPaid
  <2>3. resultOf(o).reserve \in Nat
    <3> DEFINE rest == o.principal + o.remaining
    <3>1. rest \in Nat
      BY <1>2, <1>5
    <3>2. Collectable(1, base, o.line, totalDeployed)
      <4>1. DOMAIN base = 1..1 /\ base[1] \in PoolSlice
        BY <1>7 DEF Slices
      <4>2. o.line.balance \in Nat /\ o.line.principalOwed \in Nat
        BY <1>5, LineType
      <4> QED
        BY <1>8, <4>1, <4>2 DEF collectable, Collectable
    <3>3. DeployedIs(1, base, totalDeployed)
      BY <1>4, <1>6, OneSliceCharged DEF base
    <3> HIDE DEF rest
    <3>4. SharedBy(1, base, o.interest + rest,
                   collectInterestAndPrincipal(base, o.interest, rest, o.line))
      BY <1>5, <1>7, <3>1, <3>2, <3>3, WaterfallShares
    <3>5. resultOf(o) = collectInterestAndPrincipal(base, o.interest, rest, o.line)
      BY DEF resultOf, base, rest
    <3> QED
      BY <3>4, <3>5 DEF SharedBy
  <2> QED
    BY <1>1, <2>1, <2>2, <2>3
<1> QED
  BY <1>3, <1>4, <1>8, <1>9 DEF accepted, o, base

\* The same of every payment on top of what is in the credit line.
LEMMA PaymentsAccepted ==
  PoolInv /\ PrincipalKept => PaymentsAreAccepted
<1> SUFFICES ASSUME PoolInv, TimesInOrder, PrincipalKept, Len(poolSlices) = 1,
                    ~ paused, locked, EverySliceIsFunded, creditLine.balance > 0,
                    creditLine.principalOwed + principalFallingDue <= creditLine.balance,
                    NEW amount \in Payments \cup {0}
             PROVE  accepted(outcomeOf(creditLineUsdc + amount, liquidated))
  BY DEF PaymentsAreAccepted
<1>1. creditLineUsdc + amount \in Nat
  BY DepositAssumption DEF PoolInv, TypeOK
<1> QED
  BY <1>1, PaymentIsAccepted

----------------------------------------------------------------------------
(* The principal of the two tranches.                                      *)

\* How far the junior price can be ahead, in what it is worth to senior deposits:
\* what the prices a payment aims at lose in rounding, and what is missing where a
\* senior tranche has what it should have.
priceGap(slice) == FP_SCALING_FACTOR + (4 * TotalDeposited(slice) + MaxPrincipalOwed)

\* The prices are the same until the slice is locked, and the junior price is not
\* ahead of the senior one afterwards.
PricesTogether(slice) ==
  /\ \/ slice.senior.lockedUntil > 0
     \/ slice.junior.principalSharePrice = slice.senior.principalSharePrice
  /\ slice.junior.principalSharePrice * slice.senior.principalDeposited
       <= slice.senior.principalSharePrice * slice.senior.principalDeposited + priceGap(slice)

SeniorAhead == Len(poolSlices) = 1 => PricesTogether(poolSlices[1])

\* The gap is a number.
LEMMA GapType ==
  ASSUME NEW slice \in PoolSlice
  PROVE  /\ priceGap(slice) \in Nat
         /\ 4 * TotalDeposited(slice) + MaxPrincipalOwed \in Nat
<1>1. TotalDeposited(slice) \in Nat /\ MaxPrincipalOwed \in Nat /\ FP_SCALING_FACTOR \in Nat
  BY SliceType, BoundAssumption, ScalingAssumption
<1> QED
  BY <1>1 DEF priceGap

\* The arithmetic of what is back of the deposits, at prices that are close.
LEMMA BackFromPrices ==
  ASSUME NEW F \in Nat \ {0}, NEW S \in Nat, NEW J \in Nat, NEW X \in Nat,
         NEW junior \in Nat, NEW senior \in Nat, NEW jb \in Nat, NEW sb \in Nat,
         jb * F <= junior * J, senior * S < (sb + 1) * F,
         junior * S <= senior * S + (F + X)
  PROVE  jb * S <= (sb + (3 + X \div F)) * J
<1> DEFINE d == X \div F
<1>1. F \in Nat
  OBVIOUS
<1>2. d \in Nat /\ X < d * F + F
  <2>1. IsFloor(d, X, F)
    BY QuotientIsFloor
  <2> QED
    BY <2>1 DEF IsFloor
<1> HIDE DEF d
<1>3. /\ jb * F \in Nat /\ junior * J \in Nat /\ senior * S \in Nat /\ sb * F \in Nat
      /\ junior * S \in Nat /\ jb * S \in Nat /\ d * F \in Nat
      /\ sb + (3 + d) \in Nat /\ (sb + (3 + d)) * J \in Nat
  BY <1>1, <1>2, TimesType
<1>4. (sb + 1) * F = sb * F + F
  BY <1>1
<1>5. junior * S <= sb * F + (d * F + F + F + F)
  BY <1>1, <1>2, <1>3, <1>4
<1>6. (sb + (3 + d)) * F = sb * F + (d * F + F + F + F)
  BY <1>1, <1>2
<1>7. (junior * S) * J <= ((sb + (3 + d)) * F) * J
  <2>1. (sb + (3 + d)) * F \in Nat
    BY <1>1, <1>3, TimesType
  <2> QED
    BY <1>3, <1>5, <1>6, <2>1, TimesMonotone
<1>8. (jb * F) * S <= (junior * J) * S
  BY <1>3, TimesMonotone
<1>9. /\ (jb * F) * S = (jb * S) * F /\ (junior * J) * S = (junior * S) * J
      /\ ((sb + (3 + d)) * F) * J = ((sb + (3 + d)) * J) * F
  BY <1>1, <1>2
<1>10. (jb * S) * F <= ((sb + (3 + d)) * J) * F
  <2>1. (jb * S) * F \in Nat /\ (junior * S) * J \in Nat /\ ((sb + (3 + d)) * J) * F \in Nat
    BY <1>1, <1>3, TimesType
  <2> QED
    BY <1>7, <1>8, <1>9, <2>1
<1>11. jb * S <= (sb + (3 + d)) * J
  BY <1>3, <1>10, TimesCancelLe
<1> QED
  BY <1>11 DEF d

\* Prices that are together give principal back to the senior tranche first.
LEMMA TogetherIsBehind ==
  ASSUME PoolInv
  PROVE  SeniorAhead => JuniorBehindSenior
<1> SUFFICES ASSUME Len(poolSlices) = 1, PricesTogether(poolSlices[1])
             PROVE  principalBack(poolSlices[1].junior) * poolSlices[1].senior.principalDeposited
                      <= (principalBack(poolSlices[1].senior) + lostInRounding(poolSlices[1]))
                           * poolSlices[1].junior.principalDeposited
  BY DEF SeniorAhead, JuniorBehindSenior
<1> DEFINE slice == poolSlices[1]
           F == FP_SCALING_FACTOR
           S == slice.senior.principalDeposited
           J == slice.junior.principalDeposited
           junior == slice.junior.principalSharePrice
           senior == slice.senior.principalSharePrice
           X == 4 * TotalDeposited(slice) + MaxPrincipalOwed
           jb == principalBack(slice.junior)
           sb == principalBack(slice.senior)
<1>1. slice \in PoolSlice
  BY OneSliceIs
<1>2. /\ S \in Nat /\ J \in Nat /\ junior \in Nat /\ senior \in Nat /\ X \in Nat
      /\ F \in Nat \ {0}
  BY <1>1, SliceType, GapType, ScalingAssumption
<1>3. junior * S <= senior * S + (F + X)
  BY DEF PricesTogether, priceGap
<1>4. jb = sharePriceToUsdc(junior, J) /\ sb = sharePriceToUsdc(senior, S)
      /\ lostInRounding(slice) = 3 + X \div F
  BY DEF principalBack, lostInRounding
<1> HIDE DEF slice, F, S, J, junior, senior, X, jb, sb
<1>5. jb \in Nat /\ jb * FP_SCALING_FACTOR <= junior * J
  BY <1>2, <1>4, SharePriceToUsdcIs
<1>6. sb \in Nat /\ senior * S < (sb + 1) * FP_SCALING_FACTOR
  BY <1>2, <1>4, SharePriceToUsdcIs
<1>7. jb * S <= (sb + (3 + X \div F)) * J
  BY <1>2, <1>3, <1>5, <1>6, BackFromPrices DEF F
<1> QED
  BY <1>4, <1>7 DEF slice, S, J, jb, sb

\* Steps that keep the holdings keep the gap.
LEMMA SameHoldingsTogether ==
  ASSUME NEW slice \in PoolSlice, NEW after \in PoolSlice, SameHoldings(slice, after),
         PricesTogether(slice)
  PROVE  PricesTogether(after)
<1>1. priceGap(after) = priceGap(slice)
  BY DEF SameHoldings, priceGap, TotalDeposited
<1> QED
  BY <1>1 DEF SameHoldings, PricesTogether

\* Prices that are the same have no gap.
LEMMA SamePricesTogether ==
  ASSUME NEW slice \in PoolSlice,
         slice.junior.principalSharePrice = slice.senior.principalSharePrice
  PROVE  PricesTogether(slice)
<1> DEFINE a == slice.senior.principalSharePrice * slice.senior.principalDeposited
<1>1. a \in Nat /\ priceGap(slice) \in Nat
  BY SliceType, TimesType, GapType
<1>2. slice.junior.principalSharePrice * slice.senior.principalDeposited = a
  OBVIOUS
<1> HIDE DEF a
<1>3. a <= a + priceGap(slice)
  BY <1>1
<1> QED
  BY <1>2, <1>3 DEF PricesTogether, a

\* Deposits come while the prices are the same.
LEMMA DepositsTogether ==
  ASSUME NEW slice \in PoolSlice, NEW after \in PoolSlice, NEW name, NEW amount,
         DepositedOnly(slice, name, amount, after), PricesTogether(slice)
  PROVE  PricesTogether(after)
<1>1. after.junior.principalSharePrice = after.senior.principalSharePrice
  BY DEF DepositedOnly, PricesTogether
<1> QED
  BY <1>1, SamePricesTogether

\* A drawdown sets both prices anew.
LEMMA DrawdownTogether ==
  ASSUME NEW slice \in PoolSlice, slice.senior.lockedUntil > 0,
         TotalDeposited(slice) # 0, NEW amount \in Nat,
         amountAvailable(slice) - amount \in 0..TotalDeposited(slice)
  PROVE  PricesTogether(sliceAfterDrawdown(slice, amount))
<1> DEFINE after == sliceAfterDrawdown(slice, amount)
           remaining == amountAvailable(slice) - amount
           ej == calculateExpectedSharePrice(slice.junior, remaining, slice)
           es == calculateExpectedSharePrice(slice.senior, remaining, slice)
           S == slice.senior.principalDeposited
           J == slice.junior.principalDeposited
<1>1. /\ TotalDeposited(slice) = J + S /\ S \in Nat /\ J \in Nat
      /\ FP_SCALING_FACTOR \in Nat /\ MaxPrincipalOwed \in Nat
  BY SliceType, ScalingAssumption, BoundAssumption DEF TotalDeposited
<1>2. after = [slice EXCEPT !.junior.principalSharePrice = ej, !.senior.principalSharePrice = es,
                            !.principalDeployed = @ + amount]
  BY DEF sliceAfterDrawdown
<1>3. remaining \in Nat /\ remaining <= J + S
  BY <1>1
<1>4. ej * S <= es * S + remaining + S + S
  BY <1>3, ExpectedPricesAreClose
<1>5. ej \in Nat /\ es \in Nat
  BY <1>1, <1>3, ExpectedSharePriceIs
<1> HIDE DEF ej, es, remaining, after
<1>6. /\ after.junior.principalSharePrice = ej /\ after.senior.principalSharePrice = es
      /\ after.junior.principalDeposited = J /\ after.senior.principalDeposited = S
      /\ after.senior.lockedUntil > 0
  BY <1>2 DEF PoolSlice, Tranche
<1>7. priceGap(after) = FP_SCALING_FACTOR + (4 * (J + S) + MaxPrincipalOwed)
  BY <1>6 DEF priceGap, TotalDeposited
<1> HIDE DEF S, J
<1>8. ej * S \in Nat /\ es * S \in Nat
  BY <1>1, <1>5, TimesType
<1>9. ej * S <= es * S + (FP_SCALING_FACTOR + (4 * (J + S) + MaxPrincipalOwed))
  BY <1>1, <1>3, <1>4, <1>8
<1>10. PricesTogether(after)
  BY <1>6, <1>7, <1>9 DEF PricesTogether, S
<1> QED
  BY <1>10 DEF after

\* A payment raises the junior price only if the senior tranche has what it should.
LEMMA PouringTogether ==
  ASSUME NEW slice \in PoolSlice, slice.senior.lockedUntil > 0, TotalDeposited(slice) # 0,
         PricesTogether(slice), NEW due \in Nat, due <= TotalDeposited(slice) + MaxPrincipalOwed,
         NEW principal, NEW after \in PoolSlice, Poured(slice, principal, due, after)
  PROVE  PricesTogether(after)
<1> DEFINE dS == calculateExpectedSharePrice(slice.senior, due, slice)
           dJ == calculateExpectedSharePrice(slice.junior, due, slice)
           F == FP_SCALING_FACTOR
           S == slice.senior.principalDeposited
           J == slice.junior.principalDeposited
           aj == slice.junior.principalSharePrice
           as == slice.senior.principalSharePrice
           ajAfter == after.junior.principalSharePrice
           asAfter == after.senior.principalSharePrice
<1>1. /\ TotalDeposited(slice) = J + S /\ S \in Nat /\ J \in Nat
      /\ F \in Nat /\ MaxPrincipalOwed \in Nat
      /\ aj \in Nat /\ as \in Nat /\ ajAfter \in Nat /\ asAfter \in Nat
  BY SliceType, ScalingAssumption, BoundAssumption DEF TotalDeposited
<1>2. /\ after.junior.principalDeposited = J /\ after.senior.principalDeposited = S
      /\ after.senior.lockedUntil > 0 /\ as <= asAfter
      /\ \/ ajAfter = aj
         \/ ajAfter <= dJ /\ dS * S <= asAfter * S + F + S
  BY <1>1 DEF Poured, PrincipalPoured
<1>3. dJ * S <= dS * S + due + S + S
  BY ExpectedPricesAreClose
<1>4. dJ \in Nat /\ dS \in Nat
  BY <1>1, ExpectedSharePriceIs
<1>5. /\ priceGap(slice) = F + (4 * (J + S) + MaxPrincipalOwed)
      /\ priceGap(after) = F + (4 * (J + S) + MaxPrincipalOwed)
  BY <1>1, <1>2 DEF priceGap, TotalDeposited
<1>6. aj * S <= as * S + (F + (4 * (J + S) + MaxPrincipalOwed))
  BY <1>5 DEF PricesTogether
<1>7. due <= J + S + MaxPrincipalOwed
  BY <1>1
<1> HIDE DEF dS, dJ, F, S, J, aj, as, ajAfter, asAfter
<1>8. /\ aj * S \in Nat /\ as * S \in Nat /\ ajAfter * S \in Nat /\ asAfter * S \in Nat
      /\ dJ * S \in Nat /\ dS * S \in Nat
  BY <1>1, <1>4, TimesType
<1>9. ajAfter * S <= asAfter * S + (F + (4 * (J + S) + MaxPrincipalOwed))
  <2>1. CASE ajAfter = aj
    <3>1. as * S <= asAfter * S
      BY <1>1, <1>2, TimesMonotone
    <3>2. ajAfter * S = aj * S
      BY <2>1
    <3>3. \A x, y, z, g \in Nat : x <= y + g /\ y <= z => x <= z + g
      OBVIOUS
    <3>4. F + (4 * (J + S) + MaxPrincipalOwed) \in Nat
      BY <1>1
    <3>5. aj * S <= asAfter * S + (F + (4 * (J + S) + MaxPrincipalOwed))
      BY <1>6, <1>8, <3>1, <3>3, <3>4
    <3> QED
      BY <3>2, <3>5
  <2>2. CASE ajAfter <= dJ /\ dS * S <= asAfter * S + F + S
    <3>1. ajAfter * S <= dJ * S
      BY <1>1, <1>4, <2>2, TimesMonotone
    <3> QED
      BY <1>1, <1>3, <1>7, <1>8, <2>2, <3>1
  <2> QED
    BY <1>2, <2>1, <2>2
<1> QED
  BY <1>2, <1>5, <1>9 DEF PricesTogether, S, ajAfter, asAfter

\* An assessment keeps the prices together.
LEMMA AssessmentTogether ==
  ASSUME PoolInv, PoolInv', Len(poolSlices) = 1, Len(poolSlices') = 1, PrincipalKept, SeniorAhead,
         NEW o, AssessedOne(o)
  PROVE  PricesTogether(poolSlices'[1])
<1>1. /\ poolSlices[1] \in PoolSlice /\ PricesTogether(poolSlices[1])
      /\ SliceKept(poolSlices[1], creditLine.principalOwed, creditLine.balance)
      /\ poolSlices[1].principalDeployed = creditLine.balance /\ creditLine.balance \in Nat
  BY OneSliceIs DEF SeniorAhead, PrincipalKept
<1>2. poolSlices'[1] \in PoolSlice
  <2>1. poolSlices' \in Seq(PoolSlice)
    BY DEF PoolInv, TypeOK
  <2> QED
    BY <2>1
<1>3. CASE SameHoldings(poolSlices[1], poolSlices'[1])
  BY <1>1, <1>2, <1>3, SameHoldingsTogether
<1>4. ASSUME NEW base \in PoolSlice, NEW poured \in PoolSlice,
             SameHoldings(poolSlices[1], base),
             TotalDeposited(base) # 0, dueOf(base, o.line) \in Nat,
             Poured(base, o.principal + o.remaining, dueOf(base, o.line), poured),
             Repaid(poured, o.principal, poolSlices'[1])
      PROVE  PricesTogether(poolSlices'[1])
  <2>1. PricesTogether(base)
    BY <1>1, <1>4, SameHoldingsTogether
  <2>2. base.senior.lockedUntil > 0
    BY <1>4 DEF AssessedOne, SameHoldings
  <2>3. dueOf(base, o.line) <= TotalDeposited(base) + MaxPrincipalOwed
    <3>1. /\ o.line.principalOwed \in Nat /\ o.line.principalOwed <= MaxPrincipalOwed
          /\ o.principal \in 0..creditLine.balance
          /\ o.line.balance = creditLine.balance - o.principal
      BY DEF AssessedOne, OwedWithin
    <3>2. o.line.balance \in Nat
      BY <1>1, <3>1
    <3>3. TotalDeposited(base) \in Nat /\ MaxPrincipalOwed \in Nat
      BY SliceType, BoundAssumption
    <3> QED
      BY <3>1, <3>2, <3>3 DEF dueOf
  <2>4. PricesTogether(poured)
    BY <1>4, <2>1, <2>2, <2>3, PouringTogether
  <2>5. poolSlices'[1].senior = poured.senior /\ poolSlices'[1].junior = poured.junior
    BY <1>4 DEF Repaid
  <2> QED
    BY <2>4, <2>5 DEF PricesTogether, priceGap, TotalDeposited
<1> QED
  BY <1>3, <1>4 DEF AssessedOne

\* Every step keeps the prices together.
LEMMA SeniorStaysAhead ==
  ASSUME PoolInv, PoolInv', PrincipalKept, SeniorAhead, [Next]_vars
  PROVE  SeniorAhead'
<1> SUFFICES ASSUME Len(poolSlices') = 1 PROVE PricesTogether(poolSlices'[1])
  BY DEF SeniorAhead, PricesTogether, priceGap, TotalDeposited
<1>1. Len(poolSlices) = 1 /\ OneSliceMoves
  BY OneSliceSteps
<1>2. /\ poolSlices[1] \in PoolSlice /\ SliceInOrder(poolSlices[1])
      /\ PricesTogether(poolSlices[1])
      /\ SliceKept(poolSlices[1], creditLine.principalOwed, creditLine.balance)
  BY <1>1, OneSliceIs DEF PrincipalKept, SeniorAhead
<1>3. poolSlices'[1] \in PoolSlice
  <2>1. poolSlices' \in Seq(PoolSlice)
    BY DEF PoolInv, TypeOK
  <2> QED
    BY <2>1
<1>4. CASE SameHoldings(poolSlices[1], poolSlices'[1])
  BY <1>2, <1>3, <1>4, SameHoldingsTogether
<1>5. CASE DepositsMove(poolSlices[1], poolSlices'[1])
  <2>1. PICK name \in TrancheNames, amount \in Nat :
          /\ poolSlices[1][name].lockedUntil = 0
          /\ poolSlices'[1] = depositing(poolSlices[1], name, amount)
    BY <1>5 DEF DepositsMove
  <2>2. DepositedOnly(poolSlices[1], name, amount, poolSlices'[1])
    BY <1>2, <2>1, DepositingIs
  <2>3. ~ (poolSlices[1].senior.lockedUntil > 0)
    BY <2>2 DEF DepositedOnly
  <2> QED
    BY <1>2, <1>3, <2>2, <2>3, DepositsTogether
<1>6. ASSUME NEW amount \in Nat, Drawdown(amount)
      PROVE  PricesTogether(poolSlices'[1])
  <2>1. DrawnOne(amount)
    BY <1>1, <1>6, DrawdownOfOne
  <2>2. PICK before \in PoolSlice :
          /\ SameHoldings(poolSlices[1], before) /\ before.senior.lockedUntil > 0
          /\ amount > 0 /\ amount <= amountAvailable(before)
          /\ poolSlices'[1] = sliceAfterDrawdown(before, amount)
    BY <2>1 DEF DrawnOne
  <2>3. SliceKept(before, creditLine.principalOwed, creditLine.balance)
    BY <1>2, <2>2, SameHoldingsAreKept
  <2>4. /\ TotalDeposited(before) # 0
        /\ amountAvailable(before) - amount \in 0..TotalDeposited(before)
    BY <2>2, <2>3, DrawdownIsKept
  <2>5. PricesTogether(sliceAfterDrawdown(before, amount))
    BY <2>2, <2>4, DrawdownTogether
  <2> QED
    BY <2>2, <2>5
<1>7. ASSUME NEW available \in Nat, NEW status \in LiquidationProcess, _Assess(available, status)
      PROVE  PricesTogether(poolSlices'[1])
  <2>1. PICK o : o = outcomeOf(available, status) /\ AssessedOne(o)
    BY <1>1, <1>7, AssessmentOfOne
  <2> QED
    BY <1>1, <2>1, AssessmentTogether
<1> QED
  BY <1>1, <1>4, <1>5, <1>6, <1>7 DEF OneSliceMoves

\* At first the prices are the same.
LEMMA InitAhead == Init => SeniorAhead
<1> SUFFICES ASSUME Init PROVE SeniorAhead
  OBVIOUS
<1>1. poolSlices[1] = EmptySlice
  BY DEF Init
<1>2. EmptySlice.junior.principalSharePrice = EmptySlice.senior.principalSharePrice
  BY DEF EmptySlice
<1> QED
  BY <1>1, <1>2, EmptySliceIs, SamePricesTogether DEF SeniorAhead

----------------------------------------------------------------------------
(* Theorems.                                                               *)

(* Whatever comes after the lock, the deposits of a locked tranche stay as *)
(* they are, and neither lock of a locked pool is extended.                *)
THEOREM LockedTranchesStayFrozen == Spec => LockedTranchesAreFrozen
<1>1. SlicesShape(poolSlices) /\ [Next]_vars => SlicesShape(poolSlices)'
  BY NextKeeps
<1>2. SlicesShape(poolSlices) /\ [Next]_vars => Frozen(poolSlices, poolSlices')
  BY NextKeeps
<1>3. Frozen(poolSlices, poolSlices')
      <=> \A i \in DOMAIN poolSlices, name \in TrancheNames :
            /\ poolSlices[i][name].lockedUntil > 0
               => poolSlices'[i][name].principalDeposited = poolSlices[i][name].principalDeposited
            /\ poolSlices[i].senior.lockedUntil > 0
               => poolSlices'[i][name].lockedUntil = poolSlices[i][name].lockedUntil
  BY DEF Frozen
<1> QED
  BY <1>1, <1>2, <1>3, InitShape, PTL DEF Spec, LockedTranchesAreFrozen

(* Every variable keeps its type: no subtraction of the books goes below zero,*)
(* whatever the terms, amounts and times.                                  *)
THEOREM TypeCorrect == Spec => []TypeOK
<1>1. PoolInv /\ [Next]_vars => PoolInv'
  BY NextInv
<1>2. PoolInv => TypeOK
  BY DEF PoolInv
<1> QED
  BY <1>1, <1>2, InitInv, PTL DEF Spec

(* The share prices never promise more than the pool has and has paid out  *)
(* already, whatever drawdowns, payments, reserve fees and roundings made of*)
(* them.                                                                   *)
THEOREM SharePricesStayFunded == Spec => []SharePricesAreFunded
<1>1. PoolInv /\ [Next]_vars => PoolInv'
  BY NextInv
<1>2. PoolInv => SharePricesAreFunded
  BY BooksAreProperties
<1> QED
  BY <1>1, <1>2, InitInv, PTL DEF Spec

(* The slices' principalDeployed, totalDeployed and the balance of the credit*)
(* line keep recording one loan.                                           *)
THEOREM DeployedStaysTheLoan == Spec => []DeployedIsTheLoan
<1>1. PoolInv /\ [Next]_vars => PoolInv'
  BY NextInv
<1>2. PoolInv => DeployedIsTheLoan
  BY BooksAreProperties
<1> QED
  BY <1>1, <1>2, InitInv, PTL DEF Spec

(* Over all payments of a loan, no senior tranche is given more interest than*)
(* its part of what its slice accrued, less the junior fee and the reserve's.*)
THEOREM SeniorInterestStaysCapped == Spec => []SeniorInterestIsCapped
<1>1. PoolInv /\ [Next]_vars => PoolInv'
  BY NextInv
<1>2. PoolInv => SeniorInterestIsCapped
  BY BooksAreProperties
<1> QED
  BY <1>1, <1>2, InitInv, PTL DEF Spec

(* Whoever has paid all the interest due is not late, up to the end of the *)
(* term, whatever periods the assessments skipped.                         *)
THEOREM PaidUpIsNeverLate == Spec => PaidUpIsNotLate
<1>1. PoolInv /\ [Next]_vars => PoolInv'
  BY NextInv
<1>2. PoolInv /\ [Next]_vars
      => (PaymentStep /\ creditLine'.interestOwed = 0 /\ time <= creditLine.termEndTime
          => ~ _isLate(creditLine', time))
  BY PaymentMoves
<1> QED
  BY <1>1, <1>2, InitInv, PTL DEF Spec, PaidUpIsNotLate

(* While the borrower owes something, interestAccruedAsOf never goes back: no *)
(* second of a loan is charged twice, whatever terms it is migrated to        *)
(* (updateAndGetInterestAndPrincipalOwedAsOf).                                *)
THEOREM LoanIsChargedOnce == Spec => InterestIsChargedOnce
<1>1. PoolInv /\ [Next]_vars => PoolInv'
  BY NextInv
<1>2. PoolInv /\ [Next]_vars
      => (creditLine.balance > 0
          => creditLine'.interestAccruedAsOf >= creditLine.interestAccruedAsOf)
  BY ChargesGoOn
<1> QED
  BY <1>1, <1>2, InitInv, PTL DEF Spec, InterestIsChargedOnce

(* Only a migration to another payment period, or to a term shorter than the  *)
(* period, puts the times of a loan out of order: from times in order, every  *)
(* other step leaves the due time within a period, no charge ahead of the     *)
(* block, and the last full payment where no subtraction of times fails.      *)
THEOREM OnlyMigrationsDisorderTimes == Spec => OnlyNewTermsDisorderTimes
<1>1. PoolInv /\ [Next]_vars => PoolInv'
  BY NextInv
<1>2. PoolInv /\ [Next]_vars
      => (TimesInOrder /\ ~ TimesInOrder'
          => \/ creditLine'.paymentPeriodInDays # creditLine.paymentPeriodInDays
             \/ creditLine'.paymentPeriodInDays > creditLine'.termInDays)
  BY TimesStayInOrder
<1> QED
  BY <1>1, <1>2, InitInv, PTL DEF Spec, OnlyNewTermsDisorderTimes

\* A step after which the payment period is the one before, and fits the term.
KeepsPeriod ==
  /\ creditLine'.paymentPeriodInDays = creditLine.paymentPeriodInDays
  /\ ~ (creditLine'.paymentPeriodInDays > creditLine'.termInDays)

\* Such a step, or none, keeps the times in order.
LEMMA PeriodKeepsOrder ==
  ASSUME PoolInv, TimesInOrder, [Next]_vars, [KeepsPeriod]_vars
  PROVE  TimesInOrder'
<1>1. CASE KeepsPeriod
  BY <1>1, TimesStayInOrder DEF KeepsPeriod
<1>2. CASE UNCHANGED vars
  <2>1. creditLine' = creditLine /\ time' = time
    BY <1>2 DEF vars
  <2> QED
    BY <2>1 DEF TimesInOrder
<1> QED
  BY <1>1, <1>2

(* The same of a whole behaviour: a loan whose migrations keep its period and *)
(* a term of at least that has its times in order at all times.               *)
THEOREM TimesAreKeptInOrder == Spec /\ [][KeepsPeriod]_vars => []TimesInOrder
<1>1. Init => PoolInv /\ TimesInOrder
  BY InitInv, InitInOrder
<1>2. PoolInv /\ TimesInOrder /\ [Next]_vars /\ [KeepsPeriod]_vars
      => PoolInv' /\ TimesInOrder'
  BY NextInv, PeriodKeepsOrder
<1> QED
  BY <1>1, <1>2, PTL DEF Spec

(* While a pool has one slice and the times of its loan are in order, a       *)
(* borrower who owes something can pay and anybody can have the loan assessed,*)
(* unless the principal falls due twice, under any terms and whatever the loan*)
(* was migrated to before: no subtraction of times fails, and what is deployed*)
(* stays within the deposits, so that none of principal does.                 *)
THEOREM PaymentsStayAccepted == Spec => []PaymentsAreAccepted
<1> DEFINE I == PoolInv /\ PrincipalKept
<1>1. Init => I
  BY InitInv, InitKept
<1>2. I /\ [Next]_vars => I'
  BY NextInv, PrincipalStaysKept
<1>3. I => PaymentsAreAccepted
  BY PaymentsAccepted
<1> HIDE DEF I
<1> QED
  BY <1>1, <1>2, <1>3, PTL DEF Spec

(* While a pool has one slice, principal comes back to the senior tranche     *)
(* first: whatever drawdowns and payments came before, the junior tranche has *)
(* no larger part of its deposits back, but for what is lost in rounding.     *)
(* Payments raise the junior price only once the senior one is where it should*)
(* be, and no drawdown leaves more than the deposits.                         *)
THEOREM SeniorsStayFirst == Spec => []JuniorBehindSenior
<1> DEFINE I == PoolInv /\ PrincipalKept /\ SeniorAhead
<1>1. Init => I
  BY InitInv, InitKept, InitAhead
<1>2. I /\ [Next]_vars => I'
  BY NextInv, PrincipalStaysKept, SeniorStaysAhead
<1>3. I => JuniorBehindSenior
  BY TogetherIsBehind
<1> HIDE DEF I
<1> QED
  BY <1>1, <1>2, <1>3, PTL DEF Spec
=============================================================================
