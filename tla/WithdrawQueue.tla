--------------------------- MODULE WithdrawQueue ---------------------------
(***************************************************************************)
(* The withdrawal queue of the index pool                                  *)
(* (src/contracts/protocol/core/WithdrawQueue.sol).                        *)
(*                                                                         *)
(* RWA holders register an amount of RWA, which the queue takes into       *)
(* custody.  Whenever the index pool has cash, anybody may make the queue  *)
(* burn RWA for USDC and hand the USDC out from the head of the queue.     *)
(* A user may take (part of) a registration back while it waits, and       *)
(* claims the USDC later, minus a fee that depends on its veNAOS stake.    *)
(*                                                                         *)
(* Every external call is one transaction, hence one action; a failed      *)
(* require() undoes the transaction, hence is a conjunct of the guard.     *)
(* register, update and withdrawFromIndexPool all end in the internal      *)
(* function _withdrawFromIndexPool, and so do their actions.               *)
(*                                                                         *)
(* The index pool is seen as the queue sees it: its cash, the amount in    *)
(* its active vault, its share price and whether it is paused.  All four   *)
(* move between two transactions of the queue (IndexPoolMoves).            *)
(***************************************************************************)
EXTENDS Integers, Sequences, FiniteSetsExt, PrefixSums

CONSTANTS
  NumUsers,               \* accounts are numbered 1..NumUsers
  GoListed,               \* accounts Verified.verifyIndexPool accepts
  InitialRWA,             \* RWA every account starts with
  Amounts,                \* amounts a user may ask to register
  MAX_QUEUE_SIZE,
  MAX_WITHDRAW_FEE,
  WithdrawFeeDenominator, \* NAOSConfig.getWithdrawFeeDenominator
  usdcMantissa,           \* base units of one USDC
  indexMantissa,          \* base units of one RWA, and the unit of prices
  Ceilings,               \* ceilings an admin may set for everybody
  UserCeilings,           \* ceilings an admin may set for one account
  FeeTiers,               \* fee tiers an admin may write
  VeNAOSAmounts,          \* stakes the boost pool may report
  IndexPoolStates,        \* [usdc, vault, sharePrice, paused] seen by the queue
  Shortfalls,             \* by how much the vault may pay less than it is asked for
  MaxEntries              \* bound: registrations in one behaviour

Accounts == 1..NumUsers

IndexPoolState == [usdc : Nat, vault : Nat, sharePrice : Nat \ {0}, paused : BOOLEAN]
FeeTier        == [veNAOSAmount : Nat, fee : Nat]

ASSUME UsersAssumption  == NumUsers \in Nat /\ GoListed \subseteq Accounts
ASSUME AmountAssumption == /\ Amounts \subseteq Nat
                           /\ InitialRWA \in Nat
                           /\ Ceilings \subseteq Nat
                           /\ UserCeilings \subseteq Nat
                           /\ VeNAOSAmounts \subseteq Nat
ASSUME FeeAssumption    == /\ MAX_WITHDRAW_FEE \in Nat
                           /\ WithdrawFeeDenominator \in Nat \ {0}
                           /\ MAX_WITHDRAW_FEE <= WithdrawFeeDenominator
                           /\ FeeTiers \subseteq FeeTier
ASSUME QueueAssumption  == MAX_QUEUE_SIZE \in Nat /\ MaxEntries \in Nat
ASSUME MantissaAssumption ==
  /\ usdcMantissa \in Nat \ {0}
  /\ indexMantissa \in Nat \ {0}
  /\ indexMantissa % usdcMantissa = 0
ASSUME PoolAssumption   == IndexPoolStates \subseteq IndexPoolState /\ Shortfalls \subseteq Nat

VARIABLES
  withdrawQueue,          \* the entries, never removed: [user, registeredAmount, ...]
  userWithdrawData,       \* per account: [listInQueue, queueIndex, ceiling, Claimable]
  totalRegisteredAmount,  \* RWA that waits for cash
  queueIndex,             \* entries the queue is done with
  ceiling,                \* default ceiling of a registration
  verifyRequired,
  feeTiers                \* fee of a claim by stake, best stake last

\* RWA.sol and USDC: who holds what.
VARIABLES
  rwaOf,                  \* RWA in the users' wallets
  rwaHeld,                \* RWA in custody of the queue
  usdcOf,                 \* USDC the users have claimed
  usdcHeld,               \* USDC in custody of the queue
  usdcReserve             \* fees sent to the reserve address

\* What the queue reads of other contracts.
VARIABLES
  indexPool,              \* IndexPool.sol
  veNAOS                  \* BoostPool.getStakeTotalDepositedWeight

queueVars   == <<withdrawQueue, userWithdrawData, totalRegisteredAmount, queueIndex>>
adminVars   == <<ceiling, verifyRequired, feeTiers>>
tokenVars   == <<rwaOf, rwaHeld, usdcOf, usdcHeld, usdcReserve>>
externalVars == <<indexPool, veNAOS>>
vars == <<queueVars, adminVars, tokenVars, externalVars>>

WithdrawData ==
  [user : Accounts, registeredAmount : Nat, remainingAmount : Nat, withdrawAmount : Nat]
UserWithdrawData ==
  [listInQueue : BOOLEAN, queueIndex : Nat, ceiling : Nat, Claimable : Nat]

TypeOK ==
  /\ withdrawQueue \in Seq(WithdrawData)
  /\ userWithdrawData \in [Accounts -> UserWithdrawData]
  /\ totalRegisteredAmount \in Nat
  /\ queueIndex \in 0..Len(withdrawQueue)
  /\ ceiling \in Nat
  /\ verifyRequired \in BOOLEAN
  /\ feeTiers \in Seq(FeeTier) /\ feeTiers # <<>>
  /\ rwaOf \in [Accounts -> Nat]
  /\ rwaHeld \in Nat
  /\ usdcOf \in [Accounts -> Nat]
  /\ usdcHeld \in Nat
  /\ usdcReserve \in Nat
  /\ indexPool \in IndexPoolState
  /\ veNAOS \in [Accounts -> Nat]

----------------------------------------------------------------------------
(* What IndexPool.sol computes for the queue. *)

\* IndexPool.getNumShares: the RWA that an amount of USDC is worth.
GetNumShares(amount) ==
  (((amount * indexMantissa) \div usdcMantissa) * indexMantissa) \div indexPool.sharePrice

\* IndexPool.getUSDCAmountFromShares
GetUSDCAmountFromShares(shares) ==
  (((shares * indexPool.sharePrice) \div indexMantissa) * usdcMantissa) \div indexMantissa

\* Vault.withdraw of the active vault, which sends what it is asked for or less
\* (IVaultAdapter.withdraw).  Its deposits are down by as much as its value is:
\* by what was sent, and what the adapter loses besides.
VaultWithdraw(difference, sent) ==
  /\ difference <= indexPool.vault
  /\ \E decreasedValue \in sent..indexPool.vault :
       indexPool' = [indexPool EXCEPT !.usdc = 0, !.vault = @ - decreasedValue]

\* withdrawInRWA and _withdraw: the pool's own cash first, the active vault next.
\* usd is what the caller received, and what the pool returns.
WithdrawInRWA(shares, held, usd) ==
  LET amount     == GetUSDCAmountFromShares(shares)
      difference == amount - indexPool.usdc
  IN  /\ ~ indexPool.paused
      /\ shares > 0 /\ shares <= held
      /\ IF difference > 0
         THEN \E short \in Shortfalls :
                /\ short <= difference
                /\ usd = amount - short
                /\ VaultWithdraw(difference, difference - short)
         ELSE /\ usd = amount
              /\ indexPool' = [indexPool EXCEPT !.usdc = @ - amount]

----------------------------------------------------------------------------
(* _withdrawFromIndexPool.  The loop of the code walks the queue from      *)
(* queueIndex with withdrawIndexAmount RWA in hand.  An entry that waits   *)
(* for less than what is in hand is served in full; the first entry that   *)
(* waits for at least what is in hand takes all of it, with all the USDC   *)
(* that is left, and ends the loop.                                        *)

\* Faulty variant: the vault forgotten.
WithdrawIndexAmountOwnCash(total) ==
  LET affordable == GetNumShares(indexPool.usdc)
  IN  IF affordable > total THEN total ELSE affordable

WithdrawIndexAmount(total) ==
  LET affordable == GetNumShares(indexPool.usdc + indexPool.vault)
  IN  IF affordable > total THEN total ELSE affordable

\* RWA waiting in entries queueIndex + 1 .. n of queue q.
WaitingUpTo(q) ==
  PrefixSum([i \in DOMAIN q |-> IF i > queueIndex THEN q[i].remainingAmount ELSE 0])

\* The entry at which the loop returns; one past the end if it never does.
LastServed(q, amount) ==
  LET returns == {i \in DOMAIN q : i > queueIndex /\ WaitingUpTo(q)[i] >= amount}
  IN  IF returns = {} THEN Len(q) + 1 ELSE Min(returns)

\* Faulty variant: withdrawIndexAmount not decreased in the loop.
TakenFromUndecreased(q, amount, i) ==
  LET last == LastServed(q, amount)
  IN  CASE i <= queueIndex \/ i > last -> 0
        [] i > queueIndex /\ i < last  -> q[i].remainingAmount
        [] OTHER                       -> amount

\* RWA of entry i that is burnt.
TakenFrom(q, amount, i) ==
  LET last == LastServed(q, amount)
  IN  CASE i <= queueIndex \/ i > last -> 0
        [] i > queueIndex /\ i < last  -> q[i].remainingAmount
        [] OTHER                       -> amount - WaitingUpTo(q)[last - 1]

\* Faulty variants: rounded up; divided before it is multiplied.
DistributedUSDCRoundedUp(remaining) ==
  1 + (((remaining * usdcMantissa * indexPool.sharePrice) \div indexMantissa) \div indexMantissa)
DistributedUSDCDividedFirst(remaining) ==
  ((remaining \div indexMantissa) * usdcMantissa * indexPool.sharePrice) \div indexMantissa

\* USDC of an entry that is served in full: its RWA at the share price.
DistributedUSDC(remaining) ==
  ((remaining * usdcMantissa * indexPool.sharePrice) \div indexMantissa) \div indexMantissa

\* USDC handed out to the entries up to each index that are served in full.
DistributedUpTo(q, amount) ==
  PrefixSum([i \in DOMAIN q |-> IF i > queueIndex /\ i < LastServed(q, amount)
                                THEN DistributedUSDC(q[i].remainingAmount) ELSE 0])

\* Faulty variant: withdrawUSDAmount not decreased in the loop.
PaidToUndecreased(q, amount, usd, i) ==
  LET last == LastServed(q, amount)
  IN  CASE i <= queueIndex \/ i > last -> 0
        [] i > queueIndex /\ i < last  -> DistributedUSDC(q[i].remainingAmount)
        [] OTHER                       -> usd

\* USDC that entry i receives out of usd; the last one gets what is left.
PaidTo(q, amount, usd, i) ==
  LET last == LastServed(q, amount)
  IN  CASE i <= queueIndex \/ i > last -> 0
        [] i > queueIndex /\ i < last  -> DistributedUSDC(q[i].remainingAmount)
        [] OTHER                       -> usd - DistributedUpTo(q, amount)[last - 1]

\* The checked subtraction withdrawUSDAmount.sub(distributedUSDC) never underflows:
\* usd covers the entries that are served in full.
Distributable(q, amount, usd) ==
  DistributedUpTo(q, amount)[Len(q)] <= usd

\* Faulty variant: withdrawAmount assigned instead of added to.
ServeQueueOverwriting(q, amount, usd) ==
  [i \in DOMAIN q |->
     [q[i] EXCEPT !.remainingAmount = @ - TakenFrom(q, amount, i),
                  !.withdrawAmount  = PaidTo(q, amount, usd, i)]]

ServeQueue(q, amount, usd) ==
  [i \in DOMAIN q |->
     [q[i] EXCEPT !.remainingAmount = @ - TakenFrom(q, amount, i),
                  !.withdrawAmount  = @ + PaidTo(q, amount, usd, i)]]

\* Faulty variant: an entry drained by the else branch is not passed.
PassedByFullOnly(q, amount) ==
  {i \in DOMAIN q : i > queueIndex /\ i < LastServed(q, amount)}

\* The entries the loop passes: those served in full, the last one included
\* when nothing of it remains.
PassedBy(q, amount) ==
  LET last == LastServed(q, amount)
  IN  {i \in DOMAIN q : /\ i > queueIndex
                        /\ \/ i < last
                           \/ i = last /\ TakenFrom(q, amount, i) = q[i].remainingAmount}

ServeUsers(q, data, amount, usd) ==
  [u \in Accounts |->
     [data[u] EXCEPT
        !.listInQueue = @ /\ \A i \in PassedBy(q, amount) : q[i].user # u,
        !.Claimable   = @ + PrefixSum([i \in DOMAIN q |->
                              IF q[i].user = u THEN PaidTo(q, amount, usd, i) ELSE 0])[Len(q)]]]

\* Faulty variant: the index moves past an entry served in part.
NextQueueIndexPastLast(q, amount) == LastServed(q, amount)

NextQueueIndex(q, amount) ==
  LET last == LastServed(q, amount)
  IN  IF last \in PassedBy(q, amount) THEN last ELSE last - 1

\* The tail of every call: q, data, total and held are the queue, the users'
\* records, totalRegisteredAmount and the custody the caller has left behind.
_WithdrawFromIndexPool(q, data, total, held) ==
  LET amount == WithdrawIndexAmount(total)
  IN  IF total = 0 \/ amount = 0
      THEN /\ withdrawQueue' = q
           /\ userWithdrawData' = data
           /\ totalRegisteredAmount' = total
           /\ rwaHeld' = held
           /\ UNCHANGED <<queueIndex, usdcHeld, indexPool>>
      ELSE \E usd \in 0..GetUSDCAmountFromShares(amount) :
           /\ WithdrawInRWA(amount, held, usd)
           /\ Distributable(q, amount, usd)
           /\ withdrawQueue' = ServeQueue(q, amount, usd)
           /\ userWithdrawData' = ServeUsers(q, data, amount, usd)
           /\ totalRegisteredAmount' = total - amount
           /\ queueIndex' = NextQueueIndex(q, amount)
           /\ rwaHeld' = held - amount
           /\ usdcHeld' = usdcHeld + usd

----------------------------------------------------------------------------
(* Calls of users. *)

WithinCeiling(u, amount) ==
  amount > 0 /\ (amount <= ceiling \/ amount <= userWithdrawData[u].ceiling)

HasRoom == Len(withdrawQueue) - queueIndex <= MAX_QUEUE_SIZE

NewEntry(u, amount) ==
  [user |-> u, registeredAmount |-> amount, remainingAmount |-> amount, withdrawAmount |-> 0]

Register(u, amount) ==
  /\ Len(withdrawQueue) < MaxEntries
  /\ verifyRequired => u \in GoListed
  /\ WithinCeiling(u, amount)
  /\ ~ userWithdrawData[u].listInQueue
  /\ HasRoom
  /\ amount <= rwaOf[u]
  /\ rwaOf' = [rwaOf EXCEPT ![u] = @ - amount]
  /\ _WithdrawFromIndexPool(
       Append(withdrawQueue, NewEntry(u, amount)),
       [userWithdrawData EXCEPT ![u].listInQueue = TRUE,
                                ![u].queueIndex = Len(withdrawQueue)],
       totalRegisteredAmount + amount,
       rwaHeld + amount)
  /\ UNCHANGED <<usdcOf, usdcReserve, veNAOS, adminVars>>

\* The entry userData.queueIndex names (indices of the code start at 0).
OwnEntry(u) == userWithdrawData[u].queueIndex + 1

\* Faulty variant: remainingAmount forgotten.
CancelFromRegistered(entry, amount) == [entry EXCEPT !.registeredAmount = @ - amount]

CancelFrom(entry, amount) ==
  [entry EXCEPT !.registeredAmount = @ - amount, !.remainingAmount = @ - amount]

\* The user takes amount of its registration back; 0 is accepted too.
Update(u, amount) ==
  LET i == OwnEntry(u)
  IN  /\ userWithdrawData[u].listInQueue
      /\ amount <= withdrawQueue[i].remainingAmount
      /\ rwaOf' = [rwaOf EXCEPT ![u] = @ + amount]
      /\ _WithdrawFromIndexPool(
           [withdrawQueue EXCEPT ![i] = CancelFrom(@, amount)],
           [userWithdrawData EXCEPT ![u].listInQueue = amount # withdrawQueue[i].remainingAmount],
           totalRegisteredAmount - amount,
           rwaHeld - amount)
      /\ UNCHANGED <<usdcOf, usdcReserve, veNAOS, adminVars>>

\* getFeeByUser: the fee of the tier below the first one the stake misses.
GetFeeByUser(u) ==
  LET missed == {t \in 2..Len(feeTiers) : veNAOS[u] < feeTiers[t].veNAOSAmount}
  IN  feeTiers[IF missed = {} THEN Len(feeTiers) ELSE Min(missed) - 1].fee

\* Faulty variant: divided before it is multiplied, so that most claims pay no fee.
ReserveAmountDividedFirst(u, claimable) ==
  (claimable \div WithdrawFeeDenominator) * GetFeeByUser(u)

ReserveAmount(u, claimable) == (claimable * GetFeeByUser(u)) \div WithdrawFeeDenominator

Claim(u) ==
  LET claimable == userWithdrawData[u].Claimable
      reserve   == ReserveAmount(u, claimable)
  IN  /\ claimable > 0
      /\ claimable <= usdcHeld
      /\ userWithdrawData' = [userWithdrawData EXCEPT ![u].Claimable = 0]
      /\ usdcOf' = [usdcOf EXCEPT ![u] = @ + (claimable - reserve)]
      /\ usdcReserve' = usdcReserve + reserve
      /\ usdcHeld' = usdcHeld - claimable
      /\ UNCHANGED <<withdrawQueue, totalRegisteredAmount, queueIndex, rwaOf, rwaHeld,
                     adminVars, externalVars>>

WithdrawFromIndexPool ==
  /\ _WithdrawFromIndexPool(withdrawQueue, userWithdrawData, totalRegisteredAmount, rwaHeld)
  /\ UNCHANGED <<rwaOf, usdcOf, usdcReserve, veNAOS, adminVars>>

----------------------------------------------------------------------------
(* Calls of the admin. *)

SetVerify(required) ==
  /\ verifyRequired' = required
  /\ UNCHANGED <<queueVars, ceiling, feeTiers, tokenVars, externalVars>>

SetCeiling(c) ==
  /\ ceiling' = c
  /\ UNCHANGED <<queueVars, verifyRequired, feeTiers, tokenVars, externalVars>>

SetUserCeiling(u, c) ==
  /\ userWithdrawData' = [userWithdrawData EXCEPT ![u].ceiling = c]
  /\ UNCHANGED <<withdrawQueue, totalRegisteredAmount, queueIndex, adminVars, tokenVars,
                 externalVars>>

\* Faulty variant: the fees of neighbouring tiers not compared.
BetterTierByStake(tier, previous) == tier.veNAOSAmount > previous.veNAOSAmount

\* A better stake must come with a lower fee.
BetterTier(tier, previous) ==
  tier.veNAOSAmount > previous.veNAOSAmount /\ tier.fee < previous.fee

AddFeeTier(tier) ==
  /\ tier.fee <= MAX_WITHDRAW_FEE
  /\ BetterTier(tier, feeTiers[Len(feeTiers)])
  /\ feeTiers' = Append(feeTiers, tier)
  /\ UNCHANGED <<queueVars, ceiling, verifyRequired, tokenVars, externalVars>>

SetFeeTier(t, tier) ==
  /\ tier.fee <= MAX_WITHDRAW_FEE
  /\ t > 1 => BetterTier(tier, feeTiers[t - 1])
  /\ t < Len(feeTiers) => BetterTier(feeTiers[t + 1], tier)
  /\ feeTiers' = [feeTiers EXCEPT ![t] = tier]
  /\ UNCHANGED <<queueVars, ceiling, verifyRequired, tokenVars, externalVars>>

----------------------------------------------------------------------------
(* Other contracts. *)

\* Deposits, redemptions, investments, harvests, writedowns, flushes and
\* recalls move the pool's cash, its vault and its share price; its admin
\* pauses and unpauses it.
IndexPoolMoves(state) ==
  /\ indexPool' = state
  /\ UNCHANGED <<queueVars, adminVars, tokenVars, veNAOS>>

StakeMoves(u, stake) ==
  /\ veNAOS' = [veNAOS EXCEPT ![u] = stake]
  /\ UNCHANGED <<queueVars, adminVars, tokenVars, indexPool>>

----------------------------------------------------------------------------
Init ==
  /\ withdrawQueue = <<>>
  /\ userWithdrawData =
       [u \in Accounts |-> [listInQueue |-> FALSE, queueIndex |-> 0, ceiling |-> 0, Claimable |-> 0]]
  /\ totalRegisteredAmount = 0
  /\ queueIndex = 0
  /\ ceiling = 0
  /\ verifyRequired = FALSE
  /\ feeTiers = <<[veNAOSAmount |-> 0, fee |-> MAX_WITHDRAW_FEE]>>
  /\ rwaOf = [u \in Accounts |-> InitialRWA]
  /\ rwaHeld = 0
  /\ usdcOf = [u \in Accounts |-> 0]
  /\ usdcHeld = 0
  /\ usdcReserve = 0
  /\ indexPool \in IndexPoolStates
  /\ veNAOS = [u \in Accounts |-> 0]

UserStep ==
  \/ \E u \in Accounts :
       \/ \E amount \in Amounts : Register(u, amount)
       \/ \E amount \in 0..InitialRWA : Update(u, amount)
       \/ Claim(u)
  \/ WithdrawFromIndexPool

AdminStep ==
  \/ \E required \in BOOLEAN : SetVerify(required)
  \/ \E c \in Ceilings : SetCeiling(c)
  \/ \E u \in Accounts, c \in UserCeilings : SetUserCeiling(u, c)
  \/ \E tier \in FeeTiers : AddFeeTier(tier)
  \/ \E t \in DOMAIN feeTiers, tier \in FeeTiers : SetFeeTier(t, tier)

ExternalStep ==
  \/ \E state \in IndexPoolStates : IndexPoolMoves(state)
  \/ \E u \in Accounts, stake \in VeNAOSAmounts : StakeMoves(u, stake)

Next == UserStep \/ AdminStep \/ ExternalStep

Spec == Init /\ [][Next]_vars

\* The queue relies on others to go on: on somebody who calls
\* withdrawFromIndexPool (anyone may) again and again while it would serve an
\* entry, and on an index pool that is not left paused or without cash for
\* ever.  No fairness is asked of the users who registered, nor of the admin.
Refilled(state) ==
  /\ ~ state.paused
  /\ state.usdc + state.vault > 0

FairSpec ==
  /\ Spec
  /\ WF_vars(\E state \in IndexPoolStates : Refilled(state) /\ IndexPoolMoves(state))
  /\ SF_vars(WithdrawFromIndexPool)

----------------------------------------------------------------------------
(* Properties. *)

SumOfEntries(amountOf) == PrefixSum(amountOf)[Len(withdrawQueue)]
SumOverAccounts(amountOf) == PrefixSum(amountOf)[NumUsers]

\* What waits in the entries is what totalRegisteredAmount says, and the queue
\* holds exactly that much RWA: cancellations, partial service and entries
\* that were cancelled down to zero never leave a difference behind.
RegisteredIsConserved ==
  /\ SumOfEntries([i \in DOMAIN withdrawQueue |-> withdrawQueue[i].remainingAmount])
       = totalRegisteredAmount
  /\ rwaHeld = totalRegisteredAmount

\* All the USDC the index pool paid for burnt RWA is claimable by somebody,
\* rounding dust included, and every claim is funded.
ClaimsAreFunded ==
  usdcHeld = SumOverAccounts([u \in Accounts |-> userWithdrawData[u].Claimable])

\* The history kept in the entries (withdrawAmount) explains all the USDC that
\* is claimable, was claimed, or went to the reserve as a fee.
PayoutsAreAccounted ==
  SumOfEntries([i \in DOMAIN withdrawQueue |-> withdrawQueue[i].withdrawAmount])
    = usdcHeld + usdcReserve + SumOverAccounts(usdcOf)

\* Entries the queue is done with have nothing left to serve: the loop never
\* skips RWA that still waits.
PassedEntriesAreDrained ==
  \A i \in 1..queueIndex : withdrawQueue[i].remainingAmount = 0

\* A listed user's queueIndex leads to an entry of its own that still waits, so
\* update can never take back RWA of somebody else, nor of a served entry.
ListingNamesOwnLiveEntry ==
  \A u \in Accounts :
    userWithdrawData[u].listInQueue =>
      /\ OwnEntry(u) \in (queueIndex + 1)..Len(withdrawQueue)
      /\ withdrawQueue[OwnEntry(u)].user = u
      /\ withdrawQueue[OwnEntry(u)].remainingAmount > 0

\* Whenever there is RWA to burn and cash to pay for it, the pool can ask for what
\* it has to pay; if it is paid in full, the checked subtractions in the loop do not
\* underflow, and the loop ends at an entry that takes the rest: no rounding makes
\* a call revert.  (A vault that pays short by more than the part of the last entry
\* does: _WithdrawFromIndexPool is Distributable only if the others are covered.)
FullPaymentIsDistributed ==
  LET amount == WithdrawIndexAmount(totalRegisteredAmount)
      usd    == GetUSDCAmountFromShares(amount)
  IN  amount > 0 =>
        /\ usd <= indexPool.usdc + indexPool.vault
        /\ Distributable(withdrawQueue, amount, usd)
        /\ LastServed(withdrawQueue, amount) \in DOMAIN withdrawQueue

Redeemed(entry) == entry.registeredAmount - entry.remainingAmount

\* First come, first served: RWA of an entry is burnt only in a transaction
\* that leaves nothing waiting ahead of it.
ServedInOrder ==
  [][\A j \in DOMAIN withdrawQueue :
       Redeemed(withdrawQueue'[j]) > Redeemed(withdrawQueue[j]) =>
         \A i \in 1..(j - 1) : withdrawQueue'[i].remainingAmount = 0]_vars

\* RWA of an entry that a step burns, what it is paid for it, and by how much the
\* step was paid short of what all it burns is worth.
BurntOf(i) ==
  Redeemed(withdrawQueue'[i])
    - (IF i \in DOMAIN withdrawQueue THEN Redeemed(withdrawQueue[i]) ELSE 0)
PaidFor(i) ==
  withdrawQueue'[i].withdrawAmount
    - (IF i \in DOMAIN withdrawQueue THEN withdrawQueue[i].withdrawAmount ELSE 0)
PaidShort ==
  GetUSDCAmountFromShares(
    PrefixSum([i \in DOMAIN withdrawQueue' |-> BurntOf(i)])[Len(withdrawQueue')])
    - (usdcHeld' - usdcHeld)

\* Every entry is paid the share price of the transaction for its burnt RWA,
\* rounded down once, except the last one that the transaction serves: it gets the
\* rounding of the others on top, and it alone bears what the vault paid short.
PaidAtSharePrice ==
  [][\A i \in DOMAIN withdrawQueue' :
       LET worth == (BurntOf(i) * indexPool.sharePrice * usdcMantissa)
                      \div (indexMantissa * indexMantissa)
       IN  /\ BurntOf(i) > 0 => worth <= PaidFor(i) + PaidShort
           /\ PaidFor(i) <= worth + Len(withdrawQueue)
           /\ (\E j \in DOMAIN withdrawQueue' : j > i /\ BurntOf(j) > 0)
              => PaidFor(i) = worth]_vars

\* More stake never means a higher fee, whatever tiers the admin has set.
FeesFallWithStake ==
  \A u, v \in Accounts :
    /\ GetFeeByUser(u) <= MAX_WITHDRAW_FEE
    /\ veNAOS[u] <= veNAOS[v] => GetFeeByUser(v) <= GetFeeByUser(u)

\* A claim takes all that is claimable, and what it leaves behind is the fee of the
\* tier the user has at that time, rounded down.  Nothing else takes from what is
\* claimable.
ClaimsPayTierFee ==
  [][\A u \in Accounts :
       LET claimed == userWithdrawData[u].Claimable
           reserve == usdcReserve' - usdcReserve
       IN  userWithdrawData'[u].Claimable < claimed =>
             /\ userWithdrawData'[u].Claimable = 0
             /\ usdcOf'[u] = usdcOf[u] + (claimed - reserve)
             /\ reserve * WithdrawFeeDenominator <= claimed * GetFeeByUser(u)
             /\ claimed * GetFeeByUser(u) < (reserve + 1) * WithdrawFeeDenominator]_vars

Waits(i) == i \in DOMAIN withdrawQueue /\ withdrawQueue[i].remainingAmount > 0

\* Whatever waits is eventually served or taken back.  In particular entries
\* that were cancelled ahead of it do not block the queue.
EveryEntryIsServed ==
  \A i \in 1..MaxEntries : Waits(i) ~> ~ Waits(i)

----------------------------------------------------------------------------
(* What the code says of itself and does not keep. *)

\* WithdrawQueue.sol:109 rejects a user that "has listed in queue": one
\* registration of a user waits at a time.
OneLiveEntryPerUser ==
  \A i, j \in DOMAIN withdrawQueue :
    /\ withdrawQueue[i].user = withdrawQueue[j].user
    /\ withdrawQueue[i].remainingAmount > 0
    /\ withdrawQueue[j].remainingAmount > 0
    => i = j

\* WithdrawQueue.sol:110-113 rejects a registration that would "exceed max
\* queue size".
QueueWithinMaxSize == Len(withdrawQueue) - queueIndex <= MAX_QUEUE_SIZE
============================================================================
