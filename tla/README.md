# A formal model of NAOS Index

These TLA+ modules model two halves of this repository. The Solidity contracts
(`src/contracts`) lend USDC to borrowers out of two kinds of capital: junior
depositors, who choose a loan and bear its first losses, and the index pool,
whose shares (RWA) spread senior capital over many loans. The TypeScript scripts
(`src/scripts`) deploy these contracts, wire them together, upgrade them, hand
them over to a safe and decide who may deposit. The models are checked by TLC on small
instances; the safety properties of the withdrawal queue, of the junior pool and of the scripts, the
refinement of the upgrade scripts among them, are also proved with TLAPS for every value of the constants.

Contents: [the system](#the-system), [modules](#modules),
[the withdrawal queue](#the-withdrawal-queue), [the junior pool](#the-junior-pool),
[deployment and set-up](#deployment-and-set-up), [upgrades](#upgrades),
[the hand-over](#the-hand-over), [the go list](#the-go-list),
[runs](#what-the-runs-check), [proofs](#what-is-proved),
[disagreements](#where-the-code-and-its-comments-disagree),
[what is not modelled](#what-is-not-modelled), [plan](#plan).

## The system

Contracts run one transaction at a time: a transaction is atomic, and a failed
`require`, `assert` or checked subtraction undoes all of it. Concurrency is the
order in which transactions of users, borrowers, admins and keepers arrive,
and the time between them. Nothing is scheduled by the contracts: whatever must
happen has to be called by somebody.

Scripts are the opposite: a script is a sequence of awaited calls, each of
them atomic, and may stop between any two of them: it is killed, a call is rejected, a
node or a service does not answer. What it did until then stays, on the chain, in the
deployments folder, in the manifest or at Defender, while its memory is lost. The
operator starts it again, perhaps from other code or as another signer.

| Component | State it keeps | Operations | Talks to |
|---|---|---|---|
| `WithdrawQueue` | entries (registered, remaining, paid), one record per user, `queueIndex`, fee tiers | `register`, `update`, `claim`, `withdrawFromIndexPool`, admin setters | burns RWA at `IndexPool`, reads stakes of the boost pool |
| `JuniorPool` (one per loan) with `TranchingLogic` | slices of a senior and a junior tranche with principal and interest share prices, deployed principal, lock times | `deposit`, `withdraw*`, `lockJuniorCapital`, `lockPool`, `drawdown`, `pay`, `assess`, `initializeNextSlice`, `setLiquidated`, migration and limits | owns a `CreditLine`, mints and redeems `PoolTokens`, feeds `JuniorRewards` |
| `CreditLine` with `Accountant` | balance, interest and principal owed, due times, accrued interest | `drawdown`, `assess`, setters (all only by its pool) | reads the liquidation status of its pool |
| `PoolTokens` | one NFT per deposit: tranche, principal, redeemed amounts | `mint`, `redeem`, `burn`, transfer | called by pools |
| `IndexPool` with `RWA`, `Vault` | share price, loans outstanding, writedowns, vaults | `deposit`, `withdraw`, `withdrawInRWA`, `invest`, `redeem`, `writedown`, `flush`, `recall`, `harvest` | deposits into and redeems from `JuniorPool`, mints and burns RWA |
| `LoanManager` | per loan: locked NFTs and their prices | `addPool`, `lockLoan`, `unlockLoan`, `setTokenPrice`, `liquidate`, `liquidateLoan` | `JuniorPool.setLiquidated`, `assess`, `IndexPool.writedown`, `redeem` |
| Leverage strategies | leverage ratio, per-pool overrides | `estimateInvestment`, `invest`, setters | read by `IndexPool.invest` |
| `JuniorRewards` | reward accumulators per pool and per token | `allocateRewards`, `withdraw`, setters | called by `JuniorPool` and `PoolTokens` |
| `IndexStakingPool` | stakes, reward weights, level multipliers | deposits, withdrawals, claims, admin setters | RWA and NAOS tokens |
| `Verified`, `UniqueIdentity` | go-lists, identity tokens, nonces | lists, `mint`, `burn` | asked by pools |
| `NAOSConfig`, `NAOSFactory` | addresses and numbers, pools created | setters, `createPool` | read by everybody |
| Deployment scripts | deployments folder | `baseDeploy`, `baseDeploy18`, `updateConfigs` | deploy, initialize and wire all contracts through hardhat-deploy |
| Set-up scripts | progress in memory | `setUpForTesting`, `deployJuniorPool` | walk a pool of the local chain from its creation to a redemption |
| Upgrade scripts, `DeployEffects`, `DefenderUpgrader` | deployments folder, OpenZeppelin manifest, effects in memory, proposals | `upgrade.ts`, `ContractUpgrader.upgrade`, `changeImplementations`, `executeDeferred` | Defender, the safe that owns the proxies |
| Hand-over (`ensurePerms`) | none of its own | grants, revocations, `transferOwnership` | roles, proxies and config, from the protocol owner to the safe |
| Go list (`personaGolist`, `DefenderProposer`) | pagination token, inquiries, lookups | fetch, look up, `proposeBulkAddToGoList` | Persona, the config's go list, the safe |

What is hard, and what makes each part correct:

* **`WithdrawQueue`.** Registrations, cancellations and claims of many users
  interleave with partial service from a pool whose cash and price move.
  Cancelled entries stay in the list. Three conversions between RWA and USDC
  round, and the loop subtracts rounded parts from a rounded total. Correct
  means: custody equals what waits; whatever the pool paid is claimable by
  somebody; first come, first served, at the price of the moment; no call
  is blocked by rounding; everybody is served in the end; a listed user can only
  reach its own waiting entry; better stakes never pay higher fees.
* **`JuniorPool`, `TranchingLogic`.** Every amount is turned into share prices
  and back, rounding each time; slices share payments by deployed principal;
  early, late, partial and excess payments take different branches. Correct
  means: share prices never promise more than there is; senior principal
  returns first; the senior tranche gets at most its part of the interest;
  books of pool, slices and credit line agree; a locked pool stays as it was
  locked; a loan can always be paid.
* **`CreditLine`, `Accountant`.** Assessments come late, twice, after several
  periods, in the middle of a migration or a liquidation. Correct means: no time
  is charged twice, a borrower that paid all interest is not late, due times are
  those of the schedule.
* **`IndexPool`, `LoanManager`, strategies.** Investments and redemptions of
  many loans, writedowns that rise and fall, cash in vaults, share price changes
  between a user's calls. Correct means: share price times supply equals cash,
  vault and loans less writedowns; no operation of one holder dilutes the others.
* **`JuniorRewards`, `IndexStakingPool`.** Lazy accumulators, updated at every
  deposit, withdrawal and rate change. Correct means: what is claimable in all
  never exceeds what was allocated, and nobody is paid for time before its stake.
* **`Verified`, `UniqueIdentity`, `PoolTokens`.** Nonces used once; identities
  per type; redeemed amounts that never exceed the principal.
* **Deployment and set-up.** Initializers copy addresses that earlier files must have
  registered; addresses are written once; a second run meets everything the first one
  left, with other code, the other script or the wrong signer; a proxy may keep its old implementation while the
  folder records the new one. Correct means: a run that ends leaves a system that is wired
  throughout, copies stay equal to what they were copied from, and undisturbed first runs end.
* **Upgrades.** Deployment, record, manifest and proposal are separate writes; proposals wait
  in a safe and are approved, rejected or executed late, between other runs and
  releases. Correct means: the folder never falls behind the chain; layouts are compared
  with the one that runs; nothing the owner does was not submitted, in that order and once.
* **Hand-over.** Each role is granted and revoked by separate transactions, which need the
  very role that is given away. Correct means: no role is without a holder wherever the
  script stops, it can always be taken up again, and when done nothing is left behind.
* **Go list.** Pages, repeated inquiries, retries, stale lookups and proposals executed late.
  Correct means: nobody is added who should not be, a run that ends missed nobody,
  and fetching ends.

## Modules

| Module | Models | Extends |
|---|---|---|
| `PrefixSums` | running totals as a recursive function | |
| `WithdrawQueue` | `WithdrawQueue.sol`, with `IndexPool.withdrawInRWA` and the conversions it uses | `PrefixSums` |
| `FixedPoint` | the fixed-point numbers used by loans (raw values) | |
| `Accountant` | `Accountant.sol`: accrual, allocation of a payment, lateness, writedown | `FixedPoint` |
| `CreditLine` | `CreditLine.sol`: its record, and drawdown and assess as functions on it | `Accountant` |
| `TranchingLogic` | `TranchingLogic.sol`: share prices and the waterfall | `FixedPoint`, `PrefixSums` |
| `JuniorPool` | `JuniorPool.sol` with its tokens, its credit line and `LoanManager.liquidate`'s call | `TranchingLogic`, `CreditLine` |
| `BaseDeploy` | the deploy files, `deployHelpers`, `ContractDeployer`, `updateConfigs` | |
| `SetUpForTesting` | `setUpForTesting.ts`, `deployJuniorPool.ts`, on top of a deployment | `BaseDeploy` |
| `OwnerEffects` | abstract: what the owner's transactions may be | |
| `DeployEffects` | `deployEffects.ts`, the proposals of `defenderUpgrader.ts`, the safe; its refinement mapping | instance of `OwnerEffects` |
| `Upgrades` | `upgrade.ts`, `ContractUpgrader.upgrade`, `changeImplementations`, the validation by OpenZeppelin | `DeployEffects` |
| `EnsurePerms` | `ensurePerms.ts` | |
| `GoList` | `personaGolist.ts`, `DefenderProposer.ts`, what the safe does with a proposal | |
| `MCWithdrawQueue`, `MCJuniorPool`, `MCSetUpForTesting`, `MCUpgrades`, `MCEnsurePerms`, `MCGoList` | instances for TLC | |
| `PrefixSumsProofs`, `WithdrawQueueProofs`, `QueueServiceProofs`, `JuniorPoolProofs`, `BaseDeployProofs`, `UpgradesProofs`, `EnsurePermsProofs`, `GoListProofs` | lemmas, theorems and their proofs | the modules they are about |

The names of definitions are those of the code wherever TLA+ allows it; a
definition whose comment begins with *Faulty variant* or *As if* is what a plausible mistake in that function
would look like, and breaks one of the properties.

## The withdrawal queue

**State.** `withdrawQueue`, `userWithdrawData`, `totalRegisteredAmount`,
`queueIndex`, `ceiling`, `verifyRequired` and the fee tiers are the storage of the
contract. `rwaOf`, `rwaHeld`, `usdcOf`, `usdcHeld`, `usdcReserve` are the token
balances it moves. `indexPool` and `veNAOS` are what it reads of other
contracts; they change in steps of their own, between any two of the queue's.
Positions in the queue are counted from one.

**Actions.** `Register`, `Update`, `Claim`, `WithdrawFromIndexPool`, `SetVerify`,
`SetCeiling`, `SetUserCeiling`, `AddFeeTier`, `SetFeeTier` are the external
functions. The first two and `WithdrawFromIndexPool` all end in
`_WithdrawFromIndexPool`, as in the code. The loop of that function is given in
closed form: an entry is served in full when the RWA in hand exceeds what waits
up to it, and the first entry for which that fails takes everything left. The
running totals of the loop are prefix sums.

**A vault that pays short.** The queue is handed what the pool measures: `IndexPool._withdraw`
returns the cash and what `Vault.withdraw` added to its balance (`IndexPool.sol:472-475`), which may be less than
was asked for (`IVaultAdapter.sol:19-21`). `WithdrawInRWA` has both outcomes: where the vault is
used, it may pay less by one of `Shortfalls`. The RWA is burnt in full all the same. The loop pays the entries
served in full at the share price and the last one what is left; when not even the former are covered, the
subtraction of `WithdrawQueue.sol:266` reverts the whole call, and the model's action is not enabled.

**Bounds.** One RWA has four base units and one USDC two, so all conversions
round as 10^18 and 10^6 do, at numbers TLC can enumerate. Two users and up to
three entries are enough for: a user with an entry ahead of and behind another's,
a cancelled entry between waiting ones, an entry served in parts, a full queue.
The pool states cover no cash, cash for a part, cash split with the vault, a
price below and above one, and a pause; the vault pays in full or one base unit of USDC short (two in `queue_live`),
which is enough for a last entry below its price and for a call that reverts.

**Fairness** (`FairSpec`). The contract acts only when called. Anyone may call
`withdrawFromIndexPool`; `SF` says somebody keeps calling it when it is possible
again and again; a call that a short payment makes revert does not count as possible, so this presupposes
that the vault does not pay that short for ever. `WF` on a refilled pool says deposits and redemptions of loans
bring cash in the end and pauses end. Neither is asked of registered users or
of the admin, so the liveness property does not rest on people cancelling.

## The junior pool

**State.** `poolSlices`, `totalDeployed`, `liquidated`, `fundableAt`,
`drawdownsPaused`, `paused` are the storage of the pool; `creditLine` is the
record of its credit line, which no one but the pool can change; `tokens` are the
deposits in `PoolTokens`; `usdc` and `creditLineUsdc` the two balances; `time` the
block's timestamp. The reserve's share of interest leaves the model.

**Actions.** One per external function: `Deposit`, `Withdraw`, `WithdrawMax`,
`LockJuniorCapital`, `LockPool`, `Drawdown`, `SetFundableAt`,
`InitializeNextSlice`, `Assess`, `Pay`, `Liquidate`, `MigrateCreditLine`,
`SetLimit`, `SetMaxLimit`, `SetDrawdownsPaused`, `SetPaused`, and `Tick` for time.
`settle` is `_assess`: the credit line takes the USDC it holds, the interest accrued
is split over the slices, and what was paid runs through the waterfall. The checked
arithmetic of the functions it calls is collected in `accepted`. `Liquidate` is the
part of `LoanManager.liquidate` that touches the pool: an assessment with the status
`Starting`, allowed when a position of the index pool is late enough to be written down.

**Numbers.** A day is one second and a year four days; an annual rate of 100% is
4 and the fixed-point scale is 100, 120 or 1000 (100 does not divide by the deposits, so share prices
round; 120 does for most, so violations found under it are not due to rounding). Loans
run for two to four days in periods of one to three, to the end of the term and
beyond it, so every branch of accrual, lateness and the term's end is taken, as is
a second loan on the same line. Deposits of 2 to 8 USDC and drawdowns of all or a part
give slices of unequal seniority and usage. In `pool`, amounts are ten times as large (30, 40, 50, 20), so
that `JuniorBehindSenior`, which allows three units for rounding, bounds them by far.

**Bounds.** `MaxTime`, `MaxTokens`, `MaxSlices`, `MaxCreditLineUsdc` (USDC
waiting in the credit line) and `MaxPrincipalOwed` stop the counters. Each run
opens some of the dimensions and closes others, since a single run with two slices,
migrations, pauses and withdrawals at once is out of TLC's reach: withdrawals before and after the lock are in
`pool`, two slices and an admin who changes the limits in `pool_slices`, migrations, pauses and a liquidation in `pool_admin`.

**Migrations.** `migrateCreditLine` takes any terms and keeps the times of the old ones (`JuniorPool.sol:392-433`).
`pool_admin` migrates among five terms with periods of 1, 2 and 3 days, one of them longer than its term, between any
two steps. What such a migration does to the times of the loan is below; `TimesInOrder` says what they are without one.

**Tolerances and conditions in the properties.**
`JuniorBehindSenior` speaks of a pool with one slice, and allows what is `lostInRounding`: three
base units of USDC (two conversions between USDC and a share price, and the prices a payment
aims at), and more only of amounts (deposits, and principal owed, which `MaxPrincipalOwed` bounds) that exceed the
steps of a share price, as with a stable coin of 18 decimals;
in the run it is 3. `PaymentsAreAccepted` speaks of one slice too: what both say is not so with
several (below). It speaks of loans whose times are in order (`TimesInOrder`), which
only a migration to another payment period, or to a term shorter than the period, can change
(`OnlyNewTermsDisorderTimes`, an action property about all steps). It also leaves out three states in which the code does refuse a payment: a pause, a locked slice without any
deposit (`scaleByFraction` divides by the slice's deposits, `TranchingLogic.sol:124`; the comment at `JuniorPool.sol:718-720` knows of it),
and principal that falls due a second time: `calculatePrincipalAccrued` tests
`interestAccruedAsOf`, which only moves when interest accrued
(`Accountant.sol:58-61`, `CreditLine.sol:311`), so that a loan without interest
is charged its whole balance at every assessment after the term.

## Deployment and set-up

**A script is data.** Each deploy file is a sequence of operations (`deployConfig`,
`deployRWA`, ...), the scripts `baseDeploy` and `baseDeploy18` concatenate the files in
the order of the code, and `updateConfigs` is a third script. `op` is the operation the run
is at; there is one action for each kind of operation. An awaited call
that cannot succeed ends the run (`Abort`), and `Accepted` collects when the chain accepts
what an operation sends.

**State.** `deployment` is the deployments folder: the bytecode an artifact was deployed
with. Bytecode is the version of the source, the linked library and, for the stable coin,
its decimals, so a library that changes redeploys what links it, as hardhat-deploy does.
`implementation`, `configOf`, `initArgs`, `initialized` are what proxies and
contracts hold; `numbers`, `addresses`, `goList` the storage of the NAOSConfig last
deployed. `AddressOf` tells addresses apart: a proxy keeps its address, anything else has one per
bytecode. `DeployProxy` has both outcomes of an upgrade of a proxy: done by the owner, or
swallowed because the signer is not known (`contractDeployer.ts`), with the folder ahead of the proxy. The proofs
show that the deploy scripts never come to the second (`ImplementationsRecorded`): another signer has
already failed at the config (`setTreasuryReserve`, `setJuniorPoolImplementation`), which only its admin may write.

**Operator and environment.** `Start` picks any script and either signer, `Interrupt` stops a run
anywhere, `Release` changes the code of the artifacts of one member of `Releases` between two runs.
`SetUpForTesting` adds the two set-up scripts, run on a local chain after a deployment
that ended, again one call per step; what the contracts ask of the calls is in
`CallAccepted`, as far as earlier calls can provide it. `OtherBlock` is another client of the node.

**Bounds.** Two chains (a local one whose deployer is not the owner; one with a known
NAOS token whose deployer is), two deployment runs, one release out of four, one interruption,
two set-ups, one foreign block. Two runs and a release between them are what it takes to meet every
leftover: fresh and reused contracts, an aborted run of either script followed by the other, a
config deployed anew beside proxies that know the old one, strategies that can and cannot be initialized again.

**Fairness** (`FairSetUpSpec`): weak fairness of the steps of a script that was started. A
process that is not killed goes on; interruptions are exempted by the properties themselves.

## Upgrades

**State.** `source` is the working copy, `implementation` and `record` the two files of the
deployments folder for a contract, `manifest` what `.openzeppelin/*.json` knows. The memory of the script is
`tool`, `step`, `todo`, `at`, `upgraded`, `currentImplementation` and `deferredEffects`.
`contended` and `earlier` remember what a run found at its start: the contracts it took up with a proposal
about them pending, and the number of submissions there were. The scripts keep neither; the properties use them.
`submissions` are the proposals at Defender with the approvals of the safe (or what is being
sent one by one where the owner is a local account), and `carriedOut` the owner's
transactions on the chain, from which the implementation of a proxy is read.
A version stands for its bytecode and its storage layout.

**Actions.** Those of `ContractUpgrader.upgrade` in their order (`deploy`,
`openzeppelin_assertIsValidUpgrade`, `rewriteUpgradedDeployment`,
`openzeppelin_saveDeploymentManifest`), then `changeImplementations` and
`ExecuteDeferred`; those of `upgrade.ts` (`deployContractUpgrade`, `exportDeployment`,
`ProposeChange`); the safe's `Approve`, `execTransaction`, `Reject`; the operator's `Start`,
`Interrupt`, `Release`, `writeManifest`. The order in which contracts are upgraded is left
open. `MainnetForkingMultisendEffects` is constructed nowhere; its approval and execution by the
safe's owners are the source of the safe's actions.

**The abstract specification.** `OwnerEffects` says what a team relies on: effects are collected,
submitted together, carried out in their order and at most once per submission; a
multisig carries a submission out as a whole or not at all and does nothing else. The
refinement mapping (`OE` in `DeployEffects`) reads `outstanding` off the submissions: those that are
pending or being sent keep their transactions, the others have none left.

**Bounds.** Two contracts, three versions of which the third can follow the second but not the
first, a safe of two owners who both must approve, two runs, two submissions, one
interruption. Two runs are what it takes for a rerun of a stopped run, a proposal from an earlier release
executed after a later one, and a mix of the tools. No fairness is assumed: what the safe does is up to
its owners. `Start` may come at any time, whether proposals are pending or not, since no script
looks (`deployEffects.ts:31-33` says that a submitted batch is not necessarily mined). The two contracts are alike, as are the owners, so TLC
checks them up to symmetry.

## The hand-over

**State.** `hasRole`, `owner` and `config` are roles, proxy owners and the two config entries on the
chain; `index` and `pc` the script's place, which it forgets when it stops. The script is again
data: `ensurePermsOnContract` gives the transactions for one contract.

**Actions.** `SetProtocolAdmin`, `SetTreasuryReserve`, `TransferOwnership`, `GrantRole`,
`RevokeRole`, each a transaction that is skipped when its effect is already there; `Abort`,
`Interrupt`, and `Start`, which begins at the first contract.

**Bounds and fairness.** The three contracts the script has as its default (a config, a
contract with two roles, one with three; their names are those of the project this one
was forked from), every state the hand-over may start from, a deployments folder with all of them
or without one (the script then aborts there whenever it is started, and completion is not promised), two interruptions, hence up to three runs. The protocol owner is one
of three accounts, the safe among them, as `hardhat.config.ts:23` has it for goerli: there the script ends with nobody in the
roles it hands over, which the properties say (see the disagreements). `FairSpec`: a
run that was started goes on, and the operator starts it again when it stopped. The proofs are
for any list of contracts and any accounts.

## The go list

**State.** `events` is what Persona holds, `paginationToken`, `allAccounts`, `checked`,
`retries`, `golisted`, `proposed` the memory of a run; `proposals` wait for the safe; `goList` is
the config's. A page is worked through at once (`processEvent` for each event, with the `continue` that
skips the assignment of the token).

**Actions.** `fetchAllAccounts`, `UnknownCountry`, `ReadGoList`, `proposeBulkAddToGoList`; the
failures `FetchFails`, `retry`, `ProposalFails`; the operator's `Start`; the safe's `bulkAddToGoList`
and `DropProposal`; the owner's `removeFromGoList`.

**Bounds and fairness.** All lists of up to four inquiries out of six kinds (two accounts, approved
or not, country known from either of two fields or from none, no account), in pages of two: two full pages
reach every case of an account repeated within a page, across pages, and filling a page. Two runs
and one removal are enough for a stale lookup. `FairSpec`: a script that was started runs on; no request has to fail.

## What the runs check

| Run | Question | Passes |
|---|---|---|
| `queue` | custody, payouts, order, price and absence of reverts by rounding under interleaved registrations, cancellations and partial service, also where the vault pays short | yes |
| `queue_fees` | fee tiers stay ordered under any rewriting; a claim leaves exactly its tier's fee, no more and no less | yes |
| `queue_live` | every entry is served or taken back, under `FairSpec` | yes |
| `queue_listing` | one waiting entry per user | violated |
| `pool` | one slice through a loan and a second one, with amounts far above the tolerance for rounding: funding, books, seniority, cap on senior interest, acceptance of payments, frozen locks, with rounding | yes |
| `pool_slices` | funding, books and cap on senior interest over two slices drawn down at different times and to different parts, with changing limits | yes |
| `pool_admin` | migrations among terms of any order of periods, pauses and a liquidation between any two steps: only new periods or terms disorder times, payments are accepted while they are in order, paid-up is not late, interest charged once | yes |
| `pool_early_withdrawal` | the tokens of a tranche share no more interest than it received | violated |
| `deploy` | runs that are interrupted, revert, are repeated by either signer over changed code, and set-ups on what they leave: a run that ends left a wired system, copied addresses stay registered, the first deployment and undisturbed set-ups end | yes |
| `upgrades` | both upgrade tools, releases and the safe in any order: folder ahead of the chain, compatible layouts of contracts that were not taken up with a proposal pending, finished jobs, refinement of `OwnerEffects` | yes |
| `ensure_perms` | a hand-over that stops anywhere, to another account or to the protocol owner itself: where roles stay held, what done means, completion | yes |
| `golist` | fetching, retries, stale lookups, late execution: only eligible accounts, nobody missed, fetching ends exactly when it should | yes |

Deadlock is checked in the runs of the contracts: there is no state in which no call is
possible. Scripts end, and the bounds on runs stop the operator, so `deploy`, `upgrades`, `ensure_perms` and
`golist` do not check it; that they get to their ends is what `FirstDeployCompletes`,
`SetUpCompletes`, `RunsFinishTheJob`, `HandOverCompletes`, `FetchingEnds` and `DoneCoversEveryAccount` are about.

## What is proved

`PrefixSumsProofs` proves what the running totals need: the recursive definition
has one solution and it is a natural (`PrefixSumDef`); sums of lists that add up pointwise
add up (`PrefixSumAdd`); zeros at the end add nothing (`PrefixSumZeroTail`);
sums grow (`PrefixSumMonotone`) and no summand exceeds them (`SummandWithinSum`);
lists that agree up to n have the same sum (`PrefixSumAgree`); the sum of a list can be taken
owner by owner (`SumByOwner`). It also has what is needed of quotients: `IsFloor` says what a
division that rounds down returns without a division, two of them are one
(`FloorOfFloor`), a fraction can be reduced (`FloorReduced`), and a sum of roundings is at most the
rounding of the sum (`ScaledSums`). The library's induction theorems take an
operator as a parameter, which the installed provers cannot instantiate, so
induction is done with sets: `SetInduction` follows from the least element of a set of naturals.

`WithdrawQueueProofs` proves, for any number of users, amounts, prices, fee tiers
and pool states allowed by the assumptions in `WithdrawQueue`:

* `TypeCorrect`: no subtraction of the contract goes below zero, `queueIndex` stays
  within the queue.
* `RegisteredAlwaysConserved`: the entries' remaining amounts add up to
  `totalRegisteredAmount`, which is the RWA in custody.
* `PassedAlwaysDrained`: nothing waits behind `queueIndex`.
* `ListingAlwaysOwnLiveEntry`: a listed user's index leads to its own waiting entry.

None of them is inductive alone: `rwaHeld - amount` is a natural only because
custody equals the sum and an entry is part of it, and the listing holds only because
nothing that waits is passed. `Inv` is their conjunction with
bounded fees (a claim's fee is then at most the claim) and `remainingAmount <=
registeredAmount`; the queue's part of it is written as `QueueReady(queue, users, total, held)` over the values that
`_WithdrawFromIndexPool` receives: `register` and `update` change the queue first
and hand the changed values to the same function, so the proof has one lemma for each caller
(`RegisterKeepsReady`, `UpdateKeepsReady`: it establishes `QueueReady` of what it
passes) and one that says the loop keeps it (`ServeKeepsReady`). The latter rests on where the loop stops (`LastServed`):
everything before is drained, one entry is reduced by the rest, nothing after is touched,
so the total falls by exactly the RWA in hand (`TakenIsConserved`), and a user loses its
flag when an entry of its own is passed. The induction step has one
case per action.

`QueueServiceProofs` also proves the accounts of the queue: `ClaimsAlwaysFunded`
(`ClaimsAreFunded`) and `PayoutsAlwaysAccounted` (`PayoutsAreAccounted`). The loop pays
entries while the records are kept per user, so the same payments are added up in
both orders: `SumByOwner` says that the sum of a list can be taken owner by owner. One
invariant, `AccountsInv`, holds both statements on top of `Inv`; each operation has a
lemma (`RegisterKeepsAccounts`, `UpdateKeepsAccounts`, `ClaimKeepsAccounts`), and
`TailKeepsAccounts` is for the service that ends the first two: what the entries gain
is what the users may claim in addition, and both are the USDC received (`ServePaysEntries`, `ServePaysUsers`).

and how it serves:

* `FullPaymentDistributes` (`FullPaymentIsDistributed`) and `AlwaysPaidAtSharePrice`. The contracts convert RWA to
  USDC by three formulas that divide at different places. One mantissa divides the
  other, therefore all three are the same fraction of the amount, rounded down once
  (`IsWorth`; `DistributedIsWorth`, `WithdrawnIsWorth`). A sum of such roundings is at
  most the rounding of the sum (`ScaledSums`), so the USDC asked for, if it is paid in full, covers each entry that is
  passed, and the last one gets what is left: its worth, and less than one
  base unit of rounding for each entry before it. Where the vault pays short and the call goes through,
  the entries passed get their worth all the same, and the last one at least its worth less the missing amount (`PaidShort`).
* `AlwaysServedInOrder`, from `TakenInOrder`: the loop reaches an entry only after it has taken
  all of those before it. `StepHandsOver` reduces both properties of a step to the
  values that were handed to the loop, whichever function called it.
* `FeesAlwaysFall` and `ClaimsAlwaysPayTierFee`. The latter bounds the fee of a claim from both sides. `FeesFallWithStake` needs that both the
  stakes and the fees of the tiers are ordered (`TiersOrdered`), which every addition and
  every rewrite of a tier keeps because of the comparisons with its neighbours.

With these modules every safety property of the queue is proved for all
values of the constants; its liveness is model-checked.

`JuniorPoolProofs` proves `LockedTranchesStayFrozen`, the action property
`LockedTranchesAreFrozen`, for any terms, amounts and number of slices. Its invariant
`SlicesShape` says only that the slices form a nonempty sequence of records with the
fields of the code: that is what every update of a slice relies on, and it makes
the proof independent of the arithmetic of share prices. The waterfall is
followed function by function (`ApplyByAmountKeeps`, `SeniorKeeps`, `JuniorKeeps`,
`AllSeniorsKeep`, `AllJuniorsKeep`, `WaterfallKeeps`, `SettleKeeps`): each changes share
prices and accrued interest only. `NextKeeps` has one case per action; deposits,
withdrawals and locks keep the property because of their guards.

The module then proves what the numbers of the pool say, for any terms, scaling factor, fees,
amounts and times:

* `TypeCorrect` (`TypeOK`): no book goes below zero.
* `SharePricesStayFunded` (`SharePricesAreFunded`), `DeployedStaysTheLoan`
  (`DeployedIsTheLoan`) and `SeniorInterestStaysCapped` (`SeniorInterestIsCapped`).
* `PaidUpIsNeverLate` (`PaidUpIsNotLate`).
* `LoanIsChargedOnce` (`InterestIsChargedOnce`): while there is a balance, `interestAccruedAsOf` never goes back,
  for any terms and any migrations. It may then be ahead of the block's time, and waits there.
* `OnlyMigrationsDisorderTimes` (`OnlyNewTermsDisorderTimes`), and `TimesAreKeptInOrder`: in a behaviour all of whose steps keep the
  payment period, and keep it within the term (`KeepsPeriod`), the times are always in order. The two theorems say what
  the premise `TimesInOrder` of `PaymentsAreAccepted` costs.

The invariant is `PoolInv`, a conjunction of the three books with what makes them inductive. A
withdrawal before the lock takes deposits back at par, which is what they are worth only
because share prices do not move until the tranche is locked (`Untouched`). Payments share money over
all slices, and so find them all locked: the slices before the last are (`SlicesInOrder`), and a
loan needs the last one to be. Repaid principal is subtracted slice by slice without going below zero because
the slices' deployed principal adds up to the divisor of their parts (`LoanBooks`,
`SharesAre`). The tokens' slices exist (`TokensInSlices`). On the instances of `pool`,
`pool_slices` and `pool_admin`, TLC also finds `PoolInv` kept, and `PrincipalKept` where there is one slice.

The argument goes from the bottom up. `WorthRises` says that a share price that rises by what an amount buys
promises at most that much more, after both roundings; `ScaleByFractionIs` and
`ExpectedSharePriceIs` bound the doubly rounded fractions from above. So one tranche is never given more than
what is missing of the money (`ApplyByAmountIs`, `ApplyBySharePriceIs`), nor a slice (`SeniorIsGiven`,
`JuniorIsGiven`), nor all of them (`GatheredIsShared`, `WaterfallShares`): what share prices promise and the
reserve's part grow by at most the payment. `NetInterestIsCapped` is the cap of one payment, which applies to
all of them because `applyBySharePrice` raises a price to a desired one and not by it. For the credit
line, `AssessIs` says what an assessment reports, in all branches. There is then one lemma per
action (`DepositInv`, `WithdrawInv`, `LockJuniorInv`, `LockPoolInv`, `DrawdownInv`, `NextSliceInv`,
`AssessmentInv`, `AdminInv` ...), which `NextInv` puts together.

Two theorems are about a pool with one slice, of which `OneSliceSteps` says what every action does to it:

* `PaymentsStayAccepted` (`PaymentsAreAccepted`): no checked subtraction, division or missing balance
  is in the way of a payment or an assessment. Subtractions of times succeed because the times are in order, the premise
  of the property: the last full payment, the next due time and the end of the term keep their distances
  through assessments that skip periods, whenever they come. The theorem assumes nothing of the terms, which
  `initialize` checks for the first loan (`JuniorPool.sol:97`) and `migrateCreditLine` for none. Subtractions of
  principal succeed because of `PrincipalKept`: what the share prices say is in the slice and what was drawn
  down make up the deposits at most, and no share price of principal exceeds the initial one unless principal
  fell due twice. That part is inductive only with the balance and the principal owed (`SliceKept`): a payment
  gives more than principal to the tranches only when it pays the loan off (`OwedWithin`, `AssessOwes`).
* `SeniorsStayFirst` (`JuniorBehindSenior`), from no assumption on the terms. The property is about amounts, and its
  invariant `SeniorAhead` about share prices: they are the same until the slice is locked, and afterwards
  the junior price is ahead by `priceGap` at most. A drawdown sets both to what they should be, which is about the same (`ExpectedPricesAreClose`),
  and a payment raises the junior one only after the senior one is where it should be (`WaterfallOfOne`,
  `PrincipalPoured`). The gap does not add up over a loan because prices are raised to what they should
  be, which is computed afresh from the slice, and not by an amount.

`EnsurePermsProofs` proves, for any list of contracts, any deployments and any number of
interruptions, `RolesStayHeld` (`EveryRoleIsHeld`) and `HandOverIsComplete` (`DoneIsHandedOver`).
Neither is inductive: that a revocation leaves a holder rests on the grant before it, and that
grant may have been made, or skipped, in this run only. `PermsInv` therefore says that each
transaction of the current run before `pc` has its effect (`RunSoFar`), on all contracts when
the run is done (`RunToTheEnd`). `PlanShape` gives the order of grants and revocations for every contract,
and `StaysAccomplished` is the key step: no transaction of the script takes an earlier effect back.
Where the protocol owner is another account than the safe, this is so because roles only move from the one to the other.
Where it is the safe, a grant has nothing to achieve in the long run (`Accomplished`), and what must be excluded is that a
rerun grants again what a run has revoked (`Regranted`): the owner role, without which nothing can be granted, is revoked last, so
that a contract on which it is gone has nothing left to grant. A name that
is listed twice is covered: its second turn finds everything done, or cannot do it.

`UpgradesProofs` proves `UpgradesImplementOwnerEffects`: every behaviour of `Upgrades` is
one of `OwnerEffects`, for any contracts, versions, compatibility, safe, and number of runs. There is one
lemma per operation of `DeployEffects` (`ForgetStep`, `CollectStep`, `SubmitStep`, `SendStep`,
`DirectStep`, `ApproveStep`, `ExecTransactionStep`, `RejectStep`) that says which abstract step it is,
and one (`NoEffectStep`) for the steps of the scripts that do not touch effects. The invariant
`UpgradesInv` types the effects, so that their sequences can be
compared, and says that what is being sent one by one is never a multisig's (`SentOneByOne`), without which
`SendStep` would be a step the abstraction forbids. It also proves `RecordAlwaysLeads`
(`RecordLeadsChain`). A version of a contract moves from the working copy to the
implementation file, from there to the record of the deployments folder, and from the
record to a proposal or to the chain. `RecordInv` says that none of these is ahead of the
one it comes from and that every contract in the script's list of upgraded contracts is
recorded, wherever a run was stopped.

The module also proves `ExecutedUpgradesFit` (`ExecutedUpgradesAreCompatible`) and
`RunsFinish` (`RunsFinishTheJob`), with no assumption on when runs start or what the signers do.
An upgrade is compared with what the folder says the proxy runs, and executed later, when the safe decides.
`RunsInv` therefore says, place by place of a run, what may wait at the safe about the contracts it took up and that
were not contended: nothing while `upgradeContracts` compares and records them;
one proposal of this run once it has been made; during `upgrade.ts` only proposals of the same run, about contracts
that are done, with their new implementations. Proposals of earlier runs about other contracts may be there, and be executed, at any
time: `About` and `Alone` keep them apart from those of this run. It also says that the proxies of an account's
contracts run what the folder says. The part of it about executed upgrades speaks of the history, and
the lemmas named `...Before` carry it over a step.

`GoListProofs` proves, for any accounts, inquiries, page size and number of runs, `OnlyEligible`
(`OnlyEligibleAreProposed`), `NobodyIsMissed` (`DoneCoversEveryAccount`) and `PagesAdvanced`. What the script keeps are
the first approved inquiries of their accounts (`Firsts`), and it has kept one for every
account up to the pagination token (`KeptUpTo`), although the token lags behind what was worked
through. `TurnWorks` says that one turn of the loop over a page keeps both, `PageWorks` repeats it
for the page. `PagesAdvanced` states what this means when fetching has ended: each account with an approved inquiry is kept with its first
one (`AllAreKept`). It adds, from `Advanced`, that each page that was left had an inquiry that is not repeated:
fetching ends only if all of them have one (`FetchedAllPages`), which is the safety half of `FetchingEnds`.

`BaseDeployProofs` proves `DeploymentIsWired` (`DeployedSystemIsWired`) and `CopiesStayRegistered`
(`CopiedAddressesStayRegistered`), for any chains, releases, signers, interruptions and numbers of runs, with the
set-up scripts in between and (`DeploymentAlone`) without them. What an operation achieves lasts to the end
of its run (`RunSoFar`), because a script deploys a contract before it uses it (`Orderly`):
a second deployment of the same contract finds its bytecode and changes nothing.
`Orderly` is a property of the scripts, which are data; there is one lemma per deploy file
and one for their concatenation (`OrderlyConcat`). Across runs, the versions of the NAOSConfig only
grow (`ConfigIsVersioned`, `ConfigsAreOlder`), so a proxy that copied addresses from an earlier
config is never mistaken for one of the present config (`CopiesHold`); and
`ReserveTellsInitialized` is what lets `deployConfig` conclude from the reserve that the config is
initialized.

With these, every safety property that a passing run checks is stated by a theorem. Only model-checked: liveness
(`EveryEntryIsServed`, `FirstDeployCompletes`, `SetUpCompletes`, `HandOverCompletes`, `FetchingEnds`), which is
out of the prover's reach.
Assumptions: those named `...Assumption` in the modules, which TLC evaluates for the
checked instances.

## Where the code and its comments disagree

Two are runs that TLC ends with a counterexample, and findings with the lines they
are about.

1. `queue_listing`: the loop clears the listing flag of the owner of every entry it
   passes, a cancelled one too. The owner's newer entry then waits unlisted, cannot
   be taken back, and a second registration is accepted beside it.
2. `pool_early_withdrawal`: a withdrawal before the lock lowers the tranche's
   deposits but not the token's `principalAmount`, on which interest is paid.

Four more are stated as properties of the contracts' modules that do not hold; no run
checks them.

3. `QueueWithinMaxSize`: the size is compared before the push, so one entry more than
   `MAX_QUEUE_SIZE` waits.
4. `UnusedCapitalIsAvailable`: a drawdown after the drawdown period counts capital that was
   redeemed already.
5. `InterestIsSplit`: interest that accrues in a drawdown of a running loan is
   split over no slice.
6. `AssessedAtDueTime`: before the end of a term that is no multiple of the period (three
   days in periods of two), loans are assessed for a time between two due times.

Seen while proving, and the reason why `JuniorBehindSenior` and `PaymentsAreAccepted` are about one slice.
TLC comes to both with two slices:

* What a senior tranche leaves of principal is shared over the junior tranches of all slices
  (`applyToAllJuniorTranches`) although a senior tranche of another slice may not have its due yet.
  `JuniorPool.test.ts:2375` is titled "distributes the payment across all senior tranches first before junior".
* Slices share a payment in parts that are rounded, so one may get more principal than it is owed, and a
  later drawdown take more from it than its deposits (3 of 2 in the example). From then on,
  `totalDeposited.sub(principalDeployed)` (`TranchingLogic.sol:113`) makes every payment revert.

Seen while modelling the contracts, without a property: the three states under which
`PaymentsAreAccepted` makes no promise (above); a payment's extra part that
`CreditLine.sol:263-264` says stays in the credit line is given to the junior tranches
(`JuniorPool.sol:747`, expected so by `JuniorPool.test.ts:1924`).

Migrations (`migrateCreditLine` checks no terms against the times it keeps, and no comment says that it did):

* To a shorter period: the next due time is more than a period ahead, an assessment charges interest up to the due time
  before it, which may be ahead of the block, and `lastFullPaymentTime` may be set ahead as well. The next assessment and payment
  revert until the block's time has caught up.
* To a longer period near the end of the term: the time an assessment is for falls before the last full payment, and the subtraction
  reverts.
* To a term shorter than the period, which `initialize` refuses: the first due time is after the end of the term.

A vault that pays short (`IVaultAdapter.sol:19-21` allows it). `WithdrawQueue.sol` treats the amount it is handed as
the worth of the RWA it burnt: the missing USDC is missed by the last entry of the call alone, whose RWA is
burnt in full, and if it is more than that entry's part the call reverts (`WithdrawQueue.sol:266`), the keeper's as well as a `register` or `update`.

Seen while modelling the scripts. The models do what the code does, and the properties
are stated so that they hold:

* `personaGolist.ts:72`: `continue` skips the assignment of the pagination token, so a page
  of repeated inquiries only (a last page with a single one is enough) is fetched
  forever. `FetchingEnds` says exactly when.
* `personaGolist.ts`: an account with no country at all ends the run (`UnknownCountry`), although the comment
  at line 145 says it is skipped.
* `updateConfigs.ts:41`: the key it asks `protocol_config.json` for does not exist, so that it aborts
  after three keys; its ends are not reached in the model.
* `deployFixedLeverageRatioStrategy.ts:20-24` admits that a rerun over an unchanged
  strategy calls `initialize` again; in the model such a rerun aborts there, after it may have
  redeployed or upgraded what comes before. `DeployedSystemIsWired` is about the runs that end.
* `deployConfig.ts` takes a NAOSConfig without a TreasuryReserve for a new one, so a run that stopped
  between `initialize` and the end of `setInitialConfigVals` cannot be repeated.
* `deployHelpers/index.ts`: `TotalFundsLimit` is written before the run of the script for the other
  decimals aborts at the registered stable coin; and `setUpForTesting.ts:188` writes it in units of six decimals
  over a deployment with eighteen.
* `setUpForTesting.ts:234`: `getLogs` reads the latest block only; a block of anybody else ends the
  set-up (`SetUpCompletes` exempts it).
* `contractDeployer.ts`: where the owner is a local account, `deployer.deploy` changes the
  proxy before OpenZeppelin compares the layouts, so `ExecutedUpgradesAreCompatible` speaks of safes only.
* `upgrade.ts` neither validates layouts nor saves the manifest; `ExecutedUpgradesAreCompatible` speaks of
  the other tool.
* A contract that is taken up while a proposal about it is pending: the folder already records what is proposed, or
  the safe executes it later than the next one, and the pair of layouts that takes effect was never compared. No script looks at
  what is pending. `ExecutedUpgradesAreCompatible` leaves such contracts out (`contended`); without that it is violated within the bounds of the run
  (the second version pending from one tool, the third proposed by the other, and executed in the opposite order).
  `RunsFinishTheJob` leaves them out for `upgrade.ts` only, where it takes three runs to matter.
* `executeDeferred` does not empty the collection (a second call would submit everything again), and
  `baseDeploy.ts:77` has its call commented out.
* `hardhat.config.ts:23` gives goerli the safe's own address as `protocol_owner`: `ensurePerms` there revokes the
  roles it has just granted and ends with nobody in them. A run that stopped after it revoked the owner role of a contract cannot be
  completed. `EveryRoleIsHeld`, `DoneIsHandedOver` and `HandOverCompletes` say so.
* `ensurePerms.ts` hands over minter roles for a contract named `Fidu` only, and nothing for
  `GO_LISTER_ROLE`: the minter role of RWA and the go-lister role stay where they are.

## What is not modelled

* Roles, the go-list and proxies in the contracts' models: every caller is allowed to do what
  it does. They decide who may call, not what a call does. The scripts' models have them.
* Reserve address, events, gas, token implementations.
* `JuniorPool.withdrawMultiple` (a sequence of `withdraw`), `updateNAOSConfig`,
  `setAllowedUIDTypes`; the call to `JuniorRewards` at the end of a payment.
* `uint256` overflow: amounts of USDC and RWA are far from 2^256, and SafeMath reverts.
* `IndexPool`, `LoanManager`, `JuniorRewards`, `IndexStakingPool`, the strategies,
  `Verified` and `UniqueIdentity` as components of their own: see the plan.
* Interfaces, mocks, vendored contracts.
* hardhat, hardhat-deploy, the OpenZeppelin plugin, Defender, the safe and Persona: modelled as far as
  the scripts use them, from how they use them.
* Of the modelled scripts: `createFullPool` and `writePoolMetadata`, which nobody calls; the empty pools,
  balances and allowances of the set-up; the proposals of `defenderUpgrader.ts` other than
  those of an implementation; `performPostUpgradeMigration` and what `mainnetForkingHelpers.ts` does for forks,
  which name contracts this repository does not have.
* Other scripts: `redeem.ts`, `tranchedPoolAdmin.ts`, `propose-config.ts`, `createBorrowerContract.ts`, the deploy
  files that no script calls (rewards, borrower and Merkle distributors) and others use
  contracts, deployments or packages that are not in the repository and could not run; `sendMoney.ts`,
  `cancelTransaction.ts`, `advanceTime.ts`, `getCreditLines.ts`, `pullBackerData.ts`,
  `decodeMultisend.ts`, `rewriteAbi.ts` and the like only read, print or send one transaction.

## Plan

In this order, the most important behaviour first:

1. *(done)* `WithdrawQueue` with its proofs; `TranchingLogic`, `Accountant`,
   `CreditLine`, `JuniorPool`.
2. *(done)* The scripts: `BaseDeploy` and `SetUpForTesting`, `Upgrades` with the refinement of
   `OwnerEffects`, `EnsurePerms`, `GoList`, with proofs for all of them.
3. `IndexPool`: deposits, withdrawals, `invest`, `redeem`, `writedown`, vaults
   (`flush`, `recall`, `harvest`), share price; loans seen by what they return. An abstract
   specification, `ShareLedger` (a price, a supply, and assets that change only by
   known amounts), implemented by `IndexPool` under a refinement mapping. Properties: share price times
   supply against assets; no dilution by deposits and withdrawals; writedowns
   reversed exactly.
4. `LoanManager` composed with `IndexPool`: locked NFTs, liquidation, the price of
   tokens sold; properties over both books.
5. `JuniorRewards` and `IndexStakingPool`: accumulators against a reference
   definition that sums over time; claimable never exceeds allocated.
6. `PoolTokens` transfers and burn, `UniqueIdentity` and `Verified` in one small module.
7. An abstract queue (a sequence of users with amounts, served from its head),
   implemented by `WithdrawQueue`.

The theorem worth proving next is the index pool's refinement of `ShareLedger`.
Runs stay few: a new component brings one, and questions that share an
instance share a run.
