--------------------------- MODULE SetUpForTesting --------------------------
(* The scripts setUpForTesting.ts and deployJuniorPool.ts, which bring a      *)
(* fresh deployment on a local chain to life: they fund accounts, go-list     *)
(* them, and take a common pool through deposit, investment, drawdown,        *)
(* payment and redemption.  They are composed with the deployment, whose      *)
(* config and contracts they use and change.  One awaited call is a step.     *)
(* Abstracted: balances, allowances, interest, the empty pools; amounts    *)
(* are in units of 100 USDC.                                                  *)
EXTENDS BaseDeploy

CONSTANTS MaxSetUps, MaxOtherBlocks

ASSUME SetUpAssumption == {MaxSetUps, MaxOtherBlocks} \subseteq Nat

VARIABLES
  setUpStarted,       \* the script of the set-up
  setUpPc, setUpStatus, setUps,
  legacyGoList,       \* the config that Verified reads the go list of
  supportedUIDTypes,  \* the UniqueIdentity mints the id types
  commonPool,         \* the junior pool of the set-up
  indexPoolCash,
  lastBlock,          \* what the latest block holds: a deposit of the index pool
  otherBlocks         \* blocks that another client of the node caused

setUpVars == <<setUpStarted, setUpPc, setUpStatus, setUps, legacyGoList, supportedUIDTypes,
               commonPool, indexPoolCash, lastBlock, otherBlocks>>

----------------------------------------------------------------------------
(* What the scripts do.                                                       *)

Call(do, of, amount) == [do |-> do, of |-> of, amount |-> amount]
getDeployedAsEthersContract(name) == <<Call("get", name, 0)>>
getERC20s == getDeployedAsEthersContract("TestUSDC")
fundFromLocalWhale == <<Call("fund", "TestUSDC", 10000)>>
prepare ==
  getDeployedAsEthersContract("NAOSConfig") \o getDeployedAsEthersContract("NAOSFactory")
    \o getERC20s \o fundFromLocalWhale \o fundFromLocalWhale
supportUIDs ==
  getDeployedAsEthersContract("UniqueIdentity")
    \o <<Call("grantRole", "UniqueIdentity", 0), Call("setSupportedUIDTypes", "UniqueIdentity", 0)>>
useGoListOfConfig ==
  getDeployedAsEthersContract("IndexPool") \o getDeployedAsEthersContract("Verified")
    \o <<Call("setLegacyGoList", "Verified", 0)>>
updateNumbers ==
  <<Call("setNumber", "TotalFundsLimit", 100), Call("setNumber", "DrawdownPeriodInSeconds", 300)>>
addUsersToGoList == <<Call("bulkAddToGoList", "Owner", 0)>>
createPoolForBorrower(pool) ==
  <<Call("createPool", pool, 100)>> \o getDeployedAsEthersContract("JuniorPool")
fundAddressAndDepositToCommonPool ==
  <<Call("depositIndexPool", "Owner", 500), Call("depositJunior", "Owner", 100)>>
investInCommonPool ==
  <<Call("lockJuniorCapital", "common", 0), Call("invest", "IndexPool", 0),
    Call("getLogs", "common", 0), Call("lockPool", "common", 0)>>
\* As if the pool were locked before the index pool invests.
investInLockedPool ==
  <<Call("lockJuniorCapital", "common", 0), Call("lockPool", "common", 0),
    Call("invest", "IndexPool", 0), Call("getLogs", "common", 0)>>
advanceTime == <<Call("advanceTime", "chain", 32)>>
pay == <<Call("pay", "common", 1)>>

\* As the script would be with that order.
setUpForTestingLockedFirst ==
  prepare \o supportUIDs \o useGoListOfConfig \o updateNumbers
    \o addUsersToGoList \o addUsersToGoList
    \o createPoolForBorrower("common") \o createPoolForBorrower("empty")
    \o fundAddressAndDepositToCommonPool \o investInLockedPool
    \o getDeployedAsEthersContract("CreditLine") \o <<Call("drawdown", "common", 0)>>
    \o advanceTime \o pay \o advanceTime \o pay \o <<Call("redeem", "IndexPool", 0)>>
setUpForTesting ==
  prepare \o supportUIDs \o useGoListOfConfig \o updateNumbers
    \o addUsersToGoList \o addUsersToGoList
    \o createPoolForBorrower("common") \o createPoolForBorrower("empty")
    \o fundAddressAndDepositToCommonPool \o investInCommonPool
    \o getDeployedAsEthersContract("CreditLine") \o <<Call("drawdown", "common", 0)>>
    \o advanceTime \o pay \o advanceTime \o pay \o <<Call("redeem", "IndexPool", 0)>>
createTestPool == prepare \o createPoolForBorrower("test")

setUpScript == IF setUpStarted = "setUpForTesting" THEN setUpForTesting ELSE createTestPool
call == setUpScript[setUpPc]

----------------------------------------------------------------------------
(* What the contracts ask for, as far as the calls before can provide it.     *)

Reads(contract, keys) ==
  /\ configOf[contract] = AddressOf("NAOSConfig")
  /\ \A key \in keys : addresses[key] # None
GoListed(account) ==
  legacyGoList \in {None, AddressOf("NAOSConfig")} /\ AddressOf(account) \in goList

\* FixedLeverageRatioStrategy.invest, with the leverage ratio of 4.
Investment ==
  IF ~commonPool.juniorLocked \/ commonPool.locked THEN 0
  ELSE 4 * commonPool.junior - commonPool.senior

CallAccepted ==
  CASE call.do = "get" -> IsDeployed(call.of)
    [] call.do = "fund" -> "TestUSDC" \in funded
    [] call.do = "createPool" ->
         Reads("NAOSFactory", {"JuniorPoolImplementation", "CreditLineImplementation", "IndexPool",
                               "NAOSFactory", "ProtocolAdmin", "PoolTokens", "USDC", "Verified"})
    [] call.do = "depositIndexPool" ->
         /\ Reads("IndexPool", {"Verified", "USDC", "RWA"})
         /\ addresses["USDC"] = AddressOf("TestUSDC")
         /\ GoListed("Owner") /\ AddressOf("IndexPool") \in minters
    [] call.do = "depositJunior" ->
         GoListed("Owner") /\ ~commonPool.juniorLocked /\ addresses["USDC"] = AddressOf("TestUSDC")
    [] call.do = "lockJuniorCapital" -> ~commonPool.juniorLocked /\ ~commonPool.locked
    [] call.do = "invest" ->
         /\ Reads("IndexPool", {"PoolTokens", "IndexPoolStrategy"})
         /\ "FixedLeverageRatioStrategy" \in initialized /\ GoListed("IndexPool")
         /\ Investment > 0 /\ Investment <= indexPoolCash
    [] call.do = "getLogs" -> lastBlock = "DepositMade"
    [] call.do = "lockPool" -> commonPool.juniorLocked /\ ~commonPool.locked
    [] call.do = "drawdown" ->
         commonPool.juniorLocked /\ commonPool.limit \div 2 <= commonPool.junior + commonPool.senior
    [] call.do = "pay" ->
         commonPool.locked /\ \A key \in {"JuniorRewards", "TreasuryReserve"} : addresses[key] # None
    [] call.do = "redeem" -> GoListed("IndexPool") /\ commonPool.waited > 0
    [] OTHER -> TRUE

----------------------------------------------------------------------------
(* One action for each kind of call.                                          *)

Calling(do) == setUpStatus = "running" /\ call.do = do /\ CallAccepted
SetUpAdvance ==
  /\ setUpPc' = setUpPc + 1
  /\ setUpStatus' = IF setUpPc = Len(setUpScript) THEN "done" ELSE "running"
  /\ UNCHANGED <<setUpStarted, setUps, otherBlocks>>
Mined(block) == lastBlock' = block

\* Calls that change nothing beyond what is abstracted.
ReadOrFund ==
  /\ Calling("get") \/ Calling("fund")
  /\ SetUpAdvance /\ Mined(IF call.do = "fund" THEN "none" ELSE lastBlock)
  /\ UNCHANGED <<vars, legacyGoList, supportedUIDTypes, commonPool, indexPoolCash>>
GetDepositLog ==
  /\ Calling("getLogs") /\ SetUpAdvance
  /\ UNCHANGED <<vars, legacyGoList, supportedUIDTypes, commonPool, indexPoolCash, lastBlock>>

GrantLocalSigner ==
  /\ Calling("grantRole") /\ SetUpAdvance /\ Mined("none")
  /\ signers' = signers \cup {AddressOf("Owner")}
  /\ UNCHANGED <<deployment, configVars, implementation, configOf, initArgs, initialized, funded,
                 minters, ceiling, envVars, pc, status>>
  /\ UNCHANGED <<legacyGoList, supportedUIDTypes, commonPool, indexPoolCash>>
SetSupportedUIDTypes ==
  /\ Calling("setSupportedUIDTypes") /\ SetUpAdvance /\ Mined("none")
  /\ supportedUIDTypes' = TRUE
  /\ UNCHANGED <<vars, legacyGoList, commonPool, indexPoolCash>>
SetLegacyGoList ==
  /\ Calling("setLegacyGoList") /\ SetUpAdvance /\ Mined("none")
  /\ legacyGoList' = AddressOf("NAOSConfig")
  /\ UNCHANGED <<vars, supportedUIDTypes, commonPool, indexPoolCash>>
SetNumber ==
  /\ Calling("setNumber") /\ SetUpAdvance /\ Mined("none")
  /\ numbers' = [numbers EXCEPT ![call.of] = call.amount]
  /\ UNCHANGED <<deployment, addresses, goList, chainVars, envVars, pc, status>>
  /\ UNCHANGED <<legacyGoList, supportedUIDTypes, commonPool, indexPoolCash>>
BulkAddToGoList ==
  /\ Calling("bulkAddToGoList") /\ SetUpAdvance /\ Mined("none")
  /\ goList' = goList \cup {AddressOf(call.of)}
  /\ UNCHANGED <<deployment, addresses, numbers, chainVars, envVars, pc, status>>
  /\ UNCHANGED <<legacyGoList, supportedUIDTypes, commonPool, indexPoolCash>>

CreatePool ==
  /\ Calling("createPool") /\ SetUpAdvance /\ Mined("none")
  /\ commonPool' = IF call.of # "common" THEN commonPool
                   ELSE [juniorLocked |-> FALSE, locked |-> FALSE, junior |-> 0, senior |-> 0,
                         limit |-> 0, maxLimit |-> call.amount, drawn |-> 0, paid |-> 0,
                         waited |-> 0]
  /\ UNCHANGED <<vars, legacyGoList, supportedUIDTypes, indexPoolCash>>

DepositIndexPool ==
  /\ Calling("depositIndexPool") /\ SetUpAdvance /\ Mined("none")
  /\ indexPoolCash' = indexPoolCash + call.amount
  /\ UNCHANGED <<vars, legacyGoList, supportedUIDTypes, commonPool>>
DepositJunior ==
  /\ Calling("depositJunior") /\ SetUpAdvance /\ Mined("none")
  /\ commonPool' = [commonPool EXCEPT !.junior = @ + call.amount]
  /\ UNCHANGED <<vars, legacyGoList, supportedUIDTypes, indexPoolCash>>
LockJuniorCapital ==
  /\ Calling("lockJuniorCapital") /\ SetUpAdvance /\ Mined("none")
  /\ commonPool' = [commonPool EXCEPT !.juniorLocked = TRUE]
  /\ UNCHANGED <<vars, legacyGoList, supportedUIDTypes, indexPoolCash>>
Invest ==
  /\ Calling("invest") /\ SetUpAdvance /\ Mined("DepositMade")
  /\ commonPool' = [commonPool EXCEPT !.senior = @ + Investment]
  /\ indexPoolCash' = indexPoolCash - Investment
  /\ UNCHANGED <<vars, legacyGoList, supportedUIDTypes>>

Locked(pool) ==
  LET total == pool.junior + pool.senior
  IN [pool EXCEPT !.locked = TRUE,
                  !.limit = IF total < pool.maxLimit THEN total ELSE pool.maxLimit]
LockPool ==
  /\ Calling("lockPool") /\ SetUpAdvance /\ Mined("none")
  /\ commonPool' = Locked(commonPool)
  /\ UNCHANGED <<vars, legacyGoList, supportedUIDTypes, indexPoolCash>>
\* Half of the limit, which was read before a drawdown that locks the pool.
Drawdown ==
  /\ Calling("drawdown") /\ SetUpAdvance /\ Mined("none")
  /\ LET pool == IF commonPool.locked THEN commonPool ELSE Locked(commonPool)
     IN commonPool' = [pool EXCEPT !.drawn = @ + commonPool.limit \div 2]
  /\ UNCHANGED <<vars, legacyGoList, supportedUIDTypes, indexPoolCash>>

\* The time is that of the next block, which the payment after it is in.
AdvanceTime ==
  /\ Calling("advanceTime") /\ SetUpAdvance
  /\ commonPool' = [commonPool EXCEPT !.waited = @ + call.amount]
  /\ UNCHANGED <<vars, legacyGoList, supportedUIDTypes, indexPoolCash, lastBlock>>
Pay ==
  /\ Calling("pay") /\ SetUpAdvance /\ Mined("none")
  /\ commonPool' = [commonPool EXCEPT !.paid = @ + call.amount]
  /\ UNCHANGED <<vars, legacyGoList, supportedUIDTypes, indexPoolCash>>
\* The senior part of what was not drawn comes back, and of the payments.
Redeem ==
  /\ Calling("redeem") /\ SetUpAdvance /\ Mined("none")
  /\ LET undrawn == commonPool.junior + commonPool.senior - commonPool.drawn
         part(amount) ==
           (amount * commonPool.senior) \div (commonPool.junior + commonPool.senior)
     IN \E share \in 0..commonPool.paid :
          indexPoolCash' = indexPoolCash + part(undrawn) + share
  /\ UNCHANGED <<vars, legacyGoList, supportedUIDTypes, commonPool>>

Revert ==
  /\ setUpStatus = "running" /\ ~CallAccepted
  /\ setUpStatus' = "reverted"
  /\ UNCHANGED <<vars, setUpStarted, setUpPc, setUps, legacyGoList, supportedUIDTypes, commonPool,
                 indexPoolCash, lastBlock, otherBlocks>>

----------------------------------------------------------------------------

\* By the operator on a local chain, once the deployment is done, and again.
StartSetUp ==
  /\ chain.knownTokens = {} /\ status \in {"done", "set up"}
  /\ setUpStatus # "running" /\ setUps < MaxSetUps
  /\ setUps' = setUps + 1 /\ setUpPc' = 1 /\ setUpStatus' = "running" /\ status' = "set up"
  /\ setUpStarted' \in {"setUpForTesting", "deployJuniorPool"}
  /\ UNCHANGED <<deployment, configVars, chainVars, envVars, pc, legacyGoList, supportedUIDTypes,
                 commonPool, indexPoolCash, lastBlock, otherBlocks>>
InterruptSetUp ==
  /\ setUpStatus = "running" /\ interruptions < MaxInterruptions
  /\ interruptions' = interruptions + 1 /\ setUpStatus' = "interrupted"
  /\ UNCHANGED <<deployment, configVars, chainVars, chain, source, started, ownerSigns, runs,
                 releases, pc, status>>
  /\ UNCHANGED <<setUpStarted, setUpPc, setUps, legacyGoList, supportedUIDTypes, commonPool,
                 indexPoolCash, lastBlock, otherBlocks>>
\* Another client of the local node has a transaction mined.
OtherBlock ==
  /\ setUpStatus = "running" /\ otherBlocks < MaxOtherBlocks
  /\ otherBlocks' = otherBlocks + 1 /\ Mined("none")
  /\ UNCHANGED <<vars, setUpStarted, setUpPc, setUpStatus, setUps, legacyGoList,
                 supportedUIDTypes, commonPool, indexPoolCash>>

SetUpInit ==
  /\ Init
  /\ setUpStarted = "setUpForTesting" /\ setUpPc = 1 /\ setUpStatus = "idle" /\ setUps = 0
  /\ legacyGoList = None /\ supportedUIDTypes = FALSE /\ commonPool = None
  /\ indexPoolCash = 0 /\ lastBlock = "none" /\ otherBlocks = 0

SetUpStep ==
  \/ ReadOrFund \/ GetDepositLog \/ GrantLocalSigner \/ SetSupportedUIDTypes \/ SetLegacyGoList
  \/ SetNumber \/ BulkAddToGoList \/ CreatePool \/ DepositIndexPool \/ DepositJunior
  \/ LockJuniorCapital \/ Invest \/ LockPool \/ Drawdown \/ AdvanceTime \/ Pay \/ Redeem
  \/ Revert
SetUpNext ==
  \/ setUpStatus # "running" /\ Next /\ UNCHANGED setUpVars
  \/ SetUpStep \/ StartSetUp \/ InterruptSetUp \/ OtherBlock
SetUpSpec == SetUpInit /\ [][SetUpNext]_<<vars, setUpVars>>
\* Scripts that were started run on until they end or are interrupted.
FairSetUpSpec ==
  SetUpSpec /\ WF_<<vars, setUpVars>>(Step /\ UNCHANGED setUpVars)
            /\ WF_<<vars, setUpVars>>(SetUpStep)

----------------------------------------------------------------------------
(* Properties.                                                                *)

\* A set-up of a deployment that is done, also after other set-ups and a
\* redeployment in between, gets to its end, unless it is interrupted or
\* somebody else has a block mined while it runs.
SetUpCompletes ==
  setUpStatus = "running" ~> setUpStatus = "done" \/ interruptions > 0 \/ otherBlocks > 0
=============================================================================
