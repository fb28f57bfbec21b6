----------------------------- MODULE BaseDeploy -----------------------------
(* The scripts baseDeploy.ts and baseDeploy18.ts: the contracts they deploy   *)
(* with hardhat-deploy and the calls that wire them together, and             *)
(* updateConfigs.ts, one awaited call a step, with runs that are interrupted, *)
(* revert and are started again, and releases that change the code between    *)
(* two runs.                                                                  *)
(*                                                                            *)
(* A script is data: each deploy file is the sequence of its operations, the  *)
(* script the concatenation of its files, and an action carries out one kind  *)
(* of operation.  Abstracted: gas and fees, ABIs, log lines, amounts.         *)
EXTENDS Integers, Sequences

CONSTANTS Chains,            \* the chains the scripts may run on
          Scripts,           \* the scripts the operator starts
          Releases,          \* sets of artifacts whose code a release changes
          MaxRuns, MaxReleases, MaxInterruptions

Proxies == {"RWA", "PoolTokens", "IndexPool", "NAOSFactory", "UniqueIdentity", "Verified",
            "WithdrawQueue", "LoanManager", "JuniorRewards", "IndexStakingPool"}
Strategies == {"FixedLeverageRatioStrategy", "DynamicLeverageRatioStrategy"}
Tokens == {"TestUSDC", "TestNAOS"}
Artifacts == Proxies \cup Strategies \cup Tokens \cup
  {"NAOSConfig", "TranchingLogic", "Accountant", "JuniorPool", "CreditLine", "TestBoostPool"}

ASSUME BaseDeployAssumption ==
  /\ Chains \subseteq [knownTokens : SUBSET Tokens, deployerIsOwner : BOOLEAN]
  /\ Scripts \subseteq {"baseDeploy", "baseDeploy18", "updateConfigs"}
  /\ Releases \subseteq SUBSET Artifacts
  /\ {MaxRuns, MaxReleases, MaxInterruptions} \subseteq Nat

None == <<>>

VARIABLES
  chain,          \* the tokens with a known address; gf_deployer is protocol_owner
  source,         \* the version of each artifact in the working copy
  deployment,     \* the deployments folder: the bytecode an artifact was deployed with
  implementation, \* the bytecode a proxy runs
  configOf,       \* the NAOSConfig a contract was initialized with
  initArgs,       \* the registered addresses a proxy copied when it was initialized
  initialized,    \* contracts without a proxy whose initialize was called
  funded,         \* fake tokens whose supply went to the protocol owner
  numbers, addresses, goList,  \* the storage of the NAOSConfig last deployed
  minters,        \* who has MINTER_ROLE on RWA, granted by the script
  signers,        \* who has SIGNER_ROLE on UniqueIdentity
  ceiling,        \* the WithdrawQueue has its ceiling
  started,        \* the script of the run
  ownerSigns,     \* the run's first signer is the protocol owner
  pc, status, runs, releases, interruptions

configVars == <<numbers, addresses, goList>>
chainVars == <<implementation, configOf, initArgs, initialized, funded, minters, signers, ceiling>>
envVars == <<chain, source, started, ownerSigns, runs, releases, interruptions>>
vars == <<deployment, configVars, chainVars, envVars, pc, status>>

NumberKeys == <<"TotalFundsLimit", "ReserveDenominator", "WithdrawFeeDenominator",
  "LatenessGracePeriodInDays", "LatenessMaxDays", "DrawdownPeriodInSeconds", "LeverageRatio">>
AddressKeys == {"CreditLineImplementation", "NAOSFactory", "RWA", "USDC", "TreasuryReserve",
  "ProtocolAdmin", "PoolTokens", "JuniorPoolImplementation", "IndexPool", "IndexPoolStrategy",
  "NAOS", "Verified", "JuniorRewards", "StakingRewards", "BoostPool", "WithdrawQueue",
  "LoanManager"}

----------------------------------------------------------------------------
(* What the scripts do, as sequences of operations.                           *)

Op(do, of, key) == [do |-> do, of |-> of, key |-> key]
Deploy(a) == Op("deploy", a, None)
Register(a, key) == Op("updateAddress", a, key)

setInitialConfigVals ==
  [i \in 1..Len(NumberKeys) |-> Op("updateNumber", "protocol_config", NumberKeys[i])]
    \o <<Register("Multisig", "ProtocolAdmin"), Op("setAddress", "Multisig", "TreasuryReserve")>>
deployConfig ==
  <<Deploy("NAOSConfig"), Op("initializeConfig", "NAOSConfig", None)>> \o setInitialConfigVals
getOrDeployToken(token, key) ==
  <<Op("deployToken", token, None), Op("fundOwner", token, None), Register(token, key)>>
getOrDeployUSDC == getOrDeployToken("TestUSDC", "USDC")
\* The same calls: its token differs in its decimals, which Bytecode tells apart.
getOrDeployUSDC18 == getOrDeployToken("TestUSDC", "USDC")
getOrDeployNAOS == getOrDeployToken("TestNAOS", "NAOS")
deployRWA == <<Deploy("RWA"), Register("RWA", "RWA")>>
deployPoolTokens == <<Deploy("PoolTokens"), Register("PoolTokens", "PoolTokens")>>
deployJuniorPool ==
  <<Deploy("TranchingLogic"), Deploy("JuniorPool"),
    Op("setAddress", "JuniorPool", "JuniorPoolImplementation")>>
deployIndexPool ==
  <<Deploy("Accountant"), Deploy("IndexPool"), Register("IndexPool", "IndexPool"),
    Op("addToGoList", "IndexPool", None), Op("grantMinter", "IndexPool", None)>>
deployFixedLeverageRatioStrategy ==
  <<Deploy("FixedLeverageRatioStrategy"), Op("initialize", "FixedLeverageRatioStrategy", None),
    Op("setAddress", "FixedLeverageRatioStrategy", "IndexPoolStrategy")>>
deployDynamicLeverageRatioStrategy ==
  <<Deploy("DynamicLeverageRatioStrategy"), Op("initialize", "DynamicLeverageRatioStrategy", None)>>
deployIndexPoolStrategies ==
  deployFixedLeverageRatioStrategy \o deployDynamicLeverageRatioStrategy
    \o <<Register("FixedLeverageRatioStrategy", "IndexPoolStrategy")>>
deployNAOSFactory ==
  <<Deploy("Accountant"), Deploy("NAOSFactory"), Register("NAOSFactory", "NAOSFactory")>>
deployClImplementation ==
  <<Deploy("Accountant"), Deploy("CreditLine"), Register("CreditLine", "CreditLineImplementation")>>
deployUniqueIdentity == <<Deploy("UniqueIdentity"), Op("grantSigner", "Owner", None)>>
deployVerified == <<Deploy("Verified"), Register("Verified", "Verified")>>
deployWithdrawQueue ==
  <<Deploy("WithdrawQueue"), Op("setCeiling", "WithdrawQueue", None),
    Register("WithdrawQueue", "WithdrawQueue")>>
deployBoostPool == <<Deploy("TestBoostPool"), Register("TestBoostPool", "BoostPool")>>
deployLoanManager == <<Deploy("LoanManager"), Register("LoanManager", "LoanManager")>>
deployJuniorRewards == <<Deploy("JuniorRewards"), Register("JuniorRewards", "JuniorRewards")>>
deployIndexStakingPool ==
  <<Deploy("IndexStakingPool"), Register("IndexStakingPool", "StakingRewards")>>

\* As a script would be that deploys the boost pool last.
deployProtocolBoostPoolLast ==
  getOrDeployNAOS \o deployRWA \o deployPoolTokens \o deployJuniorPool \o deployIndexPool
    \o deployIndexPoolStrategies \o deployNAOSFactory \o deployClImplementation
    \o deployUniqueIdentity \o deployVerified \o deployWithdrawQueue
    \o deployLoanManager \o deployJuniorRewards \o deployIndexStakingPool \o deployBoostPool

\* Everything after the stable coin, which the two scripts share.
deployProtocol ==
  getOrDeployNAOS \o deployRWA \o deployPoolTokens \o deployJuniorPool \o deployIndexPool
    \o deployIndexPoolStrategies \o deployNAOSFactory \o deployClImplementation
    \o deployUniqueIdentity \o deployVerified \o deployWithdrawQueue \o deployBoostPool
    \o deployLoanManager \o deployJuniorRewards \o deployIndexStakingPool
baseDeploy == deployConfig \o getOrDeployUSDC \o deployProtocol
baseDeploy18 == deployConfig \o getOrDeployUSDC18 \o deployProtocol

\* It asks protocol_config.json for a latenessGracePeriod, which has none.
updateConfigs ==
  [i \in 1..Len(NumberKeys) |->
     Op("updateNumber",
        IF NumberKeys[i] = "LatenessGracePeriodInDays" THEN "undefined" ELSE "protocol_config",
        NumberKeys[i])]

\* The decimals of the stable coin: baseDeploy18 goes with USE_DECIMAL=18.
decimals == IF started = "baseDeploy18" THEN 18 ELSE 6
script ==
  CASE started = "baseDeploy" -> baseDeploy
    [] started = "baseDeploy18" -> baseDeploy18
    [] started = "updateConfigs" -> updateConfigs
op == script[pc]

----------------------------------------------------------------------------
(* What the operations read.                                                  *)

\* hardhat-deploy deploys again when the bytecode differs: the code of the
\* working copy, the linked library and, for the stable coin, its decimals.
Linked ==
  [JuniorPool |-> "TranchingLogic", IndexPool |-> "Accountant", NAOSFactory |-> "Accountant",
   CreditLine |-> "Accountant"]
Bytecode(a) ==
  <<source[a],
    IF a \in DOMAIN Linked THEN deployment[Linked[a]]
    ELSE IF a = "TestUSDC" THEN <<decimals>> ELSE None>>
IsDeployed(a) == deployment[a] # None
getERC20Address(token) == token \in chain.knownTokens

\* A proxy keeps its address, any other contract has one for each bytecode.
AddressOf(a) ==
  IF a \in Proxies \cup {"Multisig", "Owner"} \/ getERC20Address(a) THEN <<a>>
  ELSE <<a, deployment[a]>>

\* protocol_config.json in units of the decimals; only the limit is in USDC.
InitialNumber(key) == IF key = "TotalFundsLimit" THEN decimals ELSE 1

\* The registered addresses that an initialize function reads and keeps.
ReadAtInit(a) ==
  CASE a \in {"RWA", "IndexPool", "JuniorRewards"} -> {"USDC"}
    [] a = "WithdrawQueue" -> {"USDC", "RWA", "IndexPool"}
    [] a = "IndexStakingPool" -> {"NAOS", "BoostPool"}
    [] OTHER -> {}

SendsAsOwner ==
  \/ op.do \in {"setAddress", "addToGoList", "grantSigner", "setCeiling"}
  \/ op.do = "updateNumber" /\ numbers[op.key] # InitialNumber(op.key)
  \/ op.do = "updateAddress" /\ addresses[op.key] # AddressOf(op.of)
  \/ op.do = "grantMinter" /\ AddressOf(op.of) \notin minters

\* As if updateConfig overwrote an address that is set.
AcceptedOverwriting ==
  /\ SendsAsOwner => ownerSigns
  /\ op.do = "initializeConfig" /\ addresses["TreasuryReserve"] = None
       => "NAOSConfig" \notin initialized
  /\ op.do = "initialize" => op.of \notin initialized
  /\ op.do = "fundOwner" /\ ~getERC20Address(op.of)
       => op.of \notin funded \/ chain.deployerIsOwner
  /\ op.of # "undefined"
  /\ op.do = "deploy" /\ op.of \in Proxies /\ ~IsDeployed(op.of)
       => \A key \in ReadAtInit(op.of) : addresses[key] # None

\* The chain accepts what the operation sends, if it sends anything.
Accepted ==
  /\ SendsAsOwner => ownerSigns
  /\ op.do = "initializeConfig" /\ addresses["TreasuryReserve"] = None
       => "NAOSConfig" \notin initialized
  /\ op.do = "initialize" => op.of \notin initialized
  /\ op.do = "fundOwner" /\ ~getERC20Address(op.of)
       => op.of \notin funded \/ chain.deployerIsOwner
  /\ op.of # "undefined"
  /\ op.do = "updateAddress" => addresses[op.key] \in {None, AddressOf(op.of)}
  /\ op.do = "deploy" /\ op.of \in Proxies /\ ~IsDeployed(op.of)
       => \A key \in ReadAtInit(op.of) : addresses[key] # None

----------------------------------------------------------------------------
(* One action for each kind of operation.                                     *)

Running(do) == status = "running" /\ op.do = do /\ Accepted
Advance ==
  /\ pc' = pc + 1
  /\ status' = IF pc = Len(script) THEN "done" ELSE "running"
  /\ UNCHANGED envVars

\* Contracts without a proxy, libraries and fake tokens.  A NAOSConfig that is
\* deployed again starts with an empty storage.
DeployContract ==
  /\ Running("deploy") \/ Running("deployToken")
  /\ op.of \notin Proxies
  /\ LET a == op.of
         skipped == getERC20Address(a)
         fresh == ~skipped /\ deployment[a] # Bytecode(a)
     IN /\ deployment' = IF skipped THEN deployment ELSE [deployment EXCEPT ![a] = Bytecode(a)]
        /\ initialized' = IF fresh THEN initialized \ {a} ELSE initialized
        /\ funded' = IF fresh THEN funded \ {a} ELSE funded
        /\ IF fresh /\ a = "NAOSConfig"
           THEN /\ numbers' = [key \in DOMAIN numbers |-> 0]
                /\ addresses' = [key \in AddressKeys |-> None]
                /\ goList' = {}
           ELSE UNCHANGED configVars
  /\ Advance
  /\ UNCHANGED <<implementation, configOf, initArgs, minters, signers, ceiling>>

\* As if the caught unknown signer always kept the old implementation.
DeployProxyWithoutUpgrade ==
  /\ Running("deploy") /\ op.of \in Proxies
  /\ deployment' = [deployment EXCEPT ![op.of] = Bytecode(op.of)]
  /\ IF IsDeployed(op.of) THEN UNCHANGED <<implementation, configOf, initArgs>>
     ELSE /\ implementation' = [implementation EXCEPT ![op.of] = Bytecode(op.of)]
          /\ configOf' = [configOf EXCEPT ![op.of] = AddressOf("NAOSConfig")]
          /\ initArgs' = [initArgs EXCEPT ![op.of] = [key \in ReadAtInit(op.of) |-> addresses[key]]]
  /\ Advance
  /\ UNCHANGED <<configVars, initialized, funded, minters, signers, ceiling>>

\* A new proxy is initialized in its constructor.  The implementation of an
\* existing one is deployed and recorded, and the owner changes the proxy to it.
DeployProxy ==
  /\ Running("deploy") /\ op.of \in Proxies
  /\ LET a == op.of
     IN /\ deployment' = [deployment EXCEPT ![a] = Bytecode(a)]
        /\ IF ~IsDeployed(a)
           THEN /\ implementation' = [implementation EXCEPT ![a] = Bytecode(a)]
                /\ configOf' = [configOf EXCEPT ![a] = AddressOf("NAOSConfig")]
                /\ initArgs' = [initArgs EXCEPT ![a] = [key \in ReadAtInit(a) |-> addresses[key]]]
           ELSE /\ implementation' =
                     IF ownerSigns THEN [implementation EXCEPT ![a] = Bytecode(a)]
                     ELSE implementation
                /\ UNCHANGED <<configOf, initArgs>>
  /\ Advance
  /\ UNCHANGED <<configVars, initialized, funded, minters, signers, ceiling>>

\* deployConfig takes a NAOSConfig without a TreasuryReserve for a new one.
InitializeConfig ==
  /\ Running("initializeConfig")
  /\ initialized' = IF addresses["TreasuryReserve"] = None
                    THEN initialized \cup {"NAOSConfig"} ELSE initialized
  /\ Advance
  /\ UNCHANGED <<deployment, configVars, implementation, configOf, initArgs, funded, minters,
                 signers, ceiling>>

\* A strategy is initialized on every run, the fixed one with the config.
InitializeStrategy ==
  /\ Running("initialize")
  /\ initialized' = initialized \cup {op.of}
  /\ configOf' = IF op.of = "FixedLeverageRatioStrategy"
                 THEN [configOf EXCEPT ![op.of] = AddressOf("NAOSConfig")] ELSE configOf
  /\ Advance
  /\ UNCHANGED <<deployment, configVars, implementation, initArgs, funded, minters, signers,
                 ceiling>>

FundOwner ==
  /\ Running("fundOwner")
  /\ funded' = IF getERC20Address(op.of) THEN funded ELSE funded \cup {op.of}
  /\ Advance
  /\ UNCHANGED <<deployment, configVars, implementation, configOf, initArgs, initialized, minters,
                 signers, ceiling>>

\* updateConfig: compare, then set.
UpdateNumber ==
  /\ Running("updateNumber")
  /\ numbers' = [numbers EXCEPT ![op.key] = InitialNumber(op.key)]
  /\ Advance
  /\ UNCHANGED <<deployment, addresses, goList, chainVars>>
UpdateAddress ==
  /\ Running("updateAddress")
  /\ addresses' = [addresses EXCEPT ![op.key] = AddressOf(op.of)]
  /\ Advance
  /\ UNCHANGED <<deployment, numbers, goList, chainVars>>

\* The setters of single keys, which may be set again.
SetAddress ==
  /\ Running("setAddress")
  /\ addresses' = [addresses EXCEPT ![op.key] = AddressOf(op.of)]
  /\ Advance
  /\ UNCHANGED <<deployment, numbers, goList, chainVars>>

AddToGoList ==
  /\ Running("addToGoList")
  /\ goList' = goList \cup {AddressOf(op.of)}
  /\ Advance
  /\ UNCHANGED <<deployment, numbers, addresses, chainVars>>

grantMinterRoleToPool ==
  /\ Running("grantMinter")
  /\ minters' = minters \cup {AddressOf(op.of)}
  /\ Advance
  /\ UNCHANGED <<deployment, configVars, implementation, configOf, initArgs, initialized, funded,
                 signers, ceiling>>

GrantSigner ==
  /\ Running("grantSigner")
  /\ signers' = signers \cup {AddressOf(op.of)}
  /\ Advance
  /\ UNCHANGED <<deployment, configVars, implementation, configOf, initArgs, initialized, funded,
                 minters, ceiling>>

SetCeiling ==
  /\ Running("setCeiling")
  /\ ceiling' = TRUE
  /\ Advance
  /\ UNCHANGED <<deployment, configVars, implementation, configOf, initArgs, initialized, funded,
                 minters, signers>>

\* An awaited call that is rejected ends the run.
Abort ==
  /\ status = "running" /\ ~Accepted
  /\ status' = "aborted"
  /\ UNCHANGED <<deployment, configVars, chainVars, envVars, pc>>

----------------------------------------------------------------------------
(* The operator: starts runs, stops them, changes the code between them.      *)

Start ==
  /\ status # "running" /\ runs < MaxRuns
  /\ runs' = runs + 1
  /\ pc' = 1 /\ status' = "running"
  /\ started' \in Scripts /\ ownerSigns' \in BOOLEAN
  /\ started' = "updateConfigs" => IsDeployed("NAOSConfig")
  /\ UNCHANGED <<deployment, configVars, chainVars, chain, source, releases, interruptions>>

Interrupt ==
  /\ status = "running" /\ interruptions < MaxInterruptions
  /\ interruptions' = interruptions + 1
  /\ status' = "aborted"
  /\ UNCHANGED <<deployment, configVars, chainVars, chain, source, started, ownerSigns, runs,
                 releases, pc>>

Release ==
  /\ status # "running" /\ runs > 0 /\ releases < MaxReleases
  /\ releases' = releases + 1
  /\ \E changed \in Releases :
       source' = [a \in Artifacts |-> source[a] + (IF a \in changed THEN 1 ELSE 0)]
  /\ UNCHANGED <<deployment, configVars, chainVars, chain, started, ownerSigns, runs,
                 interruptions, pc, status>>

Init ==
  /\ chain \in Chains
  /\ source = [a \in Artifacts |-> 1]
  /\ deployment = [a \in Artifacts |-> None]
  /\ implementation = [p \in Proxies |-> None]
  /\ configOf = [a \in Proxies \cup {"FixedLeverageRatioStrategy"} |-> None]
  /\ initArgs = [p \in Proxies |-> None]
  /\ initialized = {} /\ funded = {} /\ minters = {} /\ signers = {} /\ ceiling = FALSE
  /\ numbers = [key \in {NumberKeys[i] : i \in 1..Len(NumberKeys)} |-> 0]
  /\ addresses = [key \in AddressKeys |-> None] /\ goList = {}
  /\ started = "baseDeploy" /\ ownerSigns = TRUE
  /\ pc = 1 /\ status = "idle" /\ runs = 0 /\ releases = 0 /\ interruptions = 0

Step ==
  \/ DeployContract \/ DeployProxy \/ InitializeConfig \/ InitializeStrategy \/ FundOwner
  \/ UpdateNumber \/ UpdateAddress \/ SetAddress \/ AddToGoList \/ grantMinterRoleToPool
  \/ GrantSigner \/ SetCeiling \/ Abort
Next == Step \/ Start \/ Interrupt \/ Release
Spec == Init /\ [][Next]_vars
\* A script that was started runs on until it ends or is interrupted.
FairSpec == Spec /\ WF_vars(Step)

----------------------------------------------------------------------------
(* Properties.                                                                *)

\* A deployment that ran to its end, in whatever number of runs and releases,
\* is wired: every key of the config holds the contract of the deployments
\* folder, every proxy runs the recorded implementation, the numbers are those
\* of protocol_config.json in the units of the stable coin, and the index pool
\* may mint and is on the go list.
DeployedSystemIsWired ==
  status = "done" =>
    /\ \A key \in AddressKeys : addresses[key] # None
    /\ \A i \in 1..Len(script) :
         script[i].do \in {"updateAddress", "setAddress"} =>
           addresses[script[i].key] = AddressOf(script[i].of)
    /\ implementation = [p \in Proxies |-> deployment[p]]
    /\ \A key \in DOMAIN numbers : numbers[key] = InitialNumber(key)
    /\ AddressOf("IndexPool") \in goList \cap minters
    /\ signers # {} /\ ceiling
    /\ Strategies \cup {"NAOSConfig"} \subseteq initialized

\* The addresses a contract copied when it was initialized (a stable coin whose
\* decimals it keeps, the reward token) stay the registered ones, also when
\* later runs use the other script or other code and stop half-way.
CopiedAddressesStayRegistered ==
  \A p \in Proxies :
    IsDeployed(p) /\ configOf[p] = AddressOf("NAOSConfig") =>
      \A key \in DOMAIN initArgs[p] : initArgs[p][key] = addresses[key]

\* The first run of the owner completes unless it is interrupted: the calls are
\* in an order in which each finds what it needs.
FirstDeployCompletes ==
  status = "running" /\ runs = 1 /\ ownerSigns ~> status = "done" \/ interruptions > 0
=============================================================================
