------------------------------- MODULE Upgrades -------------------------------
(* The scripts that upgrade the proxies of a deployed protocol: upgrade.ts    *)
(* (deployUpgrades, one proposal per contract) and ContractUpgrader.upgrade   *)
(* with changeImplementations and DeployEffects (upgradeContracts, validated  *)
(* by OpenZeppelin, one multisend), against the deployments folder, the       *)
(* manifest of hardhat-upgrades and the owner's safe.  One awaited call a     *)
(* step; a run may stop between two steps.                                    *)
(*                                                                            *)
(* A version of the code stands for its bytecode and its storage layout.      *)
EXTENDS DeployEffects

CONSTANTS Contracts,
          MaxVersion,
          Compatible,    \* pairs <<v, w>>: w is a valid implementation that a proxy
                         \* with the layout of v may change to
          MaxRuns, MaxInterruptions

Versions == 1..MaxVersion
Tools == {"upgradeContracts", "upgrade", "upgradeNoDefender"}

ASSUME UpgradesAssumption ==
  /\ MaxVersion \in Nat \ {0}
  /\ Compatible \subseteq Versions \X Versions
  /\ \A v \in Versions : <<v, v>> \in Compatible
  /\ Effect = [contract : Contracts, version : Versions, by : Tools]
  /\ {MaxRuns, MaxInterruptions} \subseteq Nat

VARIABLES
  source,          \* the version of each contract in the working copy
  implementation,  \* deployments folder: Contract_Implementation.json
  record,          \* deployments folder: the implementation in Contract.json
  manifest,        \* the implementations .openzeppelin/*.json knows
  tool, step, status,
  todo, at,        \* contracts still to do, the one in work
  upgraded,        \* contracts done, in their order
  currentImplementation,  \* as upgrade.ts read it
  runs, interruptions,
  \* Not of the program, what the properties remember:
  contended,       \* contracts that a run took up with a proposal about them pending
  earlier          \* how many submissions there were before the run

files == <<source, implementation, record, manifest>>
history == <<contended, earlier>>
scriptVars ==
  <<tool, step, status, todo, at, upgraded, currentImplementation, runs, interruptions, history>>
vars == <<effectsVars, files, scriptVars>>

\* The storage slot of the proxy: what its last change of implementation set.
getProxyImplAddress(c) ==
  LET changes == {i \in DOMAIN carriedOut : carriedOut[i].contract = c}
  IN IF changes = {} THEN 1
     ELSE carriedOut[CHOOSE i \in changes : \A j \in changes : j <= i].version

changeImplementation(c) == [contract |-> c, version |-> implementation[c], by |-> tool]

At(t, s) == status = "running" /\ tool \in t /\ step = s
Upgrade == {"upgrade", "upgradeNoDefender"}
Go(s) == step' = s /\ UNCHANGED <<tool, status, runs, interruptions, history>>
\* The next contract of the list, or what comes after the list.
Continue(afterAll) ==
  /\ upgraded' = Append(upgraded, at)
  /\ step' = IF todo = {} THEN afterAll ELSE "deploy"
  /\ status' = IF todo = {} /\ afterAll = "end" THEN "done" ELSE status
  /\ UNCHANGED <<tool, todo, at, currentImplementation, runs, interruptions, history>>

----------------------------------------------------------------------------
(* ContractUpgrader.upgrade, changeImplementations and DeployEffects.         *)

\* deployer.deploy: a new implementation is deployed and recorded.  An account
\* that owns the proxy changes it at once; for a multisig hardhat-deploy throws
\* and the caught throw leaves Contract.json as it was.
deploy(c) ==
  /\ At({"upgradeContracts"}, "deploy")
  /\ implementation' = [implementation EXCEPT ![c] = source[c]]
  /\ IF source[c] # implementation[c] /\ ~multisig
     THEN sendAsAccount([contract |-> c, version |-> source[c], by |-> tool])
     ELSE UNCHANGED effectsVars
  /\ record' = IF source[c] # implementation[c] /\ multisig THEN record
               ELSE [record EXCEPT ![c] = source[c]]
  /\ at' = c /\ todo' = todo \ {c}
  /\ Go("validate")
  /\ UNCHANGED <<source, manifest, upgraded, currentImplementation>>

\* As if the new layout were compared with the one recorded last.
IsValidUpgradeOfRecord(c) ==
  /\ <<c, record[c]>> \in manifest
  /\ <<record[c], implementation[c]>> \in Compatible
\* The layout of what the proxy runs now is looked up in the manifest.
IsValidUpgrade(c) ==
  /\ <<c, getProxyImplAddress(c)>> \in manifest
  /\ <<getProxyImplAddress(c), implementation[c]>> \in Compatible
openzeppelin_assertIsValidUpgrade ==
  /\ At({"upgradeContracts"}, "validate") /\ IsValidUpgrade(at)
  /\ Go("rewrite")
  /\ UNCHANGED <<effectsVars, files, todo, at, upgraded, currentImplementation>>
AssertionFails ==
  /\ At({"upgradeContracts"}, "validate") /\ ~IsValidUpgrade(at)
  /\ status' = "aborted"
  /\ UNCHANGED <<effectsVars, files, tool, step, todo, at, upgraded, currentImplementation, runs,
                 interruptions, history>>

rewriteUpgradedDeployment ==
  /\ At({"upgradeContracts"}, "rewrite")
  /\ record' = [record EXCEPT ![at] = implementation[at]]
  /\ Go("save")
  /\ UNCHANGED <<effectsVars, source, implementation, manifest, todo, at, upgraded,
                 currentImplementation>>
openzeppelin_saveDeploymentManifest ==
  /\ At({"upgradeContracts"}, "save")
  /\ manifest' = manifest \cup {<<at, implementation[at]>>}
  /\ Continue("add")
  /\ UNCHANGED <<effectsVars, source, implementation, record>>

changeImplementations ==
  /\ At({"upgradeContracts"}, "add")
  /\ add([i \in 1..Len(upgraded) |-> changeImplementation(upgraded[i])])
  /\ Go("execute")
  /\ UNCHANGED <<files, todo, at, upgraded, currentImplementation>>
ExecuteDeferred ==
  /\ At({"upgradeContracts"}, "execute")
  /\ executeDeferred
  /\ step' = IF multisig THEN "end" ELSE "send"
  /\ status' = IF multisig THEN "done" ELSE status
  /\ UNCHANGED <<files, tool, todo, at, upgraded, currentImplementation, runs, interruptions,
                 history>>
SendTransaction ==
  /\ At({"upgradeContracts"}, "send")
  /\ sendTransaction
  /\ status' = IF Len(submissions[last].txs) = 1 THEN "done" ELSE status
  /\ UNCHANGED <<files, tool, step, todo, at, upgraded, currentImplementation, runs, interruptions,
                 history>>

----------------------------------------------------------------------------
(* upgrade.ts.                                                                *)

\* As if the current implementation were the recorded one.
deployContractUpgradeOfRecord(c) ==
  /\ At(Upgrade, "deploy")
  /\ currentImplementation' = record[c]
  /\ implementation' = [implementation EXCEPT ![c] = source[c]]
  /\ at' = c /\ todo' = todo \ {c}
  /\ Go("export")
  /\ UNCHANGED <<effectsVars, source, record, manifest, upgraded>>
\* As if the ABI were not exported before the proposal.
deployContractUpgradeOnly(c) ==
  /\ At(Upgrade, "deploy")
  /\ currentImplementation' = getProxyImplAddress(c)
  /\ implementation' = [implementation EXCEPT ![c] = source[c]]
  /\ at' = c /\ todo' = todo \ {c}
  /\ Go("propose")
  /\ UNCHANGED <<effectsVars, source, record, manifest, upgraded>>

deployContractUpgrade(c) ==
  /\ At(Upgrade, "deploy")
  /\ currentImplementation' = getProxyImplAddress(c)
  /\ implementation' = [implementation EXCEPT ![c] = source[c]]
  /\ at' = c /\ todo' = todo \ {c}
  /\ Go("export")
  /\ UNCHANGED <<effectsVars, source, record, manifest, upgraded>>

exportDeployment ==
  /\ At(Upgrade, "export")
  /\ record' = [record EXCEPT ![at] = implementation[at]]
  /\ Go("propose")
  /\ UNCHANGED <<effectsVars, source, implementation, manifest, todo, at, upgraded,
                 currentImplementation>>

DidNotChange == currentImplementation = implementation[at]
ProposeChange ==
  /\ At(Upgrade, "propose")
  /\ IF DidNotChange \/ tool = "upgradeNoDefender" THEN UNCHANGED effectsVars
     ELSE createProposal(changeImplementation(at))
  /\ Continue("end")
  /\ UNCHANGED files

----------------------------------------------------------------------------
(* The operator.                                                              *)

\* A proposal about the contract waits at the safe.
Awaited(c) ==
  \E i \in DOMAIN submissions :
    /\ submissions[i].status = "pending"
    /\ \E k \in DOMAIN submissions[i].txs : submissions[i].txs[k].contract = c

\* upgrade.ts refuses a chain without a safe.  No script looks at what is pending.
Start ==
  /\ status # "running" /\ runs < MaxRuns
  /\ tool' \in IF multisig THEN Tools ELSE {"upgradeContracts"}
  /\ todo' \in SUBSET Contracts /\ todo' # {}
  /\ status' = "running" /\ step' = "deploy" /\ runs' = runs + 1
  /\ upgraded' = <<>>
  /\ getDeployEffects
  /\ contended' = contended \cup {c \in todo' : Awaited(c)} /\ earlier' = Len(submissions)
  /\ UNCHANGED <<files, at, currentImplementation, interruptions>>

\* The process ends: killed, or the node, Defender or the safe does not answer.
Interrupt ==
  /\ status = "running" /\ interruptions < MaxInterruptions
  /\ status' = "aborted" /\ interruptions' = interruptions + 1
  /\ UNCHANGED <<effectsVars, files, tool, step, todo, at, upgraded, currentImplementation, runs,
                 history>>

Release ==
  /\ status # "running"
  /\ \E c \in Contracts :
       source[c] < MaxVersion /\ source' = [source EXCEPT ![c] = source[c] + 1]
  /\ UNCHANGED <<effectsVars, implementation, record, manifest, scriptVars>>

\* generate-manifest: an entry that cannot be saved is logged and skipped.
writeManifest ==
  /\ status # "running"
  /\ \E saved \in SUBSET Contracts :
       manifest' = manifest \cup {<<c, implementation[c]>> : c \in saved}
  /\ UNCHANGED <<effectsVars, source, implementation, record, scriptVars>>

SafeActs == Safe /\ UNCHANGED <<files, scriptVars>>

\* After a deployment, whose manifest entries may have failed to save.
Init ==
  /\ EffectsInit
  /\ source = [c \in Contracts |-> 1]
  /\ implementation = [c \in Contracts |-> 1] /\ record = [c \in Contracts |-> 1]
  /\ \E saved \in SUBSET Contracts : manifest = saved \X {1}
  /\ tool = "upgrade" /\ step = "end" /\ status = "idle"
  /\ todo = {} /\ at \in Contracts /\ upgraded = <<>> /\ currentImplementation = 1
  /\ runs = 0 /\ interruptions = 0 /\ contended = {} /\ earlier = 0

Script ==
  \/ \E c \in todo : deploy(c) \/ deployContractUpgrade(c)
  \/ openzeppelin_assertIsValidUpgrade \/ AssertionFails
  \/ rewriteUpgradedDeployment \/ openzeppelin_saveDeploymentManifest
  \/ changeImplementations \/ ExecuteDeferred \/ SendTransaction
  \/ exportDeployment \/ ProposeChange
Next == Script \/ Start \/ Interrupt \/ Release \/ writeManifest \/ SafeActs
Spec == Init /\ [][Next]_vars

----------------------------------------------------------------------------
(* Properties.                                                                *)

\* What a proxy runs, and what a proposal would make it run, is recorded in the
\* deployments folder (or something newer is): a script that stops half-way
\* never leaves the owner with an implementation whose ABI was not exported.
RecordLeadsChain ==
  \A c \in Contracts :
    /\ getProxyImplAddress(c) <= record[c]
    /\ \A i \in DOMAIN submissions :
         submissions[i].status = "pending" =>
           \A k \in DOMAIN submissions[i].txs :
             submissions[i].txs[k].contract = c => submissions[i].txs[k].version <= record[c]

\* What the proxy ran before the k-th transaction.
VersionBefore(k) ==
  LET previous == {i \in 1..(k - 1) : carriedOut[i].contract = carriedOut[k].contract}
  IN IF previous = {} THEN 1
     ELSE carriedOut[CHOOSE i \in previous : \A j \in previous : j <= i].version

\* A proxy owned by the safe never changes between incompatible layouts by a
\* transaction that upgradeContracts proposed, whatever was rejected, executed
\* late, in between or while other runs went on: unless a run took the contract
\* up while a proposal about it was pending, which no script looks at.
ExecutedUpgradesAreCompatible ==
  multisig =>
    \A k \in DOMAIN carriedOut :
      carriedOut[k].by = "upgradeContracts" /\ carriedOut[k].contract \notin contended =>
        <<VersionBefore(k), carriedOut[k].version>> \in Compatible

\* A run that ends well has finished the job, also when it repeats one that was
\* stopped anywhere: each contract of the list runs the code of the working
\* copy, or this run proposed the change.  upgrade.ts may be wrong about a
\* contract whose pending proposal is executed while it runs.
RunsFinishTheJob ==
  [][status = "running" /\ status' = "done" /\ tool # "upgradeNoDefender" =>
       \A c \in Contracts :
         /\ \E k \in DOMAIN upgraded' : upgraded'[k] = c
         /\ tool = "upgradeContracts" \/ c \notin contended
         => \/ getProxyImplAddress(c)' = source[c]
            \/ \E i \in DOMAIN submissions' : \E k \in DOMAIN submissions'[i].txs :
                 /\ i > earlier /\ submissions'[i].txs[k].contract = c
                 /\ submissions'[i].txs[k].version = source[c]
    ]_vars

\* The proposals and the transactions of the owner are what OwnerEffects says:
\* a submission takes place in its order, once, and as a whole where the owner
\* is a safe, which does nothing that was not proposed.
ImplementsOwnerEffects == OE!Spec
=============================================================================
