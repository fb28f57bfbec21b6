---------------------------- MODULE UpgradesProofs ----------------------------
(* Upgrades implements OwnerEffects, for any set of contracts and versions,   *)
(* any safe and any number of runs.  The invariant types the effects, and     *)
(* says that what is sent one transaction after the other is never a          *)
(* multisig's; then each step of the scripts and of the safe is a step of     *)
(* OwnerEffects or leaves its variables alone.                                *)
(*                                                                            *)
(* Then what the files, the proposals and the chain say of each other: the    *)
(* record leads the chain (RecordInv); and, of every contract that no run     *)
(* took up while a proposal about it was pending (contended), that its        *)
(* upgrades are compatible and that runs finish its job (RunsInv).  At most   *)
(* one proposal about such a contract is pending; none is while a run of      *)
(* upgradeContracts works on it, and while upgrade.ts does only one of that   *)
(* run, once it is done with the contract.                                    *)
EXTENDS Upgrades, WellFoundedInduction, TLAPS

ScriptTypeOK ==
  /\ source \in [Contracts -> Versions]
  /\ implementation \in [Contracts -> Versions]
  /\ tool \in Tools /\ todo \subseteq Contracts /\ at \in Contracts
  /\ upgraded \in Seq(Contracts)
SentOneByOne ==
  \A i \in DOMAIN submissions : submissions[i].status = "sending" => ~multisig
UpgradesInv == EffectsTypeOK /\ SentOneByOne /\ ScriptTypeOK

----------------------------------------------------------------------------
(* The operations of DeployEffects, one lemma each.                           *)

EffectsInv == EffectsTypeOK /\ SentOneByOne
OEStep == [OE!Next]_(OE!vars)

\* A new collection: what was collected is forgotten.
LEMMA ForgetStep ==
  ASSUME EffectsInv, getDeployEffects
  PROVE  EffectsInv' /\ OEStep
<1>1. OE!Forget BY DEF getDeployEffects, OE!Forget, outstanding
<1>2. EffectsInv' BY DEF EffectsInv, EffectsTypeOK, SentOneByOne, getDeployEffects
<1> QED BY <1>1, <1>2 DEF OEStep, OE!Next

\* Effects are added at the end of the collection.
LEMMA CollectStep ==
  ASSUME EffectsInv, NEW txs \in Seq(Effect), add(txs)
  PROVE  EffectsInv' /\ OEStep
<1>1. deferredEffects \in Seq(Effect) /\ deferredEffects' = deferredEffects \o txs
  BY DEF EffectsInv, EffectsTypeOK, add
<1>2. /\ deferredEffects' \in Seq(Effect)
      /\ Len(deferredEffects') >= Len(deferredEffects)
      /\ \A i \in DOMAIN deferredEffects : deferredEffects'[i] = deferredEffects[i]
  BY <1>1
<1>3. OE!Collect BY <1>2 DEF add, OE!Collect, outstanding
<1>4. EffectsInv' BY <1>2 DEF EffectsInv, EffectsTypeOK, SentOneByOne, add
<1> QED BY <1>3, <1>4 DEF OEStep, OE!Next

\* A submission of the collection or of a single effect.
LEMMA SubmitStep ==
  ASSUME EffectsInv, NEW txs \in Seq(Effect), NEW s \in {"pending", "sending"},
         s = "sending" => ~multisig, submit(txs, s),
         txs = deferredEffects \/ \E effect \in Effect : txs = <<effect>>
  PROVE  EffectsInv' /\ OEStep
<1> DEFINE new == [txs |-> txs, approvals |-> {}, status |-> s]
<1>1. submissions \in Seq(Submission) /\ new \in Submission
  BY DEF EffectsInv, EffectsTypeOK, Submission
<1>2. submissions' = Append(submissions, new) /\ UNCHANGED <<multisig, deferredEffects, carriedOut>>
  BY DEF submit
<1>3. /\ submissions' \in Seq(Submission)
      /\ DOMAIN submissions = 1..Len(submissions)
      /\ DOMAIN submissions' = 1..(Len(submissions) + 1)
      /\ submissions'[Len(submissions) + 1] = new
      /\ \A i \in DOMAIN submissions : submissions'[i] = submissions[i]
  BY <1>1, <1>2
<1>4. EffectsInv'
  BY <1>2, <1>3 DEF EffectsInv, EffectsTypeOK, SentOneByOne
<1>5. outstanding' = Append(outstanding, txs)
  <2> DEFINE out(q) == [i \in DOMAIN q |->
                          IF q[i].status \in {"pending", "sending"} THEN q[i].txs ELSE <<>>]
  <2>1. outstanding = out(submissions) /\ outstanding' = out(submissions') BY DEF outstanding
  <2>2. Len(submissions) \in Nat BY <1>1
  <2>3. out(submissions) = [i \in 1..Len(submissions) |-> out(submissions)[i]] BY <1>3
  <2>4. Len(out(submissions)) = Len(submissions) BY <1>3, <2>2
  <2>5. Append(out(submissions), txs) =
          [i \in 1..(Len(submissions) + 1) |->
             IF i = Len(submissions) + 1 THEN txs ELSE out(submissions)[i]]
    BY <2>2, <2>4
  <2>6. \A i \in 1..(Len(submissions) + 1) :
          out(submissions')[i] = IF i = Len(submissions) + 1 THEN txs ELSE out(submissions)[i]
    BY <1>3, <2>2
  <2> QED BY <2>1, <2>5, <2>6, <1>3
<1>6. OE!Submit BY <1>2, <1>5 DEF OE!Submit
<1> QED BY <1>4, <1>6 DEF OEStep, OE!Next

\* What is proposed to a safe or sent by an account, and single proposals.
LEMMA ExecuteStep ==
  ASSUME EffectsInv, executeDeferred
  PROVE  EffectsInv' /\ OEStep
<1>1. deferredEffects \in Seq(Effect) /\ multisig \in BOOLEAN BY DEF EffectsInv, EffectsTypeOK
<1>2. CASE multisig
  <2>1. submit(deferredEffects, "pending") BY <1>2 DEF executeDeferred, execute
  <2> QED BY <1>1, <2>1, SubmitStep
<1>3. CASE ~multisig
  <2>1. submit(deferredEffects, "sending") BY <1>3 DEF executeDeferred, execute
  <2> QED BY <1>1, <1>3, <2>1, SubmitStep
<1> QED BY <1>2, <1>3

\* A proposal of one transaction through Defender.
LEMMA ProposeStep ==
  ASSUME EffectsInv, NEW tx \in Effect, createProposal(tx)
  PROVE  EffectsInv' /\ OEStep
<1>1. <<tx>> \in Seq(Effect) /\ submit(<<tx>>, "pending") BY DEF createProposal
<1> QED BY <1>1, SubmitStep

\* Submission i changes to what leaves "rest" of it outstanding.
LEMMA OutstandingOfChanged ==
  ASSUME submissions \in Seq(Submission), NEW i \in DOMAIN submissions, NEW q \in Submission,
         submissions' = [submissions EXCEPT ![i] = q]
  PROVE  /\ submissions' \in Seq(Submission)
         /\ outstanding' =
              [outstanding EXCEPT ![i] = IF q.status \in {"pending", "sending"} THEN q.txs ELSE <<>>]
         /\ DOMAIN outstanding = DOMAIN submissions
         /\ outstanding[i] = IF submissions[i].status \in {"pending", "sending"}
                             THEN submissions[i].txs ELSE <<>>
         /\ DOMAIN submissions' = DOMAIN submissions
         /\ \A j \in DOMAIN submissions : submissions'[j] = IF j = i THEN q ELSE submissions[j]
<1>1. /\ DOMAIN submissions' = DOMAIN submissions
      /\ submissions' \in Seq(Submission)
      /\ \A j \in DOMAIN submissions : submissions'[j] = IF j = i THEN q ELSE submissions[j]
  OBVIOUS
<1>2. DOMAIN outstanding = DOMAIN submissions BY DEF outstanding
<1>3. \A j \in DOMAIN submissions :
        /\ outstanding[j] = IF submissions[j].status \in {"pending", "sending"}
                            THEN submissions[j].txs ELSE <<>>
        /\ outstanding'[j] = IF submissions'[j].status \in {"pending", "sending"}
                             THEN submissions'[j].txs ELSE <<>>
  BY <1>1 DEF outstanding
<1>4. /\ outstanding = [j \in DOMAIN submissions |-> outstanding[j]]
      /\ outstanding' = [j \in DOMAIN submissions |-> outstanding'[j]]
  BY <1>1 DEF outstanding
<1>5. outstanding' =
        [outstanding EXCEPT ![i] = IF q.status \in {"pending", "sending"} THEN q.txs ELSE <<>>]
  BY <1>1, <1>2, <1>3, <1>4
<1> QED BY <1>1, <1>2, <1>3, <1>5

\* The account of the node sends the next transaction of a submission.
LEMMA SendStep ==
  ASSUME EffectsInv, sendTransaction
  PROVE  EffectsInv' /\ OEStep
<1> DEFINE q == [submissions[last] EXCEPT !.txs = Tail(submissions[last].txs)]
<1>1. /\ submissions \in Seq(Submission) /\ carriedOut \in Seq(Effect) /\ last \in DOMAIN submissions
      /\ submissions[last].status = "sending" /\ submissions[last].txs # <<>>
      /\ submissions[last] \in Submission
  BY DEF EffectsInv, EffectsTypeOK, sendTransaction, last
<1>2. ~multisig BY <1>1 DEF EffectsInv, SentOneByOne
<1>3. submissions[last].txs \in Seq(Effect) BY <1>1 DEF Submission
<1>4. Head(submissions[last].txs) \in Effect /\ Tail(submissions[last].txs) \in Seq(Effect)
  BY <1>1, <1>3
<1>5. q \in Submission /\ q.status = "sending" /\ q.txs = Tail(submissions[last].txs)
  BY <1>1, <1>4 DEF Submission
<1>6. /\ submissions' = [submissions EXCEPT ![last] = q]
      /\ carriedOut' = Append(carriedOut, Head(submissions[last].txs))
      /\ UNCHANGED <<multisig, deferredEffects>>
  BY DEF sendTransaction
<1> HIDE DEF q
<1>7. /\ submissions' \in Seq(Submission)
      /\ outstanding' = [outstanding EXCEPT ![last] = Tail(submissions[last].txs)]
      /\ last \in DOMAIN outstanding /\ outstanding[last] = submissions[last].txs
      /\ DOMAIN submissions' = DOMAIN submissions
  BY <1>1, <1>5, <1>6, OutstandingOfChanged
<1>8. OE!CarryOutNext(last) BY <1>1, <1>2, <1>6, <1>7 DEF OE!CarryOutNext
<1>9. EffectsInv'
  BY <1>1, <1>2, <1>4, <1>6, <1>7 DEF EffectsInv, EffectsTypeOK, SentOneByOne
<1> QED BY <1>7, <1>8, <1>9 DEF OEStep, OE!Next

\* hardhat-deploy sends a transaction of an account at once.
LEMMA DirectStep ==
  ASSUME EffectsInv, NEW tx \in Effect, sendAsAccount(tx)
  PROVE  EffectsInv' /\ OEStep
<1>1. OE!Direct BY DEF sendAsAccount, OE!Direct, outstanding
<1>2. EffectsInv' BY DEF EffectsInv, EffectsTypeOK, SentOneByOne, sendAsAccount
<1> QED BY <1>1, <1>2 DEF OEStep, OE!Next

\* An approval changes nothing that OwnerEffects knows of.
LEMMA ApproveStep ==
  ASSUME EffectsInv, NEW i \in DOMAIN submissions, NEW owner \in SafeOwners, Approve(i, owner)
  PROVE  EffectsInv' /\ OEStep
<1> DEFINE q == [submissions[i] EXCEPT !.approvals = @ \cup {owner}]
<1>1. submissions \in Seq(Submission) /\ submissions[i] \in Submission
  BY DEF EffectsInv, EffectsTypeOK
<1>2. q \in Submission /\ q.status = "pending" /\ q.txs = submissions[i].txs
  BY <1>1 DEF Submission, Approve
<1>3. /\ submissions' = [submissions EXCEPT ![i] = q] /\ submissions[i].status = "pending"
      /\ UNCHANGED <<multisig, deferredEffects, carriedOut>>
  BY DEF Approve
<1> HIDE DEF q
<1>4. /\ submissions' \in Seq(Submission)
      /\ outstanding' = [outstanding EXCEPT ![i] = submissions[i].txs]
      /\ outstanding[i] = submissions[i].txs /\ DOMAIN submissions' = DOMAIN submissions
      /\ \A j \in DOMAIN submissions : submissions'[j] = IF j = i THEN q ELSE submissions[j]
  BY <1>1, <1>2, <1>3, OutstandingOfChanged
<1>5. outstanding' = outstanding BY <1>4 DEF outstanding
<1>6. UNCHANGED OE!vars BY <1>3, <1>5 DEF OE!vars
<1>7. EffectsInv'
  BY <1>2, <1>3, <1>4 DEF EffectsInv, EffectsTypeOK, SentOneByOne
<1> QED BY <1>6, <1>7 DEF OEStep

\* The safe carries out a proposal as a whole.
LEMMA ExecTransactionStep ==
  ASSUME EffectsInv, NEW i \in DOMAIN submissions, execTransaction(i)
  PROVE  EffectsInv' /\ OEStep
<1> DEFINE q == [submissions[i] EXCEPT !.status = "executed"]
<1>1. /\ submissions \in Seq(Submission) /\ submissions[i] \in Submission
      /\ carriedOut \in Seq(Effect)
  BY DEF EffectsInv, EffectsTypeOK
<1>2. q \in Submission /\ q.status = "executed" /\ submissions[i].txs \in Seq(Effect)
  BY <1>1 DEF Submission
<1>3. /\ submissions' = [submissions EXCEPT ![i] = q] /\ submissions[i].status = "pending"
      /\ carriedOut' = carriedOut \o submissions[i].txs
      /\ UNCHANGED <<multisig, deferredEffects>>
  BY DEF execTransaction
<1> HIDE DEF q
<1>4. /\ submissions' \in Seq(Submission)
      /\ outstanding' = [outstanding EXCEPT ![i] = <<>>]
      /\ i \in DOMAIN outstanding /\ outstanding[i] = submissions[i].txs
      /\ DOMAIN submissions' = DOMAIN submissions
      /\ \A j \in DOMAIN submissions : submissions'[j] = IF j = i THEN q ELSE submissions[j]
  BY <1>1, <1>2, <1>3, OutstandingOfChanged
<1>5. OE!CarryOut(i) BY <1>3, <1>4 DEF OE!CarryOut
<1>6. carriedOut' \in Seq(Effect) BY <1>1, <1>2, <1>3
<1>7. EffectsInv'
  BY <1>2, <1>3, <1>4, <1>6 DEF EffectsInv, EffectsTypeOK, SentOneByOne
<1> QED BY <1>4, <1>5, <1>7 DEF OEStep, OE!Next

\* The signers drop a proposal.
LEMMA RejectStep ==
  ASSUME EffectsInv, NEW i \in DOMAIN submissions, Reject(i)
  PROVE  EffectsInv' /\ OEStep
<1> DEFINE q == [submissions[i] EXCEPT !.status = "rejected"]
<1>1. submissions \in Seq(Submission) /\ submissions[i] \in Submission
  BY DEF EffectsInv, EffectsTypeOK
<1>2. q \in Submission /\ q.status = "rejected" BY <1>1 DEF Submission
<1>3. /\ submissions' = [submissions EXCEPT ![i] = q]
      /\ UNCHANGED <<multisig, deferredEffects, carriedOut>>
  BY DEF Reject
<1> HIDE DEF q
<1>4. /\ submissions' \in Seq(Submission)
      /\ outstanding' = [outstanding EXCEPT ![i] = <<>>]
      /\ i \in DOMAIN outstanding /\ DOMAIN submissions' = DOMAIN submissions
      /\ \A j \in DOMAIN submissions : submissions'[j] = IF j = i THEN q ELSE submissions[j]
  BY <1>1, <1>2, <1>3, OutstandingOfChanged
<1>5. OE!Drop(i) BY <1>3, <1>4 DEF OE!Drop
<1>6. EffectsInv'
  BY <1>2, <1>3, <1>4 DEF EffectsInv, EffectsTypeOK, SentOneByOne
<1> QED BY <1>4, <1>5, <1>6 DEF OEStep, OE!Next

\* A step that leaves the effects alone.
LEMMA NoEffectStep ==
  ASSUME EffectsInv, UNCHANGED effectsVars
  PROVE  EffectsInv' /\ OEStep
<1>1. UNCHANGED OE!vars BY DEF effectsVars, OE!vars, outstanding
<1>2. EffectsInv' BY DEF EffectsInv, EffectsTypeOK, SentOneByOne, effectsVars
<1> QED BY <1>1, <1>2 DEF OEStep

----------------------------------------------------------------------------
(* The steps of the scripts.                                                  *)

\* The scripts add and propose transactions of the owner.
LEMMA EffectsAreTyped ==
  ASSUME ScriptTypeOK
  PROVE  /\ \A c \in Contracts : changeImplementation(c) \in Effect
         /\ [i \in 1..Len(upgraded) |-> changeImplementation(upgraded[i])] \in Seq(Effect)
         /\ \A c \in Contracts :
              [contract |-> c, version |-> source[c], by |-> tool] \in Effect
<1>1. Effect = [contract : Contracts, version : Versions, by : Tools] BY UpgradesAssumption
<1>2. \A c \in Contracts : changeImplementation(c) \in Effect
  BY <1>1 DEF ScriptTypeOK, changeImplementation
<1>3. upgraded \in Seq(Contracts) BY DEF ScriptTypeOK
<1>4. \A i \in 1..Len(upgraded) : changeImplementation(upgraded[i]) \in Effect BY <1>2, <1>3
<1>5. [i \in 1..Len(upgraded) |-> changeImplementation(upgraded[i])] \in Seq(Effect)
  BY <1>3, <1>4
<1>6. \A c \in Contracts : [contract |-> c, version |-> source[c], by |-> tool] \in Effect
  BY <1>1 DEF ScriptTypeOK
<1> QED BY <1>2, <1>5, <1>6

\* Continue appends the contract in work.
LEMMA ContinueTypes ==
  ASSUME ScriptTypeOK, NEW s, Continue(s)
  PROVE  tool' \in Tools /\ todo' \subseteq Contracts /\ at' \in Contracts
         /\ upgraded' \in Seq(Contracts)
BY DEF ScriptTypeOK, Continue

\* A step of a script, of the operator or of the safe keeps the types.
LEMMA ScriptTypes ==
  ASSUME ScriptTypeOK, [Next]_vars
  PROVE  ScriptTypeOK'
<1>1. ASSUME NEW c \in todo, deploy(c) PROVE ScriptTypeOK'
  BY <1>1 DEF ScriptTypeOK, deploy, Go
<1>2. ASSUME NEW c \in todo, deployContractUpgrade(c) PROVE ScriptTypeOK'
  BY <1>2 DEF ScriptTypeOK, deployContractUpgrade, Go
<1>3. CASE openzeppelin_assertIsValidUpgrade
  BY <1>3 DEF ScriptTypeOK, openzeppelin_assertIsValidUpgrade, Go, files
<1>4. CASE AssertionFails
  BY <1>4 DEF ScriptTypeOK, AssertionFails, files
<1>5. CASE rewriteUpgradedDeployment
  BY <1>5 DEF ScriptTypeOK, rewriteUpgradedDeployment, Go
<1>6. CASE openzeppelin_saveDeploymentManifest
  <2>1. Continue("add") /\ UNCHANGED <<source, implementation>>
    BY <1>6 DEF openzeppelin_saveDeploymentManifest
  <2> QED BY <2>1, ContinueTypes DEF ScriptTypeOK
<1>7. CASE changeImplementations
  BY <1>7 DEF ScriptTypeOK, changeImplementations, Go, files
<1>8. CASE ExecuteDeferred
  BY <1>8 DEF ScriptTypeOK, ExecuteDeferred, files
<1>9. CASE SendTransaction
  BY <1>9 DEF ScriptTypeOK, SendTransaction, files
<1>10. CASE exportDeployment
  BY <1>10 DEF ScriptTypeOK, exportDeployment, Go
<1>11. CASE ProposeChange
  <2>1. Continue("end") /\ UNCHANGED <<source, implementation>>
    BY <1>11 DEF ProposeChange, files
  <2> QED BY <2>1, ContinueTypes DEF ScriptTypeOK
<1>12. CASE Start
  <2>1. /\ tool' \in Tools /\ todo' \subseteq Contracts /\ upgraded' = <<>>
        /\ UNCHANGED <<source, implementation, at>>
    BY <1>12 DEF Start, files, Tools
  <2> QED BY <2>1 DEF ScriptTypeOK
<1>13. CASE Interrupt
  BY <1>13 DEF ScriptTypeOK, Interrupt, files
<1>14. CASE Release
  <2>1. PICK c \in Contracts :
          source[c] < MaxVersion /\ source' = [source EXCEPT ![c] = source[c] + 1]
    BY <1>14 DEF Release
  <2>2. source[c] + 1 \in Versions
    BY <2>1, UpgradesAssumption DEF ScriptTypeOK, Versions
  <2> QED BY <1>14, <2>1, <2>2 DEF ScriptTypeOK, Release, scriptVars
<1>15. CASE writeManifest
  BY <1>15 DEF ScriptTypeOK, writeManifest, scriptVars
<1>16. CASE SafeActs
  BY <1>16 DEF ScriptTypeOK, SafeActs, files, scriptVars
<1>17. CASE UNCHANGED vars
  BY <1>17 DEF ScriptTypeOK, vars, files, scriptVars
<1> QED
  BY <1>1, <1>2, <1>3, <1>4, <1>5, <1>6, <1>7, <1>8, <1>9, <1>10, <1>11, <1>12, <1>13, <1>14,
     <1>15, <1>16, <1>17 DEF Next, Script

\* Each step of Upgrades is a step of OwnerEffects or a stutter.
LEMMA UpgradesStep ==
  ASSUME UpgradesInv, [Next]_vars
  PROVE  UpgradesInv' /\ OEStep
<1> USE DEF UpgradesInv
<1>0. EffectsInv /\ ScriptTypeOK /\ ScriptTypeOK' BY ScriptTypes DEF EffectsInv
<1> SUFFICES EffectsInv' /\ OEStep BY <1>0 DEF EffectsInv
<1>1. ASSUME NEW c \in todo, deploy(c) PROVE EffectsInv' /\ OEStep
  <2>1. c \in Contracts BY <1>0, <1>1 DEF ScriptTypeOK
  <2>2. \/ sendAsAccount([contract |-> c, version |-> source[c], by |-> tool])
        \/ UNCHANGED effectsVars
    BY <1>1 DEF deploy
  <2> QED BY <1>0, <2>1, <2>2, EffectsAreTyped, DirectStep, NoEffectStep
<1>2. CASE changeImplementations
  <2>1. add([i \in 1..Len(upgraded) |-> changeImplementation(upgraded[i])])
    BY <1>2 DEF changeImplementations
  <2> QED BY <1>0, <2>1, EffectsAreTyped, CollectStep
<1>3. CASE ExecuteDeferred
  BY <1>0, <1>3, ExecuteStep DEF ExecuteDeferred
<1>4. CASE SendTransaction
  BY <1>0, <1>4, SendStep DEF SendTransaction
<1>5. CASE ProposeChange
  <2>1. at \in Contracts BY <1>0 DEF ScriptTypeOK
  <2>2. UNCHANGED effectsVars \/ createProposal(changeImplementation(at))
    BY <1>5 DEF ProposeChange
  <2> QED BY <1>0, <2>1, <2>2, EffectsAreTyped, ProposeStep, NoEffectStep
<1>6. CASE Start
  BY <1>0, <1>6, ForgetStep DEF Start
<1>7. CASE SafeActs
  <2>1. PICK i \in DOMAIN submissions :
          (\E owner \in SafeOwners : Approve(i, owner)) \/ execTransaction(i) \/ Reject(i)
    BY <1>7 DEF SafeActs, Safe
  <2> QED BY <1>0, <2>1, ApproveStep, ExecTransactionStep, RejectStep
<1>8. ASSUME \/ \E c \in todo : deployContractUpgrade(c)
             \/ openzeppelin_assertIsValidUpgrade \/ AssertionFails
             \/ rewriteUpgradedDeployment \/ openzeppelin_saveDeploymentManifest
             \/ exportDeployment \/ Interrupt \/ Release \/ writeManifest \/ UNCHANGED vars
      PROVE EffectsInv' /\ OEStep
  <2>1. UNCHANGED effectsVars
    BY <1>8 DEF deployContractUpgrade, openzeppelin_assertIsValidUpgrade, AssertionFails,
      rewriteUpgradedDeployment, openzeppelin_saveDeploymentManifest, exportDeployment, Interrupt,
      Release, writeManifest, vars
  <2> QED BY <1>0, <2>1, NoEffectStep
<1> QED BY <1>1, <1>2, <1>3, <1>4, <1>5, <1>6, <1>7, <1>8 DEF Next, Script

----------------------------------------------------------------------------

\* The owner's transactions are typed, and those sent one by one are never a
\* multisig's.
THEOREM UpgradesInvariant == Spec => []UpgradesInv
<1>1. ASSUME Init PROVE UpgradesInv
  <2>1. submissions = <<>> /\ deferredEffects = <<>> /\ carriedOut = <<>> /\ multisig \in BOOLEAN
    BY <1>1 DEF Init, EffectsInit
  <2>2. EffectsTypeOK /\ SentOneByOne BY <2>1 DEF EffectsTypeOK, SentOneByOne
  <2>3. ScriptTypeOK
    BY <1>1, UpgradesAssumption DEF Init, ScriptTypeOK, Versions, Tools
  <2> QED BY <2>2, <2>3 DEF UpgradesInv
<1>2. ASSUME UpgradesInv, [Next]_vars PROVE UpgradesInv'
  BY <1>2, UpgradesStep
<1> QED BY <1>1, <1>2, PTL DEF Spec

\* The scripts, Defender and the safe together implement OwnerEffects: in
\* particular the transactions of a safe are whole submissions, each once.
THEOREM UpgradesImplementOwnerEffects == Spec => ImplementsOwnerEffects
<1>1. ASSUME Init PROVE OE!Init
  <2>1. outstanding = <<>> BY <1>1 DEF Init, EffectsInit, outstanding
  <2> QED BY <1>1, <2>1 DEF Init, EffectsInit, OE!Init
<1>2. ASSUME UpgradesInv, [Next]_vars PROVE [OE!Next]_(OE!vars)
  BY <1>2, UpgradesStep DEF OEStep
<1> QED BY <1>1, <1>2, UpgradesInvariant, PTL DEF Spec, ImplementsOwnerEffects, OE!Spec

----------------------------------------------------------------------------
(* RecordLeadsChain.  Along every path a version moves from the working copy  *)
(* to the implementation's file, to the record, and only then to a proposal   *)
(* or the chain, and none of the files goes back.  What a script has in work  *)
(* must be known at each step: the contracts of upgraded were recorded.       *)

RecordedIn(rec, txs) == \A k \in DOMAIN txs : txs[k].version <= rec[txs[k].contract]
AllRecorded ==
  /\ RecordedIn(record, carriedOut) /\ RecordedIn(record, deferredEffects)
  /\ \A i \in DOMAIN submissions : RecordedIn(record, submissions[i].txs)
FilesInOrder ==
  /\ record \in [Contracts -> Versions]
  /\ \A c \in Contracts : record[c] <= implementation[c] /\ implementation[c] <= source[c]
UpToDate(c) == record[c] = implementation[c]
WorkRecorded ==
  status = "running" =>
    /\ \A k \in DOMAIN upgraded : upgraded[k] \notin todo /\ UpToDate(upgraded[k])
    /\ step \in {"save", "propose"} => UpToDate(at)
    /\ at \in todo => step = "deploy"
RecordInv == UpgradesInv /\ FilesInOrder /\ WorkRecorded /\ AllRecorded

\* A nonempty set of positions has a last one.
LEMMA LastPosition ==
  ASSUME NEW n \in Nat, NEW S \in SUBSET (1..n), S # {}
  PROVE  \E i \in S : \A j \in S : j <= i
<1> DEFINE T == {n - i : i \in S}
<1>1. T \subseteq Nat
  <2> SUFFICES ASSUME NEW i \in S PROVE n - i \in Nat OBVIOUS
  <2>1. i \in 1..n OBVIOUS
  <2> QED BY <2>1
<1>0. T # {} OBVIOUS
<1> HIDE DEF T
<1>2. PICK m \in T : \A k \in T : ~ (<<k, m>> \in OpToRel(<, Nat))
  BY <1>0, <1>1, NatLessThanWellFounded, WFMin
<1> USE DEF T
<1>3. PICK i \in S : m = n - i BY <1>2
<1>4. ASSUME NEW j \in S PROVE j <= i
  <2>1. n - j \in T OBVIOUS
  <2>2. n - i \in Nat /\ n - j \in Nat BY <1>1, <1>3, <2>1
  <2>3. ~ (n - j < n - i) BY <1>2, <1>3, <2>1, <2>2 DEF OpToRel
  <2>4. i \in 1..n /\ j \in 1..n OBVIOUS
  <2> QED BY <2>2, <2>3, <2>4
<1> QED BY <1>4

\* What the proxy runs is the version of one of the owner's transactions.
LEMMA ImplementationIsCarriedOut ==
  ASSUME EffectsTypeOK, NEW c \in Contracts
  PROVE  \/ getProxyImplAddress(c) = 1
         \/ \E i \in DOMAIN carriedOut :
              carriedOut[i].contract = c /\ getProxyImplAddress(c) = carriedOut[i].version
<1> DEFINE changes == {i \in DOMAIN carriedOut : carriedOut[i].contract = c}
           final == CHOOSE i \in changes : \A j \in changes : j <= i
<1> SUFFICES ASSUME changes # {}
             PROVE  \E i \in DOMAIN carriedOut :
                      carriedOut[i].contract = c /\ getProxyImplAddress(c) = carriedOut[i].version
  BY DEF getProxyImplAddress
<1>1. Len(carriedOut) \in Nat /\ changes \in SUBSET (1..Len(carriedOut)) BY DEF EffectsTypeOK
<1>2. \E i \in changes : \A j \in changes : j <= i BY <1>1, LastPosition
<1>3. final \in changes BY <1>2
<1>4. getProxyImplAddress(c) = carriedOut[final].version BY DEF getProxyImplAddress
<1> QED BY <1>3, <1>4

\* No file goes back, and a script never loses track of what it recorded.
LEMMA FilesStep ==
  ASSUME RecordInv, [Next]_vars
  PROVE  FilesInOrder' /\ \A c \in Contracts : record[c] <= record'[c]
<1> USE DEF RecordInv, UpgradesInv, ScriptTypeOK, FilesInOrder
<1>0. /\ \A v \in Versions : v \in Int
      /\ \A d \in Contracts : source[d] \in Int /\ implementation[d] \in Int /\ record[d] \in Int
      /\ \A d \in Contracts : record[d] <= source[d]
  <2>1. \A v \in Versions : v \in Int BY UpgradesAssumption DEF Versions
  <2>2. \A d \in Contracts : source[d] \in Int /\ implementation[d] \in Int /\ record[d] \in Int
    BY <2>1
  <2> QED BY <2>1, <2>2
<1> HIDE DEF ScriptTypeOK, RecordInv, UpgradesInv
<1>00. /\ source \in [Contracts -> Versions] /\ implementation \in [Contracts -> Versions]
       /\ record \in [Contracts -> Versions] /\ todo \subseteq Contracts /\ at \in Contracts
       /\ \A d \in Contracts : record[d] <= implementation[d] /\ implementation[d] <= source[d]
  BY DEF ScriptTypeOK, RecordInv, UpgradesInv
<1>1. ASSUME NEW c \in todo, deploy(c)
      PROVE  FilesInOrder' /\ \A d \in Contracts : record[d] <= record'[d]
  BY <1>0, <1>00, <1>1 DEF deploy
<1>2. ASSUME NEW c \in todo, deployContractUpgrade(c)
      PROVE  FilesInOrder' /\ \A d \in Contracts : record[d] <= record'[d]
  BY <1>0, <1>00, <1>2 DEF deployContractUpgrade
<1>3. ASSUME \/ rewriteUpgradedDeployment \/ exportDeployment
      PROVE  FilesInOrder' /\ \A d \in Contracts : record[d] <= record'[d]
  BY <1>0, <1>00, <1>3 DEF rewriteUpgradedDeployment, exportDeployment
<1>4. CASE Release
  <2>1. PICK c \in Contracts :
          source[c] < MaxVersion /\ source' = [source EXCEPT ![c] = source[c] + 1]
    BY <1>4 DEF Release
  <2>2. UNCHANGED <<implementation, record>> BY <1>4 DEF Release
  <2> QED BY <1>0, <1>00, <2>1, <2>2
<1>5. ASSUME \/ openzeppelin_assertIsValidUpgrade \/ AssertionFails
             \/ openzeppelin_saveDeploymentManifest \/ changeImplementations \/ ExecuteDeferred
             \/ SendTransaction \/ ProposeChange \/ Start \/ Interrupt \/ writeManifest
             \/ SafeActs \/ UNCHANGED vars
      PROVE  FilesInOrder' /\ \A d \in Contracts : record[d] <= record'[d]
  <2>1. UNCHANGED <<source, implementation, record>>
    BY <1>5 DEF openzeppelin_assertIsValidUpgrade, AssertionFails,
      openzeppelin_saveDeploymentManifest, changeImplementations, ExecuteDeferred, SendTransaction,
      ProposeChange, Start, Interrupt, writeManifest, SafeActs, vars, files
  <2> QED BY <1>0, <1>00, <2>1
<1> QED BY <1>1, <1>2, <1>3, <1>4, <1>5 DEF Next, Script

\* What a script did to contracts it is done with stays done while it runs.
LEMMA WorkStep ==
  ASSUME RecordInv, [Next]_vars
  PROVE  WorkRecorded'
<1> USE DEF RecordInv, UpgradesInv, ScriptTypeOK, WorkRecorded, UpToDate
<1>1. ASSUME NEW c \in todo, deploy(c) PROVE WorkRecorded'
  BY <1>1 DEF deploy, At, Go, FilesInOrder
<1>2. ASSUME NEW c \in todo, deployContractUpgrade(c) PROVE WorkRecorded'
  BY <1>2 DEF deployContractUpgrade, At, Go, FilesInOrder
<1>3. CASE openzeppelin_assertIsValidUpgrade
  BY <1>3 DEF openzeppelin_assertIsValidUpgrade, At, Go, files
<1>4. CASE rewriteUpgradedDeployment
  BY <1>4 DEF rewriteUpgradedDeployment, At, Go, FilesInOrder
<1>5. CASE exportDeployment
  BY <1>5 DEF exportDeployment, At, Go, FilesInOrder
<1>6. ASSUME NEW s \in {"add", "end"}, Continue(s), status = "running",
             step \in {"save", "propose"}, UNCHANGED <<implementation, record>>
      PROVE  WorkRecorded'
  <2>1. /\ upgraded' = Append(upgraded, at) /\ upgraded \in Seq(Contracts) /\ at \in Contracts
        /\ step' \in {"add", "end", "deploy"} /\ UNCHANGED <<todo, at>>
    BY <1>6 DEF Continue
  <2>2. UpToDate(at) /\ at \notin todo BY <1>6
  <2>3. \A k \in DOMAIN upgraded' : upgraded'[k] = at \/ \E j \in DOMAIN upgraded : upgraded'[k] = upgraded[j]
    BY <2>1
  <2>4. \A k \in DOMAIN upgraded' : upgraded'[k] \notin todo' /\ UpToDate(upgraded'[k])
    BY <1>6, <2>1, <2>2, <2>3
  <2> QED BY <1>6, <2>1, <2>2, <2>4
<1>7. CASE openzeppelin_saveDeploymentManifest
  BY <1>6, <1>7 DEF openzeppelin_saveDeploymentManifest, At
<1>8. CASE ProposeChange
  BY <1>6, <1>8 DEF ProposeChange, At, files
<1>9. CASE changeImplementations
  BY <1>9 DEF changeImplementations, At, Go, files
<1>10. CASE ExecuteDeferred
  BY <1>10 DEF ExecuteDeferred, At, files
<1>11. CASE SendTransaction
  BY <1>11 DEF SendTransaction, At, files
<1>12. CASE Start
  <2>1. upgraded' = <<>> /\ step' = "deploy" BY <1>12 DEF Start
  <2> QED BY <2>1
<1>13. ASSUME AssertionFails \/ Interrupt PROVE WorkRecorded'
  <2>1. status' = "aborted" BY <1>13 DEF AssertionFails, Interrupt
  <2> QED BY <2>1
<1>14. ASSUME Release \/ writeManifest PROVE WorkRecorded'
  <2>1. status' = status /\ status # "running" BY <1>14 DEF Release, writeManifest, scriptVars
  <2> QED BY <2>1
<1>15. ASSUME SafeActs \/ UNCHANGED vars PROVE WorkRecorded'
  BY <1>15 DEF SafeActs, vars, files, scriptVars
<1> QED
  BY <1>1, <1>2, <1>3, <1>4, <1>5, <1>7, <1>8, <1>9, <1>10, <1>11, <1>12, <1>13, <1>14, <1>15
  DEF Next, Script

\* What is recorded stays recorded in a record that did not go back.
LEMMA RecordedStays ==
  ASSUME NEW rec \in [Contracts -> Versions], NEW later \in [Contracts -> Versions],
         \A c \in Contracts : rec[c] <= later[c],
         NEW txs \in Seq(Effect), RecordedIn(rec, txs)
  PROVE  RecordedIn(later, txs)
<1>1. \A v \in Versions : v \in Int BY UpgradesAssumption DEF Versions
<1> SUFFICES ASSUME NEW k \in DOMAIN txs PROVE txs[k].version <= later[txs[k].contract]
  BY DEF RecordedIn
<1>2. txs[k] \in [contract : Contracts, version : Versions, by : Tools]
  <2>1. txs[k] \in Effect OBVIOUS
  <2> QED BY <2>1, UpgradesAssumption
<1>3. txs[k].version <= rec[txs[k].contract] BY DEF RecordedIn
<1>4. /\ rec[txs[k].contract] \in Int /\ later[txs[k].contract] \in Int /\ txs[k].version \in Int
      /\ rec[txs[k].contract] <= later[txs[k].contract]
  BY <1>1, <1>2
<1> QED BY <1>3, <1>4

\* Two recorded sequences are recorded one after the other.
LEMMA RecordedTogether ==
  ASSUME NEW rec, NEW txs \in Seq(Effect), NEW more \in Seq(Effect),
         RecordedIn(rec, txs), RecordedIn(rec, more)
  PROVE  RecordedIn(rec, txs \o more)
<1> SUFFICES ASSUME NEW k \in DOMAIN (txs \o more)
             PROVE  (txs \o more)[k].version <= rec[(txs \o more)[k].contract]
  BY DEF RecordedIn
<1>1. \/ k \in DOMAIN txs /\ (txs \o more)[k] = txs[k]
      \/ k - Len(txs) \in DOMAIN more /\ (txs \o more)[k] = more[k - Len(txs)]
  OBVIOUS
<1> QED BY <1>1 DEF RecordedIn

\* The first transaction of a recorded sequence, and the rest of it.
LEMMA RecordedParts ==
  ASSUME NEW rec, NEW txs \in Seq(Effect), txs # <<>>, RecordedIn(rec, txs)
  PROVE  /\ RecordedIn(rec, Tail(txs)) /\ RecordedIn(rec, <<Head(txs)>>)
         /\ Tail(txs) \in Seq(Effect) /\ <<Head(txs)>> \in Seq(Effect)
<1>1. Len(txs) \in Nat \ {0} /\ Tail(txs) \in Seq(Effect) /\ Head(txs) = txs[1] /\ 1 \in DOMAIN txs
  OBVIOUS
<1>2. \A k \in DOMAIN Tail(txs) : k + 1 \in DOMAIN txs /\ Tail(txs)[k] = txs[k + 1] BY <1>1
<1>3. RecordedIn(rec, Tail(txs)) BY <1>2 DEF RecordedIn
<1>4. RecordedIn(rec, <<Head(txs)>>) BY <1>1 DEF RecordedIn
<1> QED BY <1>1, <1>3, <1>4

\* The effects of a step, given that all that was there is recorded anew.
LEMMA EffectsStep ==
  ASSUME RecordInv, UpgradesInv', [Next]_vars,
         RecordedIn(record', carriedOut), RecordedIn(record', deferredEffects),
         \A i \in DOMAIN submissions : RecordedIn(record', submissions[i].txs),
         record' \in [Contracts -> Versions]
  PROVE  AllRecorded'
<1> DEFINE later == record'
<1>0. /\ carriedOut \in Seq(Effect) /\ deferredEffects \in Seq(Effect)
      /\ submissions \in Seq(Submission) /\ EffectsInv /\ ScriptTypeOK
      /\ \A i \in DOMAIN submissions : submissions[i].txs \in Seq(Effect)
  <2>1. /\ carriedOut \in Seq(Effect) /\ deferredEffects \in Seq(Effect)
        /\ submissions \in Seq(Submission) /\ EffectsInv /\ ScriptTypeOK
    BY DEF RecordInv, UpgradesInv, EffectsTypeOK, EffectsInv
  <2>2. \A i \in DOMAIN submissions : submissions[i] \in Submission BY <2>1
  <2> QED BY <2>1, <2>2 DEF Submission
<1>1. ASSUME UNCHANGED effectsVars PROVE AllRecorded'
  BY <1>1 DEF effectsVars, AllRecorded
<1>2. ASSUME NEW txs \in Seq(Effect), RecordedIn(later, txs), NEW st, submit(txs, st)
      PROVE  AllRecorded'
  <2>1. /\ submissions' = Append(submissions, [txs |-> txs, approvals |-> {}, status |-> st])
        /\ UNCHANGED <<deferredEffects, carriedOut>>
    BY <1>2 DEF submit
  <2>2. \A i \in DOMAIN submissions' :
          submissions'[i].txs = txs \/ \E j \in DOMAIN submissions : submissions'[i] = submissions[j]
    BY <1>0, <2>1
  <2> QED BY <1>2, <2>1, <2>2 DEF AllRecorded
<1>3. ASSUME NEW i \in DOMAIN submissions, NEW new,
             submissions' = [submissions EXCEPT ![i] = new], RecordedIn(later, new.txs),
             RecordedIn(later, carriedOut'), UNCHANGED deferredEffects
      PROVE  AllRecorded'
  <2>1. \A j \in DOMAIN submissions' : j \in DOMAIN submissions /\ submissions'[j] \in {new, submissions[j]}
    BY <1>0, <1>3
  <2> QED BY <1>3, <2>1 DEF AllRecorded
<1>4. ASSUME NEW c \in todo, deploy(c) PROVE AllRecorded'
  <2> DEFINE tx == [contract |-> c, version |-> source[c], by |-> tool]
  <2>1. CASE UNCHANGED effectsVars BY <1>1, <2>1
  <2>2. CASE sendAsAccount(tx) /\ source[c] # implementation[c] /\ ~multisig
    <3>1. c \in Contracts /\ tx \in Effect BY <1>0, EffectsAreTyped DEF ScriptTypeOK
    <3>2. record' = [record EXCEPT ![c] = source[c]] BY <1>4, <2>2 DEF deploy
    <3>3. record'[c] = source[c] /\ source[c] \in Int
      BY <1>0, <3>1, <3>2, UpgradesAssumption DEF RecordInv, FilesInOrder, ScriptTypeOK, Versions
    <3>4. RecordedIn(later, <<tx>>) BY <3>3 DEF RecordedIn
    <3>5. carriedOut' = carriedOut \o <<tx>> /\ UNCHANGED <<deferredEffects, submissions>>
      BY <1>0, <2>2, <3>1 DEF sendAsAccount
    <3> HIDE DEF tx
    <3>6. <<tx>> \in Seq(Effect) BY <3>1
    <3>7. RecordedIn(later, carriedOut') BY <1>0, <3>4, <3>5, <3>6, RecordedTogether
    <3> QED BY <3>5, <3>7 DEF AllRecorded
  <2> QED BY <1>4, <2>1, <2>2 DEF deploy
<1>5. CASE changeImplementations
  <2> DEFINE more == [i \in 1..Len(upgraded) |-> changeImplementation(upgraded[i])]
  <2>1. /\ deferredEffects' = deferredEffects \o more /\ UNCHANGED <<submissions, carriedOut, record>>
        /\ \A k \in DOMAIN upgraded : UpToDate(upgraded[k])
    BY <1>5 DEF changeImplementations, At, add, files, RecordInv, WorkRecorded
  <2>2. more \in Seq(Effect) BY <1>0, EffectsAreTyped
  <2>3. \A c \in Contracts : record[c] \in Int
    BY UpgradesAssumption DEF RecordInv, FilesInOrder, Versions
  <2>4. upgraded \in Seq(Contracts) BY <1>0 DEF ScriptTypeOK
  <2>5. RecordedIn(record, more)
    BY <2>1, <2>3, <2>4 DEF RecordedIn, changeImplementation, UpToDate
  <2>6. RecordedIn(later, deferredEffects') BY <1>0, <2>1, <2>2, <2>5, RecordedTogether
  <2> QED BY <2>1, <2>6 DEF AllRecorded
<1>6. CASE ExecuteDeferred
  <2>1. \E st : submit(deferredEffects, st) BY <1>6 DEF ExecuteDeferred, executeDeferred, execute
  <2> QED BY <1>0, <1>2, <2>1
<1>7. CASE SendTransaction
  <2> DEFINE txs == submissions[last].txs
  <2>1. /\ last \in DOMAIN submissions /\ txs # <<>> /\ carriedOut' = Append(carriedOut, Head(txs))
        /\ submissions' = [submissions EXCEPT ![last] = [submissions[last] EXCEPT !.txs = Tail(txs)]]
        /\ UNCHANGED deferredEffects
    BY <1>0, <1>7 DEF SendTransaction, sendTransaction, last
  <2>2. txs \in Seq(Effect) /\ RecordedIn(later, txs) BY <1>0, <2>1
  <2> HIDE DEF txs
  <2>3. /\ RecordedIn(later, Tail(txs)) /\ RecordedIn(later, <<Head(txs)>>)
        /\ <<Head(txs)>> \in Seq(Effect)
    BY <2>1, <2>2, RecordedParts
  <2>4. carriedOut' = carriedOut \o <<Head(txs)>> BY <1>0, <2>1
  <2>5. RecordedIn(later, carriedOut') BY <1>0, <2>3, <2>4, RecordedTogether
  <2>6. submissions[last] \in Submission BY <1>0, <2>1
  <2>7. [submissions[last] EXCEPT !.txs = Tail(txs)].txs = Tail(txs) BY <2>6 DEF Submission
  <2> QED BY <1>3, <2>1, <2>3, <2>5, <2>7
<1>8. CASE ProposeChange
  <2>1. CASE UNCHANGED effectsVars BY <1>1, <2>1
  <2>2. CASE createProposal(changeImplementation(at))
    <3>1. at \in Contracts /\ <<changeImplementation(at)>> \in Seq(Effect)
      BY <1>0, EffectsAreTyped DEF ScriptTypeOK
    <3>2. record[at] = implementation[at] /\ UNCHANGED record
      BY <1>8 DEF ProposeChange, At, RecordInv, WorkRecorded, UpToDate, files
    <3>3. record[at] \in Int BY <3>1, UpgradesAssumption DEF RecordInv, FilesInOrder, Versions
    <3>4. RecordedIn(later, <<changeImplementation(at)>>)
      BY <3>2, <3>3 DEF RecordedIn, changeImplementation
    <3> QED BY <1>2, <2>2, <3>1, <3>4 DEF createProposal
  <2> QED BY <1>8, <2>1, <2>2 DEF ProposeChange
<1>9. CASE Start
  <2>1. deferredEffects' = <<>> /\ UNCHANGED <<submissions, carriedOut>>
    BY <1>9 DEF Start, getDeployEffects
  <2> QED BY <2>1 DEF AllRecorded, RecordedIn
<1>10. CASE SafeActs
  <2>1. PICK i \in DOMAIN submissions :
          (\E o \in SafeOwners : Approve(i, o)) \/ execTransaction(i) \/ Reject(i)
    BY <1>10 DEF SafeActs, Safe
  <2>2. submissions[i] \in Submission /\ submissions[i].txs \in Seq(Effect)
        /\ RecordedIn(later, submissions[i].txs)
    BY <1>0
  <2>3. PICK new : /\ submissions' = [submissions EXCEPT ![i] = new] /\ new.txs = submissions[i].txs
                   /\ carriedOut' \in {carriedOut, carriedOut \o submissions[i].txs}
                   /\ UNCHANGED deferredEffects
    BY <2>1, <2>2 DEF Approve, execTransaction, Reject, Submission
  <2>4. RecordedIn(later, carriedOut') BY <1>0, <2>2, <2>3, RecordedTogether
  <2> QED BY <1>3, <2>2, <2>3, <2>4
<1>11. ASSUME \/ \E c \in todo : deployContractUpgrade(c)
              \/ openzeppelin_assertIsValidUpgrade \/ AssertionFails
              \/ rewriteUpgradedDeployment \/ openzeppelin_saveDeploymentManifest
              \/ exportDeployment \/ Interrupt \/ Release \/ writeManifest \/ UNCHANGED vars
       PROVE AllRecorded'
  <2>1. UNCHANGED effectsVars
    BY <1>11 DEF deployContractUpgrade, openzeppelin_assertIsValidUpgrade, AssertionFails,
      rewriteUpgradedDeployment, openzeppelin_saveDeploymentManifest, exportDeployment, Interrupt,
      Release, writeManifest, vars
  <2> QED BY <1>1, <2>1
<1> QED BY <1>4, <1>5, <1>6, <1>7, <1>8, <1>9, <1>10, <1>11 DEF Next, Script

\* RecordInv is about all that the owner did or may do; the property follows.
LEMMA RecordFromInv == RecordInv => RecordLeadsChain
<1> SUFFICES ASSUME RecordInv, NEW c \in Contracts
             PROVE  /\ getProxyImplAddress(c) <= record[c]
                    /\ \A i \in DOMAIN submissions : \A k \in DOMAIN submissions[i].txs :
                         submissions[i].txs[k].contract = c =>
                           submissions[i].txs[k].version <= record[c]
  BY DEF RecordLeadsChain
<1>1. record[c] \in Versions /\ 1 <= record[c]
  BY UpgradesAssumption DEF RecordInv, FilesInOrder, Versions
<1>2. getProxyImplAddress(c) <= record[c]
  BY <1>1, ImplementationIsCarriedOut DEF RecordInv, UpgradesInv, AllRecorded, RecordedIn
<1> QED BY <1>2 DEF RecordInv, AllRecorded, RecordedIn

\* The files, the memory of the run and the effects, at any time.
THEOREM RecordInvariant == Spec => []RecordInv
<1>1. ASSUME Init, UpgradesInv PROVE RecordInv
  <2>1. /\ submissions = <<>> /\ deferredEffects = <<>> /\ carriedOut = <<>>
        /\ source = [c \in Contracts |-> 1] /\ implementation = source /\ record = source
        /\ status = "idle"
    BY <1>1 DEF Init, EffectsInit
  <2>2. AllRecorded BY <2>1 DEF AllRecorded, RecordedIn
  <2>3. FilesInOrder BY <2>1, UpgradesAssumption DEF FilesInOrder, Versions
  <2>4. WorkRecorded BY <2>1 DEF WorkRecorded
  <2> QED BY <1>1, <2>2, <2>3, <2>4 DEF RecordInv
<1>2. ASSUME RecordInv, UpgradesInv', [Next]_vars PROVE RecordInv'
  <2>1. FilesInOrder' /\ WorkRecorded' /\ \A c \in Contracts : record[c] <= record'[c]
    BY <1>2, FilesStep, WorkStep
  <2>2. /\ record \in [Contracts -> Versions] /\ record' \in [Contracts -> Versions]
        /\ AllRecorded /\ carriedOut \in Seq(Effect) /\ deferredEffects \in Seq(Effect)
        /\ submissions \in Seq(Submission)
    BY <1>2, <2>1 DEF RecordInv, FilesInOrder, UpgradesInv, EffectsTypeOK
  <2>3. \A i \in DOMAIN submissions : submissions[i].txs \in Seq(Effect)
    <3>1. \A i \in DOMAIN submissions : submissions[i] \in Submission BY <2>2
    <3> QED BY <3>1 DEF Submission
  <2>4. /\ RecordedIn(record', carriedOut) /\ RecordedIn(record', deferredEffects)
        /\ \A i \in DOMAIN submissions : RecordedIn(record', submissions[i].txs)
    BY <2>1, <2>2, <2>3, RecordedStays DEF AllRecorded
  <2>5. AllRecorded' BY <1>2, <2>2, <2>4, EffectsStep
  <2> QED BY <1>2, <2>1, <2>5 DEF RecordInv
<1> QED BY <1>1, <1>2, UpgradesInvariant, PTL DEF Spec

\* For any contracts and versions, wherever a run stops and whatever the safe
\* does: what a proxy runs or is proposed to run is in the deployments folder.
THEOREM RecordAlwaysLeads == Spec => []RecordLeadsChain
BY RecordInvariant, RecordFromInv, PTL

----------------------------------------------------------------------------
(* The version that a sequence of changes leaves a contract with.             *)

Before(s, n, c) ==
  LET changes == {i \in 1..n : s[i].contract = c}
  IN IF changes = {} THEN 1
     ELSE s[CHOOSE i \in changes : \A j \in changes : j <= i].version

OneEach(txs) == \A j, k \in DOMAIN txs : txs[j].contract = txs[k].contract => j = k

\* Sequences that agree up to m, the longer without a change of c after m.
Untouched(s, m, t, n, c) ==
  /\ m \in Nat /\ n \in Nat /\ m <= n
  /\ \A i \in 1..m : s[i] = t[i]
  /\ \A i \in (m + 1)..n : t[i].contract # c

\* They leave c with the same version.
LEMMA BeforeUntouched ==
  ASSUME NEW s, NEW t, NEW m, NEW n, NEW c, Untouched(s, m, t, n, c)
  PROVE  Before(t, n, c) = Before(s, m, c)
<1>0. /\ m \in Nat /\ n \in Nat /\ m <= n
      /\ \A i \in 1..m : s[i] = t[i]
      /\ \A i \in (m + 1)..n : t[i].contract # c
  BY DEF Untouched
<1> DEFINE S == {i \in 1..m : s[i].contract = c}
           T == {i \in 1..n : t[i].contract = c}
<1>1. \A i \in 1..n : i \in 1..m \/ i \in (m + 1)..n BY <1>0
<1>2. \A i \in 1..m : i \in 1..n BY <1>0
<1>3. S = T BY <1>0, <1>1, <1>2
<1>4. CASE S = {} BY <1>3, <1>4 DEF Before
<1>5. CASE S # {}
  <2> DEFINE final == CHOOSE i \in S : \A j \in S : j <= i
  <2>1. \E i \in S : \A j \in S : j <= i
    <3>1. S \in SUBSET (1..m) OBVIOUS
    <3> QED BY <1>0, <1>5, <3>1, LastPosition
  <2>2. final \in S BY <2>1
  <2>3. s[final] = t[final] BY <1>0, <2>2
  <2>4. Before(s, m, c) = s[final].version BY <1>5 DEF Before
  <2>5. Before(t, n, c) = t[final].version BY <1>3, <1>5 DEF Before
  <2> QED BY <2>3, <2>4, <2>5
<1> QED BY <1>4, <1>5

\* A position without a later change of its contract.
LEMMA BeforeLast ==
  ASSUME NEW t, NEW n \in Nat, NEW k \in 1..n,
         \A i \in (k + 1)..n : t[i].contract # t[k].contract
  PROVE  Before(t, n, t[k].contract) = t[k].version
<1> DEFINE c == t[k].contract
           T == {i \in 1..n : t[i].contract = c}
           final == CHOOSE i \in T : \A j \in T : j <= i
<1>1. k \in T OBVIOUS
<1>2. \A j \in T : j <= k
  <2> SUFFICES ASSUME NEW j \in T, ~(j <= k) PROVE FALSE OBVIOUS
  <2>1. j \in (k + 1)..n OBVIOUS
  <2> QED BY <2>1
<1>3. final \in T /\ \A j \in T : j <= final BY <1>1, <1>2
<1>4. final = k BY <1>1, <1>2, <1>3
<1>5. Before(t, n, c) = t[final].version BY <1>1 DEF Before
<1> QED BY <1>4, <1>5

\* A submission with one transaction per contract, carried out as a whole.
Appended(s, txs, t) ==
  s \in Seq(Effect) /\ txs \in Seq(Effect) /\ OneEach(txs) /\ t = s \o txs

\* Where it leaves each contract.
LEMMA BeforeConcatenated ==
  ASSUME NEW s, NEW txs, NEW t, Appended(s, txs, t), NEW c
  PROVE  /\ (\A k \in DOMAIN txs : txs[k].contract # c) =>
              Before(t, Len(t), c) = Before(s, Len(s), c)
         /\ \A k \in DOMAIN txs :
              txs[k].contract = c => Before(t, Len(t), c) = txs[k].version
<1> DEFINE m == Len(s)  n == Len(t)
<1>1. /\ m \in Nat /\ n \in Nat /\ m <= n /\ n = m + Len(txs) /\ Len(txs) \in Nat
      /\ \A i \in 1..m : s[i] = t[i]
      /\ \A i \in (m + 1)..n : i - m \in DOMAIN txs /\ t[i] = txs[i - m]
      /\ DOMAIN txs = 1..Len(txs)
  BY DEF Appended
<1> HIDE DEF m, n
<1>3. ASSUME \A k \in DOMAIN txs : txs[k].contract # c
      PROVE  Before(t, n, c) = Before(s, m, c)
  <2>1. \A i \in (m + 1)..n : t[i].contract # c BY <1>1, <1>3
  <2>2. Untouched(s, m, t, n, c) BY <1>1, <2>1 DEF Untouched
  <2> QED BY <2>2, BeforeUntouched
<1>4. ASSUME NEW k \in DOMAIN txs, txs[k].contract = c
      PROVE  Before(t, n, c) = txs[k].version
  <2> DEFINE l == m + k
  <2>1. l \in 1..n /\ t[l] = txs[k] /\ l \in (m + 1)..n /\ l - m = k
    <3>1. k \in 1..Len(txs) BY <1>1
    <3>2. l \in (m + 1)..n /\ l \in 1..n /\ l - m = k BY <1>1, <3>1
    <3> QED BY <1>1, <3>2
  <2>2. \A i \in (l + 1)..n : t[i].contract # t[l].contract
    <3> SUFFICES ASSUME NEW i \in (l + 1)..n PROVE t[i].contract # t[l].contract OBVIOUS
    <3>1. i \in (m + 1)..n /\ i - m # k BY <1>1, <2>1
    <3> QED BY <1>1, <1>4, <2>1, <3>1 DEF Appended, OneEach
  <2> HIDE DEF l
  <2>3. Before(t, n, t[l].contract) = t[l].version BY <1>1, <2>1, <2>2, BeforeLast
  <2> QED BY <1>4, <2>1, <2>3
<1> QED BY <1>3, <1>4 DEF m, n

\* What was before a position: the history does not change, and what is
\* carried out starts from where the history left each contract.
LEMMA BeforeWithin ==
  ASSUME NEW s, NEW txs, NEW t, Appended(s, txs, t)
  PROVE  /\ \A k \in DOMAIN s :
              /\ t[k] = s[k] /\ k \in DOMAIN t
              /\ Before(t, k - 1, t[k].contract) = Before(s, k - 1, s[k].contract)
         /\ \A k \in DOMAIN t :
              k \notin DOMAIN s =>
                /\ k - Len(s) \in DOMAIN txs /\ t[k] = txs[k - Len(s)]
                /\ Before(t, k - 1, t[k].contract) = Before(s, Len(s), t[k].contract)
<1> DEFINE m == Len(s)  n == Len(t)
<1>1. /\ m \in Nat /\ n \in Nat /\ m <= n /\ DOMAIN s = 1..m /\ DOMAIN t = 1..n
      /\ \A i \in 1..m : s[i] = t[i]
      /\ \A i \in (m + 1)..n : i - m \in DOMAIN txs /\ t[i] = txs[i - m]
  BY DEF Appended
<1> HIDE DEF m, n
<1>2. ASSUME NEW k \in 1..m
      PROVE  Before(t, k - 1, t[k].contract) = Before(s, k - 1, s[k].contract)
  <2> DEFINE l == k - 1  d == s[k].contract
  <2>1. l \in Nat /\ l <= l /\ \A i \in 1..l : i \in 1..m BY <1>1
  <2>2. (\A i \in 1..l : s[i] = t[i]) /\ d = t[k].contract BY <1>1, <2>1
  <2>3. \A i \in (l + 1)..l : t[i].contract # d BY <2>1
  <2> HIDE DEF l, d
  <2>5. Untouched(s, l, t, l, d) BY <2>1, <2>2, <2>3 DEF Untouched
  <2>4. Before(t, l, d) = Before(s, l, d) BY <2>5, BeforeUntouched
  <2> QED BY <2>2, <2>4 DEF l, d
<1>3. ASSUME NEW k \in (m + 1)..n
      PROVE  Before(t, k - 1, t[k].contract) = Before(s, m, t[k].contract)
  <2> DEFINE l == k - 1  d == t[k].contract
  <2>1. l \in Nat /\ m <= l BY <1>1
  <2>2. \A i \in (m + 1)..l : t[i].contract # d
    <3> SUFFICES ASSUME NEW i \in (m + 1)..l PROVE t[i].contract # d OBVIOUS
    <3>1. i \in (m + 1)..n /\ i - m # k - m BY <1>1
    <3>2. /\ i - m \in DOMAIN txs /\ k - m \in DOMAIN txs
          /\ t[i] = txs[i - m] /\ t[k] = txs[k - m]
      BY <1>1, <3>1
    <3> QED BY <3>1, <3>2 DEF Appended, OneEach
  <2> HIDE DEF l, d
  <2>4. Untouched(s, m, t, l, d) BY <1>1, <2>1, <2>2 DEF Untouched
  <2>3. Before(t, l, d) = Before(s, m, d) BY <2>4, BeforeUntouched
  <2> QED BY <2>3 DEF l, d
<1>4. \A k \in 1..n : k \notin 1..m => k \in (m + 1)..n BY <1>1
<1>5. \A k \in 1..m : k \in 1..n BY <1>1
<1> QED BY <1>1, <1>2, <1>3, <1>4, <1>5 DEF m

\* getProxyImplAddress and VersionBefore say where the history left a contract.
LEMMA HistoryOfChain ==
  ASSUME EffectsTypeOK
  PROVE  /\ \A c : getProxyImplAddress(c) = Before(carriedOut, Len(carriedOut), c)
         /\ \A k \in DOMAIN carriedOut :
              VersionBefore(k) = Before(carriedOut, k - 1, carriedOut[k].contract)
<1>1. DOMAIN carriedOut = 1..Len(carriedOut) BY DEF EffectsTypeOK
<1> QED BY <1>1 DEF getProxyImplAddress, VersionBefore, Before

----------------------------------------------------------------------------
(* The invariant.                                                             *)

Pending(i) == submissions[i].status = "pending"
In(list, c) == \E k \in DOMAIN list : list[k] = c
InUpgraded(c) == In(upgraded, c)
\* The run has the contract before it, in work or behind it.
Taken(c) ==
  \/ c \in todo \/ InUpgraded(c)
  \/ c = at /\ step \in {"validate", "rewrite", "save", "export", "propose"}

TxsOf(i) == {submissions[i].txs[k] : k \in DOMAIN submissions[i].txs}
About(i, c) == \E tx \in TxsOf(i) : tx.contract = c

\* What waits about a contract that is not contended.
Fits(tx) ==
  tx.by = "upgradeContracts" => <<getProxyImplAddress(tx.contract), tx.version>> \in Compatible
Alone(i, c) == \A j \in DOMAIN submissions : Pending(j) /\ About(j, c) => j = i
OfThisRun(tx) ==
  tool \in Upgrade /\ InUpgraded(tx.contract) /\ tx.version = implementation[tx.contract]
Settled(i, tx) ==
  /\ Fits(tx) /\ Alone(i, tx.contract)
  /\ status = "running" /\ Taken(tx.contract) => OfThisRun(tx)

\* What waits at the safe.
PendingInv ==
  multisig =>
    \A i \in DOMAIN submissions :
      Pending(i) =>
        /\ OneEach(submissions[i].txs)
        /\ \A tx \in TxsOf(i) : tx.contract \notin contended => Settled(i, tx)

\* What a run has in its memory.
ListInv ==
  status = "running" =>
    /\ \A j, k \in DOMAIN upgraded : upgraded[j] = upgraded[k] => j = k
    /\ \A c \in Contracts : InUpgraded(c) => implementation[c] = source[c]
    /\ step \in {"validate", "rewrite", "save", "export", "propose"} =>
         ~InUpgraded(at) /\ implementation[at] = source[at]
    /\ tool \in Upgrade => multisig

planned == [i \in 1..Len(upgraded) |-> changeImplementation(upgraded[i])]
CollectionInv ==
  status = "running" /\ tool = "upgradeContracts" =>
    /\ step \in {"deploy", "validate", "rewrite", "save", "add"} => deferredEffects = <<>>
    /\ step = "execute" => deferredEffects = planned

\* What it knows of the chain.
Proposed(c) ==
  \E i \in DOMAIN submissions : \E k \in DOMAIN submissions[i].txs :
    /\ i > earlier /\ submissions[i].txs[k].contract = c
    /\ submissions[i].txs[k].version = source[c]
EarlierInv == multisig => earlier \in Nat /\ earlier <= Len(submissions)
ValidatedInv ==
  multisig /\ status = "running" /\ tool = "upgradeContracts" =>
    \A c \in Contracts \ contended :
      InUpgraded(c) \/ (c = at /\ step \in {"rewrite", "save"}) =>
        <<getProxyImplAddress(c), implementation[c]>> \in Compatible
DoneInv ==
  status = "running" /\ tool \in Upgrade =>
    /\ step \in {"export", "propose"} /\ at \notin contended =>
         currentImplementation = getProxyImplAddress(at)
    /\ tool = "upgrade" =>
         \A c \in Contracts \ contended :
           InUpgraded(c) => getProxyImplAddress(c) = source[c] \/ Proposed(c)

\* An account of the node changes its proxies at once.
LocalInv ==
  ~multisig =>
    /\ \A i \in DOMAIN submissions : ~Pending(i)
    /\ \A c \in Contracts : getProxyImplAddress(c) = implementation[c]
    /\ status = "running" /\ step = "send" =>
         \A k \in DOMAIN submissions[last].txs :
           submissions[last].txs[k].version = implementation[submissions[last].txs[k].contract]

RunsInv ==
  /\ RecordInv /\ PendingInv /\ ListInv /\ CollectionInv /\ EarlierInv /\ ValidatedInv /\ DoneInv
  /\ LocalInv
  /\ ExecutedUpgradesAreCompatible

----------------------------------------------------------------------------
(* The steps, one lemma for each part.                                        *)

\* The owner of the proxies does not change.
LEMMA SameOwner ==
  ASSUME [Next]_vars
  PROVE  multisig' = multisig
<1>1. ASSUME NEW c \in todo, deploy(c) PROVE multisig' = multisig
  BY <1>1 DEF deploy, sendAsAccount, effectsVars
<1>2. ASSUME NEW c \in todo, deployContractUpgrade(c) PROVE multisig' = multisig
  BY <1>2 DEF deployContractUpgrade, effectsVars
<1>3. ASSUME \/ openzeppelin_assertIsValidUpgrade \/ AssertionFails \/ rewriteUpgradedDeployment
             \/ openzeppelin_saveDeploymentManifest \/ exportDeployment \/ Interrupt \/ Release
             \/ writeManifest \/ UNCHANGED vars
      PROVE  multisig' = multisig
  BY <1>3 DEF openzeppelin_assertIsValidUpgrade, AssertionFails, rewriteUpgradedDeployment,
    openzeppelin_saveDeploymentManifest, exportDeployment, Interrupt, Release, writeManifest, vars,
    effectsVars
<1>4. CASE changeImplementations
  BY <1>4 DEF changeImplementations, add
<1>5. CASE ExecuteDeferred
  BY <1>5 DEF ExecuteDeferred, executeDeferred, execute, submit
<1>6. CASE SendTransaction
  BY <1>6 DEF SendTransaction, sendTransaction
<1>7. CASE ProposeChange
  BY <1>7 DEF ProposeChange, createProposal, submit, effectsVars
<1>8. CASE Start
  BY <1>8 DEF Start, getDeployEffects
<1>9. CASE SafeActs
  BY <1>9 DEF SafeActs, Safe, Approve, execTransaction, Reject
<1> QED BY <1>1, <1>2, <1>3, <1>4, <1>5, <1>6, <1>7, <1>8, <1>9 DEF Next, Script

\* Only the start of a run changes what the properties remember.
LEMMA HistoryStays ==
  ASSUME [Next]_vars
  PROVE  contended \subseteq contended' /\ (UNCHANGED history \/ Start)
<1>1. ASSUME NEW c \in todo, deploy(c) \/ deployContractUpgrade(c) PROVE UNCHANGED history
  BY <1>1 DEF deploy, deployContractUpgrade, Go
<1>2. ASSUME \/ openzeppelin_assertIsValidUpgrade \/ AssertionFails \/ rewriteUpgradedDeployment
             \/ openzeppelin_saveDeploymentManifest \/ exportDeployment \/ changeImplementations
             \/ ExecuteDeferred \/ SendTransaction \/ ProposeChange
      PROVE  UNCHANGED history
  BY <1>2 DEF openzeppelin_assertIsValidUpgrade, AssertionFails, rewriteUpgradedDeployment,
    openzeppelin_saveDeploymentManifest, exportDeployment, changeImplementations, ExecuteDeferred,
    SendTransaction, ProposeChange, Go, Continue
<1>3. ASSUME Interrupt \/ Release \/ writeManifest \/ SafeActs \/ UNCHANGED vars
      PROVE  UNCHANGED history
  BY <1>3 DEF Interrupt, Release, writeManifest, SafeActs, vars, scriptVars
<1>4. CASE Start BY <1>4 DEF Start
<1>5. UNCHANGED history => contended \subseteq contended' BY DEF history
<1> QED BY <1>1, <1>2, <1>3, <1>4, <1>5 DEF Next, Script

\* Steps that do not reach the chain leave the proxies as they are.
LEMMA SameProxies ==
  ASSUME UNCHANGED carriedOut
  PROVE  \A c : getProxyImplAddress(c)' = getProxyImplAddress(c)
BY DEF getProxyImplAddress

\* Continue takes up the contract in work.
LEMMA TakenUp ==
  ASSUME ScriptTypeOK, upgraded' = Append(upgraded, at)
  PROVE  \A c : InUpgraded(c)' <=> InUpgraded(c) \/ c = at
<1>1. upgraded \in Seq(Contracts) BY DEF ScriptTypeOK
<1>2. /\ \A k \in DOMAIN upgraded : k \in DOMAIN upgraded' /\ upgraded'[k] = upgraded[k]
      /\ Len(upgraded) + 1 \in DOMAIN upgraded' /\ upgraded'[Len(upgraded) + 1] = at
      /\ \A k \in DOMAIN upgraded' : k \in DOMAIN upgraded \/ k = Len(upgraded) + 1
  BY <1>1
<1> QED BY <1>2 DEF In, InUpgraded

\* A list never has a contract twice, and its implementations are those of the
\* working copy.
LEMMA ListStep ==
  ASSUME RunsInv, [Next]_vars
  PROVE  ListInv'
<1> USE SameOwner
<1>0. ScriptTypeOK /\ ListInv /\ WorkRecorded
  BY DEF RunsInv, RecordInv, UpgradesInv
<1>a. ASSUME UNCHANGED upgraded PROVE \A c : InUpgraded(c)' <=> InUpgraded(c)
  BY <1>a DEF In, InUpgraded
<1>b. at \in Contracts /\ todo \subseteq Contracts /\ implementation \in [Contracts -> Versions]
  BY <1>0 DEF ScriptTypeOK
<1>c. status = "running" => \A c \in todo : ~InUpgraded(c)
  BY <1>0 DEF WorkRecorded, In, InUpgraded
<1>1. ASSUME NEW c \in todo, deploy(c) \/ deployContractUpgrade(c) PROVE ListInv'
  <2>1. /\ status = "running" /\ UNCHANGED <<status, tool, upgraded, source>> /\ at' = c
        /\ implementation' = [implementation EXCEPT ![c] = source[c]]
    BY <1>1 DEF deploy, deployContractUpgrade, At, Go
  <2> QED BY <1>0, <1>a, <1>b, <1>c, <2>1 DEF ListInv
<1>2. ASSUME \/ openzeppelin_assertIsValidUpgrade \/ rewriteUpgradedDeployment \/ exportDeployment
             \/ changeImplementations \/ ExecuteDeferred \/ SendTransaction
      PROVE  ListInv'
  <2>1. /\ status = "running" /\ UNCHANGED <<tool, upgraded, source, implementation, at>>
        /\ step' \in {"validate", "rewrite", "save", "export", "propose"} =>
             step \in {"validate", "rewrite", "save", "export", "propose"}
    BY <1>2 DEF openzeppelin_assertIsValidUpgrade, rewriteUpgradedDeployment, exportDeployment,
      changeImplementations, ExecuteDeferred, SendTransaction, At, Go, files
  <2> QED BY <1>0, <1>a, <2>1 DEF ListInv
<1>3. ASSUME openzeppelin_saveDeploymentManifest \/ ProposeChange PROVE ListInv'
  <2>1. /\ status = "running" /\ step \in {"save", "propose"}
        /\ UNCHANGED <<tool, source, implementation, at>>
        /\ upgraded' = Append(upgraded, at) /\ step' \in {"deploy", "add", "end"}
    BY <1>3 DEF openzeppelin_saveDeploymentManifest, ProposeChange, At, Continue, files
  <2>2. \A c : InUpgraded(c)' <=> InUpgraded(c) \/ c = at BY <1>0, <2>1, TakenUp
  <2>3. \A j, k \in DOMAIN upgraded' : upgraded'[j] = upgraded'[k] => j = k
    <3>1. upgraded \in Seq(Contracts) BY <1>0 DEF ScriptTypeOK
    <3>2. \A k \in DOMAIN upgraded : upgraded[k] # at BY <1>0, <2>1 DEF ListInv, In, InUpgraded
    <3>3. \A j, k \in DOMAIN upgraded : upgraded[j] = upgraded[k] => j = k
      BY <1>0, <2>1 DEF ListInv
    <3> QED BY <2>1, <3>1, <3>2, <3>3
  <2> QED BY <1>0, <2>1, <2>2, <2>3 DEF ListInv
<1>4. CASE Start
  <2>1. upgraded' = <<>> /\ step' = "deploy" /\ tool' \in IF multisig THEN Tools ELSE {"upgradeContracts"}
    BY <1>4 DEF Start
  <2>2. (tool \in Upgrade)' => multisig BY <2>1 DEF Upgrade
  <2> QED BY <2>1, <2>2 DEF ListInv, In, InUpgraded
<1>5. ASSUME AssertionFails \/ Interrupt \/ Release \/ writeManifest PROVE ListInv'
  <2>1. status' # "running" BY <1>5 DEF AssertionFails, Interrupt, Release, writeManifest, scriptVars
  <2> QED BY <2>1 DEF ListInv
<1>6. ASSUME SafeActs \/ UNCHANGED vars PROVE ListInv'
  <2>1. UNCHANGED <<files, scriptVars>> BY <1>6 DEF SafeActs, vars
  <2> QED BY <1>0, <1>a, <2>1 DEF ListInv, files, scriptVars
<1> QED BY <1>1, <1>2, <1>3, <1>4, <1>5, <1>6 DEF Next, Script

\* What upgradeContracts has collected when it submits is its whole list.
LEMMA CollectionStep ==
  ASSUME RunsInv, [Next]_vars
  PROVE  CollectionInv'
<1>0. ScriptTypeOK /\ EffectsTypeOK /\ CollectionInv BY DEF RunsInv, RecordInv, UpgradesInv
<1>1. ASSUME \/ \E c \in todo : deploy(c)
             \/ openzeppelin_assertIsValidUpgrade \/ rewriteUpgradedDeployment
             \/ openzeppelin_saveDeploymentManifest
      PROVE  CollectionInv'
  <2>1. /\ status = "running" /\ tool = "upgradeContracts" /\ UNCHANGED deferredEffects
        /\ step \in {"deploy", "validate", "rewrite", "save"} /\ step' # "execute"
    BY <1>1 DEF deploy, openzeppelin_assertIsValidUpgrade, rewriteUpgradedDeployment,
      openzeppelin_saveDeploymentManifest, At, Go, Continue, effectsVars, sendAsAccount
  <2> QED BY <1>0, <2>1 DEF CollectionInv
<1>2. CASE changeImplementations
  <2>1. /\ deferredEffects = <<>> /\ deferredEffects' = deferredEffects \o planned
        /\ step' = "execute" /\ UNCHANGED <<upgraded, implementation, tool>>
    BY <1>0, <1>2 DEF changeImplementations, CollectionInv, At, Go, add, files, planned
  <2>2. planned \in Seq(Effect) BY <1>0, EffectsAreTyped DEF planned
  <2>3. deferredEffects' = planned BY <2>1, <2>2
  <2>4. planned' = planned BY <2>1 DEF planned, changeImplementation
  <2> QED BY <2>1, <2>3, <2>4 DEF CollectionInv
<1>3. ASSUME ExecuteDeferred \/ SendTransaction PROVE CollectionInv'
  <2>1. step' \in {"send", "end"}
    BY <1>3 DEF ExecuteDeferred, SendTransaction, At
  <2> QED BY <2>1 DEF CollectionInv
<1>4. ASSUME (\E c \in todo : deployContractUpgrade(c)) \/ exportDeployment \/ ProposeChange
      PROVE  CollectionInv'
  <2>1. tool' # "upgradeContracts"
    BY <1>4 DEF deployContractUpgrade, exportDeployment, ProposeChange, At, Go, Continue, Upgrade
  <2> QED BY <2>1 DEF CollectionInv
<1>5. CASE Start
  <2>1. deferredEffects' = <<>> /\ step' = "deploy" BY <1>5 DEF Start, getDeployEffects
  <2> QED BY <2>1 DEF CollectionInv
<1>6. ASSUME AssertionFails \/ Interrupt \/ Release \/ writeManifest PROVE CollectionInv'
  <2>1. status' # "running" BY <1>6 DEF AssertionFails, Interrupt, Release, writeManifest, scriptVars
  <2> QED BY <2>1 DEF CollectionInv
<1>7. ASSUME SafeActs \/ UNCHANGED vars PROVE CollectionInv'
  <2>1. UNCHANGED <<files, scriptVars, deferredEffects>>
    BY <1>7 DEF SafeActs, vars, Safe, Approve, execTransaction, Reject, effectsVars
  <2>2. planned' = planned BY <2>1 DEF planned, changeImplementation, files, scriptVars
  <2> QED BY <1>0, <2>1, <2>2 DEF CollectionInv, scriptVars
<1> QED BY <1>1, <1>2, <1>3, <1>4, <1>5, <1>6, <1>7 DEF Next, Script

----------------------------------------------------------------------------
(* What the chain does to the proxies.                                        *)

\* A transaction list with one change per contract.
LEMMA ProxiesAfter ==
  ASSUME EffectsTypeOK, EffectsTypeOK', NEW txs \in Seq(Effect), OneEach(txs),
         carriedOut' = carriedOut \o txs, NEW c
  PROVE  /\ (\A k \in DOMAIN txs : txs[k].contract # c) =>
              getProxyImplAddress(c)' = getProxyImplAddress(c)
         /\ \A k \in DOMAIN txs :
              txs[k].contract = c => getProxyImplAddress(c)' = txs[k].version
<1>1. carriedOut \in Seq(Effect) /\ carriedOut' \in Seq(Effect) BY DEF EffectsTypeOK
<1>2. DOMAIN carriedOut' = 1..Len(carriedOut') BY <1>1
<1>3. getProxyImplAddress(c)' = Before(carriedOut', Len(carriedOut'), c)
  BY <1>2 DEF getProxyImplAddress, Before
<1>4. getProxyImplAddress(c) = Before(carriedOut, Len(carriedOut), c) BY HistoryOfChain
<1> DEFINE t == carriedOut'
<1>5. Appended(carriedOut, txs, t) BY <1>1 DEF Appended
<1> HIDE DEF t
<1>6. /\ (\A k \in DOMAIN txs : txs[k].contract # c) =>
           Before(t, Len(t), c) = Before(carriedOut, Len(carriedOut), c)
      /\ \A k \in DOMAIN txs : txs[k].contract = c => Before(t, Len(t), c) = txs[k].version
  BY <1>1, <1>5, BeforeConcatenated
<1> QED BY <1>3, <1>4, <1>6 DEF t

\* The safe changes the proxies of a proposal, each to the proposed version.
LEMMA ProxiesAfterSafe ==
  ASSUME RunsInv, EffectsTypeOK', multisig, SafeActs, NEW c
  PROVE  \/ getProxyImplAddress(c)' = getProxyImplAddress(c)
         \/ \E i \in DOMAIN submissions :
              /\ Pending(i) /\ carriedOut' = carriedOut \o submissions[i].txs
              /\ \E k \in DOMAIN submissions[i].txs :
                   /\ submissions[i].txs[k].contract = c
                   /\ getProxyImplAddress(c)' = submissions[i].txs[k].version
<1>1. CASE UNCHANGED carriedOut BY <1>1, SameProxies
<1>2. ASSUME NEW i \in DOMAIN submissions, execTransaction(i)
      PROVE  \/ getProxyImplAddress(c)' = getProxyImplAddress(c)
             \/ /\ Pending(i) /\ carriedOut' = carriedOut \o submissions[i].txs
                /\ \E k \in DOMAIN submissions[i].txs :
                     /\ submissions[i].txs[k].contract = c
                     /\ getProxyImplAddress(c)' = submissions[i].txs[k].version
  <2>1. EffectsTypeOK /\ submissions \in Seq(Submission) /\ PendingInv
    BY DEF RunsInv, RecordInv, UpgradesInv, EffectsTypeOK
  <2>2. /\ Pending(i) /\ carriedOut' = carriedOut \o submissions[i].txs
    BY <1>2 DEF execTransaction, Pending
  <2> DEFINE txs == submissions[i].txs
  <2>6. submissions[i] \in Submission BY <2>1
  <2>3. txs \in Seq(Effect) /\ OneEach(txs) BY <2>1, <2>2, <2>6 DEF Submission, PendingInv
  <2>4. carriedOut' = carriedOut \o txs BY <2>2
  <2> HIDE DEF txs
  <2>5. /\ (\A k \in DOMAIN txs : txs[k].contract # c) =>
              getProxyImplAddress(c)' = getProxyImplAddress(c)
        /\ \A k \in DOMAIN txs :
              txs[k].contract = c => getProxyImplAddress(c)' = txs[k].version
    BY <2>1, <2>3, <2>4, ProxiesAfter
  <2> QED BY <2>2, <2>5 DEF txs
<1>3. UNCHANGED carriedOut \/ \E i \in DOMAIN submissions : execTransaction(i)
  BY DEF SafeActs, Safe, Approve, Reject
<1> QED BY <1>1, <1>2, <1>3

\* What the safe does to a contract that is not contended while a run has it: it
\* can only carry out what upgrade.ts proposed when it was done with it.
LEMMA SafeDuringRun ==
  ASSUME RunsInv, EffectsTypeOK', multisig, SafeActs, status = "running",
         NEW c, c \notin contended, Taken(c)
  PROVE  \/ getProxyImplAddress(c)' = getProxyImplAddress(c)
         \/ tool \in Upgrade /\ InUpgraded(c) /\ getProxyImplAddress(c)' = implementation[c]
<1>1. CASE \E i \in DOMAIN submissions :
            /\ Pending(i) /\ carriedOut' = carriedOut \o submissions[i].txs
            /\ \E k \in DOMAIN submissions[i].txs :
                 /\ submissions[i].txs[k].contract = c
                 /\ getProxyImplAddress(c)' = submissions[i].txs[k].version
  <2>0. PICK i \in DOMAIN submissions :
          /\ Pending(i)
          /\ \E k \in DOMAIN submissions[i].txs :
               /\ submissions[i].txs[k].contract = c
               /\ getProxyImplAddress(c)' = submissions[i].txs[k].version
    BY <1>1
  <2>1. PICK k \in DOMAIN submissions[i].txs :
          /\ Pending(i) /\ submissions[i].txs[k].contract = c
          /\ getProxyImplAddress(c)' = submissions[i].txs[k].version
    BY <2>0
  <2>2. submissions[i].txs[k] \in TxsOf(i) BY DEF TxsOf
  <2>3. OfThisRun(submissions[i].txs[k]) BY <2>1, <2>2 DEF RunsInv, PendingInv, Settled
  <2> QED BY <2>1, <2>3 DEF OfThisRun
<1> QED BY <1>1, ProxiesAfterSafe

\* While upgradeContracts runs for a safe, no proxy that it works on changes.
LEMMA ValidatedStep ==
  ASSUME RunsInv, EffectsTypeOK', [Next]_vars
  PROVE  ValidatedInv'
<1>0. ScriptTypeOK /\ ValidatedInv /\ WorkRecorded /\ PendingInv /\ SentOneByOne
  BY DEF RunsInv, RecordInv, UpgradesInv
<1>a. ASSUME UNCHANGED upgraded PROVE \A c : InUpgraded(c)' <=> InUpgraded(c)
  BY <1>a DEF In, InUpgraded
<1>b. multisig' = multisig BY SameOwner
<1>h. contended \subseteq contended' BY HistoryStays
<1> SUFFICES ASSUME multisig PROVE ValidatedInv' BY <1>b DEF ValidatedInv
<1>1. ASSUME NEW c \in todo, deploy(c) PROVE ValidatedInv'
  <2>1. /\ status = "running" /\ tool = "upgradeContracts" /\ UNCHANGED <<upgraded, carriedOut>>
        /\ step' = "validate" /\ implementation' = [implementation EXCEPT ![c] = source[c]]
    BY <1>1 DEF deploy, At, Go, effectsVars, sendAsAccount
  <2>2. \A d : InUpgraded(d) => d # c BY <1>0, <2>1 DEF WorkRecorded, In, InUpgraded
  <2>3. \A d : InUpgraded(d) => implementation'[d] = implementation[d]
    BY <1>0, <2>1, <2>2 DEF ScriptTypeOK
  <2> QED BY <1>0, <1>a, <1>h, <2>1, <2>3, SameProxies DEF ValidatedInv
<1>2. CASE openzeppelin_assertIsValidUpgrade
  <2>1. /\ status = "running" /\ tool = "upgradeContracts" /\ step' = "rewrite"
        /\ UNCHANGED <<upgraded, carriedOut, implementation, at>>
        /\ <<getProxyImplAddress(at), implementation[at]>> \in Compatible
    BY <1>2 DEF openzeppelin_assertIsValidUpgrade, At, Go, effectsVars, files, IsValidUpgrade
  <2> QED BY <1>0, <1>a, <1>h, <2>1, SameProxies DEF ValidatedInv
<1>3. CASE rewriteUpgradedDeployment
  <2>1. /\ status = "running" /\ tool = "upgradeContracts" /\ step = "rewrite"
        /\ UNCHANGED <<upgraded, carriedOut, implementation, at>>
    BY <1>3 DEF rewriteUpgradedDeployment, At, Go, effectsVars
  <2> QED BY <1>0, <1>a, <1>h, <2>1, SameProxies DEF ValidatedInv
<1>4. CASE openzeppelin_saveDeploymentManifest
  <2>1. /\ status = "running" /\ tool = "upgradeContracts" /\ step = "save"
        /\ step' \in {"add", "deploy"}
        /\ upgraded' = Append(upgraded, at) /\ UNCHANGED <<carriedOut, implementation, at>>
    BY <1>4 DEF openzeppelin_saveDeploymentManifest, At, Continue, effectsVars
  <2>2. \A c : InUpgraded(c)' <=> InUpgraded(c) \/ c = at BY <1>0, <2>1, TakenUp
  <2> QED BY <1>0, <1>h, <2>1, <2>2, SameProxies DEF ValidatedInv
<1>5. ASSUME changeImplementations \/ ExecuteDeferred PROVE ValidatedInv'
  <2>1. /\ status = "running" /\ tool = "upgradeContracts"
        /\ step' \in {"execute", "send", "end"}
        /\ UNCHANGED <<upgraded, carriedOut, implementation, at>>
    BY <1>5 DEF changeImplementations, ExecuteDeferred, At, Go, files, add, executeDeferred,
      execute, submit
  <2> QED BY <1>0, <1>a, <1>h, <2>1, SameProxies DEF ValidatedInv
<1>6. CASE SendTransaction
  <2>1. last \in DOMAIN submissions /\ submissions[last].status = "sending"
    BY <1>6 DEF RunsInv, RecordInv, UpgradesInv, EffectsTypeOK, SendTransaction, sendTransaction, last
  <2> QED BY <1>0, <2>1 DEF SentOneByOne
<1>7. ASSUME (\E c \in todo : deployContractUpgrade(c)) \/ exportDeployment \/ ProposeChange
      PROVE  ValidatedInv'
  <2>1. tool' # "upgradeContracts"
    BY <1>7 DEF deployContractUpgrade, exportDeployment, ProposeChange, At, Go, Continue, Upgrade
  <2> QED BY <2>1 DEF ValidatedInv
<1>8. CASE Start
  <2>1. upgraded' = <<>> /\ step' = "deploy" BY <1>8 DEF Start
  <2> QED BY <2>1 DEF ValidatedInv, In, InUpgraded
<1>9. ASSUME AssertionFails \/ Interrupt \/ Release \/ writeManifest PROVE ValidatedInv'
  <2>1. status' # "running" BY <1>9 DEF AssertionFails, Interrupt, Release, writeManifest, scriptVars
  <2> QED BY <2>1 DEF ValidatedInv
<1>10. CASE SafeActs
  <2>1. UNCHANGED <<files, scriptVars>> BY <1>10 DEF SafeActs
  <2>2. CASE status = "running" /\ tool = "upgradeContracts"
    <3>1. ASSUME NEW c, c \notin contended,
                 InUpgraded(c) \/ (c = at /\ step \in {"rewrite", "save"})
          PROVE  getProxyImplAddress(c)' = getProxyImplAddress(c)
      <4>1. Taken(c) BY <3>1 DEF Taken
      <4> QED BY <1>10, <2>2, <3>1, <4>1, SafeDuringRun DEF Upgrade
    <3> QED BY <1>0, <1>a, <1>h, <2>1, <3>1 DEF ValidatedInv, files, scriptVars
  <2> QED BY <2>1, <2>2 DEF ValidatedInv, scriptVars
<1>11. CASE UNCHANGED vars
  <2>1. UNCHANGED <<files, scriptVars, carriedOut>> BY <1>11 DEF vars, effectsVars
  <2> QED BY <1>0, <1>a, <1>h, <2>1, SameProxies DEF ValidatedInv, files, scriptVars
<1> QED
  BY <1>1, <1>2, <1>3, <1>4, <1>5, <1>6, <1>7, <1>8, <1>9, <1>10, <1>11 DEF Next, Script

\* A safe's submissions keep their transactions.
LEMMA SubmissionsStay ==
  ASSUME RunsInv, [Next]_vars, multisig
  PROVE  /\ DOMAIN submissions \subseteq DOMAIN submissions'
         /\ \A i \in DOMAIN submissions : submissions'[i].txs = submissions[i].txs
<1>0. EffectsTypeOK /\ SentOneByOne /\ submissions \in Seq(Submission)
  BY DEF RunsInv, RecordInv, UpgradesInv, EffectsTypeOK
<1> DEFINE Stay == /\ DOMAIN submissions \subseteq DOMAIN submissions'
                   /\ \A i \in DOMAIN submissions : submissions'[i].txs = submissions[i].txs
<1>1. ASSUME UNCHANGED submissions PROVE Stay BY <1>1
<1>2. ASSUME NEW txs, NEW st, submit(txs, st) PROVE Stay BY <1>0, <1>2 DEF submit
<1>3. CASE SendTransaction
  <2>1. last \in DOMAIN submissions /\ submissions[last].status = "sending"
    BY <1>0, <1>3 DEF SendTransaction, sendTransaction, last
  <2> QED BY <1>0, <2>1 DEF SentOneByOne
<1>4. CASE SafeActs
  <2>1. PICK i \in DOMAIN submissions :
          (\E o \in SafeOwners : Approve(i, o)) \/ execTransaction(i) \/ Reject(i)
    BY <1>4 DEF SafeActs, Safe
  <2>2. submissions[i] \in Submission BY <1>0
  <2>3. PICK new : submissions' = [submissions EXCEPT ![i] = new] /\ new.txs = submissions[i].txs
    BY <2>1, <2>2 DEF Approve, execTransaction, Reject, Submission
  <2> QED BY <1>0, <2>3
<1>5. CASE ExecuteDeferred
  BY <1>2, <1>5 DEF ExecuteDeferred, executeDeferred, execute
<1>6. CASE ProposeChange
  BY <1>1, <1>2, <1>6 DEF ProposeChange, createProposal, effectsVars
<1>7. ASSUME \/ \E c \in todo : deploy(c) \/ deployContractUpgrade(c)
             \/ openzeppelin_assertIsValidUpgrade \/ AssertionFails \/ rewriteUpgradedDeployment
             \/ openzeppelin_saveDeploymentManifest \/ changeImplementations \/ exportDeployment
             \/ Start \/ Interrupt \/ Release \/ writeManifest \/ UNCHANGED vars
      PROVE  UNCHANGED submissions
  BY <1>7 DEF deploy, sendAsAccount, deployContractUpgrade, openzeppelin_assertIsValidUpgrade,
    AssertionFails, rewriteUpgradedDeployment, openzeppelin_saveDeploymentManifest,
    changeImplementations, add, exportDeployment, Start, getDeployEffects, Interrupt, Release,
    writeManifest, vars, effectsVars
<1>9. CASE Script BY <1>1, <1>3, <1>5, <1>6, <1>7, <1>9 DEF Script
<1>10. ASSUME Start \/ Interrupt \/ Release \/ writeManifest \/ UNCHANGED vars PROVE Stay
  BY <1>1, <1>7, <1>10
<1> QED BY <1>4, <1>9, <1>10 DEF Next

\* A change that was proposed remains so for the same working copy.
LEMMA ProposedStays ==
  ASSUME RunsInv, [Next]_vars, multisig, UNCHANGED <<source, history>>, NEW c, Proposed(c)
  PROVE  Proposed(c)'
BY SubmissionsStay DEF Proposed, history

\* Submissions do not go away.
LEMMA EarlierStep ==
  ASSUME RunsInv, EffectsTypeOK', [Next]_vars
  PROVE  EarlierInv'
<1>1. submissions \in Seq(Submission) /\ submissions' \in Seq(Submission) /\ EarlierInv
  BY DEF RunsInv, RecordInv, UpgradesInv, EffectsTypeOK
<1> SUFFICES ASSUME multisig PROVE EarlierInv' BY SameOwner DEF EarlierInv
<1>2. CASE Start BY <1>1, <1>2 DEF Start, getDeployEffects, EarlierInv
<1>3. CASE UNCHANGED history
  <2>1. DOMAIN submissions \subseteq DOMAIN submissions' BY SubmissionsStay
  <2>2. Len(submissions) \in Nat /\ Len(submissions') \in Nat
        /\ 1..Len(submissions) \subseteq 1..Len(submissions')
    BY <1>1, <2>1
  <2>3. Len(submissions) <= Len(submissions') BY <2>2
  <2> QED BY <1>1, <1>3, <2>2, <2>3 DEF EarlierInv, history
<1> QED BY <1>2, <1>3, HistoryStays

\* Each contract that upgrade.ts is done with runs the working copy's code, or
\* its change is proposed: also the one in work, which changed or did not.
LEMMA ProposedOrDone ==
  ASSUME RunsInv, EffectsTypeOK', [Next]_vars, ProposeChange, tool = "upgrade",
         NEW c \in Contracts, c \notin contended, InUpgraded(c)'
  PROVE  getProxyImplAddress(c)' = source'[c] \/ Proposed(c)'
<1>0. ScriptTypeOK /\ DoneInv /\ ListInv /\ EarlierInv /\ EffectsTypeOK
  BY DEF RunsInv, RecordInv, UpgradesInv
<1>1. /\ status = "running" /\ tool \in Upgrade /\ step = "propose"
      /\ UNCHANGED <<carriedOut, source, tool, implementation, at, history>>
      /\ upgraded' = Append(upgraded, at)
  BY DEF ProposeChange, At, Continue, effectsVars, createProposal, submit, files
<1>2. multisig BY <1>0, <1>1 DEF ListInv
<1>3. Proposed(c) => Proposed(c)' BY <1>1, <1>2, ProposedStays
<1>4. InUpgraded(c) \/ c = at BY <1>0, <1>1, TakenUp
<1>5. getProxyImplAddress(c)' = getProxyImplAddress(c) BY <1>1, SameProxies
<1>6. CASE InUpgraded(c) BY <1>0, <1>1, <1>3, <1>5, <1>6 DEF DoneInv
<1>7. CASE c = at
  <2>1. implementation[c] = source[c] /\ currentImplementation = getProxyImplAddress(c)
    BY <1>0, <1>1, <1>7 DEF ListInv, DoneInv
  <2>2. CASE DidNotChange BY <1>1, <1>5, <1>7, <2>1, <2>2 DEF DidNotChange
  <2>3. CASE createProposal(changeImplementation(at))
    <3> DEFINE new == [txs |-> <<changeImplementation(at)>>, approvals |-> {}, status |-> "pending"]
               i == Len(submissions) + 1
    <3>1. submissions' = Append(submissions, new) BY <2>3 DEF createProposal, submit
    <3>2. i \in DOMAIN submissions' /\ submissions'[i] = new /\ i > earlier
      BY <1>0, <1>2, <3>1 DEF EffectsTypeOK, EarlierInv
    <3>3. /\ 1 \in DOMAIN new.txs /\ new.txs[1].contract = c
          /\ new.txs[1].version = implementation[c]
      BY <1>7 DEF changeImplementation
    <3> HIDE DEF new, i
    <3>4. /\ i \in DOMAIN submissions' /\ i > earlier' /\ 1 \in DOMAIN submissions'[i].txs
          /\ submissions'[i].txs[1].contract = c /\ submissions'[i].txs[1].version = source'[c]
      BY <1>1, <2>1, <3>2, <3>3 DEF history
    <3> QED BY <3>4 DEF Proposed
  <2> QED BY <1>1, <2>2, <2>3 DEF ProposeChange
<1> QED BY <1>4, <1>6, <1>7

\* upgrade.ts is right about the contracts it is done with, and about what it
\* read of the one in work: the safe changes only the former, to their new
\* implementations.
LEMMA DoneStep ==
  ASSUME RunsInv, EffectsTypeOK', [Next]_vars
  PROVE  DoneInv'
<1>0. ScriptTypeOK /\ DoneInv /\ ListInv /\ PendingInv /\ EffectsTypeOK
  BY DEF RunsInv, RecordInv, UpgradesInv
<1>a. ASSUME UNCHANGED upgraded PROVE \A c : InUpgraded(c)' <=> InUpgraded(c)
  BY <1>a DEF In, InUpgraded
<1>h. contended \subseteq contended' BY HistoryStays
<1>b. ASSUME status = "running", tool \in Upgrade PROVE multisig BY <1>0, <1>b DEF ListInv
<1>1. ASSUME NEW c \in todo, deployContractUpgrade(c) PROVE DoneInv'
  <2>1. /\ status = "running" /\ tool \in Upgrade /\ UNCHANGED <<upgraded, carriedOut, source, tool, history>>
        /\ at' = c /\ currentImplementation' = getProxyImplAddress(c)
    BY <1>1 DEF deployContractUpgrade, At, Go, effectsVars
  <2>2. \A d : Proposed(d) => Proposed(d)' BY <1>b, <2>1, ProposedStays
  <2> QED BY <1>0, <1>a, <1>h, <2>1, <2>2, SameProxies DEF DoneInv
<1>2. CASE exportDeployment
  <2>1. /\ status = "running" /\ tool \in Upgrade /\ step = "export"
        /\ UNCHANGED <<upgraded, carriedOut, source, tool, at, currentImplementation, history>>
    BY <1>2 DEF exportDeployment, At, Go, effectsVars
  <2>2. \A d : Proposed(d) => Proposed(d)' BY <1>b, <2>1, ProposedStays
  <2> QED BY <1>0, <1>a, <1>h, <2>1, <2>2, SameProxies DEF DoneInv
<1>3. CASE ProposeChange
  <2>1. step' \in {"deploy", "end"} /\ UNCHANGED tool BY <1>3 DEF ProposeChange, At, Continue
  <2> QED BY <1>3, <1>h, <2>1, ProposedOrDone DEF DoneInv
<1>4. ASSUME \/ \E c \in todo : deploy(c)
             \/ openzeppelin_assertIsValidUpgrade \/ rewriteUpgradedDeployment
             \/ openzeppelin_saveDeploymentManifest \/ changeImplementations \/ ExecuteDeferred
             \/ SendTransaction
      PROVE  DoneInv'
  <2>1. tool' = "upgradeContracts"
    BY <1>4 DEF deploy, openzeppelin_assertIsValidUpgrade, rewriteUpgradedDeployment,
      openzeppelin_saveDeploymentManifest, changeImplementations, ExecuteDeferred, SendTransaction,
      At, Go, Continue
  <2> QED BY <2>1 DEF DoneInv, Upgrade
<1>5. CASE Start
  <2>1. upgraded' = <<>> /\ step' = "deploy" BY <1>5 DEF Start
  <2> QED BY <2>1 DEF DoneInv, In, InUpgraded
<1>6. ASSUME AssertionFails \/ Interrupt \/ Release \/ writeManifest PROVE DoneInv'
  <2>1. status' # "running" BY <1>6 DEF AssertionFails, Interrupt, Release, writeManifest, scriptVars
  <2> QED BY <2>1 DEF DoneInv
<1>7. CASE SafeActs
  <2>1. UNCHANGED <<files, scriptVars>> BY <1>7 DEF SafeActs
  <2> SUFFICES ASSUME status = "running", tool \in Upgrade PROVE DoneInv'
    BY <2>1 DEF DoneInv, scriptVars
  <2>2. multisig BY <1>b
  <2>3. \A d : Proposed(d) => Proposed(d)' BY <2>1, <2>2, ProposedStays DEF files, scriptVars
  <2>4. ASSUME NEW c, c \notin contended, Taken(c)
        PROVE  \/ getProxyImplAddress(c)' = getProxyImplAddress(c)
               \/ InUpgraded(c) /\ getProxyImplAddress(c)' = implementation[c]
    BY <1>7, <2>2, <2>4, SafeDuringRun
  <2>6. /\ \A c : InUpgraded(c) => Taken(c)
        /\ step \in {"export", "propose"} => Taken(at)
    BY DEF Taken
  <2>5. /\ step \in {"export", "propose"} => ~InUpgraded(at)
        /\ \A c \in Contracts : InUpgraded(c) => implementation[c] = source[c]
    BY <1>0 DEF ListInv
  <2> QED BY <1>0, <1>a, <1>h, <2>1, <2>3, <2>4, <2>5, <2>6 DEF DoneInv, files, scriptVars
<1>8. CASE UNCHANGED vars
  <2>1. UNCHANGED <<files, scriptVars, carriedOut, submissions>> BY <1>8 DEF vars, effectsVars
  <2>2. \A d : Proposed(d) => Proposed(d)' BY <2>1 DEF Proposed, files, scriptVars, history
  <2> QED BY <1>0, <1>a, <1>h, <2>1, <2>2, SameProxies DEF DoneInv, files, scriptVars
<1> QED BY <1>1, <1>2, <1>3, <1>4, <1>5, <1>6, <1>7, <1>8 DEF Next, Script

\* One transaction of an account, to what the implementation will be.
LEMMA ProxiesAfterAccount ==
  ASSUME RunsInv, ~multisig, EffectsTypeOK', NEW tx \in Effect,
         carriedOut' = Append(carriedOut, tx),
         implementation' = [implementation EXCEPT ![tx.contract] = tx.version]
  PROVE  \A c \in Contracts : getProxyImplAddress(c)' = implementation'[c]
<1>1. EffectsTypeOK /\ carriedOut \in Seq(Effect) /\ LocalInv
  BY DEF RunsInv, RecordInv, UpgradesInv, EffectsTypeOK
<1>2. implementation \in [Contracts -> Versions] BY DEF RunsInv, RecordInv, UpgradesInv, ScriptTypeOK
<1> DEFINE txs == <<tx>>
<1>3. txs \in Seq(Effect) /\ OneEach(txs) /\ DOMAIN txs = {1} /\ txs[1] = tx BY DEF OneEach
<1>4. carriedOut' = carriedOut \o txs BY <1>1
<1> HIDE DEF txs
<1> SUFFICES ASSUME NEW c \in Contracts PROVE getProxyImplAddress(c)' = implementation'[c]
  OBVIOUS
<1>5. /\ (\A k \in DOMAIN txs : txs[k].contract # c) =>
            getProxyImplAddress(c)' = getProxyImplAddress(c)
      /\ \A k \in DOMAIN txs :
            txs[k].contract = c => getProxyImplAddress(c)' = txs[k].version
  BY <1>1, <1>3, <1>4, ProxiesAfter
<1>6. getProxyImplAddress(c) = implementation[c] BY <1>1 DEF LocalInv
<1> QED BY <1>2, <1>3, <1>5, <1>6

\* An account's proxies run what the deployments folder says at every step.
LEMMA LocalStep ==
  ASSUME RunsInv, EffectsTypeOK', [Next]_vars
  PROVE  LocalInv'
<1>0. /\ ScriptTypeOK /\ EffectsTypeOK /\ LocalInv /\ ListInv /\ CollectionInv
      /\ implementation \in [Contracts -> Versions] /\ submissions \in Seq(Submission)
  BY DEF RunsInv, RecordInv, UpgradesInv, EffectsTypeOK, ScriptTypeOK
<1>b. multisig' = multisig BY SameOwner
<1> SUFFICES ASSUME ~multisig PROVE LocalInv' BY <1>b DEF LocalInv
<1>c. /\ \A i \in DOMAIN submissions : ~Pending(i)
      /\ \A c \in Contracts : getProxyImplAddress(c) = implementation[c]
  BY <1>0 DEF LocalInv
<1>d. status = "running" => tool \notin Upgrade BY <1>0 DEF ListInv
<1>1. ASSUME UNCHANGED <<submissions, carriedOut, implementation>>, status' = "running" => step' # "send"
      PROVE  LocalInv'
  <2>1. \A i \in DOMAIN submissions' : ~Pending(i)' BY <1>1, <1>c DEF Pending
  <2> QED BY <1>1, <1>c, <2>1, SameProxies DEF LocalInv
<1>2. ASSUME NEW c \in todo, deploy(c) PROVE LocalInv'
  <2>1. c \in Contracts /\ step' = "validate"
        /\ implementation' = [implementation EXCEPT ![c] = source[c]]
    BY <1>0, <1>2 DEF ScriptTypeOK, deploy, Go
  <2>2. CASE source[c] = implementation[c]
    <3>1. UNCHANGED <<submissions, carriedOut, implementation>>
      BY <1>0, <1>2, <2>1, <2>2 DEF deploy, effectsVars
    <3> QED BY <1>1, <2>1, <3>1
  <2>3. CASE source[c] # implementation[c]
    <3> DEFINE tx == [contract |-> c, version |-> source[c], by |-> tool]
    <3>1. tx \in Effect BY <1>0, <2>1, EffectsAreTyped
    <3>2. carriedOut' = Append(carriedOut, tx) /\ UNCHANGED submissions
      BY <1>2, <2>3 DEF deploy, sendAsAccount
    <3>3. implementation' = [implementation EXCEPT ![tx.contract] = tx.version] BY <2>1
    <3> HIDE DEF tx
    <3>4. \A d \in Contracts : getProxyImplAddress(d)' = implementation'[d]
      BY <3>1, <3>2, <3>3, ProxiesAfterAccount
    <3>5. \A i \in DOMAIN submissions' : ~Pending(i)' BY <1>c, <3>2 DEF Pending
    <3> QED BY <2>1, <3>4, <3>5 DEF LocalInv
  <2> QED BY <2>2, <2>3
<1>3. ASSUME \/ openzeppelin_assertIsValidUpgrade \/ AssertionFails \/ rewriteUpgradedDeployment
             \/ openzeppelin_saveDeploymentManifest \/ changeImplementations \/ Start \/ Interrupt
             \/ Release \/ writeManifest
      PROVE  LocalInv'
  <2>1. UNCHANGED <<submissions, carriedOut, implementation>>
    BY <1>3 DEF openzeppelin_assertIsValidUpgrade, AssertionFails, rewriteUpgradedDeployment,
      openzeppelin_saveDeploymentManifest, changeImplementations, add, Start, getDeployEffects,
      Interrupt, Release, writeManifest, files, effectsVars
  <2>2. status' = "running" => step' # "send"
    BY <1>3 DEF openzeppelin_assertIsValidUpgrade, AssertionFails, rewriteUpgradedDeployment,
      openzeppelin_saveDeploymentManifest, changeImplementations, Start, Interrupt, Release,
      writeManifest, Go, Continue, scriptVars
  <2> QED BY <1>1, <2>1, <2>2
<1>4. CASE ExecuteDeferred
  <2> DEFINE new == [txs |-> deferredEffects, approvals |-> {}, status |-> "sending"]
  <2>1. /\ submissions' = Append(submissions, new) /\ UNCHANGED <<carriedOut, files, upgraded, tool>>
        /\ deferredEffects = planned
    BY <1>0, <1>4 DEF ExecuteDeferred, At, executeDeferred, execute, submit, CollectionInv
  <2>2. /\ \A i \in DOMAIN submissions' :
             i = Len(submissions') \/ (i \in DOMAIN submissions /\ submissions'[i] = submissions[i])
        /\ submissions'[Len(submissions')] = new
    <3> HIDE DEF new
    <3>1. Len(submissions') = Len(submissions) + 1 /\ Len(submissions) \in Nat BY <1>0, <2>1
    <3> QED BY <1>0, <2>1, <3>1
  <2>3. \A i \in DOMAIN submissions' : ~Pending(i)' BY <1>c, <2>2 DEF Pending
  <2>4. \A k \in DOMAIN planned : planned[k].version = implementation[planned[k].contract]
    BY DEF planned, changeImplementation
  <2>5. (submissions[last].txs)' = planned BY <2>1, <2>2 DEF last
  <2> HIDE DEF new
  <2>6. UNCHANGED implementation BY <2>1 DEF files
  <2>7. \A k \in DOMAIN (submissions[last].txs)' :
          (submissions[last].txs)'[k].version = implementation'[(submissions[last].txs)'[k].contract]
    BY <2>4, <2>5, <2>6
  <2>8. \A c \in Contracts : getProxyImplAddress(c)' = implementation'[c]
    BY <1>c, <2>1, <2>6, SameProxies
  <2> QED BY <2>3, <2>7, <2>8 DEF LocalInv
<1>5. CASE SendTransaction
  <2> DEFINE txs == submissions[last].txs  tx == Head(txs)
  <2>1. /\ last \in DOMAIN submissions /\ submissions[last].status = "sending" /\ txs # <<>>
        /\ carriedOut' = Append(carriedOut, tx)
        /\ submissions' = [submissions EXCEPT ![last] = [submissions[last] EXCEPT !.txs = Tail(txs)]]
        /\ UNCHANGED implementation /\ status = "running" /\ step = "send"
    BY <1>0, <1>5 DEF SendTransaction, sendTransaction, At, files, last
  <2>2. submissions[last] \in Submission /\ txs \in Seq(Effect)
    <3>1. submissions[last] \in Submission BY <1>0, <2>1
    <3> QED BY <3>1 DEF Submission
  <2>3. \A k \in DOMAIN txs : txs[k].version = implementation[txs[k].contract]
    BY <1>0, <2>1 DEF LocalInv
  <2>4. /\ tx \in Effect /\ tx = txs[1] /\ 1 \in DOMAIN txs
        /\ \A k \in DOMAIN Tail(txs) : k + 1 \in DOMAIN txs /\ Tail(txs)[k] = txs[k + 1]
    BY <2>1, <2>2
  <2>5. tx.version = implementation[tx.contract] /\ tx.contract \in Contracts
    BY <2>3, <2>4, UpgradesAssumption
  <2>6. implementation' = [implementation EXCEPT ![tx.contract] = tx.version] BY <1>0, <2>1, <2>5
  <2>7. [submissions[last] EXCEPT !.txs = Tail(txs)].txs = Tail(txs)
        /\ [submissions[last] EXCEPT !.txs = Tail(txs)].status = "sending"
    BY <2>1, <2>2 DEF Submission
  <2>8. /\ Len(submissions') = Len(submissions) /\ (submissions[last].txs)' = Tail(txs)
        /\ \A i \in DOMAIN submissions' :
             i \in DOMAIN submissions /\ submissions'[i].status \in {"sending", submissions[i].status}
    <3> DEFINE new == [submissions[last] EXCEPT !.txs = Tail(txs)]
    <3>1. submissions' = [submissions EXCEPT ![last] = new] /\ last \in DOMAIN submissions BY <2>1
    <3> HIDE DEF new, txs
    <3>2. /\ Len(submissions') = Len(submissions) /\ DOMAIN submissions' = DOMAIN submissions
          /\ \A i \in DOMAIN submissions' : submissions'[i] = IF i = last THEN new ELSE submissions[i]
      BY <1>0, <3>1
    <3>3. last' = last BY <3>2 DEF last
    <3>4. new.txs = Tail(txs) /\ new.status = "sending" BY <2>7 DEF new
    <3> QED BY <3>1, <3>2, <3>3, <3>4
  <2> HIDE DEF txs, tx
  <2>9. \A c \in Contracts : getProxyImplAddress(c)' = implementation'[c]
    BY <2>1, <2>4, <2>6, ProxiesAfterAccount
  <2>10. \A i \in DOMAIN submissions' : ~Pending(i)' BY <1>c, <2>8 DEF Pending
  <2>11. \A k \in DOMAIN (submissions[last].txs)' :
           (submissions[last].txs)'[k].version = implementation'[(submissions[last].txs)'[k].contract]
    BY <2>1, <2>3, <2>4, <2>8
  <2> QED BY <2>9, <2>10, <2>11 DEF LocalInv
<1>6. ASSUME (\E c \in todo : deployContractUpgrade(c)) \/ exportDeployment \/ ProposeChange
      PROVE  FALSE
  BY <1>d, <1>6 DEF deployContractUpgrade, exportDeployment, ProposeChange, At
<1>7. ASSUME SafeActs PROVE FALSE
  BY <1>c, <1>7 DEF SafeActs, Safe, Approve, execTransaction, Reject, Pending
<1>8. CASE UNCHANGED vars
  <2>1. UNCHANGED <<submissions, carriedOut, implementation, status, step>>
    BY <1>8 DEF vars, effectsVars, files, scriptVars
  <2>2. UNCHANGED last BY <2>1 DEF last
  <2>3. \A i \in DOMAIN submissions' : ~Pending(i)' BY <1>c, <2>1 DEF Pending
  <2> QED BY <1>0, <1>c, <2>1, <2>2, <2>3, SameProxies DEF LocalInv
<1> QED BY <1>2, <1>3, <1>4, <1>5, <1>6, <1>7, <1>8 DEF Next, Script

\* What the safe carries out fits what the proxies run at that time.
LEMMA HistoryStep ==
  ASSUME RunsInv, EffectsTypeOK', [Next]_vars
  PROVE  ExecutedUpgradesAreCompatible'
<1>0. /\ EffectsTypeOK /\ PendingInv /\ SentOneByOne /\ ExecutedUpgradesAreCompatible
      /\ submissions \in Seq(Submission) /\ carriedOut \in Seq(Effect)
      /\ carriedOut' \in Seq(Effect)
  BY DEF RunsInv, RecordInv, UpgradesInv, EffectsTypeOK
<1>b. multisig' = multisig /\ contended \subseteq contended' BY SameOwner, HistoryStays
<1> SUFFICES ASSUME multisig PROVE ExecutedUpgradesAreCompatible'
  BY <1>b DEF ExecutedUpgradesAreCompatible
<1>1. CASE UNCHANGED carriedOut
  <2>1. \A k : VersionBefore(k)' = VersionBefore(k) BY <1>1 DEF VersionBefore
  <2> QED BY <1>0, <1>1, <1>b, <2>1 DEF ExecutedUpgradesAreCompatible
<1>2. ASSUME NEW i \in DOMAIN submissions, execTransaction(i)
      PROVE  ExecutedUpgradesAreCompatible'
  <2> DEFINE txs == submissions[i].txs  t == carriedOut'
  <2>1. submissions[i] \in Submission BY <1>0
  <2>2. txs \in Seq(Effect) /\ OneEach(txs) /\ t = carriedOut \o txs
    BY <1>0, <1>2, <2>1 DEF Submission, PendingInv, Pending, execTransaction
  <2>8. \A j \in DOMAIN txs : txs[j].contract \notin contended => Fits(txs[j])
    BY <1>0, <1>2 DEF PendingInv, Pending, execTransaction, TxsOf, Settled
  <2>3. Appended(carriedOut, txs, t) BY <1>0, <2>2 DEF Appended
  <2> HIDE DEF txs, t
  <2>4. /\ \A k \in DOMAIN carriedOut :
             /\ t[k] = carriedOut[k] /\ k \in DOMAIN t
             /\ Before(t, k - 1, t[k].contract) = Before(carriedOut, k - 1, carriedOut[k].contract)
        /\ \A k \in DOMAIN t :
             k \notin DOMAIN carriedOut =>
               /\ k - Len(carriedOut) \in DOMAIN txs /\ t[k] = txs[k - Len(carriedOut)]
               /\ Before(t, k - 1, t[k].contract) = Before(carriedOut, Len(carriedOut), t[k].contract)
    BY <2>3, BeforeWithin
  <2>5. /\ \A c : getProxyImplAddress(c) = Before(carriedOut, Len(carriedOut), c)
        /\ \A k \in DOMAIN carriedOut :
             VersionBefore(k) = Before(carriedOut, k - 1, carriedOut[k].contract)
    BY <1>0, HistoryOfChain
  <2>6. \A k : VersionBefore(k)' = Before(t, k - 1, t[k].contract)
    BY DEF VersionBefore, Before, t
  <2>7. ASSUME NEW k \in DOMAIN t, t[k].by = "upgradeContracts", t[k].contract \notin contended
        PROVE  <<Before(t, k - 1, t[k].contract), t[k].version>> \in Compatible
    <3>1. CASE k \in DOMAIN carriedOut
      <4>1. <<VersionBefore(k), carriedOut[k].version>> \in Compatible
        BY <1>0, <2>4, <2>7, <3>1 DEF ExecutedUpgradesAreCompatible
      <4> QED BY <2>4, <2>5, <3>1, <4>1
    <3>2. CASE k \notin DOMAIN carriedOut
      <4> DEFINE j == k - Len(carriedOut)
      <4>1. /\ j \in DOMAIN txs /\ t[k] = txs[j]
            /\ Before(t, k - 1, t[k].contract) = getProxyImplAddress(t[k].contract)
        BY <2>4, <2>5, <3>2
      <4> HIDE DEF j
      <4> QED BY <2>7, <2>8, <4>1 DEF Fits
    <3> QED BY <3>1, <3>2
  <2> QED BY <1>b, <2>6, <2>7 DEF ExecutedUpgradesAreCompatible, t
<1>3. CASE SendTransaction
  <2>1. last \in DOMAIN submissions /\ submissions[last].status = "sending"
    BY <1>0, <1>3 DEF SendTransaction, sendTransaction, last
  <2> QED BY <1>0, <2>1 DEF SentOneByOne
<1>4. ASSUME NEW c \in todo, deploy(c) PROVE UNCHANGED carriedOut
  BY <1>4 DEF deploy, effectsVars
<1>5. ASSUME \/ \E c \in todo : deployContractUpgrade(c)
             \/ openzeppelin_assertIsValidUpgrade \/ AssertionFails \/ rewriteUpgradedDeployment
             \/ openzeppelin_saveDeploymentManifest \/ changeImplementations \/ ExecuteDeferred
             \/ exportDeployment \/ ProposeChange
             \/ Start \/ Interrupt \/ Release \/ writeManifest \/ UNCHANGED vars
      PROVE  UNCHANGED carriedOut
  BY <1>5 DEF deployContractUpgrade, openzeppelin_assertIsValidUpgrade,
    AssertionFails, rewriteUpgradedDeployment, openzeppelin_saveDeploymentManifest,
    changeImplementations, add, ExecuteDeferred, executeDeferred, execute, submit, exportDeployment,
    ProposeChange, createProposal, Start, getDeployEffects, Interrupt, Release, writeManifest, vars,
    effectsVars
<1>6. CASE SafeActs
  <2>1. UNCHANGED carriedOut \/ \E i \in DOMAIN submissions : execTransaction(i)
    BY <1>6 DEF SafeActs, Safe, Approve, Reject
  <2> QED BY <1>1, <1>2, <2>1
<1> QED BY <1>1, <1>3, <1>4, <1>5, <1>6 DEF Next, Script

\* What waits about a contract that a run has is what the run proposed.
LEMMA AwaitedByRun ==
  ASSUME RunsInv, multisig, status = "running", NEW c, c \notin contended, Taken(c), Awaited(c)
  PROVE  tool \in Upgrade /\ InUpgraded(c)
<1>0. PICK i \in DOMAIN submissions :
        Pending(i) /\ \E k \in DOMAIN submissions[i].txs : submissions[i].txs[k].contract = c
  BY DEF Awaited, Pending
<1>1. PICK k \in DOMAIN submissions[i].txs : Pending(i) /\ submissions[i].txs[k].contract = c
  BY <1>0
<1>2. submissions[i].txs[k] \in TxsOf(i) BY DEF TxsOf
<1>3. OfThisRun(submissions[i].txs[k]) BY <1>1, <1>2 DEF RunsInv, PendingInv, Settled
<1> QED BY <1>1, <1>3 DEF OfThisRun

\* What waits is what is awaited.
LEMMA AwaitedIsAbout ==
  ASSUME NEW i \in DOMAIN submissions, Pending(i), NEW tx \in TxsOf(i)
  PROVE  Awaited(tx.contract)
BY DEF Awaited, Pending, TxsOf

\* The contracts of a run only go from its list to those it is done with.
LEMMA TakenStep ==
  ASSUME RunsInv, [Next]_vars, Script, NEW c, Taken(c)'
  PROVE  /\ Taken(c) /\ UNCHANGED tool
         /\ InUpgraded(c) => InUpgraded(c)' /\ implementation'[c] = implementation[c]
<1>0. /\ ScriptTypeOK /\ ListInv /\ WorkRecorded /\ implementation \in [Contracts -> Versions]
  BY DEF RunsInv, RecordInv, UpgradesInv, ScriptTypeOK
<1>a. ASSUME UNCHANGED upgraded PROVE InUpgraded(c)' <=> InUpgraded(c)
  BY <1>a DEF In, InUpgraded
<1>1. ASSUME NEW d \in todo, deploy(d) \/ deployContractUpgrade(d)
      PROVE  /\ Taken(c) /\ UNCHANGED tool
             /\ InUpgraded(c) => InUpgraded(c)' /\ implementation'[c] = implementation[c]
  <2>1. /\ status = "running" /\ UNCHANGED <<tool, upgraded>> /\ at' = d /\ todo' = todo \ {d}
        /\ implementation' = [implementation EXCEPT ![d] = source[d]]
    BY <1>1 DEF deploy, deployContractUpgrade, At, Go
  <2>2. InUpgraded(c) => d # c BY <1>0, <2>1 DEF WorkRecorded, In, InUpgraded
  <2>3. InUpgraded(c) => implementation'[c] = implementation[c] BY <1>0, <2>1, <2>2
  <2> QED BY <1>a, <2>1, <2>3 DEF Taken
<1>2. ASSUME \/ openzeppelin_assertIsValidUpgrade \/ AssertionFails \/ rewriteUpgradedDeployment
             \/ changeImplementations \/ ExecuteDeferred \/ SendTransaction \/ exportDeployment
      PROVE  /\ Taken(c) /\ UNCHANGED tool
             /\ InUpgraded(c) => InUpgraded(c)' /\ implementation'[c] = implementation[c]
  <2>1. /\ UNCHANGED <<tool, upgraded, at, todo, implementation>>
        /\ step' \in {"validate", "rewrite", "save", "export", "propose"} =>
             step \in {"validate", "rewrite", "save", "export", "propose"}
    BY <1>2 DEF openzeppelin_assertIsValidUpgrade, AssertionFails, rewriteUpgradedDeployment,
      changeImplementations, ExecuteDeferred, SendTransaction, exportDeployment, At, Go, files
  <2> QED BY <1>a, <2>1 DEF Taken
<1>3. ASSUME openzeppelin_saveDeploymentManifest \/ ProposeChange
      PROVE  /\ Taken(c) /\ UNCHANGED tool
             /\ InUpgraded(c) => InUpgraded(c)' /\ implementation'[c] = implementation[c]
  <2>1. /\ step \in {"save", "propose"} /\ step' \in {"deploy", "add", "end"}
        /\ UNCHANGED <<tool, implementation, at, todo>> /\ upgraded' = Append(upgraded, at)
    BY <1>3 DEF openzeppelin_saveDeploymentManifest, ProposeChange, At, Continue, files
  <2>2. InUpgraded(c)' <=> InUpgraded(c) \/ c = at BY <1>0, <2>1, TakenUp
  <2> QED BY <2>1, <2>2 DEF Taken
<1> QED BY <1>1, <1>2, <1>3 DEF Script

\* What waits stays settled: no run submits about a contract that waits, unless
\* the contract is contended.
LEMMA PendingStep ==
  ASSUME RunsInv, EffectsTypeOK', [Next]_vars
  PROVE  PendingInv'
<1>0. /\ ScriptTypeOK /\ EffectsTypeOK /\ PendingInv /\ ListInv /\ CollectionInv /\ ValidatedInv
      /\ SentOneByOne /\ submissions \in Seq(Submission) /\ upgraded \in Seq(Contracts)
  BY DEF RunsInv, RecordInv, UpgradesInv, EffectsTypeOK, ScriptTypeOK
<1>b. multisig' = multisig BY SameOwner
<1>h. contended \subseteq contended' BY HistoryStays
<1> SUFFICES ASSUME multisig PROVE PendingInv' BY <1>b DEF PendingInv
<1>w. \A i \in DOMAIN submissions :
        Pending(i) => \A tx \in TxsOf(i) : tx.contract \notin contended => Settled(i, tx)
  BY <1>0 DEF PendingInv
\* What a step may not do to a contract that waits.
<1> DEFINE Keeps(c) ==
             status' = "running" /\ Taken(c)' =>
               /\ status = "running" /\ Taken(c) /\ UNCHANGED tool
               /\ InUpgraded(c) => InUpgraded(c)' /\ implementation'[c] = implementation[c]
\* A run that goes on.
<1>s. ASSUME Script, NEW c PROVE Keeps(c)
  <2>1. status = "running" BY <1>s DEF Script, deploy, deployContractUpgrade,
      openzeppelin_assertIsValidUpgrade, AssertionFails, rewriteUpgradedDeployment,
      openzeppelin_saveDeploymentManifest, changeImplementations, ExecuteDeferred, SendTransaction,
      exportDeployment, ProposeChange, At
  <2> QED BY <1>s, <2>1, TakenStep
\* Nothing is submitted or decided.
<1>2. ASSUME UNCHANGED <<submissions, carriedOut>>,
             \A c : Awaited(c) /\ c \notin contended' => Keeps(c)
      PROVE  PendingInv'
  <2>1. \A c : getProxyImplAddress(c)' = getProxyImplAddress(c) BY <1>2, SameProxies
  <2>2. \A i : (Pending(i)' <=> Pending(i)) /\ TxsOf(i)' = TxsOf(i) BY <1>2 DEF Pending, TxsOf
  <2>3. \A i, c : Alone(i, c)' <=> Alone(i, c) BY <1>2, <2>2 DEF Alone, About
  <2> SUFFICES ASSUME NEW i \in DOMAIN submissions, Pending(i), NEW tx \in TxsOf(i),
                      tx.contract \notin contended'
               PROVE  Settled(i, tx)'
    BY <1>0, <1>2, <2>2 DEF PendingInv
  <2>4. Settled(i, tx) /\ Keeps(tx.contract) BY <1>2, <1>h, <1>w, AwaitedIsAbout
  <2>5. Fits(tx)' /\ Alone(i, tx.contract)' BY <2>1, <2>3, <2>4 DEF Settled, Fits
  <2>6. status' = "running" /\ Taken(tx.contract)' => OfThisRun(tx)'
    BY <2>4 DEF Settled, OfThisRun
  <2> QED BY <2>5, <2>6 DEF Settled
\* A submission to a safe.
<1>3. ASSUME NEW txs \in Seq(Effect), submit(txs, "pending"), OneEach(txs), Script,
             UNCHANGED history,
             \A k \in DOMAIN txs :
               txs[k].contract \notin contended =>
                 /\ Fits(txs[k]) /\ ~Awaited(txs[k].contract)
                 /\ status' = "running" =>
                      /\ tool' \in Upgrade /\ InUpgraded(txs[k].contract)'
                      /\ txs[k].version = implementation'[txs[k].contract]
      PROVE  PendingInv'
  <2> DEFINE new == [txs |-> txs, approvals |-> {}, status |-> "pending"]
  <2>0. PICK n : n = Len(submissions) + 1 OBVIOUS
  <2>1. submissions' = Append(submissions, new) /\ UNCHANGED carriedOut BY <1>3 DEF submit
  <2>2. /\ n \in DOMAIN submissions' /\ submissions'[n] = new /\ n \notin DOMAIN submissions
        /\ \A i \in DOMAIN submissions' :
             i # n => i \in DOMAIN submissions /\ submissions'[i] = submissions[i]
    BY <1>0, <2>0, <2>1
  <2>3. new.txs = txs /\ new.status = "pending" OBVIOUS
  <2> HIDE DEF new
  <2>4. \A c : getProxyImplAddress(c)' = getProxyImplAddress(c) BY <2>1, SameProxies
  <2>5. \A i \in DOMAIN submissions' :
          i # n => (Pending(i)' <=> Pending(i)) /\ TxsOf(i)' = TxsOf(i)
    BY <2>2 DEF Pending, TxsOf
  <2>6. TxsOf(n)' = {txs[k] : k \in DOMAIN txs} BY <2>2, <2>3 DEF TxsOf
  <2>7. \A tx \in TxsOf(n)' :
          tx.contract \notin contended =>
            /\ Fits(tx) /\ ~Awaited(tx.contract)
            /\ status' = "running" =>
                 /\ tool' \in Upgrade /\ InUpgraded(tx.contract)'
                 /\ tx.version = implementation'[tx.contract]
    BY <1>3, <2>6
  <2>8. ASSUME NEW i \in DOMAIN submissions', Pending(i)' PROVE OneEach(submissions[i].txs)'
    <3>1. CASE i = n
      <4>1. (submissions[i].txs)' = txs BY <2>2, <2>3, <3>1
      <4> QED BY <1>3, <4>1 DEF OneEach
    <3>2. CASE i # n
      <4>1. Pending(i) /\ i \in DOMAIN submissions BY <2>2, <2>5, <2>8, <3>2
      <4>2. OneEach(submissions[i].txs) BY <1>0, <4>1 DEF PendingInv
      <4>3. (submissions[i].txs)' = submissions[i].txs BY <2>2, <3>2
      <4> QED BY <4>2, <4>3 DEF OneEach
    <3> QED BY <3>1, <3>2
  <2>9. ASSUME NEW i \in DOMAIN submissions', Pending(i)', NEW tx \in TxsOf(i)',
               tx.contract \notin contended'
        PROVE  Settled(i, tx)'
    <3>0. tx.contract \notin contended BY <2>9, <1>h
    <3>1. CASE i = n
      <4>1. /\ Fits(tx) /\ ~Awaited(tx.contract)
            /\ status' = "running" =>
                 /\ tool' \in Upgrade /\ InUpgraded(tx.contract)'
                 /\ tx.version = implementation'[tx.contract]
        BY <2>7, <2>9, <3>0, <3>1
      <4>2. Fits(tx)' BY <2>4, <4>1 DEF Fits
      <4>3. Alone(i, tx.contract)'
        <5> SUFFICES ASSUME NEW j \in DOMAIN submissions', Pending(j)', About(j, tx.contract)', j # n
                     PROVE  FALSE
          BY <3>1 DEF Alone
        <5>1. j \in DOMAIN submissions /\ Pending(j) /\ TxsOf(j)' = TxsOf(j) BY <2>2, <2>5
        <5>2. PICK x \in TxsOf(j) : x.contract = tx.contract BY <5>1 DEF About
        <5> QED BY <4>1, <5>1, <5>2, AwaitedIsAbout
      <4>4. status' = "running" => OfThisRun(tx)' BY <4>1 DEF OfThisRun
      <4> QED BY <4>2, <4>3, <4>4 DEF Settled
    <3>2. CASE i # n
      <4>1. i \in DOMAIN submissions /\ Pending(i) /\ tx \in TxsOf(i)
        BY <2>2, <2>5, <2>9, <3>2
      <4>2. Settled(i, tx) /\ Awaited(tx.contract) BY <1>w, <3>0, <4>1, AwaitedIsAbout
      <4>3. Fits(tx)' BY <2>4, <4>2 DEF Settled, Fits
      <4>4. Alone(i, tx.contract)'
        <5> SUFFICES ASSUME NEW j \in DOMAIN submissions', Pending(j)', About(j, tx.contract)'
                     PROVE  j = i
          BY DEF Alone
        <5>1. j # n BY <2>7, <3>0, <4>2 DEF About
        <5>2. j \in DOMAIN submissions /\ Pending(j) /\ About(j, tx.contract)
          BY <2>2, <2>5, <5>1 DEF About
        <5> QED BY <4>2, <5>2 DEF Settled, Alone
      <4>5. Keeps(tx.contract) BY <1>3, <1>s
      <4>6. status' = "running" /\ Taken(tx.contract)' => OfThisRun(tx)'
        BY <4>2, <4>5 DEF Settled, OfThisRun
      <4> QED BY <4>3, <4>4, <4>6 DEF Settled
    <3> QED BY <3>1, <3>2
  <2> QED BY <2>8, <2>9 DEF PendingInv
<1>5. ASSUME \/ \E c \in todo : deploy(c) \/ deployContractUpgrade(c)
             \/ openzeppelin_assertIsValidUpgrade \/ AssertionFails \/ rewriteUpgradedDeployment
             \/ openzeppelin_saveDeploymentManifest \/ changeImplementations \/ exportDeployment
      PROVE  PendingInv'
  <2>1. UNCHANGED <<submissions, carriedOut>>
    BY <1>5 DEF deploy, sendAsAccount, deployContractUpgrade, openzeppelin_assertIsValidUpgrade,
      AssertionFails, rewriteUpgradedDeployment, openzeppelin_saveDeploymentManifest,
      changeImplementations, add, exportDeployment, effectsVars
  <2>2. Script BY <1>5 DEF Script
  <2> QED BY <1>2, <1>s, <2>1, <2>2
<1>6. CASE ExecuteDeferred
  <2>1. /\ status = "running" /\ tool = "upgradeContracts" /\ status' = "done"
        /\ submit(planned, "pending") /\ UNCHANGED <<history, upgraded>>
    BY <1>0, <1>6 DEF ExecuteDeferred, At, executeDeferred, execute, CollectionInv, files
  <2>2. planned \in Seq(Effect) BY <1>0, EffectsAreTyped DEF planned
  <2>3. \A k \in DOMAIN planned :
          /\ k \in DOMAIN upgraded /\ planned[k].contract = upgraded[k] /\ upgraded[k] \in Contracts
          /\ planned[k].version = implementation[upgraded[k]]
    BY <1>0 DEF planned, changeImplementation
  <2>4. OneEach(planned) BY <1>0, <2>1, <2>3 DEF OneEach, ListInv
  <2>5. \A k \in DOMAIN upgraded : InUpgraded(upgraded[k]) BY DEF In, InUpgraded
  <2>6. ASSUME NEW k \in DOMAIN planned, planned[k].contract \notin contended
        PROVE  Fits(planned[k]) /\ ~Awaited(planned[k].contract)
    <3>1. Fits(planned[k]) BY <1>0, <2>1, <2>3, <2>5, <2>6 DEF Fits, ValidatedInv
    <3>2. Taken(planned[k].contract) BY <2>3, <2>5 DEF Taken
    <3>3. ~Awaited(planned[k].contract) BY <2>1, <2>6, <3>2, AwaitedByRun DEF Upgrade
    <3> QED BY <3>1, <3>3
  <2> QED BY <1>3, <1>6, <2>1, <2>2, <2>4, <2>6 DEF Script
<1>7. CASE SendTransaction
  <2>1. last \in DOMAIN submissions /\ submissions[last].status = "sending"
    BY <1>0, <1>7 DEF SendTransaction, sendTransaction, last
  <2> QED BY <1>0, <2>1 DEF SentOneByOne
<1>10. CASE ProposeChange
  <2>1. /\ status = "running" /\ tool \in Upgrade /\ step = "propose"
        /\ UNCHANGED <<implementation, tool, at, history>>
        /\ upgraded' = Append(upgraded, at) /\ at \in Contracts
        /\ UNCHANGED effectsVars \/ createProposal(changeImplementation(at))
    BY <1>0, <1>10 DEF ScriptTypeOK, ProposeChange, At, Continue, files
  <2>2. Script BY <1>10 DEF Script
  <2>3. CASE UNCHANGED effectsVars BY <1>2, <1>s, <2>2, <2>3 DEF effectsVars
  <2>4. CASE createProposal(changeImplementation(at))
    <3>0. PICK txs : txs = <<changeImplementation(at)>> OBVIOUS
    <3>1. /\ txs \in Seq(Effect) /\ DOMAIN txs = {1} /\ txs[1].contract = at
          /\ txs[1].version = implementation[at] /\ txs[1].by = tool
      BY <1>0, <2>1, <3>0, EffectsAreTyped DEF changeImplementation
    <3>2. submit(txs, "pending") BY <2>4, <3>0 DEF createProposal
    <3>3. OneEach(txs) /\ Fits(txs[1]) BY <2>1, <3>1 DEF OneEach, Fits, Upgrade
    <3>4. \A c : InUpgraded(c)' <=> InUpgraded(c) \/ c = at BY <1>0, <2>1, TakenUp
    <3>5. at \notin contended => ~Awaited(at)
      <4>1. Taken(at) /\ ~InUpgraded(at) BY <1>0, <2>1 DEF Taken, ListInv
      <4> QED BY <2>1, <4>1, AwaitedByRun
    <3>6. \A k \in DOMAIN txs :
            txs[k].contract \notin contended =>
              /\ Fits(txs[k]) /\ ~Awaited(txs[k].contract)
              /\ status' = "running" =>
                   /\ tool' \in Upgrade /\ InUpgraded(txs[k].contract)'
                   /\ txs[k].version = implementation'[txs[k].contract]
      BY <2>1, <3>1, <3>3, <3>4, <3>5
    <3> QED BY <1>3, <2>1, <2>2, <3>1, <3>2, <3>3, <3>6
  <2> QED BY <2>1, <2>3, <2>4
<1>11. CASE Start
  <2>1. /\ UNCHANGED <<submissions, carriedOut>> /\ upgraded' = <<>> /\ step' = "deploy"
        /\ contended' = contended \cup {c \in todo' : Awaited(c)}
    BY <1>11 DEF Start, getDeployEffects
  <2>2. \A c : Taken(c)' => c \in todo' BY <2>1 DEF Taken, In, InUpgraded
  <2>3. \A c : Awaited(c) /\ c \notin contended' => ~Taken(c)' BY <2>1, <2>2
  <2> QED BY <1>2, <2>1, <2>3
<1>12. ASSUME Interrupt \/ Release \/ writeManifest PROVE PendingInv'
  <2>1. status' # "running" /\ UNCHANGED <<submissions, carriedOut>>
    BY <1>12 DEF Interrupt, Release, writeManifest, scriptVars, effectsVars
  <2> QED BY <1>2, <2>1
<1>13. CASE SafeActs
  <2>1. PICK i \in DOMAIN submissions :
          (\E o \in SafeOwners : Approve(i, o)) \/ execTransaction(i) \/ Reject(i)
    BY <1>13 DEF SafeActs, Safe
  <2>0. submissions[i] \in Submission /\ UNCHANGED <<files, scriptVars>>
    BY <1>0, <1>13 DEF SafeActs
  <2>2. Pending(i) BY <2>1 DEF Approve, execTransaction, Reject, Pending
  <2>3. PICK new : /\ submissions' = [submissions EXCEPT ![i] = new] /\ new.txs = submissions[i].txs
                   /\ \/ UNCHANGED carriedOut
                      \/ new.status # "pending" /\ carriedOut' = carriedOut \o submissions[i].txs
    <3>1. CASE \E o \in SafeOwners : Approve(i, o)
      <4>1. PICK o \in SafeOwners : Approve(i, o) BY <3>1
      <4> DEFINE new == [submissions[i] EXCEPT !.approvals = @ \cup {o}]
      <4>2. new.txs = submissions[i].txs BY <2>0 DEF Submission
      <4> QED BY <4>1, <4>2 DEF Approve
    <3>2. CASE execTransaction(i)
      <4> DEFINE new == [submissions[i] EXCEPT !.status = "executed"]
      <4>1. new.txs = submissions[i].txs /\ new.status = "executed" BY <2>0 DEF Submission
      <4> QED BY <3>2, <4>1 DEF execTransaction
    <3>3. CASE Reject(i)
      <4> DEFINE new == [submissions[i] EXCEPT !.status = "rejected"]
      <4>1. new.txs = submissions[i].txs BY <2>0 DEF Submission
      <4> QED BY <3>3, <4>1 DEF Reject
    <3> QED BY <2>1, <3>1, <3>2, <3>3
  <2>4. /\ DOMAIN submissions' = DOMAIN submissions
        /\ \A j \in DOMAIN submissions :
             /\ submissions'[j].txs = submissions[j].txs
             /\ submissions'[j].status = "pending" => Pending(j)
             /\ submissions'[j].status = "pending" => j # i \/ UNCHANGED carriedOut
    BY <1>0, <2>2, <2>3 DEF Pending
  <2>5. UNCHANGED <<upgraded, implementation, status, tool, todo, at, step, contended>>
    BY <2>0 DEF files, scriptVars, history
  <2>6. \A j \in DOMAIN submissions : TxsOf(j)' = TxsOf(j) /\ (Pending(j)' => Pending(j))
    BY <2>4 DEF TxsOf, Pending
  <2>7. \A c : (InUpgraded(c)' <=> InUpgraded(c)) /\ (Taken(c)' <=> Taken(c))
    BY <2>5 DEF In, InUpgraded, Taken
  <2>8. \A j, c : Alone(j, c) => Alone(j, c)' BY <2>4, <2>6 DEF Alone, About
  <2>9. ASSUME NEW j \in DOMAIN submissions, Pending(j)', NEW tx \in TxsOf(j), Alone(j, tx.contract)
        PROVE  getProxyImplAddress(tx.contract)' = getProxyImplAddress(tx.contract)
    <3>1. CASE UNCHANGED carriedOut BY <3>1, SameProxies
    <3>2. CASE ~UNCHANGED carriedOut
      <4> DEFINE txs == submissions[i].txs
      <4>1. j # i /\ carriedOut' = carriedOut \o txs BY <2>3, <2>4, <2>9, <3>2 DEF Pending
      <4>2. txs \in Seq(Effect) /\ OneEach(txs) BY <1>0, <2>0, <2>2 DEF Submission, PendingInv
      <4>3. \A k \in DOMAIN txs : txs[k] \in TxsOf(i) BY DEF TxsOf
      <4>4. \A k \in DOMAIN txs : txs[k].contract # tx.contract
        BY <2>2, <2>9, <4>1, <4>3 DEF Alone, About
      <4> HIDE DEF txs
      <4> QED BY <1>0, <4>1, <4>2, <4>4, ProxiesAfter
    <3> QED BY <3>1, <3>2
  <2>10. ASSUME NEW j \in DOMAIN submissions, Pending(j)' PROVE OneEach(submissions[j].txs)'
    <3>1. OneEach(submissions[j].txs) BY <1>0, <2>6, <2>10 DEF PendingInv
    <3>2. (submissions[j].txs)' = submissions[j].txs BY <2>4
    <3> QED BY <3>1, <3>2 DEF OneEach
  <2>11. ASSUME NEW j \in DOMAIN submissions, Pending(j)', NEW tx \in TxsOf(j),
                tx.contract \notin contended
         PROVE  Settled(j, tx)'
    <3>1. Settled(j, tx) BY <1>w, <2>6, <2>11
    <3>2. Alone(j, tx.contract)' BY <2>8, <3>1 DEF Settled
    <3>3. Fits(tx)' BY <2>9, <2>11, <3>1 DEF Settled, Fits
    <3>4. status' = "running" /\ Taken(tx.contract)' => OfThisRun(tx)'
      BY <2>5, <2>7, <3>1 DEF Settled, OfThisRun
    <3> QED BY <3>2, <3>3, <3>4 DEF Settled
  <2> QED BY <2>4, <2>5, <2>6, <2>10, <2>11 DEF PendingInv
<1>14. CASE UNCHANGED vars
  <2>1. UNCHANGED <<submissions, carriedOut, status, tool, upgraded, implementation, todo, at, step>>
    BY <1>14 DEF vars, effectsVars, files, scriptVars
  <2>2. \A c : (InUpgraded(c)' <=> InUpgraded(c)) /\ (Taken(c)' <=> Taken(c))
    BY <2>1 DEF In, InUpgraded, Taken
  <2> QED BY <1>2, <2>1, <2>2
<1>15. CASE Script BY <1>5, <1>6, <1>7, <1>10, <1>15 DEF Script
<1> QED BY <1>11, <1>12, <1>13, <1>14, <1>15 DEF Next

\* A run that ends well: of upgradeContracts with the submission of its whole
\* list or its last transaction, of upgrade.ts with its last contract.
LEMMA FinishStep ==
  ASSUME RunsInv, RunsInv', [Next]_vars, status = "running", status' = "done",
         tool # "upgradeNoDefender", NEW c \in Contracts, InUpgraded(c)',
         tool = "upgradeContracts" \/ c \notin contended
  PROVE  getProxyImplAddress(c)' = source[c] \/ (Proposed(c)' /\ UNCHANGED <<source, earlier>>)
<1>0. /\ ScriptTypeOK /\ EffectsTypeOK /\ EffectsTypeOK' /\ ListInv /\ CollectionInv /\ LocalInv' /\ EarlierInv
      /\ SentOneByOne /\ submissions \in Seq(Submission) /\ upgraded \in Seq(Contracts)
  BY DEF RunsInv, RecordInv, UpgradesInv, EffectsTypeOK, ScriptTypeOK
<1>a. UNCHANGED upgraded => InUpgraded(c) BY DEF In, InUpgraded
<1>b. InUpgraded(c) => implementation[c] = source[c] BY <1>0 DEF ListInv
<1>1. CASE ExecuteDeferred
  <2> SUFFICES ASSUME multisig PROVE Proposed(c)' /\ UNCHANGED <<source, earlier>>
    <3>1. ~multisig => getProxyImplAddress(c)' = implementation'[c] BY <1>0, SameOwner DEF LocalInv
    <3> QED BY <1>a, <1>b, <1>1, <3>1 DEF ExecuteDeferred, files
  <2>1. /\ tool = "upgradeContracts" /\ deferredEffects = planned /\ submit(planned, "pending")
        /\ UNCHANGED <<source, implementation, upgraded, earlier>>
    BY <1>0, <1>1 DEF ExecuteDeferred, At, executeDeferred, execute, CollectionInv, files, history
  <2>2. PICK k \in DOMAIN upgraded : upgraded[k] = c BY <1>a, <2>1 DEF In, InUpgraded
  <2>3. /\ k \in DOMAIN planned /\ planned[k].contract = c
        /\ planned[k].version = implementation[c]
    BY <1>0, <2>2 DEF planned, changeImplementation
  <2> DEFINE new == [txs |-> planned, approvals |-> {}, status |-> "pending"]
             i == Len(submissions) + 1
  <2>4. submissions' = Append(submissions, new) /\ new.txs = planned BY <2>1 DEF submit
  <2> HIDE DEF new
  <2>5. i \in DOMAIN submissions' /\ submissions'[i] = new /\ i > earlier'
    BY <1>0, <2>1, <2>4 DEF EarlierInv
  <2> HIDE DEF i
  <2>6. /\ i \in DOMAIN submissions' /\ i > earlier' /\ k \in DOMAIN submissions'[i].txs
        /\ submissions'[i].txs[k].contract = c /\ submissions'[i].txs[k].version = source'[c]
    BY <1>a, <1>b, <2>1, <2>3, <2>4, <2>5
  <2> QED BY <2>1, <2>6 DEF Proposed
<1>2. CASE SendTransaction
  <2>1. /\ last \in DOMAIN submissions /\ submissions[last].status = "sending"
        /\ UNCHANGED <<multisig, source, implementation, upgraded>>
    BY <1>0, <1>2 DEF SendTransaction, sendTransaction, last, files
  <2>2. ~multisig' BY <1>0, <2>1 DEF SentOneByOne
  <2>3. getProxyImplAddress(c)' = implementation'[c] BY <1>0, <2>2 DEF LocalInv
  <2> QED BY <1>a, <1>b, <2>1, <2>3
<1>3. CASE ProposeChange
  <2>1. tool = "upgrade" /\ UNCHANGED <<source, earlier>>
    BY <1>3 DEF ProposeChange, Continue, At, Upgrade, files, history
  <2> QED BY <1>0, <1>3, <2>1, ProposedOrDone
<1>4. ASSUME \/ \E d \in todo : deploy(d) \/ deployContractUpgrade(d)
             \/ openzeppelin_assertIsValidUpgrade \/ AssertionFails \/ rewriteUpgradedDeployment
             \/ openzeppelin_saveDeploymentManifest \/ changeImplementations \/ exportDeployment
             \/ Start \/ Interrupt \/ Release \/ writeManifest \/ SafeActs \/ UNCHANGED vars
      PROVE  FALSE
  <2>1. status' = status \/ status' = "aborted" \/ status # "running"
    BY <1>4 DEF deploy, deployContractUpgrade, openzeppelin_assertIsValidUpgrade, AssertionFails,
      rewriteUpgradedDeployment, openzeppelin_saveDeploymentManifest, changeImplementations,
      exportDeployment, Start, Interrupt, Release, writeManifest, SafeActs, vars, Go, Continue,
      scriptVars
  <2> QED BY <2>1
<1>5. CASE Script BY <1>1, <1>2, <1>3, <1>4, <1>5 DEF Script
<1> QED BY <1>4, <1>5 DEF Next

----------------------------------------------------------------------------

\* The runs, the proposals and the proxies agree, whatever the safe does.
THEOREM RunsInvariant == Spec => []RunsInv
<1>1. ASSUME Init, RecordInv PROVE RunsInv
  <2>1. /\ submissions = <<>> /\ carriedOut = <<>> /\ status = "idle"
        /\ implementation = [c \in Contracts |-> 1] /\ earlier = 0
    BY <1>1 DEF Init, EffectsInit
  <2>2. \A c : getProxyImplAddress(c) = 1 BY <2>1 DEF getProxyImplAddress
  <2>3. PendingInv /\ LocalInv BY <2>1, <2>2 DEF PendingInv, LocalInv
  <2>4. ListInv /\ CollectionInv /\ EarlierInv /\ ValidatedInv /\ DoneInv
    BY <2>1 DEF ListInv, CollectionInv, EarlierInv, ValidatedInv, DoneInv
  <2>5. ExecutedUpgradesAreCompatible BY <2>1 DEF ExecutedUpgradesAreCompatible
  <2> QED BY <1>1, <2>3, <2>4, <2>5 DEF RunsInv
<1>2. ASSUME RunsInv, RecordInv', [Next]_vars PROVE RunsInv'
  <2>1. EffectsTypeOK' BY <1>2 DEF RecordInv, UpgradesInv
  <2>2. /\ PendingInv' /\ ListInv' /\ CollectionInv' /\ EarlierInv' /\ ValidatedInv' /\ DoneInv'
        /\ LocalInv'
    BY <1>2, <2>1, PendingStep, ListStep, CollectionStep, EarlierStep, ValidatedStep, DoneStep,
      LocalStep
  <2>3. ExecutedUpgradesAreCompatible' BY <1>2, <2>1, HistoryStep
  <2> QED BY <1>2, <2>2, <2>3 DEF RunsInv
<1> QED BY <1>1, <1>2, RecordInvariant, PTL DEF Spec

\* For any contracts, versions and safe, and for any runs with proposals pending: a
\* contract of a safe changes between layouts that upgradeContracts did not compare
\* only if a run took it up with a proposal about it pending.
THEOREM ExecutedUpgradesFit == Spec => []ExecutedUpgradesAreCompatible
<1>1. RunsInv => ExecutedUpgradesAreCompatible BY DEF RunsInv
<1> QED BY <1>1, RunsInvariant, PTL

\* For any contracts, versions and safe, and wherever earlier runs stopped: when a
\* run ends well, each contract of its list runs the code of the working copy or
\* is in a submission of this run with that code; for upgrade.ts unless a run took
\* the contract up with a proposal about it pending.
THEOREM RunsFinish == Spec => RunsFinishTheJob
<1> DEFINE Reached(c) ==
             \/ getProxyImplAddress(c)' = source[c]
             \/ \E i \in DOMAIN submissions' : \E k \in DOMAIN submissions'[i].txs :
                  /\ i > earlier /\ submissions'[i].txs[k].contract = c
                  /\ submissions'[i].txs[k].version = source[c]
<1>1. ASSUME RunsInv, RunsInv', [Next]_vars
      PROVE  [status = "running" /\ status' = "done" /\ tool # "upgradeNoDefender" =>
                \A c \in Contracts :
                  /\ \E k \in DOMAIN upgraded' : upgraded'[k] = c
                  /\ tool = "upgradeContracts" \/ c \notin contended
                  => Reached(c)]_vars
  <2> SUFFICES ASSUME status = "running", status' = "done", tool # "upgradeNoDefender",
                      NEW c \in Contracts, InUpgraded(c)',
                      tool = "upgradeContracts" \/ c \notin contended
               PROVE  Reached(c)
    BY DEF In, InUpgraded
  <2>1. getProxyImplAddress(c)' = source[c] \/ (Proposed(c)' /\ UNCHANGED <<source, earlier>>)
    BY <1>1, FinishStep
  <2> QED BY <2>1 DEF Proposed
<1> QED BY <1>1, RunsInvariant, PTL DEF Spec, RunsFinishTheJob
=============================================================================
