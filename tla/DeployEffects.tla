---------------------------- MODULE DeployEffects ----------------------------
(* migrations/deployEffects.ts and the DefenderUpgrader it sends through: the *)
(* effects a script adds, their submission (one multisend proposed to the     *)
(* owner's safe, or one transaction after the other where the owner is an     *)
(* account of the node), and the safe that approves and executes proposals.   *)
(* The actions are those of the component; the scripts that use it choose     *)
(* when to take them.  Abstracted: titles, calldata, the tenderly log.        *)
EXTENDS Integers, Sequences, FiniteSets

CONSTANTS Effect,      \* transactions of the owner
          SafeOwners, Threshold,
          MaxSubmissions

ASSUME DeployEffectsAssumption ==
  /\ IsFiniteSet(SafeOwners) /\ Threshold \in 1..Cardinality(SafeOwners)
  /\ MaxSubmissions \in Nat

VARIABLES
  multisig,         \* the owner is a safe; otherwise a local account
  deferredEffects,  \* in the memory of the script
  submissions,      \* the proposals on Defender, or what executeDeferred sends
  carriedOut        \* the owner's transactions, in the order of the chain

effectsVars == <<multisig, deferredEffects, submissions, carriedOut>>

Submission ==
  [txs : Seq(Effect), approvals : SUBSET SafeOwners,
   status : {"pending", "executed", "rejected", "sending"}]
EffectsTypeOK ==
  /\ multisig \in BOOLEAN
  /\ deferredEffects \in Seq(Effect)
  /\ submissions \in Seq(Submission)
  /\ carriedOut \in Seq(Effect)

EffectsInit ==
  /\ multisig \in BOOLEAN
  /\ deferredEffects = <<>> /\ submissions = <<>> /\ carriedOut = <<>>

----------------------------------------------------------------------------
(* What a script does.                                                        *)

\* getDeployEffects: a collection that starts empty.
getDeployEffects ==
  deferredEffects' = <<>> /\ UNCHANGED <<multisig, submissions, carriedOut>>
add(deferred) ==
  deferredEffects' = deferredEffects \o deferred /\ UNCHANGED <<multisig, submissions, carriedOut>>

submit(txs, status) ==
  /\ Len(submissions) < MaxSubmissions
  /\ submissions' = Append(submissions, [txs |-> txs, approvals |-> {}, status |-> status])
  /\ UNCHANGED <<multisig, deferredEffects, carriedOut>>
execute(txs) == submit(txs, IF multisig THEN "pending" ELSE "sending")
\* The collection is not emptied.
executeDeferred == execute(deferredEffects)
\* DefenderUpgrader: a proposal of one transaction.
createProposal(tx) == multisig /\ submit(<<tx>>, "pending")

\* IndividualTxEffects: the next transaction, each awaited.
last == Len(submissions)
sendTransaction ==
  /\ last > 0 /\ submissions[last].status = "sending" /\ submissions[last].txs # <<>>
  /\ carriedOut' = Append(carriedOut, Head(submissions[last].txs))
  /\ submissions' =
       [submissions EXCEPT ![last] = [submissions[last] EXCEPT !.txs = Tail(submissions[last].txs)]]
  /\ UNCHANGED <<multisig, deferredEffects>>

\* The account sends a transaction at the request of hardhat-deploy.
sendAsAccount(tx) ==
  /\ ~multisig
  /\ carriedOut' = Append(carriedOut, tx)
  /\ UNCHANGED <<multisig, deferredEffects, submissions>>

----------------------------------------------------------------------------
(* What the safe does.                                                        *)

Approve(i, owner) ==
  /\ submissions[i].status = "pending" /\ owner \notin submissions[i].approvals
  /\ submissions' =
       [submissions EXCEPT ![i] = [submissions[i] EXCEPT !.approvals = @ \cup {owner}]]
  /\ UNCHANGED <<multisig, deferredEffects, carriedOut>>

\* As if a multisend could stop after its first transaction.
execTransactionInParts(i) ==
  /\ submissions[i].status = "pending"
  /\ Cardinality(submissions[i].approvals) >= Threshold
  /\ carriedOut' = carriedOut \o SubSeq(submissions[i].txs, 1, 1)
  /\ submissions' = [submissions EXCEPT ![i] = [submissions[i] EXCEPT !.status = "executed"]]
  /\ UNCHANGED <<multisig, deferredEffects>>

\* The multisend takes place as a whole; one that reverts changes nothing.
execTransaction(i) ==
  /\ submissions[i].status = "pending"
  /\ Cardinality(submissions[i].approvals) >= Threshold
  /\ carriedOut' = carriedOut \o submissions[i].txs
  /\ submissions' = [submissions EXCEPT ![i] = [submissions[i] EXCEPT !.status = "executed"]]
  /\ UNCHANGED <<multisig, deferredEffects>>

Reject(i) ==
  /\ submissions[i].status = "pending"
  /\ submissions' = [submissions EXCEPT ![i] = [submissions[i] EXCEPT !.status = "rejected"]]
  /\ UNCHANGED <<multisig, deferredEffects, carriedOut>>

Safe ==
  \E i \in DOMAIN submissions :
    (\E owner \in SafeOwners : Approve(i, owner)) \/ execTransaction(i) \/ Reject(i)

----------------------------------------------------------------------------
(* How it implements OwnerEffects.                                            *)

outstanding ==
  [i \in DOMAIN submissions |->
     IF submissions[i].status \in {"pending", "sending"} THEN submissions[i].txs ELSE <<>>]
OE == INSTANCE OwnerEffects WITH
        asWhole <- multisig, collected <- deferredEffects, submitted <- outstanding
=============================================================================
