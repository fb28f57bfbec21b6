---------------------------- MODULE EnsurePerms -----------------------------
(* The script ensurePerms.ts, which hands the contracts over to the safe: the *)
(* proxies' ownership, the config's admin and reserve, and on every contract  *)
(* the roles of the protocol owner, one transaction a step.  The run may stop *)
(* between any two transactions and be started again.                         *)
EXTENDS Integers, Sequences

CONSTANTS CONTRACTS,          \* the contracts named in the environment, in order
          Deployments,        \* what the deployments folder may hold
          ProtocolOwners,     \* what the named account protocol_owner may be: on
                              \* one chain it is the safe (hardhat.config.ts)
          MaxInterruptions

safe == "safe"
gf_deployer == "gf_deployer"
Accounts == {safe, gf_deployer, "owner_key"}
Roles == {"minter", "pauser", "owner"}

ASSUME EnsurePermsAssumption ==
  /\ CONTRACTS \in Seq(STRING) /\ CONTRACTS # <<>>
  /\ ProtocolOwners \subseteq Accounts
  /\ MaxInterruptions \in Nat

VARIABLES
  protocol_owner,   \* the named account of the chain
  deployments,      \* the names with a deployment record
  hasRole,          \* the accounts that have a role on a contract
  owner,            \* the owner of a contract's proxy
  config,           \* the config's ProtocolAdmin and TreasuryReserve
  index, pc,        \* the contract the loop is at, and its next transaction
  status, interruptions

vars == <<protocol_owner, deployments, hasRole, owner, config, index, pc, status, interruptions>>

----------------------------------------------------------------------------
(* The script as the sequence of its transactions.                            *)

Tx(do, role) == [do |-> do, role |-> role]

DeploymentOf(name) == IF name = "GoldfinchFactory" THEN "CreditLineFactory" ELSE name
Listed == {DeploymentOf(CONTRACTS[i]) : i \in DOMAIN CONTRACTS}

\* As if the owner role came first.
RolesOwnerFirst(c) ==
  IF c = "Fidu" THEN <<"owner", "minter", "pauser">> ELSE <<"owner", "pauser">>
\* Owner is at the end, "so we revoke that last".
RolesOf(c) ==
  IF c = "Fidu" THEN <<"minter", "pauser", "owner">> ELSE <<"pauser", "owner">>

ensureRoles(c) ==
  [i \in 1..2 * Len(RolesOf(c)) |->
     Tx(IF i % 2 = 1 THEN "grant" ELSE "revoke", RolesOf(c)[(i + 1) \div 2])]

ensurePermsOnContract(c) ==
  (IF c = "GoldfinchConfig"
   THEN <<Tx("protocolAdmin", "owner"), Tx("treasuryReserve", "owner")>>
   ELSE <<Tx("transferOwnership", "owner")>>)
    \o ensureRoles(c)

contract == DeploymentOf(CONTRACTS[index])
tx == ensurePermsOnContract(contract)[pc]

----------------------------------------------------------------------------
(* The contracts are called by the first signer, who has the key of the       *)
(* protocol owner, the proxies by gf_deployer.                                *)

SignerIsOwner == protocol_owner \in hasRole[contract]["owner"]

Skipped ==
  CASE tx.do = "protocolAdmin" -> config.ProtocolAdmin = safe
    [] tx.do = "treasuryReserve" -> config.TreasuryReserve = safe
    [] tx.do = "transferOwnership" -> owner[contract] = safe
    [] tx.do = "grant" -> safe \in hasRole[contract][tx.role]
    [] tx.do = "revoke" -> protocol_owner \notin hasRole[contract][tx.role]

\* setAddress writes a key once, setTreasuryReserve again and again.
Accepted ==
  /\ contract \in deployments
  /\ ~Skipped => IF tx.do = "transferOwnership" THEN owner[contract] = gf_deployer
                 ELSE SignerIsOwner
  /\ tx.do = "protocolAdmin" => config.ProtocolAdmin \in {"none", safe}

Advance ==
  /\ IF pc < Len(ensurePermsOnContract(contract))
     THEN pc' = pc + 1 /\ UNCHANGED <<index, status>>
     ELSE /\ pc' = 1
          /\ index' = IF index < Len(CONTRACTS) THEN index + 1 ELSE index
          /\ status' = IF index < Len(CONTRACTS) THEN "running" ELSE "done"
  /\ UNCHANGED <<protocol_owner, deployments, interruptions>>
Running(do) == status = "running" /\ tx.do = do /\ Accepted

SetProtocolAdmin ==
  /\ Running("protocolAdmin")
  /\ config' = [config EXCEPT !.ProtocolAdmin = safe]
  /\ Advance /\ UNCHANGED <<hasRole, owner>>
SetTreasuryReserve ==
  /\ Running("treasuryReserve")
  /\ config' = [config EXCEPT !.TreasuryReserve = safe]
  /\ Advance /\ UNCHANGED <<hasRole, owner>>
TransferOwnership ==
  /\ Running("transferOwnership")
  /\ owner' = [owner EXCEPT ![contract] = safe]
  /\ Advance /\ UNCHANGED <<hasRole, config>>
\* As if the safe were taken to have the role.
SkipGrant ==
  /\ Running("grant")
  /\ Advance /\ UNCHANGED <<hasRole, owner, config>>
GrantRole ==
  /\ Running("grant")
  /\ hasRole' = [hasRole EXCEPT ![contract] =
                 [hasRole[contract] EXCEPT ![tx.role] = hasRole[contract][tx.role] \cup {safe}]]
  /\ Advance /\ UNCHANGED <<owner, config>>
\* As if the role were revoked from the deployer.
RevokeFromDeployer ==
  /\ Running("revoke")
  /\ hasRole' = [hasRole EXCEPT ![contract] =
                 [hasRole[contract] EXCEPT
                    ![tx.role] = hasRole[contract][tx.role] \ {gf_deployer}]]
  /\ Advance /\ UNCHANGED <<owner, config>>
RevokeRole ==
  /\ Running("revoke")
  /\ hasRole' = [hasRole EXCEPT ![contract] =
                 [hasRole[contract] EXCEPT
                    ![tx.role] = hasRole[contract][tx.role] \ {protocol_owner}]]
  /\ Advance /\ UNCHANGED <<owner, config>>

Abort ==
  /\ status = "running" /\ ~Accepted
  /\ status' = "aborted"
  /\ UNCHANGED <<protocol_owner, deployments, hasRole, owner, config, index, pc, interruptions>>
Interrupt ==
  /\ status = "running" /\ interruptions < MaxInterruptions
  /\ status' = "aborted" /\ interruptions' = interruptions + 1
  /\ UNCHANGED <<protocol_owner, deployments, hasRole, owner, config, index, pc>>
Start ==
  /\ status \in {"idle", "aborted"}
  /\ index' = 1 /\ pc' = 1 /\ status' = "running"
  /\ UNCHANGED <<protocol_owner, deployments, hasRole, owner, config, interruptions>>

\* Before the hand-over the protocol owner has every role, in part with the
\* safe; a proxy is owned by its deployer or, deployed anew, by the safe.
Init ==
  /\ protocol_owner \in ProtocolOwners /\ deployments \in Deployments
  /\ \E holders \in {{protocol_owner}, {protocol_owner, safe}} :
       hasRole = [c \in Listed |-> [r \in Roles |-> holders]]
  /\ \E proxyOwner \in {gf_deployer, safe} : owner = [c \in Listed |-> proxyOwner]
  /\ config \in [ProtocolAdmin : {"none", safe}, TreasuryReserve : {"none", protocol_owner, safe}]
  /\ index = 1 /\ pc = 1 /\ status = "idle" /\ interruptions = 0

Step ==
  \/ SetProtocolAdmin \/ SetTreasuryReserve \/ TransferOwnership \/ GrantRole \/ RevokeRole
  \/ Abort
Next == Step \/ Interrupt \/ Start
Spec == Init /\ [][Next]_vars
\* The script runs on, and the operator starts it again when it failed.
FairSpec == Spec /\ WF_vars(Step) /\ WF_vars(Start)

----------------------------------------------------------------------------
(* Properties.                                                                *)

\* Wherever the script stops, somebody holds each role: the safe has a role
\* before the protocol owner loses it.  A role is left without a holder only where
\* the safe is the protocol owner, from which the script revokes what it has.
EveryRoleIsHeld ==
  \A c \in Listed, r \in Roles : hasRole[c][r] = {} => protocol_owner = safe

\* When the script is done, the safe alone has the roles that it hands over, and
\* nobody has them where the safe is the protocol owner.
DoneIsHandedOver ==
  status = "done" =>
    \A c \in Listed :
      /\ c # "GoldfinchConfig" => owner[c] = safe
      /\ \A i \in DOMAIN RolesOf(c) : hasRole[c][RolesOf(c)[i]] = {safe} \ {protocol_owner}

\* A hand-over to another account that stops anywhere can be taken up again and is
\* completed, if no contract misses its record: the owner role, which every
\* transaction needs, goes last.
HandOverCompletes ==
  Listed \subseteq deployments /\ protocol_owner # safe => <>(status = "done")
=============================================================================
