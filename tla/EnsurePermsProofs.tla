-------------------------- MODULE EnsurePermsProofs ---------------------------
(* EveryRoleIsHeld and DoneIsHandedOver, for any list of contracts, any       *)
(* deployments and any number of interruptions and restarts.  The invariant   *)
(* says that every transaction of the current run before the next one has     *)
(* its effect, which no later transaction takes back: so a role that is about *)
(* to be revoked is the safe's, and at the end all effects are there.  Where  *)
(* the safe is the protocol owner, a revocation takes the grant before it     *)
(* back; no grant takes a revocation back, because the owner role went last.  *)
EXTENDS EnsurePerms, TLAPS

plan(c) == ensurePermsOnContract(c)
contractAt(j) == DeploymentOf(CONTRACTS[j])

PermsTypeOK ==
  /\ protocol_owner \in ProtocolOwners
  /\ hasRole \in [Listed -> [Roles -> SUBSET {safe, protocol_owner}]]
  /\ owner \in [Listed -> Accounts]
  /\ index \in DOMAIN CONTRACTS /\ pc \in DOMAIN plan(contract)
  /\ status \in {"idle", "running", "aborted", "done"}

Accomplished(c, t) ==
  /\ t.do = "transferOwnership" => owner[c] = safe
  /\ t.do = "grant" => safe \in hasRole[c][t.role] \/ protocol_owner = safe
  /\ t.do = "revoke" => protocol_owner \notin hasRole[c][t.role]
PlanAccomplished(c) == \A k \in DOMAIN plan(c) : Accomplished(c, plan(c)[k])

RunSoFar ==
  status = "running" =>
    /\ \A j \in DOMAIN CONTRACTS : j < index => PlanAccomplished(contractAt(j))
    /\ \A k \in DOMAIN plan(contract) : k < pc => Accomplished(contract, plan(contract)[k])
RunToTheEnd ==
  status = "done" => \A j \in DOMAIN CONTRACTS : PlanAccomplished(contractAt(j))

PermsInv == PermsTypeOK /\ EveryRoleIsHeld /\ RunSoFar /\ RunToTheEnd

----------------------------------------------------------------------------
(* The plan of a contract.                                                    *)

Dos == {"protocolAdmin", "treasuryReserve", "transferOwnership", "grant", "revoke"}
Txs == [do : Dos, role : Roles]
prefix(c) ==
  IF c = "GoldfinchConfig"
  THEN <<Tx("protocolAdmin", "owner"), Tx("treasuryReserve", "owner")>>
  ELSE <<Tx("transferOwnership", "owner")>>

\* For each role in its turn, the grant comes right before the revocation.
LEMMA RolesShape ==
  ASSUME NEW c
  PROVE  /\ Len(RolesOf(c)) \in {2, 3} /\ DOMAIN RolesOf(c) = 1..Len(RolesOf(c))
         /\ \A i \in DOMAIN RolesOf(c) : RolesOf(c)[i] \in Roles
         /\ Len(ensureRoles(c)) = 2 * Len(RolesOf(c))
         /\ DOMAIN ensureRoles(c) = 1..2 * Len(RolesOf(c))
         /\ ensureRoles(c) \in Seq(Txs)
         /\ \A i \in DOMAIN ensureRoles(c) :
              /\ ensureRoles(c)[i].role \in Roles
              /\ ensureRoles(c)[i].do \in {"grant", "revoke"}
              /\ ensureRoles(c)[i].do = "revoke" =>
                   i > 1 /\ ensureRoles(c)[i - 1] = Tx("grant", ensureRoles(c)[i].role)
         /\ \A i \in DOMAIN RolesOf(c) :
              /\ ensureRoles(c)[2 * i - 1] = Tx("grant", RolesOf(c)[i])
              /\ ensureRoles(c)[2 * i] = Tx("revoke", RolesOf(c)[i])
         /\ \A i, j \in DOMAIN ensureRoles(c) :
              i < j /\ ensureRoles(c)[i].do = "revoke" /\ ensureRoles(c)[j].do = "grant"
              => ensureRoles(c)[i].role # ensureRoles(c)[j].role
         /\ \E i \in DOMAIN RolesOf(c) : RolesOf(c)[i] = "owner"
<1> DEFINE r == RolesOf(c)  n == Len(r)  e == ensureRoles(c)
<1>1. /\ n \in {2, 3} /\ DOMAIN r = 1..n
      /\ \A i \in DOMAIN r : r[i] \in Roles
      /\ \A i, j \in DOMAIN r : i < j => r[i] # r[j]
      /\ r[n] = "owner"
  <2>1. CASE c = "Fidu"
    <3>1. r = <<"minter", "pauser", "owner">> BY <2>1 DEF RolesOf
    <3> HIDE DEF r
    <3>2. Len(r) = 3 /\ DOMAIN r = 1..3 BY <3>1
    <3>3. r[1] \in Roles /\ r[2] \in Roles /\ r[3] \in Roles BY <3>1 DEF Roles
    <3>4. r[1] # r[2] /\ r[2] # r[3] /\ r[1] # r[3] /\ r[3] = "owner" BY <3>1
    <3>5. \A i, j \in 1..3 : i < j => <<i, j>> \in {<<1, 2>>, <<2, 3>>, <<1, 3>>} OBVIOUS
    <3> QED BY <3>2, <3>3, <3>4, <3>5
  <2>2. CASE c # "Fidu"
    <3>1. r = <<"pauser", "owner">> BY <2>2 DEF RolesOf
    <3> HIDE DEF r
    <3>2. Len(r) = 2 /\ DOMAIN r = 1..2 BY <3>1
    <3>3. r[1] \in Roles /\ r[2] \in Roles BY <3>1 DEF Roles
    <3>4. r[1] # r[2] /\ r[2] = "owner" BY <3>1
    <3>5. \A i, j \in 1..2 : i < j => i = 1 /\ j = 2 OBVIOUS
    <3> QED BY <3>2, <3>3, <3>4, <3>5
  <2> QED BY <2>1, <2>2
<1> HIDE DEF r
<1>2. e = [i \in 1..2 * n |-> Tx(IF i % 2 = 1 THEN "grant" ELSE "revoke", r[(i + 1) \div 2])]
  BY DEF ensureRoles, r
<1> HIDE DEF e
<1>3. \A i \in 1..2 * n : (i + 1) \div 2 \in 1..n BY <1>1
<1>4. \A i \in 1..2 * n : i % 2 # 1 =>
        i > 1 /\ i - 1 \in 1..2 * n /\ (i - 1) % 2 = 1 /\ ((i - 1) + 1) \div 2 = (i + 1) \div 2
  BY <1>1
<1>5. \A i \in 1..n :
        /\ 2 * i - 1 \in 1..2 * n /\ (2 * i - 1) % 2 = 1 /\ ((2 * i - 1) + 1) \div 2 = i
        /\ 2 * i \in 1..2 * n /\ (2 * i) % 2 # 1 /\ (2 * i + 1) \div 2 = i
  BY <1>1
<1>6. DOMAIN e = 1..2 * n BY <1>2
<1>7. \A i \in 1..2 * n :
        e[i] = Tx(IF i % 2 = 1 THEN "grant" ELSE "revoke", r[(i + 1) \div 2])
  BY <1>2
<1>8. ASSUME NEW i \in 1..2 * n
      PROVE  /\ e[i].role = r[(i + 1) \div 2] /\ e[i].role \in Roles
             /\ e[i].do = (IF i % 2 = 1 THEN "grant" ELSE "revoke")
             /\ e[i] \in Txs
  <2>1. PICK x : x = r[(i + 1) \div 2] OBVIOUS
  <2>2. PICK y : y = IF i % 2 = 1 THEN "grant" ELSE "revoke" OBVIOUS
  <2>3. e[i] = [do |-> y, role |-> x] BY <1>7, <2>1, <2>2 DEF Tx
  <2>4. x \in Roles BY <1>1, <1>3, <2>1
  <2>5. y \in Dos BY <2>2 DEF Dos
  <2> QED BY <2>1, <2>2, <2>3, <2>4, <2>5 DEF Txs
<1>9. 2 * n \in Nat BY <1>1
<1>10. e \in Seq(Txs) /\ Len(e) = 2 * n
  BY <1>2, <1>6, <1>8, <1>9
<1>11. \A i \in 1..2 * n : e[i].do = "revoke" => i > 1 /\ e[i - 1] = Tx("grant", e[i].role)
  <2> SUFFICES ASSUME NEW i \in 1..2 * n, e[i].do = "revoke"
               PROVE  i > 1 /\ e[i - 1] = Tx("grant", e[i].role)
    OBVIOUS
  <2>1. i % 2 # 1 /\ e[i].role = r[(i + 1) \div 2] BY <1>8
  <2> QED BY <1>4, <1>7, <2>1
<1>12. \A i \in 1..n : e[2 * i - 1] = Tx("grant", r[i]) /\ e[2 * i] = Tx("revoke", r[i])
  BY <1>5, <1>7
<1>13. ASSUME NEW i \in 1..2 * n, NEW j \in 1..2 * n, i < j,
              e[i].do = "revoke", e[j].do = "grant"
       PROVE  e[i].role # e[j].role
  <2> DEFINE a == (i + 1) \div 2  b == (j + 1) \div 2
  <2>1. i % 2 # 1 /\ j % 2 = 1 BY <1>8, <1>13
  <2>2. a < b BY <1>1, <1>13, <2>1
  <2>3. a \in 1..n /\ b \in 1..n BY <1>3
  <2>4. e[i].role = r[a] /\ e[j].role = r[b] BY <1>8
  <2> HIDE DEF a, b
  <2>5. a \in DOMAIN r /\ b \in DOMAIN r BY <1>1, <2>3
  <2>6. r[a] # r[b] BY <1>1, <2>2, <2>5
  <2> QED BY <2>4, <2>6
<1>14. \E i \in 1..n : r[i] = "owner" BY <1>1
<1> QED BY <1>1, <1>6, <1>8, <1>10, <1>11, <1>12, <1>13, <1>14 DEF r, e

\* What the script does to a contract: every revocation follows the grant of the
\* same role, and every role it hands over is both granted and revoked.
LEMMA PlanShape ==
  ASSUME NEW c
  PROVE  /\ DOMAIN plan(c) = 1..Len(plan(c)) /\ Len(plan(c)) \in Nat /\ Len(plan(c)) >= 1
         /\ \A k \in DOMAIN plan(c) : plan(c)[k].role \in Roles
         /\ \A k \in DOMAIN plan(c) : plan(c)[k].do = "revoke" =>
              /\ k - 1 \in DOMAIN plan(c) /\ plan(c)[k - 1].do = "grant"
              /\ plan(c)[k - 1].role = plan(c)[k].role
         /\ c # "GoldfinchConfig" => plan(c)[1].do = "transferOwnership"
         /\ \A i \in DOMAIN RolesOf(c) :
              /\ \E k \in DOMAIN plan(c) : plan(c)[k] = Tx("grant", RolesOf(c)[i])
              /\ \E k \in DOMAIN plan(c) : plan(c)[k] = Tx("revoke", RolesOf(c)[i])
         /\ \A k, l \in DOMAIN plan(c) :
              k < l /\ plan(c)[k].do = "revoke" /\ plan(c)[l].do = "grant"
              => plan(c)[k].role # plan(c)[l].role
         /\ \E k \in DOMAIN plan(c) : plan(c)[k] = Tx("revoke", "owner")
<1> DEFINE p == prefix(c)  e == ensureRoles(c)  m == Len(p)  n == Len(RolesOf(c))
<1>1. /\ p \in Seq(Txs) /\ m \in {1, 2} /\ DOMAIN p = 1..m
      /\ \A k \in 1..m : p[k].role \in Roles /\ p[k].do \notin {"revoke", "grant"}
      /\ c # "GoldfinchConfig" => p[1].do = "transferOwnership"
  <2>1. CASE c = "GoldfinchConfig"
    <3>1. p = <<Tx("protocolAdmin", "owner"), Tx("treasuryReserve", "owner")>>
      BY <2>1 DEF prefix
    <3>2. /\ Tx("protocolAdmin", "owner") \in Txs
          /\ Tx("treasuryReserve", "owner") \in Txs
      BY DEF Tx, Txs, Dos, Roles
    <3> HIDE DEF p
    <3>3. p \in Seq(Txs) /\ Len(p) = 2 /\ DOMAIN p = 1..2
      BY <3>1, <3>2
    <3>4. \A k \in 1..2 : p[k].role \in Roles /\ p[k].do \notin {"revoke", "grant"}
      BY <3>1 DEF Tx, Roles
    <3> QED BY <2>1, <3>3, <3>4
  <2>2. CASE c # "GoldfinchConfig"
    <3>1. p = <<Tx("transferOwnership", "owner")>> BY <2>2 DEF prefix
    <3>2. Tx("transferOwnership", "owner") \in Txs BY DEF Tx, Txs, Dos, Roles
    <3> HIDE DEF p
    <3>3. p \in Seq(Txs) /\ Len(p) = 1 /\ DOMAIN p = 1..1
      BY <3>1, <3>2
    <3>4. p[1].role \in Roles /\ p[1].do = "transferOwnership" BY <3>1 DEF Tx, Roles
    <3> QED BY <3>3, <3>4
  <2> QED BY <2>1, <2>2
<1>n. n \in {2, 3} /\ DOMAIN RolesOf(c) = 1..n BY RolesShape
<1>2. /\ e \in Seq(Txs) /\ Len(e) = 2 * n /\ DOMAIN e = 1..2 * n
      /\ \A i \in 1..2 * n :
           /\ e[i].role \in Roles
           /\ e[i].do = "revoke" => i > 1 /\ e[i - 1] = Tx("grant", e[i].role)
  BY RolesShape
<1>g. \A i \in 1..n : e[2 * i - 1] = Tx("grant", RolesOf(c)[i])
                        /\ e[2 * i] = Tx("revoke", RolesOf(c)[i])
  BY RolesShape
<1>d. \A i, j \in 1..2 * n :
        i < j /\ e[i].do = "revoke" /\ e[j].do = "grant" => e[i].role # e[j].role
  BY RolesShape
<1>o. \E i \in 1..n : RolesOf(c)[i] = "owner" BY RolesShape
<1>3. plan(c) = p \o e BY DEF plan, ensurePermsOnContract, prefix
<1> HIDE DEF p, e
<1>4. /\ Len(plan(c)) = m + 2 * n /\ DOMAIN plan(c) = 1..(m + 2 * n)
      /\ \A k \in 1..(m + 2 * n) : plan(c)[k] = IF k <= m THEN p[k] ELSE e[k - m]
  <2>1. Len(p) \in Nat /\ Len(e) = 2 * n /\ 2 * n \in Nat BY <1>1, <1>2, <1>n
  <2>s. p \in Seq(Txs) /\ e \in Seq(Txs) BY <1>1, <1>2
  <2>2. Len(p \o e) = Len(p) + Len(e) /\ DOMAIN (p \o e) = 1..(Len(p) + Len(e))
    BY <2>s
  <2>3. \A k \in 1..(Len(p) + Len(e)) : (p \o e)[k] = IF k <= Len(p) THEN p[k] ELSE e[k - Len(p)]
    BY <2>s
  <2> QED BY <1>3, <2>1, <2>2, <2>3
<1>m. m \in {1, 2} BY <1>1
<1> HIDE DEF m, n
<1>5. \A k \in 1..(m + 2 * n) : k <= m => k \in 1..m BY <1>m, <1>n
<1>6. \A k \in 1..(m + 2 * n) : ~(k <= m) => k - m \in 1..2 * n BY <1>m, <1>n
<1>7. \A k \in DOMAIN plan(c) : plan(c)[k].role \in Roles BY <1>1, <1>2, <1>4, <1>5, <1>6
<1>8. ASSUME NEW k \in DOMAIN plan(c), plan(c)[k].do = "revoke"
      PROVE  /\ k - 1 \in DOMAIN plan(c) /\ plan(c)[k - 1].do = "grant"
             /\ plan(c)[k - 1].role = plan(c)[k].role
  <2>1. ~(k <= m) /\ plan(c)[k] = e[k - m] BY <1>1, <1>4, <1>5, <1>8
  <2>2. k - m > 1 /\ e[(k - m) - 1] = Tx("grant", e[k - m].role)
    BY <1>2, <1>4, <1>6, <1>8, <2>1
  <2>3. /\ k - 1 \in 1..(m + 2 * n) /\ ~(k - 1 <= m) /\ (k - 1) - m = (k - m) - 1
    BY <1>m, <1>n, <1>4, <2>2
  <2>4. plan(c)[k - 1] = Tx("grant", e[k - m].role) BY <1>4, <2>2, <2>3
  <2> QED BY <1>4, <2>1, <2>3, <2>4 DEF Tx
<1>9. ASSUME NEW i \in DOMAIN RolesOf(c)
      PROVE  /\ \E k \in DOMAIN plan(c) : plan(c)[k] = Tx("grant", RolesOf(c)[i])
             /\ \E k \in DOMAIN plan(c) : plan(c)[k] = Tx("revoke", RolesOf(c)[i])
  <2>1. /\ m + 2 * i - 1 \in 1..(m + 2 * n) /\ ~(m + 2 * i - 1 <= m)
        /\ (m + 2 * i - 1) - m = 2 * i - 1
        /\ m + 2 * i \in 1..(m + 2 * n) /\ ~(m + 2 * i <= m) /\ (m + 2 * i) - m = 2 * i
    BY <1>m, <1>n
  <2>2. /\ plan(c)[m + 2 * i - 1] = Tx("grant", RolesOf(c)[i])
        /\ plan(c)[m + 2 * i] = Tx("revoke", RolesOf(c)[i])
    BY <1>g, <1>n, <1>4, <2>1
  <2> QED BY <1>4, <2>1, <2>2
<1>10. c # "GoldfinchConfig" => plan(c)[1].do = "transferOwnership"
  BY <1>1, <1>m, <1>n, <1>4
<1>11. m + 2 * n \in Nat /\ m + 2 * n >= 1 BY <1>m, <1>n
<1>12. ASSUME NEW k \in DOMAIN plan(c), NEW l \in DOMAIN plan(c), k < l,
              plan(c)[k].do = "revoke", plan(c)[l].do = "grant"
       PROVE  plan(c)[k].role # plan(c)[l].role
  <2>1. ~(k <= m) /\ plan(c)[k] = e[k - m] BY <1>1, <1>4, <1>5, <1>12
  <2>2. ~(l <= m) /\ plan(c)[l] = e[l - m] BY <1>1, <1>4, <1>5, <1>12
  <2>3. k - m \in 1..2 * n /\ l - m \in 1..2 * n /\ k - m < l - m
    BY <1>m, <1>n, <1>4, <1>6, <1>12, <2>1, <2>2
  <2> QED BY <1>d, <1>12, <2>1, <2>2, <2>3
<1>13. \E k \in DOMAIN plan(c) : plan(c)[k] = Tx("revoke", "owner") BY <1>o, <1>n, <1>9
<1> QED BY <1>4, <1>7, <1>8, <1>9, <1>10, <1>11, <1>12, <1>13

\* The list of contracts, as positions and as a set.
LEMMA ListedShape ==
  /\ 1 \in DOMAIN CONTRACTS /\ DOMAIN CONTRACTS = 1..Len(CONTRACTS) /\ Len(CONTRACTS) \in Nat
  /\ \A j \in DOMAIN CONTRACTS : contractAt(j) \in Listed
  /\ \A c \in Listed : \E j \in DOMAIN CONTRACTS : c = contractAt(j)
<1>1. CONTRACTS \in Seq(STRING) /\ CONTRACTS # <<>> BY EnsurePermsAssumption
<1>2. 1 \in DOMAIN CONTRACTS /\ DOMAIN CONTRACTS = 1..Len(CONTRACTS) /\ Len(CONTRACTS) \in Nat
  BY <1>1
<1> QED BY <1>2 DEF Listed, contractAt

----------------------------------------------------------------------------
(* Effects only accumulate.                                                   *)

\* The safe, as the protocol owner, gives itself a role that was revoked.
Regranted(c, role) ==
  /\ protocol_owner = safe /\ c = contract /\ tx.do = "grant" /\ tx.role = role
  /\ safe \in hasRole[c]["owner"]

RolesMove ==
  \A c \in Listed, r \in Roles :
    /\ protocol_owner # safe
       => (safe \in hasRole[c][r] => safe \in hasRole'[c][r]) /\ hasRole'[c][r] # {}
    /\ protocol_owner \notin hasRole[c][r]
       => protocol_owner \notin hasRole'[c][r] \/ Regranted(c, r)
OwnersMove == \A c \in Listed : owner[c] = safe => owner'[c] = safe

\* What is accomplished stays so, unless the role is granted again.
LEMMA StaysAccomplished ==
  ASSUME RolesMove, OwnersMove, protocol_owner' = protocol_owner,
         NEW c \in Listed, NEW t, t.role \in Roles, Accomplished(c, t),
         t.do = "revoke" => ~ Regranted(c, t.role)
  PROVE  Accomplished(c, t)'
BY DEF RolesMove, OwnersMove, Accomplished

\* What a turn has achieved on a contract stays achieved: the owner role, without
\* which nothing is granted, was revoked in it.
LEMMA PlanStaysAccomplished ==
  ASSUME RolesMove, OwnersMove, protocol_owner' = protocol_owner,
         NEW c \in Listed, PlanAccomplished(c)
  PROVE  PlanAccomplished(c)'
<1>1. protocol_owner \notin hasRole[c]["owner"]
  <2>1. PICK k \in DOMAIN plan(c) : plan(c)[k] = Tx("revoke", "owner") BY PlanShape
  <2>2. plan(c)[k].do = "revoke" /\ plan(c)[k].role = "owner" BY <2>1 DEF Tx
  <2> QED BY <2>2 DEF PlanAccomplished, Accomplished
<1>2. \A r : ~ Regranted(c, r) BY <1>1 DEF Regranted
<1>3. ASSUME NEW k \in DOMAIN plan(c) PROVE Accomplished(c, plan(c)[k])'
  <2>1. Accomplished(c, plan(c)[k]) /\ plan(c)[k].role \in Roles
    BY PlanShape DEF PlanAccomplished
  <2> QED BY <1>2, <2>1, StaysAccomplished
<1> QED BY <1>3 DEF PlanAccomplished

\* A transaction has its effect, and the script goes on to the next one.
LEMMA AdvanceStep ==
  ASSUME PermsInv, status = "running", Advance, RolesMove, OwnersMove,
         hasRole' \in [Listed -> [Roles -> SUBSET {safe, protocol_owner}]],
         owner' \in [Listed -> Accounts],
         NEW c, c = contract, NEW t, t = tx, Accomplished(c, t)'
  PROVE  PermsInv'
<1>1. /\ protocol_owner' = protocol_owner /\ protocol_owner' \in ProtocolOwners
      /\ index \in DOMAIN CONTRACTS /\ c = contractAt(index) /\ c \in Listed
      /\ pc \in DOMAIN plan(c) /\ t = plan(c)[pc] /\ pc \in Nat /\ index \in Nat
      /\ DOMAIN plan(c) = 1..Len(plan(c)) /\ Len(plan(c)) \in Nat
  <2>1. c = contractAt(index) BY DEF contract, contractAt
  <2>2. index \in DOMAIN CONTRACTS /\ pc \in DOMAIN plan(c) /\ t = plan(c)[pc]
    BY DEF PermsInv, PermsTypeOK, tx, plan
  <2>3. DOMAIN plan(c) = 1..Len(plan(c)) /\ Len(plan(c)) \in Nat BY PlanShape
  <2>4. c \in Listed /\ index \in Nat BY <2>1, <2>2, ListedShape
  <2> QED BY <2>1, <2>2, <2>3, <2>4 DEF Advance, PermsInv, PermsTypeOK
<1>2. \A d \in Listed : PlanAccomplished(d) => PlanAccomplished(d)'
  BY <1>1, PlanStaysAccomplished
<1>3. ASSUME NEW k \in DOMAIN plan(c), k <= pc PROVE Accomplished(c, plan(c)[k])'
  <2>1. CASE k = pc
    <3>1. t = plan(c)[k] BY <1>1, <2>1
    <3> QED BY <3>1
  <2>2. CASE k < pc
    <3>1. Accomplished(c, plan(c)[k]) BY <2>2 DEF PermsInv, RunSoFar
    <3>2. plan(c)[k].role \in Roles BY PlanShape
    <3>3. plan(c)[k].do = "revoke" => ~ Regranted(c, plan(c)[k].role)
      BY <1>1, <2>2, PlanShape DEF Regranted
    <3> QED BY <1>1, <3>1, <3>2, <3>3, StaysAccomplished
  <2> QED BY <1>1, <1>3, <2>1, <2>2
<1>4. \A j \in DOMAIN CONTRACTS : j < index => PlanAccomplished(contractAt(j))'
  BY <1>2, ListedShape DEF PermsInv, RunSoFar
<1>5. EveryRoleIsHeld' BY <1>1 DEF RolesMove, EveryRoleIsHeld
<1>6. CASE pc < Len(plan(c))
  <2>1. /\ pc' = pc + 1 /\ index' = index /\ status' = "running"
        /\ contract' = c /\ contractAt(index)' = c
    BY <1>1, <1>6 DEF Advance, plan, contract, contractAt
  <2>2. pc' \in DOMAIN plan(c) BY <1>1, <1>6, <2>1
  <2>3. PermsTypeOK' BY <1>1, <2>1, <2>2 DEF PermsTypeOK
  <2>4. RunSoFar'
    <3>1. \A k \in DOMAIN plan(c) : k < pc' => Accomplished(c, plan(c)[k])'
      BY <1>1, <1>3, <2>1
    <3> QED BY <1>4, <2>1, <3>1 DEF RunSoFar
  <2>5. RunToTheEnd' BY <2>1 DEF RunToTheEnd
  <2> QED BY <1>5, <2>3, <2>4, <2>5 DEF PermsInv
<1>7. CASE ~(pc < Len(plan(c)))
  <2>1. PlanAccomplished(c)' BY <1>1, <1>3, <1>7 DEF PlanAccomplished
  <2>2. \A j \in DOMAIN CONTRACTS : j <= index => PlanAccomplished(contractAt(j))'
    <3> SUFFICES ASSUME NEW j \in DOMAIN CONTRACTS, j <= index
                 PROVE  PlanAccomplished(contractAt(j))'
      OBVIOUS
    <3>1. CASE j < index BY <1>4, <3>1
    <3>2. CASE j = index
      <4>1. contractAt(j) = c BY <1>1, <3>2
      <4> QED BY <2>1, <4>1
    <3> QED BY <1>1, <3>1, <3>2, ListedShape
  <2>3. /\ pc' = 1
        /\ index' = IF index < Len(CONTRACTS) THEN index + 1 ELSE index
        /\ status' = IF index < Len(CONTRACTS) THEN "running" ELSE "done"
    BY <1>1, <1>7 DEF Advance, plan
  <2>4. index' \in DOMAIN CONTRACTS BY <1>1, <2>3, ListedShape
  <2>5. PermsTypeOK'
    <3>1. pc' \in DOMAIN plan(contract') BY <2>3, PlanShape
    <3> QED BY <1>1, <2>3, <2>4, <3>1 DEF PermsTypeOK
  <2>6. RunSoFar'
    <3>1. status' = "running" =>
            \A j \in DOMAIN CONTRACTS : j < index' => PlanAccomplished(contractAt(j))'
      BY <1>1, <2>2, <2>3, ListedShape
    <3>2. \A k \in DOMAIN plan(contract') : ~(k < pc') BY <2>3, PlanShape
    <3> QED BY <3>1, <3>2 DEF RunSoFar
  <2>7. RunToTheEnd'
    <3>1. status' = "done" => \A j \in DOMAIN CONTRACTS : j <= index
      BY <1>1, <2>3, ListedShape
    <3> QED BY <2>2, <3>1 DEF RunToTheEnd
  <2> QED BY <1>5, <2>5, <2>6, <2>7 DEF PermsInv
<1> QED BY <1>6, <1>7

----------------------------------------------------------------------------
(* The actions.                                                               *)

\* A transaction that concerns no role of a contract, or none of the three.
LEMMA NoRoleStep ==
  ASSUME PermsInv, status = "running", Advance, UNCHANGED hasRole,
         tx.do \notin {"grant", "revoke"},
         IF tx.do = "transferOwnership" THEN owner' = [owner EXCEPT ![contract] = safe]
         ELSE UNCHANGED owner
  PROVE  PermsInv'
<1> PICK c : c = contract OBVIOUS
<1> PICK t : t = tx OBVIOUS
<1>1. /\ c \in Listed /\ owner \in [Listed -> Accounts] /\ safe \in Accounts
      /\ hasRole \in [Listed -> [Roles -> SUBSET {safe, protocol_owner}]]
      /\ protocol_owner' = protocol_owner
  BY ListedShape DEF PermsInv, PermsTypeOK, contract, contractAt, Advance, Accounts
<1>2. RolesMove BY DEF RolesMove, PermsInv, EveryRoleIsHeld
<1>3. OwnersMove /\ owner' \in [Listed -> Accounts] BY <1>1 DEF OwnersMove
<1>4. Accomplished(c, t)' BY <1>1 DEF Accomplished
<1> QED BY <1>1, <1>2, <1>3, <1>4, AdvanceStep

\* A grant that takes place.
LEMMA GrantStep ==
  ASSUME PermsInv, GrantRole
  PROVE  PermsInv'
<1> PICK c : c = contract OBVIOUS
<1> PICK t : t = tx OBVIOUS
<1>1. /\ c \in Listed /\ t.role \in Roles /\ t.do = "grant"
      /\ hasRole \in [Listed -> [Roles -> SUBSET {safe, protocol_owner}]]
      /\ protocol_owner' = protocol_owner /\ owner' = owner /\ owner \in [Listed -> Accounts]
      /\ status = "running" /\ Advance /\ EveryRoleIsHeld
      /\ safe \in hasRole[c][t.role] \/ protocol_owner \in hasRole[c]["owner"]
  BY ListedShape, PlanShape
  DEF PermsInv, PermsTypeOK, contract, contractAt, GrantRole, Advance, Running, tx, plan,
      Accepted, Skipped, SignerIsOwner
<1>2. hasRole' = [hasRole EXCEPT ![c] =
                    [hasRole[c] EXCEPT ![t.role] = hasRole[c][t.role] \cup {safe}]]
  BY DEF GrantRole
<1>3. hasRole' \in [Listed -> [Roles -> SUBSET {safe, protocol_owner}]] BY <1>1, <1>2
<1>4. \A d \in Listed, r \in Roles :
        hasRole'[d][r] = IF d = c /\ r = t.role THEN hasRole[d][r] \cup {safe} ELSE hasRole[d][r]
  BY <1>1, <1>2
<1>5. EveryRoleIsHeld BY DEF PermsInv
<1>6. RolesMove
  <2> SUFFICES ASSUME NEW d \in Listed, NEW r \in Roles
               PROVE  /\ protocol_owner # safe
                         => (safe \in hasRole[d][r] => safe \in hasRole'[d][r]) /\ hasRole'[d][r] # {}
                      /\ protocol_owner \notin hasRole[d][r]
                         => protocol_owner \notin hasRole'[d][r] \/ Regranted(d, r)
    BY DEF RolesMove
  <2>1. protocol_owner # safe => hasRole[d][r] # {} BY <1>5 DEF EveryRoleIsHeld
  <2>2. CASE d = c /\ r = t.role
    <3>1. hasRole'[d][r] = hasRole[d][r] \cup {safe} BY <1>4, <2>2
    <3>2. protocol_owner = safe /\ safe \notin hasRole[d][r] => Regranted(d, r)
      BY <1>1, <2>2 DEF Regranted
    <3> QED BY <2>1, <3>1, <3>2
  <2>3. CASE ~(d = c /\ r = t.role)
    <3>1. hasRole'[d][r] = hasRole[d][r] BY <1>4, <2>3
    <3> QED BY <2>1, <3>1
  <2> QED BY <2>2, <2>3
<1>7. OwnersMove BY <1>1 DEF OwnersMove
<1>8. Accomplished(c, t)' BY <1>1, <1>4 DEF Accomplished
<1> QED BY <1>1, <1>3, <1>6, <1>7, <1>8, AdvanceStep

\* The grant before the revocation has its effect: the safe has the role.
LEMMA RevokeStep ==
  ASSUME PermsInv, RevokeRole
  PROVE  PermsInv'
<1> PICK c : c = contract OBVIOUS
<1> PICK t : t = tx OBVIOUS
<1>1. /\ c \in Listed /\ t.role \in Roles /\ t.do = "revoke"
      /\ hasRole \in [Listed -> [Roles -> SUBSET {safe, protocol_owner}]]
      /\ protocol_owner' = protocol_owner /\ owner' = owner /\ owner \in [Listed -> Accounts]
      /\ status = "running" /\ Advance /\ EveryRoleIsHeld
      /\ pc \in DOMAIN plan(c) /\ t = plan(c)[pc]
  BY ListedShape, PlanShape
  DEF PermsInv, PermsTypeOK, contract, contractAt, RevokeRole, Advance, Running, tx, plan
<1>2. hasRole' = [hasRole EXCEPT ![c] =
                    [hasRole[c] EXCEPT ![t.role] = hasRole[c][t.role] \ {protocol_owner}]]
  BY DEF RevokeRole
<1>3. hasRole' \in [Listed -> [Roles -> SUBSET {safe, protocol_owner}]] BY <1>1, <1>2
<1>4. \A d \in Listed, r \in Roles :
        hasRole'[d][r] = IF d = c /\ r = t.role THEN hasRole[d][r] \ {protocol_owner}
                         ELSE hasRole[d][r]
  BY <1>1, <1>2
<1>5. EveryRoleIsHeld BY DEF PermsInv
<1>6. safe \in hasRole[c][t.role] \/ protocol_owner = safe
  <2>1. /\ pc - 1 \in DOMAIN plan(c) /\ plan(c)[pc - 1].do = "grant"
        /\ plan(c)[pc - 1].role = t.role
    BY <1>1, PlanShape
  <2>2. pc - 1 < pc BY <1>1, PlanShape
  <2>3. Accomplished(c, plan(c)[pc - 1]) BY <1>1, <2>1, <2>2 DEF PermsInv, RunSoFar
  <2> QED BY <2>1, <2>3 DEF Accomplished
<1>7. RolesMove
  <2> SUFFICES ASSUME NEW d \in Listed, NEW r \in Roles
               PROVE  /\ protocol_owner # safe
                         => (safe \in hasRole[d][r] => safe \in hasRole'[d][r]) /\ hasRole'[d][r] # {}
                      /\ protocol_owner \notin hasRole[d][r] => protocol_owner \notin hasRole'[d][r]
    BY DEF RolesMove
  <2>1. protocol_owner # safe => hasRole[d][r] # {} BY <1>5 DEF EveryRoleIsHeld
  <2>2. CASE d = c /\ r = t.role
    <3>1. hasRole'[d][r] = hasRole[d][r] \ {protocol_owner} BY <1>4, <2>2
    <3> QED BY <1>6, <2>1, <2>2, <3>1
  <2>3. CASE ~(d = c /\ r = t.role)
    <3>1. hasRole'[d][r] = hasRole[d][r] BY <1>4, <2>3
    <3> QED BY <2>1, <3>1
  <2> QED BY <2>2, <2>3
<1>8. OwnersMove BY <1>1 DEF OwnersMove
<1>9. Accomplished(c, t)' BY <1>1, <1>4 DEF Accomplished
<1> QED BY <1>1, <1>3, <1>7, <1>8, <1>9, AdvanceStep

\* Steps that only concern the run: it stops or starts from the beginning.
LEMMA RunStep ==
  ASSUME PermsInv, UNCHANGED <<protocol_owner, hasRole, owner>>,
         \/ UNCHANGED <<index, pc, status>>
         \/ UNCHANGED <<index, pc>> /\ status' = "aborted"
         \/ index' = 1 /\ pc' = 1 /\ status' = "running"
  PROVE  PermsInv'
<1>1. EveryRoleIsHeld' BY DEF PermsInv, EveryRoleIsHeld
<1>2. \A c, t : Accomplished(c, t)' <=> Accomplished(c, t) BY DEF Accomplished
<1>3. \A c : PlanAccomplished(c)' <=> PlanAccomplished(c) BY <1>2 DEF PlanAccomplished
<1>4. CASE UNCHANGED <<index, pc, status>>
  <2>1. contract' = contract BY <1>4 DEF contract
  <2> QED BY <1>1, <1>2, <1>3, <1>4, <2>1
      DEF PermsInv, PermsTypeOK, RunSoFar, RunToTheEnd
<1>5. CASE UNCHANGED <<index, pc>> /\ status' = "aborted"
  <2>1. contract' = contract BY <1>5 DEF contract
  <2> QED BY <1>1, <1>5, <2>1 DEF PermsInv, PermsTypeOK, RunSoFar, RunToTheEnd
<1>6. CASE index' = 1 /\ pc' = 1 /\ status' = "running"
  <2>1. /\ index' \in DOMAIN CONTRACTS /\ \A j \in DOMAIN CONTRACTS : ~(j < index')
    BY <1>6, ListedShape
  <2>2. pc' \in DOMAIN plan(contract') /\ \A k \in DOMAIN plan(contract') : ~(k < pc')
    BY <1>6, PlanShape
  <2>3. PermsTypeOK' BY <1>6, <2>1, <2>2 DEF PermsInv, PermsTypeOK
  <2> QED BY <1>1, <1>6, <2>1, <2>2, <2>3 DEF PermsInv, RunSoFar, RunToTheEnd
<1> QED BY <1>4, <1>5, <1>6

----------------------------------------------------------------------------

\* At the end of a run all effects of the plans are there.
LEMMA DoneFromInv == PermsInv => DoneIsHandedOver
<1> SUFFICES ASSUME PermsInv, status = "done", NEW c \in Listed
             PROVE  /\ c # "GoldfinchConfig" => owner[c] = safe
                    /\ \A i \in DOMAIN RolesOf(c) : hasRole[c][RolesOf(c)[i]] = {safe} \ {protocol_owner}
  BY DEF DoneIsHandedOver
<1>1. PlanAccomplished(c) BY ListedShape DEF PermsInv, RunToTheEnd
<1>2. c # "GoldfinchConfig" => owner[c] = safe
  <2>1. 1 \in DOMAIN plan(c) /\ (c # "GoldfinchConfig" => plan(c)[1].do = "transferOwnership")
    BY PlanShape
  <2> QED BY <1>1, <2>1 DEF PlanAccomplished, Accomplished
<1>3. ASSUME NEW i \in DOMAIN RolesOf(c) 
      PROVE  hasRole[c][RolesOf(c)[i]] = {safe} \ {protocol_owner}
  <2> DEFINE r == RolesOf(c)[i]
  <2>1. r \in Roles BY RolesShape
  <2>2. PICK k \in DOMAIN plan(c) : plan(c)[k] = Tx("grant", r) BY PlanShape
  <2>3. PICK l \in DOMAIN plan(c) : plan(c)[l] = Tx("revoke", r) BY PlanShape
  <2>4. hasRole[c][r] \subseteq {safe, protocol_owner}
    BY <2>1 DEF PermsInv, PermsTypeOK
  <2>5. safe \in hasRole[c][r] \/ protocol_owner = safe
    BY <1>1, <2>2 DEF PlanAccomplished, Accomplished, Tx
  <2>6. protocol_owner \notin hasRole[c][r]
    BY <1>1, <2>3 DEF PlanAccomplished, Accomplished, Tx
  <2> QED BY <2>4, <2>5, <2>6
<1> QED BY <1>2, <1>3

\* The invariant holds.
THEOREM PermsInvariant == Spec => []PermsInv
<1>1. ASSUME Init PROVE PermsInv
  <2>1. protocol_owner \in ProtocolOwners /\ protocol_owner \in Accounts
    BY <1>1, EnsurePermsAssumption DEF Init
  <2>2. PICK holders \in {{protocol_owner}, {protocol_owner, safe}} :
          hasRole = [c \in Listed |-> [r \in Roles |-> holders]]
    BY <1>1 DEF Init
  <2>3. PICK proxyOwner \in {gf_deployer, safe} : owner = [c \in Listed |-> proxyOwner]
    BY <1>1 DEF Init
  <2>4. owner \in [Listed -> Accounts] BY <2>3 DEF Accounts
  <2>5. hasRole \in [Listed -> [Roles -> SUBSET {safe, protocol_owner}]] BY <2>2
  <2>6. EveryRoleIsHeld BY <2>2 DEF EveryRoleIsHeld
  <2>7. index = 1 /\ pc = 1 /\ status = "idle" BY <1>1 DEF Init
  <2>8. index \in DOMAIN CONTRACTS /\ pc \in DOMAIN plan(contract)
    BY <2>7, ListedShape, PlanShape
  <2> QED BY <2>1, <2>4, <2>5, <2>6, <2>7, <2>8
      DEF PermsInv, PermsTypeOK, RunSoFar, RunToTheEnd
<1>2. ASSUME PermsInv, [Next]_vars PROVE PermsInv'
  <2>1. CASE SetProtocolAdmin
    BY <1>2, <2>1, NoRoleStep DEF SetProtocolAdmin, Running
  <2>2. CASE SetTreasuryReserve
    BY <1>2, <2>2, NoRoleStep DEF SetTreasuryReserve, Running
  <2>3. CASE TransferOwnership
    BY <1>2, <2>3, NoRoleStep DEF TransferOwnership, Running
  <2>4. CASE GrantRole BY <1>2, <2>4, GrantStep
  <2>5. CASE RevokeRole BY <1>2, <2>5, RevokeStep
  <2>6. CASE Abort BY <1>2, <2>6, RunStep DEF Abort
  <2>7. CASE Interrupt BY <1>2, <2>7, RunStep DEF Interrupt
  <2>8. CASE Start BY <1>2, <2>8, RunStep DEF Start
  <2>9. CASE UNCHANGED vars BY <1>2, <2>9, RunStep DEF vars
  <2> QED BY <1>2, <2>1, <2>2, <2>3, <2>4, <2>5, <2>6, <2>7, <2>8, <2>9 DEF Next, Step
<1> QED BY <1>1, <1>2, PTL DEF Spec

\* Wherever a hand-over stops and however often it is started again, nobody is
\* locked out: every role of every contract has a holder, unless the safe is the
\* protocol owner.
THEOREM RolesStayHeld == Spec => []EveryRoleIsHeld
<1>1. PermsInv => EveryRoleIsHeld BY DEF PermsInv
<1> QED BY <1>1, PermsInvariant, PTL

\* A hand-over that is done has handed over every contract of its list, and left
\* its roles to nobody where the safe is the protocol owner.
THEOREM HandOverIsComplete == Spec => []DoneIsHandedOver
BY DoneFromInv, PermsInvariant, PTL
=============================================================================
