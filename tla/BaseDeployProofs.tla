-------------------------- MODULE BaseDeployProofs --------------------------
(* What a deployment that ran to its end has wired, and what its contracts    *)
(* copied, for any chains, releases and numbers of runs, also when the set-up *)
(* scripts run in between.                                                    *)
(*                                                                            *)
(* The effect of an operation lasts to the end of its run (RunSoFar), because *)
(* a script deploys a contract before it uses it (Orderly): a later           *)
(* deployment of the same contract then finds its bytecode and changes        *)
(* nothing.  That is a property of the scripts, which are data, and it is     *)
(* kept by their concatenation.                                               *)
EXTENDS SetUpForTesting, TLAPS

----------------------------------------------------------------------------
(* The scripts.                                                               *)

Keys == {"TotalFundsLimit", "ReserveDenominator", "WithdrawFeeDenominator",
  "LatenessGracePeriodInDays", "LatenessMaxDays", "DrawdownPeriodInSeconds", "LeverageRatio"}
Parties == {"Multisig", "Owner"}
Values == {"protocol_config", "undefined"}
Setters == {"updateAddress", "setAddress"}
Kinds == {"deploy", "deployToken", "initializeConfig", "initialize", "fundOwner", "updateNumber",
          "addToGoList", "grantMinter", "grantSigner", "setCeiling"} \cup Setters
Operation == [do : Kinds, of : Artifacts \cup Parties \cup Values,
              key : Keys \cup AddressKeys \cup {None}]

\* The contract that belongs to a key of the config.
Holder(key) ==
  CASE key = "CreditLineImplementation" -> "CreditLine"
    [] key = "USDC" -> "TestUSDC"
    [] key \in {"TreasuryReserve", "ProtocolAdmin"} -> "Multisig"
    [] key = "JuniorPoolImplementation" -> "JuniorPool"
    [] key = "IndexPoolStrategy" -> "FixedLeverageRatioStrategy"
    [] key = "NAOS" -> "TestNAOS"
    [] key = "StakingRewards" -> "IndexStakingPool"
    [] key = "BoostPool" -> "TestBoostPool"
    [] OTHER -> key

\* The keys whose addresses contracts copy are set once.
Copied == {"USDC", "RWA", "IndexPool", "NAOS", "BoostPool"}

Deploys(o, a) == o.do \in {"deploy", "deployToken"} /\ o.of = a

\* An operation by itself.
Proper(o) ==
  /\ o \in Operation
  /\ o.do \in {"deploy", "deployToken"} => o.of \in Artifacts
  /\ o.do = "deployToken" => o.of \in Tokens
  /\ o.do = "initializeConfig" => o.of = "NAOSConfig"
  /\ o.do = "initialize" => o.of \in Strategies
  /\ o.do = "fundOwner" => o.of \in Tokens
  /\ o.do = "updateNumber" => o.key \in Keys /\ o.of \in Values
  /\ o.do \in Setters => o.key \in AddressKeys /\ o.of = Holder(o.key)
  /\ o.do = "setAddress" => o.key \notin Copied
  /\ o.do \in {"addToGoList", "grantMinter"} => o.of = "IndexPool"
  /\ o.do = "grantSigner" => o.of = "Owner"

\* A contract that an operation uses was deployed before.
DeployedBefore(s, i, a) == \E j \in 1..(i - 1) : Deploys(s[j], a)
Orderly(s) ==
  /\ s \in Seq(Operation)
  /\ \A i \in 1..Len(s) :
       /\ Proper(s[i])
       /\ s[i].do \notin {"deploy", "deployToken"} /\ s[i].of \in Artifacts
            => DeployedBefore(s, i, s[i].of)
       /\ s[i].do = "deploy" /\ s[i].of \in DOMAIN Linked => DeployedBefore(s, i, Linked[s[i].of])

Operations(s) == {s[i] : i \in 1..Len(s)}

\* What is where in two sequences, one after the other.
LEMMA Concatenated ==
  ASSUME NEW S, NEW s \in Seq(S), NEW t \in Seq(S)
  PROVE  /\ s \o t \in Seq(S) /\ Len(s \o t) = Len(s) + Len(t)
         /\ \A i \in 1..Len(s) : (s \o t)[i] = s[i]
         /\ \A i \in 1..Len(t) : (s \o t)[Len(s) + i] = t[i]
  OBVIOUS

\* Two scripts one after the other.
LEMMA OrderlyConcat ==
  ASSUME NEW s, NEW t, Orderly(s), Orderly(t)
  PROVE  Orderly(s \o t) /\ Operations(s \o t) = Operations(s) \cup Operations(t)
<1> DEFINE c == s \o t
           m == Len(s)
           n == Len(t)
<1>1. s \in Seq(Operation) /\ t \in Seq(Operation) /\ m \in Nat /\ n \in Nat
  BY DEF Orderly
<1>2. /\ c \in Seq(Operation) /\ Len(c) = m + n
      /\ \A i \in 1..m : c[i] = s[i]
      /\ \A i \in 1..n : c[m + i] = t[i]
  BY <1>1
<1> HIDE DEF c, m, n
<1>3. \A i \in 1..(m + n) : i \in 1..m \/ (i - m \in 1..n /\ i = m + (i - m))
  BY <1>1
<1>4. \A i \in 1..m : \A a : DeployedBefore(s, i, a) => DeployedBefore(c, i, a)
  <2> SUFFICES ASSUME NEW i \in 1..m, NEW a, NEW j \in 1..(i - 1), Deploys(s[j], a)
               PROVE  DeployedBefore(c, i, a)
    BY DEF DeployedBefore
  <2>1. j \in 1..m
    BY <1>1
  <2> QED
    BY <1>2, <2>1 DEF DeployedBefore
<1>5. \A i \in 1..n : \A a : DeployedBefore(t, i, a) => DeployedBefore(c, m + i, a)
  <2> SUFFICES ASSUME NEW i \in 1..n, NEW a, NEW j \in 1..(i - 1), Deploys(t[j], a)
               PROVE  DeployedBefore(c, m + i, a)
    BY DEF DeployedBefore
  <2>1. j \in 1..n /\ m + j \in 1..((m + i) - 1)
    BY <1>1
  <2>2. c[m + j] = t[j]
    BY <1>2, <2>1
  <2> QED
    BY <2>1, <2>2 DEF DeployedBefore
<1>6. Orderly(c)
  <2> SUFFICES ASSUME NEW i \in 1..(m + n)
               PROVE  /\ Proper(c[i])
                      /\ c[i].do \notin {"deploy", "deployToken"} /\ c[i].of \in Artifacts
                           => DeployedBefore(c, i, c[i].of)
                      /\ c[i].do = "deploy" /\ c[i].of \in DOMAIN Linked
                           => DeployedBefore(c, i, Linked[c[i].of])
    BY <1>2 DEF Orderly
  <2>1. CASE i \in 1..m
    BY <1>2, <1>4, <2>1 DEF Orderly, m
  <2>2. CASE i - m \in 1..n /\ i = m + (i - m)
    <3> DEFINE k == i - m
    <3>1. k \in 1..n /\ c[i] = t[k] /\ i = m + k
      BY <1>2, <2>2
    <3> HIDE DEF k
    <3> QED
      BY <1>5, <3>1 DEF Orderly, n
  <2> QED
    BY <1>3, <2>1, <2>2
<1>7. Operations(c) = Operations(s) \cup Operations(t)
  <2>1. ASSUME NEW o \in Operations(c) PROVE o \in Operations(s) \cup Operations(t)
    <3>1. PICK i \in 1..(m + n) : o = c[i]
      BY <1>2 DEF Operations
    <3> QED
      BY <1>2, <1>3, <3>1 DEF Operations, m, n
  <2>2. ASSUME NEW o \in Operations(s) PROVE o \in Operations(c)
    <3>1. PICK i \in 1..m : o = s[i]
      BY DEF Operations, m
    <3>2. i \in 1..(m + n)
      BY <1>1
    <3> QED
      BY <1>2, <3>1, <3>2 DEF Operations
  <2>3. ASSUME NEW o \in Operations(t) PROVE o \in Operations(c)
    <3>1. PICK i \in 1..n : o = t[i]
      BY DEF Operations, n
    <3>2. m + i \in 1..(m + n)
      BY <1>1
    <3> QED
      BY <1>2, <3>1, <3>2 DEF Operations
  <2> QED
    BY <2>1, <2>2, <2>3
<1> QED
  BY <1>6, <1>7 DEF c

\* One operation more, on what was deployed before.
LEMMA OrderlyAppend ==
  ASSUME NEW s, NEW o, Orderly(s), Proper(o),
         o.do \notin {"deploy", "deployToken"} /\ o.of \in Artifacts
           => \E d \in Operations(s) : Deploys(d, o.of),
         o.do = "deploy" /\ o.of \in DOMAIN Linked
           => \E d \in Operations(s) : Deploys(d, Linked[o.of])
  PROVE  Orderly(Append(s, o)) /\ Operations(Append(s, o)) = Operations(s) \cup {o}
<1> DEFINE c == Append(s, o)
           m == Len(s)
<1>1. s \in Seq(Operation) /\ m \in Nat /\ o \in Operation
  BY DEF Orderly, Proper
<1>2. c \in Seq(Operation) /\ Len(c) = m + 1 /\ (\A i \in 1..m : c[i] = s[i]) /\ c[m + 1] = o
  BY <1>1
<1> HIDE DEF c, m
<1>3. \A i \in 1..(m + 1) : i \in 1..m \/ i = m + 1
  BY <1>1
<1>4. \A i \in 1..m : \A a : DeployedBefore(s, i, a) => DeployedBefore(c, i, a)
  <2> SUFFICES ASSUME NEW i \in 1..m, NEW a, NEW j \in 1..(i - 1), Deploys(s[j], a)
               PROVE  DeployedBefore(c, i, a)
    BY DEF DeployedBefore
  <2>1. j \in 1..m
    BY <1>1
  <2> QED
    BY <1>2, <2>1 DEF DeployedBefore
<1>5. \A a : (\E d \in Operations(s) : Deploys(d, a)) => DeployedBefore(c, m + 1, a)
  <2> SUFFICES ASSUME NEW a, NEW d \in Operations(s), Deploys(d, a)
               PROVE  DeployedBefore(c, m + 1, a)
    OBVIOUS
  <2>1. PICK j \in 1..m : d = s[j]
    BY DEF Operations, m
  <2>2. j \in 1..((m + 1) - 1) /\ c[j] = s[j]
    BY <1>1, <1>2, <2>1
  <2> QED
    BY <2>1, <2>2 DEF DeployedBefore
<1>6. Orderly(c)
  <2> SUFFICES ASSUME NEW i \in 1..(m + 1)
               PROVE  /\ Proper(c[i])
                      /\ c[i].do \notin {"deploy", "deployToken"} /\ c[i].of \in Artifacts
                           => DeployedBefore(c, i, c[i].of)
                      /\ c[i].do = "deploy" /\ c[i].of \in DOMAIN Linked
                           => DeployedBefore(c, i, Linked[c[i].of])
    BY <1>2 DEF Orderly
  <2>1. CASE i \in 1..m
    BY <1>2, <1>4, <2>1 DEF Orderly, m
  <2>2. CASE i = m + 1
    BY <1>2, <1>5, <2>2
  <2> QED
    BY <1>3, <2>1, <2>2
<1>7. Operations(c) = Operations(s) \cup {o}
  <2>1. ASSUME NEW x \in Operations(c) PROVE x \in Operations(s) \cup {o}
    <3>1. PICK i \in 1..(m + 1) : x = c[i]
      BY <1>2 DEF Operations
    <3> QED
      BY <1>2, <1>3, <3>1 DEF Operations, m
  <2>2. ASSUME NEW x \in Operations(s) PROVE x \in Operations(c)
    <3>1. PICK i \in 1..m : x = s[i]
      BY DEF Operations, m
    <3>2. i \in 1..(m + 1)
      BY <1>1
    <3> QED
      BY <1>2, <3>1, <3>2 DEF Operations
  <2>3. o \in Operations(c)
    <3>1. m + 1 \in 1..(m + 1)
      BY <1>1
    <3> QED
      BY <1>2, <3>1 DEF Operations
  <2> QED
    BY <2>1, <2>2, <2>3
<1> QED
  BY <1>6, <1>7 DEF c

\* What an operation needs, another has deployed.
Enables(d, o) ==
  /\ o.do \notin {"deploy", "deployToken"} /\ o.of \in Artifacts => Deploys(d, o.of)
  /\ o.do = "deploy" /\ o.of \in DOMAIN Linked => Deploys(d, Linked[o.of])
NeedsNothing(o) ==
  /\ o.do \notin {"deploy", "deployToken"} => o.of \notin Artifacts
  /\ o.do = "deploy" => o.of \notin DOMAIN Linked

\* Scripts of one, two, three operations.
LEMMA OrderlyAlone ==
  ASSUME NEW a, Proper(a), NeedsNothing(a)
  PROVE  Orderly(<<a>>) /\ Operations(<<a>>) = {a}
<1>1. a \in Operation
  BY DEF Proper
<1>2. <<a>> \in Seq(Operation) /\ Len(<<a>>) = 1 /\ <<a>>[1] = a
  BY <1>1
<1>3. \A i \in 1..1 : i = 1
  OBVIOUS
<1> QED
  BY <1>2, <1>3 DEF Orderly, Operations, NeedsNothing

LEMMA OrderlyPair ==
  ASSUME NEW a, NEW b, Proper(a), Proper(b), NeedsNothing(a), NeedsNothing(b) \/ Enables(a, b)
  PROVE  Orderly(<<a, b>>) /\ Operations(<<a, b>>) = {a, b}
<1>1. Orderly(<<a>>) /\ Operations(<<a>>) = {a}
  BY OrderlyAlone
<1>2. <<a, b>> = Append(<<a>>, b) /\ a \in Operations(<<a>>)
  BY <1>1
<1>3. Orderly(Append(<<a>>, b)) /\ Operations(Append(<<a>>, b)) = Operations(<<a>>) \cup {b}
  BY <1>1, <1>2, OrderlyAppend DEF Enables, NeedsNothing
<1> QED
  BY <1>1, <1>2, <1>3

LEMMA OrderlyTriple ==
  ASSUME NEW a, NEW b, NEW c, Proper(a), Proper(b), Proper(c), NeedsNothing(a),
         NeedsNothing(b) \/ Enables(a, b), Enables(a, c) \/ Enables(b, c)
  PROVE  Orderly(<<a, b, c>>) /\ Operations(<<a, b, c>>) = {a, b, c}
<1>1. Orderly(<<a, b>>) /\ Operations(<<a, b>>) = {a, b}
  BY OrderlyPair
<1>2. <<a, b, c>> = Append(<<a, b>>, c) /\ a \in Operations(<<a, b>>) /\ b \in Operations(<<a, b>>)
  BY <1>1
<1>3. /\ Orderly(Append(<<a, b>>, c))
      /\ Operations(Append(<<a, b>>, c)) = Operations(<<a, b>>) \cup {c}
  BY <1>1, <1>2, OrderlyAppend DEF Enables
<1> QED
  BY <1>1, <1>2, <1>3

\* Proper operations on contracts.
LEMMA ProperOperations ==
  /\ \A a \in Artifacts : Proper(Deploy(a))
  /\ \A a \in Tokens : Proper(Op("deployToken", a, None)) /\ Proper(Op("fundOwner", a, None))
  /\ \A a \in Strategies : Proper(Op("initialize", a, None))
  /\ \A key \in AddressKeys :
       /\ Proper(Register(Holder(key), key))
       /\ key \notin Copied => Proper(Op("setAddress", Holder(key), key))
  /\ \A key \in Keys : Proper(Op("updateNumber", "protocol_config", key))
  /\ \A key \in Keys : Proper(Op("updateNumber", "undefined", key))
  /\ Proper(Op("initializeConfig", "NAOSConfig", None))
  /\ Proper(Op("addToGoList", "IndexPool", None)) /\ Proper(Op("grantMinter", "IndexPool", None))
  /\ Proper(Op("grantSigner", "Owner", None)) /\ Proper(Op("setCeiling", "WithdrawQueue", None))
<1> USE DEF Proper, Operation, Kinds, Deploy, Register, Op, Setters, Values, Parties
<1>1. \A key \in AddressKeys : Holder(key) \in Artifacts \cup Parties
  BY DEF Holder, AddressKeys, Artifacts, Proxies, Strategies, Tokens
<1>2. /\ "NAOSConfig" \in Artifacts /\ "IndexPool" \in Artifacts /\ "WithdrawQueue" \in Artifacts
      /\ Tokens \subseteq Artifacts /\ Strategies \subseteq Artifacts
  BY DEF Artifacts, Proxies
<1>3. \A a \in Artifacts : Proper(Deploy(a))
  OBVIOUS
<1>4. \A a \in Tokens : Proper(Op("deployToken", a, None)) /\ Proper(Op("fundOwner", a, None))
  BY <1>2
<1>5. \A a \in Strategies : Proper(Op("initialize", a, None))
  BY <1>2
<1>6. \A key \in AddressKeys : Proper(Register(Holder(key), key))
  BY <1>1
<1>7. \A key \in AddressKeys : key \notin Copied => Proper(Op("setAddress", Holder(key), key))
  BY <1>1
<1>8. \A key \in Keys : /\ Proper(Op("updateNumber", "protocol_config", key))
                        /\ Proper(Op("updateNumber", "undefined", key))
  OBVIOUS
<1>9. /\ Proper(Op("initializeConfig", "NAOSConfig", None))
      /\ Proper(Op("addToGoList", "IndexPool", None)) /\ Proper(Op("grantMinter", "IndexPool", None))
      /\ Proper(Op("grantSigner", "Owner", None)) /\ Proper(Op("setCeiling", "WithdrawQueue", None))
  BY <1>2
<1> QED
  BY <1>3, <1>4, <1>5, <1>6, <1>7, <1>8, <1>9

\* Most files deploy a contract and register it ...
LEMMA DeployAndRegister ==
  ASSUME NEW key \in AddressKeys, NEW a \in Artifacts \ DOMAIN Linked, Holder(key) = a
  PROVE  LET s == <<Deploy(a), Register(a, key)>>
         IN  Orderly(s) /\ Register(a, key) \in Operations(s)
<1>1. Proper(Deploy(a)) /\ Proper(Register(a, key))
  BY ProperOperations
<1>2. NeedsNothing(Deploy(a)) /\ Enables(Deploy(a), Register(a, key))
  BY DEF NeedsNothing, Enables, Deploys, Deploy, Register, Op
<1> QED
  BY <1>1, <1>2, OrderlyPair

\* ... or a library first.
LEMMA DeployWithAccountant ==
  ASSUME NEW key \in AddressKeys, NEW a \in {"NAOSFactory", "CreditLine"}, Holder(key) = a
  PROVE  LET s == <<Deploy("Accountant"), Deploy(a), Register(a, key)>>
         IN  Orderly(s) /\ Register(a, key) \in Operations(s)
<1>1. a \in Artifacts /\ "Accountant" \in Artifacts \ DOMAIN Linked /\ Linked[a] = "Accountant"
  BY DEF Artifacts, Proxies, Linked
<1>2. Proper(Deploy("Accountant")) /\ Proper(Deploy(a)) /\ Proper(Register(a, key))
  BY <1>1, ProperOperations
<1>3. /\ NeedsNothing(Deploy("Accountant")) /\ Enables(Deploy("Accountant"), Deploy(a))
      /\ Enables(Deploy(a), Register(a, key))
  BY <1>1 DEF NeedsNothing, Enables, Deploys, Deploy, Register, Op
<1> QED
  BY <1>2, <1>3, OrderlyTriple

LEMMA TheNumberKeys ==
  /\ Len(NumberKeys) = 7 /\ NumberKeys[4] = "LatenessGracePeriodInDays"
  /\ \A i \in 1..7 : NumberKeys[i] \in Keys
  /\ \A key \in Keys : \E i \in 1..7 : NumberKeys[i] = key
  /\ {NumberKeys[i] : i \in 1..Len(NumberKeys)} = Keys
<1>1. /\ Len(NumberKeys) = 7
      /\ NumberKeys[1] = "TotalFundsLimit" /\ NumberKeys[2] = "ReserveDenominator"
      /\ NumberKeys[3] = "WithdrawFeeDenominator" /\ NumberKeys[4] = "LatenessGracePeriodInDays"
      /\ NumberKeys[5] = "LatenessMaxDays" /\ NumberKeys[6] = "DrawdownPeriodInSeconds"
      /\ NumberKeys[7] = "LeverageRatio"
  BY DEF NumberKeys
<1>2. \A i \in 1..7 : i = 1 \/ i = 2 \/ i = 3 \/ i = 4 \/ i = 5 \/ i = 6 \/ i = 7
  OBVIOUS
<1>3. \A i \in 1..7 : NumberKeys[i] \in Keys
  BY <1>1, <1>2 DEF Keys
<1>4. \A key \in Keys : \E i \in 1..7 : NumberKeys[i] = key
  BY <1>1 DEF Keys
<1> QED
  BY <1>1, <1>3, <1>4

\* The config: deployed, initialized, given its numbers and two addresses.
LEMMA ConfigNumbers ==
  LET s == [i \in 1..Len(NumberKeys) |-> Op("updateNumber", "protocol_config", NumberKeys[i])]
  IN  /\ Orderly(s) /\ Len(s) = 7
      /\ Operations(s) = {Op("updateNumber", "protocol_config", key) : key \in Keys}
<1> DEFINE o(key) == Op("updateNumber", "protocol_config", key)
           s == [i \in 1..Len(NumberKeys) |-> o(NumberKeys[i])]
<1>1. Len(NumberKeys) = 7
  BY TheNumberKeys
<1>2. \A key \in Keys : \E i \in 1..7 : NumberKeys[i] = key
  BY TheNumberKeys
<1>3. \A i \in 1..7 : NumberKeys[i] \in Keys
  BY TheNumberKeys
<1>4. \A key \in Keys : Proper(o(key)) /\ o(key) \in Operation
  BY ProperOperations DEF Proper
<1>5. \A key \in Keys : o(key).do = "updateNumber" /\ o(key).of = "protocol_config"
  BY DEF Op
<1> HIDE DEF o
<1>6. s \in Seq(Operation) /\ Len(s) = 7 /\ \A i \in 1..7 : s[i] = o(NumberKeys[i])
  BY <1>1, <1>3, <1>4
<1> HIDE DEF s
<1>7. Orderly(s)
  <2>1. "protocol_config" \notin Artifacts
    BY DEF Artifacts, Proxies, Strategies, Tokens
  <2> QED
    BY <1>3, <1>4, <1>5, <1>6, <2>1 DEF Orderly
<1>8. Operations(s) = {o(key) : key \in Keys}
  BY <1>2, <1>3, <1>6 DEF Operations
<1> QED
  BY <1>6, <1>7, <1>8 DEF o, s

LEMMA OrderlyConfig ==
  /\ Orderly(deployConfig) /\ Len(deployConfig) = 11
  /\ deployConfig[1] = Deploy("NAOSConfig")
  /\ deployConfig[2] = Op("initializeConfig", "NAOSConfig", None)
  /\ deployConfig[11] = Op("setAddress", "Multisig", "TreasuryReserve")
  /\ Operations(deployConfig) =
       {Deploy("NAOSConfig"), Op("initializeConfig", "NAOSConfig", None),
        Register("Multisig", "ProtocolAdmin"), Op("setAddress", "Multisig", "TreasuryReserve")}
         \cup {Op("updateNumber", "protocol_config", key) : key \in Keys}
<1> DEFINE d == Deploy("NAOSConfig")
           i == Op("initializeConfig", "NAOSConfig", None)
           n == [k \in 1..Len(NumberKeys) |-> Op("updateNumber", "protocol_config", NumberKeys[k])]
           r == Register("Multisig", "ProtocolAdmin")
           t == Op("setAddress", "Multisig", "TreasuryReserve")
           N == {Op("updateNumber", "protocol_config", key) : key \in Keys}
<1>1. Orderly(n) /\ Len(n) = 7 /\ Operations(n) = N
  BY ConfigNumbers
<1>2. Orderly(<<d, i>>) /\ Operations(<<d, i>>) = {d, i}
  <2>1. Proper(d) /\ Proper(i)
    BY ProperOperations DEF Artifacts
  <2>2. NeedsNothing(d) /\ Enables(d, i)
    BY DEF NeedsNothing, Enables, Deploys, Deploy, Op, Linked
  <2> QED
    BY <2>1, <2>2, OrderlyPair
<1>3. Orderly(<<r, t>>) /\ Operations(<<r, t>>) = {r, t}
  <2>1. Proper(r) /\ Proper(t)
    <3>1. Holder("ProtocolAdmin") = "Multisig" /\ Holder("TreasuryReserve") = "Multisig"
      BY DEF Holder
    <3>2. "ProtocolAdmin" \in AddressKeys /\ "TreasuryReserve" \in AddressKeys \ Copied
      BY DEF AddressKeys, Copied
    <3> QED
      BY <3>1, <3>2, ProperOperations
  <2>2. NeedsNothing(r) /\ NeedsNothing(t)
    BY DEF NeedsNothing, Register, Op, Artifacts, Proxies, Strategies, Tokens
  <2> QED
    BY <2>1, <2>2, OrderlyPair
<1>4. deployConfig = <<d, i>> \o (n \o <<r, t>>)
  BY DEF deployConfig, setInitialConfigVals
<1> HIDE DEF d, i, n, r, t, N
<1>5. Orderly(n \o <<r, t>>) /\ Operations(n \o <<r, t>>) = N \cup {r, t}
  BY <1>1, <1>3, OrderlyConcat
<1>6. Orderly(deployConfig) /\ Operations(deployConfig) = {d, i} \cup (N \cup {r, t})
  BY <1>2, <1>4, <1>5, OrderlyConcat
<1>7. /\ Len(deployConfig) = 11
      /\ deployConfig[1] = d /\ deployConfig[2] = i /\ deployConfig[11] = t
  <2>1. n \in Seq(Operation) /\ <<r, t>> \in Seq(Operation) /\ <<d, i>> \in Seq(Operation)
    BY <1>1, <1>2, <1>3 DEF Orderly
  <2> DEFINE u == <<r, t>>
  <2>3. u \in Seq(Operation) /\ Len(u) = 2 /\ u[2] = t
    BY <2>1
  <2>5. n \in Seq(Operation)
    BY <2>1
  <2>6. u \in Seq(Operation)
    BY <2>1
  <2> HIDE DEF u
  <2>4. n \o u \in Seq(Operation) /\ Len(n \o u) = 9 /\ (n \o u)[9] = u[2]
    <3>1. /\ n \o u \in Seq(Operation) /\ Len(n \o u) = Len(n) + Len(u)
          /\ \A k \in 1..Len(u) : (n \o u)[Len(n) + k] = u[k]
      BY <2>5, <2>6, Concatenated
    <3>3. 9 = Len(n) + 2 /\ 2 \in 1..Len(u) /\ 9 = Len(n) + Len(u)
      BY <1>1, <2>3
    <3> QED
      BY <3>1, <3>3
  <2>2. /\ n \o <<r, t>> \in Seq(Operation) /\ Len(n \o <<r, t>>) = 9
        /\ (n \o <<r, t>>)[9] = t
    BY <2>3, <2>4 DEF u
  <2> QED
    BY <1>4, <2>1, <2>2
<1> QED
  BY <1>6, <1>7 DEF d, i, r, t, N

\* The other files: what each deploys, registers and calls.
LEMMA OrderlyJuniorPool ==
  Orderly(deployJuniorPool) /\ Operations(deployJuniorPool) =
    {Deploy("TranchingLogic"),
     Deploy("JuniorPool"),
     Op("setAddress", "JuniorPool", "JuniorPoolImplementation")}
<1> DEFINE a == Deploy("TranchingLogic")
           b == Deploy("JuniorPool")
           c == Op("setAddress", "JuniorPool", "JuniorPoolImplementation")
<1>1. Proper(a) /\ Proper(b) /\ Proper(c)
  BY ProperOperations DEF Holder, AddressKeys, Copied, Artifacts, Proxies, Strategies, Tokens
<1>2. NeedsNothing(a) /\ Enables(a, b) /\ Enables(b, c)
  BY DEF NeedsNothing, Enables, Deploys, Deploy, Register, Op, Linked, Artifacts, Proxies, Strategies,
         Tokens
<1>3. deployJuniorPool = <<a, b, c>>
  BY DEF deployJuniorPool
<1> HIDE DEF a, b, c
<1>4. Orderly(<<a, b, c>>) /\ Operations(<<a, b, c>>) = {a, b, c}
  BY <1>1, <1>2, OrderlyTriple
<1> QED
  BY <1>3, <1>4 DEF a, b, c

LEMMA OrderlyIndexPool ==
  Orderly(deployIndexPool) /\ Operations(deployIndexPool) =
    {Deploy("Accountant"), Deploy("IndexPool"), Register("IndexPool", "IndexPool"),
     Op("addToGoList", "IndexPool", None), Op("grantMinter", "IndexPool", None)}
<1> DEFINE a == Deploy("Accountant")
           b == Deploy("IndexPool")
           c == Register("IndexPool", "IndexPool")
           d == Op("addToGoList", "IndexPool", None)
           e == Op("grantMinter", "IndexPool", None)
<1>1. Proper(a) /\ Proper(b) /\ Proper(c) /\ Proper(d) /\ Proper(e)
  BY ProperOperations DEF Holder, AddressKeys, Copied, Artifacts, Proxies, Strategies, Tokens
<1>2. /\ NeedsNothing(a) /\ Enables(a, b) /\ Enables(b, c)
      /\ d.do = "addToGoList" /\ e.do = "grantMinter" /\ Deploys(b, d.of) /\ Deploys(b, e.of)
  BY DEF NeedsNothing, Enables, Deploys, Deploy, Register, Op, Linked
<1>3. deployIndexPool = <<a, b, c, d, e>>
  BY DEF deployIndexPool
<1> HIDE DEF a, b, c, d, e
<1>4. Orderly(<<a, b, c>>) /\ Operations(<<a, b, c>>) = {a, b, c}
  BY <1>1, <1>2, OrderlyTriple
<1>5. Orderly(<<a, b, c, d>>) /\ Operations(<<a, b, c, d>>) = {a, b, c, d}
  <2>1. <<a, b, c, d>> = Append(<<a, b, c>>, d) /\ b \in Operations(<<a, b, c>>)
    BY <1>4
  <2>2. /\ Orderly(Append(<<a, b, c>>, d))
        /\ Operations(Append(<<a, b, c>>, d)) = Operations(<<a, b, c>>) \cup {d}
    BY <1>1, <1>2, <1>4, <2>1, OrderlyAppend
  <2> QED
    BY <1>4, <2>1, <2>2
<1>6. Orderly(<<a, b, c, d, e>>) /\ Operations(<<a, b, c, d, e>>) = {a, b, c, d, e}
  <2>1. <<a, b, c, d, e>> = Append(<<a, b, c, d>>, e) /\ b \in Operations(<<a, b, c, d>>)
    BY <1>5
  <2>2. /\ Orderly(Append(<<a, b, c, d>>, e))
        /\ Operations(Append(<<a, b, c, d>>, e)) = Operations(<<a, b, c, d>>) \cup {e}
    BY <1>1, <1>2, <1>5, <2>1, OrderlyAppend
  <2> QED
    BY <1>5, <2>1, <2>2
<1> QED
  BY <1>3, <1>6 DEF a, b, c, d, e

LEMMA OrderlyUniqueIdentity ==
  Orderly(deployUniqueIdentity) /\ Operations(deployUniqueIdentity) =
    {Deploy("UniqueIdentity"),
     Op("grantSigner", "Owner", None)}
<1> DEFINE a == Deploy("UniqueIdentity")
           b == Op("grantSigner", "Owner", None)
<1>1. Proper(a) /\ Proper(b)
  BY ProperOperations DEF Holder, AddressKeys, Copied, Artifacts, Proxies, Strategies, Tokens
<1>2. NeedsNothing(a) /\ NeedsNothing(b)
  BY DEF NeedsNothing, Enables, Deploys, Deploy, Register, Op, Linked, Artifacts, Proxies, Strategies,
         Tokens
<1>3. deployUniqueIdentity = <<a, b>>
  BY DEF deployUniqueIdentity
<1> HIDE DEF a, b
<1>4. Orderly(<<a, b>>) /\ Operations(<<a, b>>) = {a, b}
  BY <1>1, <1>2, OrderlyPair
<1> QED
  BY <1>3, <1>4 DEF a, b

LEMMA OrderlyWithdrawQueue ==
  Orderly(deployWithdrawQueue) /\ Operations(deployWithdrawQueue) =
    {Deploy("WithdrawQueue"),
     Op("setCeiling", "WithdrawQueue", None),
     Register("WithdrawQueue", "WithdrawQueue")}
<1> DEFINE a == Deploy("WithdrawQueue")
           b == Op("setCeiling", "WithdrawQueue", None)
           c == Register("WithdrawQueue", "WithdrawQueue")
<1>1. Proper(a) /\ Proper(b) /\ Proper(c)
  BY ProperOperations DEF Holder, AddressKeys, Copied, Artifacts, Proxies, Strategies, Tokens
<1>2. NeedsNothing(a) /\ Enables(a, b) /\ Enables(a, c)
  BY DEF NeedsNothing, Enables, Deploys, Deploy, Register, Op, Linked, Artifacts, Proxies, Strategies,
         Tokens
<1>3. deployWithdrawQueue = <<a, b, c>>
  BY DEF deployWithdrawQueue
<1> HIDE DEF a, b, c
<1>4. Orderly(<<a, b, c>>) /\ Operations(<<a, b, c>>) = {a, b, c}
  BY <1>1, <1>2, OrderlyTriple
<1> QED
  BY <1>3, <1>4 DEF a, b, c

LEMMA OrderlyToken ==
  ASSUME NEW token \in Tokens, NEW key \in AddressKeys, Holder(key) = token
  PROVE  /\ Orderly(getOrDeployToken(token, key))
         /\ Register(token, key) \in Operations(getOrDeployToken(token, key))
<1> DEFINE a == Op("deployToken", token, None)
           b == Op("fundOwner", token, None)
           c == Register(token, key)
<1>1. Proper(a) /\ Proper(b) /\ Proper(c)
  BY ProperOperations
<1>2. NeedsNothing(a) /\ Enables(a, b) /\ Enables(a, c)
  BY DEF NeedsNothing, Enables, Deploys, Register, Op
<1>3. getOrDeployToken(token, key) = <<a, b, c>>
  BY DEF getOrDeployToken
<1> HIDE DEF a, b
<1>4. Orderly(<<a, b, c>>) /\ Operations(<<a, b, c>>) = {a, b, c}
  BY <1>1, <1>2, OrderlyTriple
<1> QED
  BY <1>3, <1>4

LEMMA OrderlyFixedStrategy ==
  Orderly(deployFixedLeverageRatioStrategy) /\ Operations(deployFixedLeverageRatioStrategy) =
    {Deploy("FixedLeverageRatioStrategy"),
     Op("initialize", "FixedLeverageRatioStrategy", None),
     Op("setAddress", "FixedLeverageRatioStrategy", "IndexPoolStrategy")}
<1> DEFINE a == Deploy("FixedLeverageRatioStrategy")
           b == Op("initialize", "FixedLeverageRatioStrategy", None)
           c == Op("setAddress", "FixedLeverageRatioStrategy", "IndexPoolStrategy")
<1>1. Proper(a) /\ Proper(b) /\ Proper(c)
  BY ProperOperations DEF Holder, AddressKeys, Copied, Artifacts, Proxies, Strategies, Tokens
<1>2. NeedsNothing(a) /\ Enables(a, b) /\ Enables(a, c)
  BY DEF NeedsNothing, Enables, Deploys, Deploy, Register, Op, Linked, Artifacts, Proxies, Strategies,
         Tokens
<1>3. deployFixedLeverageRatioStrategy = <<a, b, c>>
  BY DEF deployFixedLeverageRatioStrategy
<1> HIDE DEF a, b, c
<1>4. Orderly(<<a, b, c>>) /\ Operations(<<a, b, c>>) = {a, b, c}
  BY <1>1, <1>2, OrderlyTriple
<1> QED
  BY <1>3, <1>4 DEF a, b, c

LEMMA OrderlyDynamicStrategy ==
  Orderly(deployDynamicLeverageRatioStrategy) /\ Operations(deployDynamicLeverageRatioStrategy) =
    {Deploy("DynamicLeverageRatioStrategy"),
     Op("initialize", "DynamicLeverageRatioStrategy", None)}
<1> DEFINE a == Deploy("DynamicLeverageRatioStrategy")
           b == Op("initialize", "DynamicLeverageRatioStrategy", None)
<1>1. Proper(a) /\ Proper(b)
  BY ProperOperations DEF Holder, AddressKeys, Copied, Artifacts, Proxies, Strategies, Tokens
<1>2. NeedsNothing(a) /\ Enables(a, b)
  BY DEF NeedsNothing, Enables, Deploys, Deploy, Register, Op, Linked, Artifacts, Proxies, Strategies,
         Tokens
<1>3. deployDynamicLeverageRatioStrategy = <<a, b>>
  BY DEF deployDynamicLeverageRatioStrategy
<1> HIDE DEF a, b
<1>4. Orderly(<<a, b>>) /\ Operations(<<a, b>>) = {a, b}
  BY <1>1, <1>2, OrderlyPair
<1> QED
  BY <1>3, <1>4 DEF a, b

LEMMA OrderlyStrategies ==
  /\ Orderly(deployIndexPoolStrategies)
  /\ \A a \in Strategies : Op("initialize", a, None) \in Operations(deployIndexPoolStrategies)
  /\ Register("FixedLeverageRatioStrategy", "IndexPoolStrategy")
       \in Operations(deployIndexPoolStrategies)
<1> DEFINE both == deployFixedLeverageRatioStrategy \o deployDynamicLeverageRatioStrategy
           r == Register("FixedLeverageRatioStrategy", "IndexPoolStrategy")
           d == Deploy("FixedLeverageRatioStrategy")
<1>1. /\ Orderly(both)
      /\ Operations(both) = Operations(deployFixedLeverageRatioStrategy)
                              \cup Operations(deployDynamicLeverageRatioStrategy)
  BY OrderlyFixedStrategy, OrderlyDynamicStrategy, OrderlyConcat
<1>2. d \in Operations(both) /\ \A a \in Strategies : Op("initialize", a, None) \in Operations(both)
  BY <1>1, OrderlyFixedStrategy, OrderlyDynamicStrategy DEF Strategies
<1>3. Proper(r)
  <2>1. Holder("IndexPoolStrategy") = "FixedLeverageRatioStrategy"
    BY DEF Holder
  <2> QED
    BY <2>1, ProperOperations DEF AddressKeys
<1>4. r.do = "updateAddress" /\ Deploys(d, r.of)
  BY DEF Deploys, Deploy, Register, Op
<1>5. deployIndexPoolStrategies = both \o <<r>>
  BY DEF deployIndexPoolStrategies
<1> HIDE DEF both, r, d
<1>6. deployIndexPoolStrategies = Append(both, r)
  <2>1. both \in Seq(Operation)
    BY <1>1 DEF Orderly
  <2> QED
    BY <1>5, <2>1
<1>7. Orderly(Append(both, r)) /\ Operations(Append(both, r)) = Operations(both) \cup {r}
  BY <1>1, <1>2, <1>3, <1>4, OrderlyAppend
<1> QED
  BY <1>2, <1>6, <1>7 DEF r

\* The files that only deploy and register.
LEMMA OrderlyRegistered ==
  /\ Orderly(deployRWA) /\ Register("RWA", "RWA") \in Operations(deployRWA)
  /\ Orderly(deployPoolTokens)
  /\ Register("PoolTokens", "PoolTokens") \in Operations(deployPoolTokens)
  /\ Orderly(deployVerified) /\ Register("Verified", "Verified") \in Operations(deployVerified)
  /\ Orderly(deployBoostPool)
  /\ Register("TestBoostPool", "BoostPool") \in Operations(deployBoostPool)
  /\ Orderly(deployLoanManager)
  /\ Register("LoanManager", "LoanManager") \in Operations(deployLoanManager)
  /\ Orderly(deployJuniorRewards)
  /\ Register("JuniorRewards", "JuniorRewards") \in Operations(deployJuniorRewards)
  /\ Orderly(deployIndexStakingPool)
  /\ Register("IndexStakingPool", "StakingRewards") \in Operations(deployIndexStakingPool)
  /\ Orderly(deployNAOSFactory)
  /\ Register("NAOSFactory", "NAOSFactory") \in Operations(deployNAOSFactory)
  /\ Orderly(deployClImplementation)
  /\ Register("CreditLine", "CreditLineImplementation") \in Operations(deployClImplementation)
<1> DEFINE pair(a, key) == <<Deploy(a), Register(a, key)>>
           triple(a, key) == <<Deploy("Accountant"), Deploy(a), Register(a, key)>>
<1>1. ASSUME NEW key \in AddressKeys, NEW a \in Artifacts \ DOMAIN Linked, Holder(key) = a
      PROVE  Orderly(pair(a, key)) /\ Register(a, key) \in Operations(pair(a, key))
  BY <1>1, DeployAndRegister
<1>2. ASSUME NEW key \in AddressKeys, NEW a \in {"NAOSFactory", "CreditLine"}, Holder(key) = a
      PROVE  Orderly(triple(a, key)) /\ Register(a, key) \in Operations(triple(a, key))
  BY <1>2, DeployWithAccountant
<1>3. /\ deployRWA = pair("RWA", "RWA") /\ deployPoolTokens = pair("PoolTokens", "PoolTokens")
      /\ deployVerified = pair("Verified", "Verified")
      /\ deployBoostPool = pair("TestBoostPool", "BoostPool")
      /\ deployLoanManager = pair("LoanManager", "LoanManager")
      /\ deployJuniorRewards = pair("JuniorRewards", "JuniorRewards")
      /\ deployIndexStakingPool = pair("IndexStakingPool", "StakingRewards")
      /\ deployNAOSFactory = triple("NAOSFactory", "NAOSFactory")
      /\ deployClImplementation = triple("CreditLine", "CreditLineImplementation")
  BY DEF deployRWA, deployPoolTokens, deployVerified, deployBoostPool, deployLoanManager,
         deployJuniorRewards, deployIndexStakingPool, deployNAOSFactory, deployClImplementation
<1> HIDE DEF pair, triple
<1>4. /\ Holder("RWA") = "RWA" /\ Holder("PoolTokens") = "PoolTokens"
      /\ Holder("Verified") = "Verified" /\ Holder("BoostPool") = "TestBoostPool"
      /\ Holder("LoanManager") = "LoanManager" /\ Holder("JuniorRewards") = "JuniorRewards"
      /\ Holder("StakingRewards") = "IndexStakingPool" /\ Holder("NAOSFactory") = "NAOSFactory"
      /\ Holder("CreditLineImplementation") = "CreditLine"
  BY DEF Holder
<1>5. {"RWA", "PoolTokens", "Verified", "TestBoostPool", "LoanManager", "JuniorRewards",
       "IndexStakingPool"} \subseteq Artifacts \ DOMAIN Linked
  BY DEF Artifacts, Proxies, Linked
<1>6. {"RWA", "PoolTokens", "Verified", "BoostPool", "LoanManager", "JuniorRewards",
       "StakingRewards", "NAOSFactory", "CreditLineImplementation"} \subseteq AddressKeys
  BY DEF AddressKeys
<1> QED
  BY <1>1, <1>2, <1>3, <1>4, <1>5, <1>6

LEMMA OrderlyTokens ==
  /\ Orderly(getOrDeployUSDC) /\ Register("TestUSDC", "USDC") \in Operations(getOrDeployUSDC)
  /\ Orderly(getOrDeployNAOS) /\ Register("TestNAOS", "NAOS") \in Operations(getOrDeployNAOS)
<1>1. Holder("USDC") = "TestUSDC" /\ Holder("NAOS") = "TestNAOS"
  BY DEF Holder
<1>2. {"TestUSDC", "TestNAOS"} \subseteq Tokens /\ {"USDC", "NAOS"} \subseteq AddressKeys
  BY DEF Tokens, AddressKeys
<1>3. ASSUME NEW token \in Tokens, NEW key \in AddressKeys, Holder(key) = token
      PROVE  /\ Orderly(getOrDeployToken(token, key))
             /\ Register(token, key) \in Operations(getOrDeployToken(token, key))
  BY <1>3, OrderlyToken
<1> QED
  BY <1>1, <1>2, <1>3 DEF getOrDeployUSDC, getOrDeployNAOS

\* Everything after the stable coin.
LEMMA OrderlyProtocol ==
  /\ Orderly(deployProtocol)
  /\ Operations(getOrDeployNAOS) \subseteq Operations(deployProtocol)
  /\ Operations(deployRWA) \subseteq Operations(deployProtocol)
  /\ Operations(deployPoolTokens) \subseteq Operations(deployProtocol)
  /\ Operations(deployJuniorPool) \subseteq Operations(deployProtocol)
  /\ Operations(deployIndexPool) \subseteq Operations(deployProtocol)
  /\ Operations(deployIndexPoolStrategies) \subseteq Operations(deployProtocol)
  /\ Operations(deployNAOSFactory) \subseteq Operations(deployProtocol)
  /\ Operations(deployClImplementation) \subseteq Operations(deployProtocol)
  /\ Operations(deployUniqueIdentity) \subseteq Operations(deployProtocol)
  /\ Operations(deployVerified) \subseteq Operations(deployProtocol)
  /\ Operations(deployWithdrawQueue) \subseteq Operations(deployProtocol)
  /\ Operations(deployBoostPool) \subseteq Operations(deployProtocol)
  /\ Operations(deployLoanManager) \subseteq Operations(deployProtocol)
  /\ Operations(deployJuniorRewards) \subseteq Operations(deployProtocol)
  /\ Operations(deployIndexStakingPool) \subseteq Operations(deployProtocol)
<1>1. ASSUME NEW s, NEW t, Orderly(s), Orderly(t)
      PROVE  /\ Orderly(s \o t)
             /\ Operations(s) \subseteq Operations(s \o t)
             /\ Operations(t) \subseteq Operations(s \o t)
  <2>1. Orderly(s \o t) /\ Operations(s \o t) = Operations(s) \cup Operations(t)
    BY <1>1, OrderlyConcat
  <2> QED
    BY <2>1
<1> DEFINE p2 == getOrDeployNAOS \o deployRWA
           p3 == p2 \o deployPoolTokens
           p4 == p3 \o deployJuniorPool
           p5 == p4 \o deployIndexPool
           p6 == p5 \o deployIndexPoolStrategies
           p7 == p6 \o deployNAOSFactory
           p8 == p7 \o deployClImplementation
           p9 == p8 \o deployUniqueIdentity
           p10 == p9 \o deployVerified
           p11 == p10 \o deployWithdrawQueue
           p12 == p11 \o deployBoostPool
           p13 == p12 \o deployLoanManager
           p14 == p13 \o deployJuniorRewards
           p15 == p14 \o deployIndexStakingPool
<1>2. deployProtocol = p15
  BY DEF deployProtocol
<1>3. /\ Orderly(p2)
      /\ Operations(getOrDeployNAOS) \subseteq Operations(p2)
      /\ Operations(deployRWA) \subseteq Operations(p2)
  BY <1>1, OrderlyRegistered, OrderlyTokens
<1>4. /\ Orderly(p3)
      /\ Operations(p2) \subseteq Operations(p3)
      /\ Operations(deployPoolTokens) \subseteq Operations(p3)
  BY <1>1, <1>3, OrderlyRegistered
<1>5. /\ Orderly(p4)
      /\ Operations(p3) \subseteq Operations(p4)
      /\ Operations(deployJuniorPool) \subseteq Operations(p4)
  BY <1>1, <1>4, OrderlyJuniorPool
<1>6. /\ Orderly(p5)
      /\ Operations(p4) \subseteq Operations(p5)
      /\ Operations(deployIndexPool) \subseteq Operations(p5)
  BY <1>1, <1>5, OrderlyIndexPool
<1>7. /\ Orderly(p6)
      /\ Operations(p5) \subseteq Operations(p6)
      /\ Operations(deployIndexPoolStrategies) \subseteq Operations(p6)
  BY <1>1, <1>6, OrderlyStrategies
<1>8. /\ Orderly(p7)
      /\ Operations(p6) \subseteq Operations(p7)
      /\ Operations(deployNAOSFactory) \subseteq Operations(p7)
  BY <1>1, <1>7, OrderlyRegistered
<1>9. /\ Orderly(p8)
      /\ Operations(p7) \subseteq Operations(p8)
      /\ Operations(deployClImplementation) \subseteq Operations(p8)
  BY <1>1, <1>8, OrderlyRegistered
<1>10. /\ Orderly(p9)
      /\ Operations(p8) \subseteq Operations(p9)
      /\ Operations(deployUniqueIdentity) \subseteq Operations(p9)
  BY <1>1, <1>9, OrderlyUniqueIdentity
<1>11. /\ Orderly(p10)
      /\ Operations(p9) \subseteq Operations(p10)
      /\ Operations(deployVerified) \subseteq Operations(p10)
  BY <1>1, <1>10, OrderlyRegistered
<1>12. /\ Orderly(p11)
      /\ Operations(p10) \subseteq Operations(p11)
      /\ Operations(deployWithdrawQueue) \subseteq Operations(p11)
  BY <1>1, <1>11, OrderlyWithdrawQueue
<1>13. /\ Orderly(p12)
      /\ Operations(p11) \subseteq Operations(p12)
      /\ Operations(deployBoostPool) \subseteq Operations(p12)
  BY <1>1, <1>12, OrderlyRegistered
<1>14. /\ Orderly(p13)
      /\ Operations(p12) \subseteq Operations(p13)
      /\ Operations(deployLoanManager) \subseteq Operations(p13)
  BY <1>1, <1>13, OrderlyRegistered
<1>15. /\ Orderly(p14)
      /\ Operations(p13) \subseteq Operations(p14)
      /\ Operations(deployJuniorRewards) \subseteq Operations(p14)
  BY <1>1, <1>14, OrderlyRegistered
<1>16. /\ Orderly(p15)
      /\ Operations(p14) \subseteq Operations(p15)
      /\ Operations(deployIndexStakingPool) \subseteq Operations(p15)
  BY <1>1, <1>15, OrderlyRegistered
<1> HIDE DEF p2, p3, p4, p5, p6, p7, p8, p9, p10, p11, p12, p13, p14, p15
<1> QED
  BY <1>2, <1>3, <1>4, <1>5, <1>6, <1>7, <1>8, <1>9, <1>10, <1>11, <1>12, <1>13, <1>14, <1>15, <1>16

\* The config is deployed first and initialized next, before an address is set,
\* and the owner has signed before a proxy is deployed.
StartsWithConfig(s) ==
  \A i \in 1..Len(s) :
    /\ s[i].do \in {"deploy", "deployToken"} => s[1] = Deploy("NAOSConfig")
    /\ s[i].do \in Setters => i > 2 /\ s[2].do = "initializeConfig"
    /\ s[i].do = "deploy" /\ s[i].of \in Proxies => \E j \in 1..(i - 1) : s[j].do = "setAddress"

\* Every key and role is written, every strategy initialized.
Complete(s) ==
  /\ \A key \in AddressKeys : \E o \in Operations(s) : o.do \in Setters /\ o.key = key
  /\ \A key \in Keys : \E o \in Operations(s) : o.do = "updateNumber" /\ o.key = key
  /\ \A do \in {"addToGoList", "grantMinter", "grantSigner", "setCeiling", "initializeConfig"} :
       \E o \in Operations(s) : o.do = do
  /\ \A a \in Strategies : \E o \in Operations(s) : o.do = "initialize" /\ o.of = a

LEMMA DeploymentScript ==
  Orderly(baseDeploy) /\ StartsWithConfig(baseDeploy) /\ Complete(baseDeploy)
<1> DEFINE head == deployConfig \o getOrDeployUSDC
           S == baseDeploy
<1>1. /\ Orderly(head)
      /\ Operations(head) = Operations(deployConfig) \cup Operations(getOrDeployUSDC)
  BY OrderlyConfig, OrderlyTokens, OrderlyConcat
<1>2. Orderly(S) /\ Operations(S) = Operations(head) \cup Operations(deployProtocol)
  <2>1. S = head \o deployProtocol
    BY DEF baseDeploy
  <2> HIDE DEF head, S
  <2> QED
    BY <1>1, <2>1, OrderlyProtocol, OrderlyConcat
<1>3. \A i \in 1..11 : i \in 1..Len(S) /\ S[i] = deployConfig[i]
  <2>1. /\ deployConfig \in Seq(Operation) /\ getOrDeployUSDC \in Seq(Operation)
        /\ deployProtocol \in Seq(Operation) /\ Len(deployConfig) = 11
    BY OrderlyConfig, OrderlyTokens, OrderlyProtocol DEF Orderly
  <2>2. /\ head \in Seq(Operation) /\ Len(head) = 11 + Len(getOrDeployUSDC)
        /\ \A i \in 1..11 : head[i] = deployConfig[i]
    <3>1. deployConfig \in Seq(Operation)
      BY <2>1
    <3>2. getOrDeployUSDC \in Seq(Operation)
      BY <2>1
    <3>3. /\ head \in Seq(Operation) /\ Len(head) = Len(deployConfig) + Len(getOrDeployUSDC)
          /\ \A i \in 1..Len(deployConfig) : head[i] = deployConfig[i]
      BY <3>1, <3>2, Concatenated
    <3> QED
      BY <2>1, <3>3
  <2>3. S = head \o deployProtocol
    BY DEF baseDeploy
  <2> HIDE DEF head, S
  <2>4. Len(S) = Len(head) + Len(deployProtocol) /\ \A i \in 1..Len(head) : S[i] = head[i]
    BY <2>1, <2>2, <2>3, Concatenated
  <2>5. Len(getOrDeployUSDC) \in Nat /\ Len(deployProtocol) \in Nat
    BY <2>1
  <2>6. \A i \in 1..11 : i \in 1..Len(head) /\ i \in 1..Len(S)
    BY <2>2, <2>4, <2>5
  <2> QED
    BY <2>2, <2>4, <2>6
<1>4. StartsWithConfig(S)
  <2>1. /\ S[1] = Deploy("NAOSConfig") /\ S[2] = Op("initializeConfig", "NAOSConfig", None)
        /\ S[11] = Op("setAddress", "Multisig", "TreasuryReserve")
    BY <1>3, OrderlyConfig
  <2>2. ASSUME NEW i \in 1..11
        PROVE  ~(S[i].do = "deploy" /\ S[i].of \in Proxies)
    <3>1. S[i] \in Operations(deployConfig)
      BY <1>3, <2>2, OrderlyConfig DEF Operations
    <3> QED
      BY <3>1, OrderlyConfig DEF Deploy, Register, Op, Proxies
  <2>3. \A i \in 1..Len(S) : i \in 1..11 \/ 11 \in 1..(i - 1)
    BY <1>2 DEF Orderly
  <2>4. \A i \in 1..Len(S) : i = 1 \/ i = 2 \/ i > 2
    BY <1>2 DEF Orderly
  <2> HIDE DEF S
  <2> QED
    BY <2>1, <2>2, <2>3, <2>4 DEF StartsWithConfig, Deploy, Op, Setters
<1>5. Complete(S)
  <2> DEFINE O == Operations(S)
  <2>1. /\ Register("Multisig", "ProtocolAdmin") \in O
        /\ Op("setAddress", "Multisig", "TreasuryReserve") \in O
        /\ Op("initializeConfig", "NAOSConfig", None) \in O
        /\ \A key \in Keys : Op("updateNumber", "protocol_config", key) \in O
    BY <1>1, <1>2, OrderlyConfig
  <2>2. Register("TestUSDC", "USDC") \in O
    BY <1>1, <1>2, OrderlyTokens
  <2>3. Operations(deployProtocol) \subseteq O
    BY <1>2
  <2>4. /\ Register("TestNAOS", "NAOS") \in O
        /\ Register("RWA", "RWA") \in O /\ Register("PoolTokens", "PoolTokens") \in O
        /\ Register("Verified", "Verified") \in O /\ Register("TestBoostPool", "BoostPool") \in O
        /\ Register("LoanManager", "LoanManager") \in O
        /\ Register("JuniorRewards", "JuniorRewards") \in O
        /\ Register("IndexStakingPool", "StakingRewards") \in O
        /\ Register("NAOSFactory", "NAOSFactory") \in O
        /\ Register("CreditLine", "CreditLineImplementation") \in O
    BY <2>3, OrderlyProtocol, OrderlyTokens, OrderlyRegistered
  <2>5. /\ Op("setAddress", "JuniorPool", "JuniorPoolImplementation") \in O
        /\ Register("IndexPool", "IndexPool") \in O
        /\ Op("addToGoList", "IndexPool", None) \in O
        /\ Op("grantMinter", "IndexPool", None) \in O
        /\ Op("grantSigner", "Owner", None) \in O
        /\ Op("setCeiling", "WithdrawQueue", None) \in O
        /\ Register("WithdrawQueue", "WithdrawQueue") \in O
    BY <2>3, OrderlyProtocol, OrderlyJuniorPool, OrderlyIndexPool, OrderlyUniqueIdentity,
       OrderlyWithdrawQueue
  <2>6. /\ Register("FixedLeverageRatioStrategy", "IndexPoolStrategy") \in O
        /\ \A a \in Strategies : Op("initialize", a, None) \in O
    BY <2>3, OrderlyProtocol, OrderlyStrategies
  <2> HIDE DEF O
  <2>7. \A a, key : Register(a, key) \in O => \E o \in O : o.do \in Setters /\ o.key = key
    BY DEF Register, Op, Setters
  <2>8. \A a, key : Op("setAddress", a, key) \in O => \E o \in O : o.do \in Setters /\ o.key = key
    BY DEF Op, Setters
  <2>9. \A do, a, key : Op(do, a, key) \in O => \E o \in O : o.do = do /\ o.of = a /\ o.key = key
    BY DEF Op
  <2>10. \A key \in AddressKeys : \E o \in O : o.do \in Setters /\ o.key = key
    BY <2>1, <2>2, <2>4, <2>5, <2>6, <2>7, <2>8 DEF AddressKeys
  <2>11. \A key \in Keys : \E o \in O : o.do = "updateNumber" /\ o.key = key
    BY <2>1, <2>9
  <2>12. \A do \in {"addToGoList", "grantMinter", "grantSigner", "setCeiling", "initializeConfig"} :
           \E o \in O : o.do = do
    BY <2>1, <2>5, <2>9
  <2>13. \A a \in Strategies : \E o \in O : o.do = "initialize" /\ o.of = a
    BY <2>6, <2>9
  <2> QED
    BY <2>10, <2>11, <2>12, <2>13 DEF Complete, O
<1> QED
  BY <1>2, <1>4, <1>5

\* updateConfigs only writes numbers, one of them from an undefined value.
LEMMA UpdateConfigsScript ==
  /\ Orderly(updateConfigs) /\ StartsWithConfig(updateConfigs)
  /\ \E i \in 1..Len(updateConfigs) : updateConfigs[i].of = "undefined"
<1> DEFINE value(key) == IF key = "LatenessGracePeriodInDays" THEN "undefined" ELSE "protocol_config"
           o(key) == Op("updateNumber", value(key), key)
<1>1. /\ Len(NumberKeys) = 7 /\ NumberKeys[4] = "LatenessGracePeriodInDays"
      /\ \A i \in 1..7 : NumberKeys[i] \in Keys
  BY TheNumberKeys
<1>2. \A key \in Keys : /\ Proper(o(key)) /\ o(key) \in Operation
                        /\ o(key).do = "updateNumber" /\ o(key).of \notin Artifacts
  <2>1. \A key \in Keys : Proper(o(key))
    BY ProperOperations
  <2>2. \A key \in Keys : value(key) \notin Artifacts
    BY DEF Artifacts, Proxies, Strategies, Tokens
  <2> QED
    BY <2>1, <2>2 DEF Proper, Op
<1>3. o("LatenessGracePeriodInDays").of = "undefined"
  BY DEF Op
<1>4. updateConfigs = [i \in 1..Len(NumberKeys) |-> o(NumberKeys[i])]
  BY DEF updateConfigs
<1> HIDE DEF o
<1>5. /\ updateConfigs \in Seq(Operation) /\ Len(updateConfigs) = 7
      /\ \A i \in 1..7 : updateConfigs[i] = o(NumberKeys[i])
  BY <1>1, <1>2, <1>4
<1>6. Orderly(updateConfigs)
  BY <1>1, <1>2, <1>5 DEF Orderly
<1>7. StartsWithConfig(updateConfigs)
  BY <1>1, <1>2, <1>5 DEF StartsWithConfig, Setters
<1> QED
  BY <1>1, <1>3, <1>5, <1>6, <1>7

----------------------------------------------------------------------------
(* The invariant.                                                             *)

ScriptNames == {"baseDeploy", "baseDeploy18", "updateConfigs"}
DeployTypeOK ==
  /\ chain \in [knownTokens : SUBSET Tokens, deployerIsOwner : BOOLEAN]
  /\ source \in [Artifacts -> Nat]
  /\ deployment = [a \in Artifacts |-> deployment[a]] /\ DOMAIN initArgs = Proxies
  /\ DOMAIN configOf = Proxies \cup {"FixedLeverageRatioStrategy"}
  /\ DOMAIN numbers = Keys /\ DOMAIN addresses = AddressKeys
  /\ started \in ScriptNames /\ ownerSigns \in BOOLEAN /\ pc \in Nat

\* Every proxy runs what is recorded, since only the owner gets to upgrade it.
ImplementationsRecorded == implementation = [p \in Proxies |-> deployment[p]]

\* The versions of the config only grow, and no contract has one of a later
\* version than the deployed.
Version == deployment["NAOSConfig"][1]
ConfigIsVersioned ==
  IsDeployed("NAOSConfig") =>
    /\ deployment["NAOSConfig"] = <<Version, None>>
    /\ Version \in Nat /\ Version <= source["NAOSConfig"]
ConfigsAreOlder ==
  \A p \in Proxies : IsDeployed(p) =>
    /\ IsDeployed("NAOSConfig")
    /\ configOf[p] = <<"NAOSConfig", <<configOf[p][2][1], None>>>>
    /\ configOf[p][2][1] \in Nat /\ configOf[p][2][1] <= Version

\* What a proxy of the present config copied is set, and the same.
CopiesHold ==
  \A p \in Proxies : IsDeployed(p) =>
    /\ DOMAIN initArgs[p] = ReadAtInit(p)
    /\ configOf[p] = AddressOf("NAOSConfig") =>
         \A key \in ReadAtInit(p) : addresses[key] # None /\ initArgs[p][key] = addresses[key]

\* deployConfig may tell by the reserve whether the config is initialized.
ReserveTellsInitialized ==
  addresses["TreasuryReserve"] # None => "NAOSConfig" \in initialized

\* What an operation leaves behind.
Written(o) ==
  /\ o.of # "undefined"
  /\ o.do \in {"initializeConfig", "initialize"} => o.of \in initialized
  /\ o.do = "updateNumber" => numbers[o.key] = InitialNumber(o.key)
  /\ o.do \in Setters => addresses[o.key] = AddressOf(o.of)
  /\ o.do = "addToGoList" => AddressOf(o.of) \in goList
  /\ o.do = "grantMinter" => AddressOf(o.of) \in minters
  /\ o.do = "grantSigner" => signers # {}
  /\ o.do = "setCeiling" => ceiling = TRUE
Current(a) == deployment[a] = Bytecode(a) \/ getERC20Address(a)
\* What it tells about the run.
Witnessed(o) ==
  /\ o.do \in {"deploy", "deployToken"} => Current(o.of)
  /\ o.do = "setAddress" => ownerSigns

Past == {script[i] : i \in 1..(pc - 1)}
RunSoFar ==
  status = "running" => pc \in 1..Len(script) /\ \A o \in Past : Written(o) /\ Witnessed(o)
RunDone == status = "done" => \A o \in Operations(script) : Written(o)

DeployInv ==
  /\ DeployTypeOK /\ ImplementationsRecorded
  /\ ConfigIsVersioned /\ ConfigsAreOlder /\ CopiesHold /\ ReserveTellsInitialized
  /\ RunSoFar /\ RunDone

----------------------------------------------------------------------------
(* What a step of a run can rely on.                                          *)

LEMMA NotEmpty == 1 \in 1..Len(baseDeploy) /\ 1 \in 1..Len(updateConfigs)
<1>1. \E o \in Operations(baseDeploy) : o.do = "initializeConfig"
  BY DeploymentScript DEF Complete
<1>2. (\E i \in 1..Len(baseDeploy) : TRUE) /\ \E i \in 1..Len(updateConfigs) : TRUE
  BY <1>1, UpdateConfigsScript DEF Operations
<1>3. Len(baseDeploy) \in Nat /\ Len(updateConfigs) \in Nat
  BY DeploymentScript, UpdateConfigsScript DEF Orderly
<1> QED
  BY <1>2, <1>3

LEMMA TheScript ==
  ASSUME started \in ScriptNames
  PROVE  /\ Orderly(script) /\ StartsWithConfig(script)
         /\ Complete(script) \/ \E i \in 1..Len(script) : script[i].of = "undefined"
<1>1. \/ script = baseDeploy \/ script = updateConfigs
  BY DEF script, ScriptNames, baseDeploy, baseDeploy18, getOrDeployUSDC, getOrDeployUSDC18
<1> QED
  BY <1>1, DeploymentScript, UpdateConfigsScript

\* Of the operations before.
LEMMA PastOperations ==
  ASSUME DeployInv, status = "running", NEW o \in Past
  PROVE  /\ Proper(o) /\ Written(o) /\ Witnessed(o)
         /\ o.do \notin {"deploy", "deployToken"} /\ o.of \in Artifacts => Current(o.of)
         /\ o.do = "deploy" /\ o.of \in DOMAIN Linked => Current(Linked[o.of])
<1>1. Orderly(script) /\ StartsWithConfig(script)
  BY TheScript DEF DeployInv, DeployTypeOK
<1>2. pc \in 1..Len(script) /\ \A p \in Past : Written(p) /\ Witnessed(p)
  BY DEF DeployInv, RunSoFar
<1>3. PICK i \in 1..(pc - 1) : o = script[i]
  BY DEF Past
<1>4. Len(script) \in Nat
  BY <1>1 DEF Orderly
<1>5. i \in 1..Len(script) /\ 1..(i - 1) \subseteq 1..(pc - 1)
  BY <1>2, <1>4
<1>6. \A a : DeployedBefore(script, i, a) => Current(a)
  <2> SUFFICES ASSUME NEW a, NEW j \in 1..(i - 1), Deploys(script[j], a)
               PROVE  Current(a)
    BY DEF DeployedBefore
  <2>1. script[j] \in Past
    BY <1>5 DEF Past
  <2> QED
    BY <1>2, <2>1 DEF Deploys, Witnessed
<1> HIDE DEF script, Past
<1> QED
  BY <1>1, <1>2, <1>3, <1>5, <1>6 DEF Orderly

\* Of the present one.
LEMMA PresentOperation ==
  ASSUME DeployInv, status = "running"
  PROVE  /\ Proper(op) /\ op \in Operations(script)
         /\ op.do \notin {"deploy", "deployToken"} /\ op.of \in Artifacts => Current(op.of)
         /\ op.do = "deploy" /\ op.of \in DOMAIN Linked => Current(Linked[op.of])
         /\ op.do \in {"deploy", "deployToken"} =>
              Current("NAOSConfig") \/ (op = Deploy("NAOSConfig") /\ Past = {})
         /\ op.do \in Setters => "NAOSConfig" \in initialized
         /\ op.do = "deploy" /\ op.of \in Proxies => ownerSigns
<1>1. Orderly(script) /\ StartsWithConfig(script)
  BY TheScript DEF DeployInv, DeployTypeOK
<1>2. pc \in 1..Len(script) /\ \A p \in Past : Written(p) /\ Witnessed(p)
  BY DEF DeployInv, RunSoFar
<1>3. \A j \in 1..(pc - 1) : script[j] \in Past
  BY DEF Past
<1>4. Len(script) \in Nat
  BY <1>1 DEF Orderly
<1>5. \A a : DeployedBefore(script, pc, a) => Current(a)
  <2> SUFFICES ASSUME NEW a, NEW j \in 1..(pc - 1), Deploys(script[j], a)
               PROVE  Current(a)
    BY DEF DeployedBefore
  <2> QED
    BY <1>2, <1>3 DEF Deploys, Witnessed
<1>6. Proper(op) /\ op \in Operations(script)
  BY <1>1, <1>2 DEF Orderly, op, Operations
<1>7. /\ op.do \notin {"deploy", "deployToken"} /\ op.of \in Artifacts => Current(op.of)
      /\ op.do = "deploy" /\ op.of \in DOMAIN Linked => Current(Linked[op.of])
  BY <1>1, <1>2, <1>5 DEF Orderly, op
<1>8. op.do \in {"deploy", "deployToken"} =>
        Current("NAOSConfig") \/ (op = Deploy("NAOSConfig") /\ Past = {})
  <2> SUFFICES ASSUME op.do \in {"deploy", "deployToken"}
               PROVE  Current("NAOSConfig") \/ (op = Deploy("NAOSConfig") /\ Past = {})
    OBVIOUS
  <2>1. script[1] = Deploy("NAOSConfig")
    BY <1>1, <1>2 DEF StartsWithConfig, op
  <2>2. CASE pc = 1
    BY <2>1, <2>2 DEF op, Past
  <2>3. CASE pc # 1
    <3>1. 1 \in 1..(pc - 1)
      BY <1>2, <1>4, <2>3
    <3>2. Witnessed(script[1])
      BY <1>2, <1>3, <3>1
    <3> QED
      BY <2>1, <3>2 DEF Witnessed, Deploy, Op
  <2> QED
    BY <2>2, <2>3
<1>9. op.do \in Setters => "NAOSConfig" \in initialized
  <2> SUFFICES ASSUME op.do \in Setters PROVE "NAOSConfig" \in initialized
    OBVIOUS
  <2>1. pc > 2 /\ script[2].do = "initializeConfig"
    BY <1>1, <1>2 DEF StartsWithConfig, op
  <2>2. 2 \in 1..(pc - 1) /\ 2 \in 1..Len(script)
    BY <1>2, <1>4, <2>1
  <2>3. Written(script[2]) /\ Proper(script[2])
    BY <1>1, <1>2, <1>3, <2>2 DEF Orderly
  <2> QED
    BY <2>1, <2>3 DEF Written, Proper
<1>10. op.do = "deploy" /\ op.of \in Proxies => ownerSigns
  BY <1>1, <1>2, <1>3 DEF StartsWithConfig, op, Witnessed
<1> QED
  BY <1>6, <1>7, <1>8, <1>9, <1>10

\* What belongs to a key is a contract or an account.
LEMMA HolderIsKnown == \A key \in AddressKeys : Holder(key) \in Artifacts \cup {"Multisig", "Owner"}
BY DEF Holder, AddressKeys, Artifacts, Proxies, Strategies, Tokens

LEMMA Codes ==
  /\ "NAOSConfig" \in Artifacts \ (Proxies \cup DOMAIN Linked \cup Tokens)
  /\ Bytecode("NAOSConfig") = <<source["NAOSConfig"], None>>
  /\ \A a : Bytecode(a) # None /\ AddressOf(a) # None
  /\ DeployTypeOK => /\ AddressOf("NAOSConfig") = <<"NAOSConfig", deployment["NAOSConfig"]>>
                     /\ \A a : getERC20Address(a) => a \in Tokens
<1>1. "NAOSConfig" \in Artifacts \ (Proxies \cup DOMAIN Linked \cup Tokens \cup {"Multisig", "Owner"})
  BY DEF Artifacts, Proxies, Linked, Tokens
<1>2. Bytecode("NAOSConfig") = <<source["NAOSConfig"], None>>
  BY <1>1 DEF Bytecode, Tokens
<1>3. \A x, y : <<x, y>> # None /\ <<x>> # None
  BY DEF None
<1>4. \A a : Bytecode(a) # None /\ AddressOf(a) # None
  BY <1>3 DEF Bytecode, AddressOf
<1>5. ASSUME DeployTypeOK
      PROVE  /\ AddressOf("NAOSConfig") = <<"NAOSConfig", deployment["NAOSConfig"]>>
             /\ \A a : getERC20Address(a) => a \in Tokens
  <2>1. \A a : getERC20Address(a) => a \in Tokens
    BY <1>5 DEF DeployTypeOK, getERC20Address
  <2> QED
    BY <1>1, <2>1 DEF AddressOf
<1> QED
  BY <1>1, <1>2, <1>4, <1>5

\* A step of a run leaves the run in order if it leaves the effects in place
\* and adds its own.
LEMMA RunGoesOn ==
  ASSUME DeployInv, status = "running", Advance,
         \A o \in Past \cup {op} : Written(o)' /\ Witnessed(o)'
  PROVE  RunSoFar' /\ RunDone'
<1>1. script' = script
  BY DEF Advance, envVars, script
<1>2. pc \in 1..Len(script) /\ Len(script) \in Nat /\ pc' = pc + 1
  BY TheScript DEF DeployInv, DeployTypeOK, RunSoFar, Orderly, Advance
<1> HIDE DEF script
<1>3. Past' = Past \cup {op}
  <2>1. \A i \in 1..(pc' - 1) : i \in 1..(pc - 1) \/ i = pc
    BY <1>2
  <2>2. \A i \in 1..(pc - 1) : i \in 1..(pc' - 1)
    BY <1>2
  <2>3. pc \in 1..(pc' - 1)
    BY <1>2
  <2> QED
    BY <1>1, <2>1, <2>2, <2>3 DEF Past, op
<1>4. RunSoFar'
  <2>1. status' = "running" => pc' \in 1..Len(script)
    BY <1>2 DEF Advance
  <2> HIDE DEF Past, op
  <2>2. \A o \in Past' : Written(o)' /\ Witnessed(o)'
    BY <1>3
  <2> QED
    BY <1>1, <2>1, <2>2 DEF RunSoFar
<1>5. RunDone'
  <2> SUFFICES ASSUME status' = "done" PROVE RunDone'
    BY DEF RunDone
  <2>1. pc = Len(script)
    BY DEF Advance
  <2>2. Operations(script) = Past'
    BY <1>1, <1>2, <2>1 DEF Operations, Past
  <2> HIDE DEF Past, op
  <2>3. \A o \in Operations(script) : Written(o)'
    BY <1>3, <2>2
  <2> QED
    BY <1>1, <2>3 DEF RunDone
<1> QED
  BY <1>4, <1>5

\* A deployment in a run changes only what no operation before it used.
LEMMA DeployKeepsPast ==
  ASSUME DeployInv, status = "running", NEW a \in Artifacts,
         ~Current(a) \/ deployment[a] = Bytecode(a),
         deployment' = [deployment EXCEPT ![a] = Bytecode(a)],
         UNCHANGED <<envVars, minters, signers, ceiling>>,
         initialized \ (IF Current(a) THEN {} ELSE {a}) \subseteq initialized',
         UNCHANGED configVars \/ Past = {}
  PROVE  \A o \in Past : Written(o)' /\ Witnessed(o)'
<1> SUFFICES ASSUME NEW o \in Past PROVE Written(o)' /\ Witnessed(o)'
  OBVIOUS
<1>1. /\ Proper(o) /\ Written(o) /\ Witnessed(o)
      /\ o.do \notin {"deploy", "deployToken"} /\ o.of \in Artifacts => Current(o.of)
      /\ o.do = "deploy" /\ o.of \in DOMAIN Linked => Current(Linked[o.of])
  BY PastOperations
<1>2. DOMAIN deployment = Artifacts
  BY DEF DeployInv, DeployTypeOK
<1>3. UNCHANGED configVars
  OBVIOUS
<1>4. /\ UNCHANGED <<numbers, addresses, goList, minters, signers, ceiling>>
      /\ UNCHANGED <<chain, source, started, ownerSigns>>
  BY <1>3 DEF configVars, envVars
<1>5. \A b \in Artifacts : Current(b) => deployment'[b] = deployment[b]
  BY <1>2
<1>6. \A b \in Artifacts \cup {"Multisig", "Owner"} :
        (b \in Artifacts => Current(b)) => AddressOf(b)' = AddressOf(b)
  BY <1>4, <1>5 DEF AddressOf, getERC20Address
<1>7. \A key : InitialNumber(key)' = InitialNumber(key)
  BY <1>4 DEF InitialNumber, decimals
<1>8. Written(o)'
  <2>1. o.do \in {"initializeConfig", "initialize"} => o.of \in initialized'
    <3> SUFFICES ASSUME o.do \in {"initializeConfig", "initialize"} PROVE o.of \in initialized'
      OBVIOUS
    <3>1. o.of \in Artifacts
      BY <1>1 DEF Proper, Artifacts, Strategies, Proxies
    <3>2. Current(o.of)
      BY <1>1, <3>1
    <3> QED
      BY <1>1, <3>2 DEF Written
  <2>2. o.do \in Setters \cup {"addToGoList", "grantMinter"} => AddressOf(o.of)' = AddressOf(o.of)
    <3>1. o.do \in Setters \cup {"addToGoList", "grantMinter"} =>
            o.of \in Artifacts \cup {"Multisig", "Owner"} /\ o.do \notin {"deploy", "deployToken"}
      BY <1>1, HolderIsKnown DEF Proper, Setters, Artifacts, Proxies
    <3> QED
      BY <1>1, <1>6, <3>1
  <2> QED
    BY <1>1, <1>4, <1>7, <2>1, <2>2 DEF Written
<1>9. Witnessed(o)'
  <2>1. o.do \in {"deploy", "deployToken"} => Current(o.of) /\ o.of \in Artifacts
    BY <1>1 DEF Proper, Witnessed
  <2>2. o.do = "deployToken" => o.of \notin DOMAIN Linked
    BY <1>1 DEF Proper, Tokens, Linked
  <2>3. o.do \in {"deploy", "deployToken"} /\ o.of \in DOMAIN Linked =>
          Current(Linked[o.of]) /\ Linked[o.of] \in Artifacts
    BY <1>1, <2>2 DEF Linked, Artifacts
  <2>4. o.do \in {"deploy", "deployToken"} => Bytecode(o.of)' = Bytecode(o.of)
    BY <1>4, <1>5, <2>1, <2>3 DEF Bytecode, decimals
  <2>5. o.do \in {"deploy", "deployToken"} => Current(o.of)'
    BY <1>4, <1>5, <2>1, <2>4 DEF Current, getERC20Address
  <2> QED
    BY <1>1, <1>4, <2>5 DEF Witnessed
<1> QED
  BY <1>8, <1>9

\* A step that leaves the deployments and takes nothing away keeps the effects.
LEMMA EffectsStay ==
  ASSUME DeployInv, status = "running", UNCHANGED <<deployment, envVars>>,
         goList \subseteq goList', minters \subseteq minters', signers \subseteq signers',
         ceiling = TRUE => ceiling' = TRUE, initialized \subseteq initialized',
         \A key \in Keys : numbers'[key] \in {numbers[key], InitialNumber(key)},
         \A key \in AddressKeys : addresses'[key] \in {addresses[key], AddressOf(Holder(key))}
  PROVE  \A o \in Past : Written(o)' /\ Witnessed(o)'
<1> SUFFICES ASSUME NEW o \in Past PROVE Written(o)' /\ Witnessed(o)'
  OBVIOUS
<1>1. Proper(o) /\ Written(o) /\ Witnessed(o)
  BY PastOperations
<1>2. UNCHANGED <<deployment, chain, source, started, ownerSigns>>
  BY DEF envVars
<1>3. /\ \A a : AddressOf(a)' = AddressOf(a) /\ Current(a)' = Current(a)
      /\ \A key : InitialNumber(key)' = InitialNumber(key)
  BY <1>2 DEF AddressOf, getERC20Address, Current, Bytecode, decimals, InitialNumber
<1>4. o.do = "updateNumber" => numbers'[o.key] = InitialNumber(o.key)
  BY <1>1 DEF Written, Proper
<1>5. o.do \in Setters => addresses'[o.key] = AddressOf(o.of)
  BY <1>1 DEF Written, Proper
<1>6. Written(o)'
  BY <1>1, <1>3, <1>4, <1>5 DEF Written
<1>7. Witnessed(o)'
  BY <1>1, <1>2, <1>3 DEF Witnessed
<1> QED
  BY <1>6, <1>7

LEMMA DeployTypeKept == DeployTypeOK /\ Next => DeployTypeOK'
<1> SUFFICES ASSUME DeployTypeOK, Next PROVE DeployTypeOK'
  OBVIOUS
<1> USE DEF DeployTypeOK
<1>1. ASSUME Advance PROVE UNCHANGED <<chain, source, started, ownerSigns>> /\ pc' \in Nat
  BY <1>1 DEF Advance, envVars
<1>2. CASE DeployContract
  BY <1>1, <1>2 DEF DeployContract, configVars
<1>3. CASE DeployProxy
  BY <1>1, <1>3 DEF DeployProxy, configVars
<1>4. CASE InitializeConfig \/ InitializeStrategy \/ FundOwner
  BY <1>1, <1>4 DEF InitializeConfig, InitializeStrategy, FundOwner, configVars
<1>5. CASE UpdateNumber \/ UpdateAddress \/ SetAddress \/ AddToGoList
  BY <1>1, <1>5 DEF UpdateNumber, UpdateAddress, SetAddress, AddToGoList, chainVars
<1>6. CASE grantMinterRoleToPool \/ GrantSigner \/ SetCeiling
  BY <1>1, <1>6 DEF grantMinterRoleToPool, GrantSigner, SetCeiling, configVars
<1>7. CASE Abort
  BY <1>7 DEF Abort, configVars, chainVars, envVars
<1>8. CASE Start
  <2>1. started' \in ScriptNames /\ pc' \in Nat /\ ownerSigns' \in BOOLEAN
    BY <1>8, BaseDeployAssumption DEF Start, ScriptNames
  <2> QED
    BY <1>8, <2>1 DEF Start, configVars, chainVars
<1>9. CASE Interrupt
  BY <1>9 DEF Interrupt, configVars, chainVars
<1>10. CASE Release
  <2>1. source' \in [Artifacts -> Nat]
    BY <1>10 DEF Release
  <2> QED
    BY <1>10, <2>1 DEF Release, configVars, chainVars
<1> QED
  BY <1>2, <1>3, <1>4, <1>5, <1>6, <1>7, <1>8, <1>9, <1>10 DEF Next, Step

\* What the actions leave alone that neither deploy nor touch the config.
LEMMA OtherActions ==
  ASSUME Next, ~DeployContract, ~DeployProxy
  PROVE  /\ UNCHANGED <<deployment, implementation, initArgs>>
         /\ InitializeStrategy \/ UNCHANGED configOf
         /\ UpdateAddress \/ SetAddress \/ UNCHANGED addresses
         /\ initialized \subseteq initialized'
         /\ Release \/ UNCHANGED source
         /\ UNCHANGED chain
<1>1. CASE InitializeConfig \/ InitializeStrategy \/ FundOwner
  BY <1>1 DEF InitializeConfig, InitializeStrategy, FundOwner, configVars, Advance, envVars
<1>2. CASE UpdateNumber \/ UpdateAddress \/ SetAddress \/ AddToGoList
  BY <1>2 DEF UpdateNumber, UpdateAddress, SetAddress, AddToGoList, chainVars, Advance, envVars
<1>3. CASE grantMinterRoleToPool \/ GrantSigner \/ SetCeiling
  BY <1>3 DEF grantMinterRoleToPool, GrantSigner, SetCeiling, configVars, Advance, envVars
<1>4. CASE Abort \/ Start \/ Interrupt \/ Release
  BY <1>4 DEF Abort, Start, Interrupt, Release, configVars, chainVars, envVars
<1> QED
  BY <1>1, <1>2, <1>3, <1>4 DEF Next, Step

\* A contract is deployed: either nothing happens, or its code is another, and
\* a new config is empty.
LEMMA DeployContractEffect ==
  ASSUME DeployInv, DeployContract
  PROVE  /\ status = "running" /\ op.do \in {"deploy", "deployToken"}
         /\ op.of \in Artifacts \ Proxies /\ Advance
         /\ UNCHANGED <<implementation, configOf, initArgs, minters, signers, ceiling>>
         /\ \/ Current(op.of) /\ UNCHANGED <<deployment, configVars, initialized>>
            \/ /\ ~Current(op.of)
               /\ deployment' = [deployment EXCEPT ![op.of] = Bytecode(op.of)]
               /\ initialized' = initialized \ {op.of}
               /\ \/ op.of # "NAOSConfig" /\ UNCHANGED configVars
                  \/ /\ op.of = "NAOSConfig"
                     /\ addresses' = [key \in AddressKeys |-> None]
<1>1. status = "running" /\ op.do \in {"deploy", "deployToken"} /\ op.of \notin Proxies /\ Advance
  BY DEF DeployContract, Running
<1>2. op.of \in Artifacts
  <2>1. Proper(op)
    BY <1>1, PresentOperation
  <2> QED
    BY <1>1, <2>1 DEF Proper
<1>3. deployment = [b \in Artifacts |-> deployment[b]]
  BY DEF DeployInv, DeployTypeOK
<1>4. CASE Current(op.of)
  <2>1. UNCHANGED <<configVars, initialized>>
    BY <1>4 DEF DeployContract, Current
  <2>2. deployment' = deployment
    <3>1. CASE getERC20Address(op.of)
      BY <3>1 DEF DeployContract
    <3>2. CASE ~getERC20Address(op.of)
      <4>1. deployment[op.of] = Bytecode(op.of)
        BY <1>4, <3>2 DEF Current
      <4>2. deployment' = [deployment EXCEPT ![op.of] = deployment[op.of]]
        BY <3>2, <4>1 DEF DeployContract
      <4> QED
        BY <1>2, <1>3, <4>2
    <3> QED
      BY <3>1, <3>2
  <2> QED
    BY <1>1, <1>2, <1>4, <2>1, <2>2 DEF DeployContract
<1>5. CASE ~Current(op.of)
  BY <1>1, <1>2, <1>5 DEF DeployContract, Current
<1> QED
  BY <1>4, <1>5

\* A proxy is deployed or upgraded, by the owner and under a current config.
LEMMA DeployProxyEffect ==
  ASSUME DeployInv, DeployProxy
  PROVE  /\ status = "running" /\ op.do = "deploy" /\ op.of \in Proxies /\ Advance
         /\ op.of \in Artifacts /\ op.of # "NAOSConfig" /\ ownerSigns
         /\ deployment["NAOSConfig"] = Bytecode("NAOSConfig")
         /\ deployment' = [deployment EXCEPT ![op.of] = Bytecode(op.of)]
         /\ implementation' = [implementation EXCEPT ![op.of] = Bytecode(op.of)]
         /\ UNCHANGED <<configVars, initialized, minters, signers, ceiling>>
<1>1. status = "running" /\ op.do = "deploy" /\ op.of \in Proxies /\ Advance
  BY DEF DeployProxy, Running
<1>2. op.of \in Artifacts /\ op.of # "NAOSConfig" /\ ownerSigns
  <2>1. ownerSigns
    BY <1>1, PresentOperation
  <2> QED
    BY <1>1, <2>1 DEF Artifacts, Proxies
<1>3. deployment["NAOSConfig"] = Bytecode("NAOSConfig")
  <2>1. Current("NAOSConfig")
    BY <1>1, <1>2, PresentOperation DEF Deploy, Op
  <2>2. ~getERC20Address("NAOSConfig")
    BY Codes DEF DeployInv
  <2> QED
    BY <2>1, <2>2 DEF Current
<1> QED
  BY <1>1, <1>2, <1>3 DEF DeployProxy

LEMMA RecordedKept ==
  ASSUME DeployInv, Next PROVE ImplementationsRecorded'
<1>1. /\ implementation = [p \in Proxies |-> deployment[p]]
      /\ deployment = [a \in Artifacts |-> deployment[a]] /\ Proxies \subseteq Artifacts
  BY DEF DeployInv, ImplementationsRecorded, DeployTypeOK, Artifacts
<1>2. CASE DeployContract
  <2>1. /\ op.of \in Artifacts \ Proxies /\ UNCHANGED implementation
        /\ \/ UNCHANGED deployment
           \/ deployment' = [deployment EXCEPT ![op.of] = Bytecode(op.of)]
    BY <1>2, DeployContractEffect
  <2>2. \A p \in Proxies : deployment'[p] = deployment[p]
    BY <1>1, <2>1
  <2> QED
    BY <1>1, <2>1, <2>2 DEF ImplementationsRecorded
<1>3. CASE DeployProxy
  <2>1. /\ op.of \in Proxies
        /\ deployment' = [deployment EXCEPT ![op.of] = Bytecode(op.of)]
        /\ implementation' = [implementation EXCEPT ![op.of] = Bytecode(op.of)]
    BY <1>3, DeployProxyEffect
  <2> HIDE DEF op
  <2>2. implementation' = [p \in Proxies |-> IF p = op.of THEN Bytecode(op.of) ELSE deployment[p]]
    BY <1>1, <2>1
  <2>3. \A p \in Proxies : deployment'[p] = IF p = op.of THEN Bytecode(op.of) ELSE deployment[p]
    BY <1>1, <2>1
  <2> QED
    BY <2>2, <2>3 DEF ImplementationsRecorded
<1>4. CASE ~DeployContract /\ ~DeployProxy
  BY <1>1, <1>4, OtherActions DEF ImplementationsRecorded
<1> QED
  BY <1>2, <1>3, <1>4

\* What becomes of the version of the config.
LEMMA VersionGrows ==
  ASSUME DeployInv, Next
  PROVE  /\ ConfigIsVersioned'
         /\ IsDeployed("NAOSConfig") => IsDeployed("NAOSConfig")' /\ Version <= Version'
         /\ \A p \in Proxies : IsDeployed(p)' => IsDeployed(p) \/ (DeployProxy /\ p = op.of)
         /\ \/ deployment'["NAOSConfig"] = deployment["NAOSConfig"]
            \/ /\ DeployContract /\ addresses' = [key \in AddressKeys |-> None]
               /\ IsDeployed("NAOSConfig") => Version < Version'
<1>0. /\ deployment = [a \in Artifacts |-> deployment[a]]
      /\ "NAOSConfig" \in Artifacts \ Proxies /\ Proxies \subseteq Artifacts
      /\ source \in [Artifacts -> Nat] /\ ConfigIsVersioned
  BY Codes DEF DeployInv, DeployTypeOK, Artifacts
<1>1. CASE DeployContract
  <2>1. /\ op.of \in Artifacts \ Proxies /\ Advance
        /\ \/ UNCHANGED <<deployment, configVars>>
           \/ /\ ~Current(op.of)
              /\ deployment' = [deployment EXCEPT ![op.of] = Bytecode(op.of)]
              /\ \/ op.of # "NAOSConfig" /\ UNCHANGED configVars
                 \/ op.of = "NAOSConfig" /\ addresses' = [key \in AddressKeys |-> None]
    BY <1>1, DeployContractEffect
  <2>2. UNCHANGED source
    BY <2>1 DEF Advance, envVars
  <2>3. \A p \in Proxies : deployment'[p] = deployment[p]
    BY <1>0, <2>1
  <2>4. CASE deployment'["NAOSConfig"] = deployment["NAOSConfig"]
    BY <1>0, <2>2, <2>3, <2>4 DEF ConfigIsVersioned, Version, IsDeployed
  <2>5. CASE deployment'["NAOSConfig"] # deployment["NAOSConfig"]
    <3>1. /\ op.of = "NAOSConfig" /\ addresses' = [key \in AddressKeys |-> None]
          /\ deployment'["NAOSConfig"] = <<source["NAOSConfig"], None>>
      BY <1>0, <2>1, <2>5, Codes
    <3>2. /\ deployment'["NAOSConfig"] # None /\ Version' = source["NAOSConfig"]
          /\ source["NAOSConfig"] \in Nat
      BY <1>0, <3>1 DEF Version, None
    <3>3. ConfigIsVersioned'
      BY <2>2, <3>1, <3>2 DEF ConfigIsVersioned, Version
    <3>4. IsDeployed("NAOSConfig") => Version < Version'
      <4> SUFFICES ASSUME IsDeployed("NAOSConfig") PROVE Version < Version'
        OBVIOUS
      <4>1. /\ deployment["NAOSConfig"] = <<Version, None>>
            /\ Version \in Nat /\ Version <= source["NAOSConfig"]
        BY <1>0 DEF ConfigIsVersioned
      <4>2. Version # source["NAOSConfig"]
        BY <2>5, <3>1, <4>1
      <4> QED
        BY <3>2, <4>1, <4>2
    <3>5. IsDeployed("NAOSConfig") => IsDeployed("NAOSConfig")' /\ Version <= Version'
      <4> SUFFICES ASSUME IsDeployed("NAOSConfig")
                   PROVE  IsDeployed("NAOSConfig")' /\ Version <= Version'
        OBVIOUS
      <4>1. Version \in Nat /\ Version < Version' /\ Version' \in Nat
        BY <1>0, <3>2, <3>4 DEF ConfigIsVersioned
      <4> QED
        BY <3>2, <4>1 DEF IsDeployed
    <3> QED
      BY <1>1, <2>3, <3>1, <3>3, <3>4, <3>5 DEF IsDeployed
  <2> QED
    BY <2>4, <2>5
<1>2. CASE DeployProxy
  <2>1. /\ op.of \in Proxies /\ Advance
        /\ deployment' = [deployment EXCEPT ![op.of] = Bytecode(op.of)]
    BY <1>2, DeployProxyEffect
  <2>2. UNCHANGED source /\ deployment'["NAOSConfig"] = deployment["NAOSConfig"]
    BY <1>0, <2>1 DEF Advance, envVars
  <2>3. \A p \in Proxies : p # op.of => deployment'[p] = deployment[p]
    BY <1>0, <2>1
  <2> QED
    BY <1>0, <1>2, <2>2, <2>3 DEF ConfigIsVersioned, Version, IsDeployed
<1>3. CASE ~DeployContract /\ ~DeployProxy
  <2>1. UNCHANGED deployment /\ (Release \/ UNCHANGED source)
    BY <1>3, OtherActions
  <2>2. Release => source["NAOSConfig"] <= source'["NAOSConfig"] /\ source'["NAOSConfig"] \in Nat
    <3> SUFFICES ASSUME Release
                 PROVE  source["NAOSConfig"] <= source'["NAOSConfig"] /\ source'["NAOSConfig"] \in Nat
      OBVIOUS
    <3>1. PICK changed \in Releases :
            source' = [a \in Artifacts |-> source[a] + (IF a \in changed THEN 1 ELSE 0)]
      BY DEF Release
    <3> QED
      BY <1>0, <3>1
  <2>3. Version' = Version /\ IsDeployed("NAOSConfig")' = IsDeployed("NAOSConfig")
    BY <2>1 DEF Version, IsDeployed
  <2>4. \A p \in Proxies : IsDeployed(p)' => IsDeployed(p)
    BY <2>1 DEF IsDeployed
  <2>5. source["NAOSConfig"] \in Nat
    BY <1>0
  <2>6. ConfigIsVersioned'
    BY <1>0, <2>1, <2>2, <2>3, <2>5 DEF ConfigIsVersioned
  <2>7. IsDeployed("NAOSConfig") => Version \in Nat
    BY <1>0 DEF ConfigIsVersioned
  <2> QED
    BY <2>1, <2>3, <2>4, <2>6, <2>7
<1> QED
  BY <1>1, <1>2, <1>3

\* The configs of the proxies that were there stay the same.
LEMMA ProxiesStay ==
  ASSUME DeployInv, Next
  PROVE  \A p \in Proxies :
           \/ configOf'[p] = configOf[p] /\ initArgs'[p] = initArgs[p] /\ (IsDeployed(p)' => IsDeployed(p))
           \/ /\ DeployProxy /\ p = op.of /\ UNCHANGED configVars
              /\ deployment'["NAOSConfig"] = deployment["NAOSConfig"]
              /\ IsDeployed("NAOSConfig")
              /\ configOf'[p] = <<"NAOSConfig", deployment["NAOSConfig"]>>
              /\ initArgs'[p] = [key \in ReadAtInit(p) |-> addresses[key]]
              /\ \A key \in ReadAtInit(p) : addresses[key] # None
<1> SUFFICES ASSUME NEW p \in Proxies
             PROVE  \/ /\ configOf'[p] = configOf[p] /\ initArgs'[p] = initArgs[p]
                       /\ IsDeployed(p)' => IsDeployed(p)
                    \/ /\ DeployProxy /\ p = op.of /\ UNCHANGED configVars
                       /\ deployment'["NAOSConfig"] = deployment["NAOSConfig"]
                       /\ IsDeployed("NAOSConfig")
                       /\ configOf'[p] = <<"NAOSConfig", deployment["NAOSConfig"]>>
                       /\ initArgs'[p] = [key \in ReadAtInit(p) |-> addresses[key]]
                       /\ \A key \in ReadAtInit(p) : addresses[key] # None
  OBVIOUS
<1>1. IsDeployed(p)' => IsDeployed(p) \/ (DeployProxy /\ p = op.of)
  BY VersionGrows
<1>2. DOMAIN configOf = Proxies \cup {"FixedLeverageRatioStrategy"} /\ DOMAIN initArgs = Proxies
  BY DEF DeployInv, DeployTypeOK
<1>3. CASE DeployContract
  <2>1. ~(DeployProxy /\ p = op.of) /\ UNCHANGED <<configOf, initArgs>>
    BY <1>3 DEF DeployContract, DeployProxy
  <2> QED
    BY <1>1, <2>1
<1>4. CASE DeployProxy
  <2>1. CASE p # op.of
    BY <1>1, <1>2, <1>4, <2>1 DEF DeployProxy
  <2>2. CASE p = op.of /\ IsDeployed(p)
    BY <1>4, <2>2 DEF DeployProxy
  <2>3. CASE p = op.of /\ ~IsDeployed(p)
    <3>1. /\ AddressOf("NAOSConfig") = <<"NAOSConfig", deployment["NAOSConfig"]>>
          /\ Bytecode("NAOSConfig") # None
      BY Codes DEF DeployInv
    <3>2. /\ deployment["NAOSConfig"] = Bytecode("NAOSConfig") /\ op.of # "NAOSConfig"
          /\ deployment' = [deployment EXCEPT ![op.of] = Bytecode(op.of)] /\ op.do = "deploy"
      BY <1>4, DeployProxyEffect
    <3>3. IsDeployed("NAOSConfig")
      BY <3>1, <3>2 DEF IsDeployed
    <3>4. deployment'["NAOSConfig"] = deployment["NAOSConfig"]
      <4>1. "NAOSConfig" \in DOMAIN deployment
        BY Codes DEF DeployInv, DeployTypeOK
      <4> QED
        BY <3>2, <4>1
    <3>5. /\ configOf'[p] = <<"NAOSConfig", deployment["NAOSConfig"]>>
          /\ initArgs'[p] = [key \in ReadAtInit(p) |-> addresses[key]]
      BY <1>2, <1>4, <2>3, <3>1 DEF DeployProxy
    <3>6. \A key \in ReadAtInit(p) : addresses[key] # None
      BY <1>4, <2>3, <3>2 DEF DeployProxy, Running, Accepted
    <3>7. UNCHANGED configVars
      BY <1>4 DEF DeployProxy
    <3> QED
      BY <1>4, <2>3, <3>3, <3>4, <3>5, <3>6, <3>7
  <2> QED
    BY <2>1, <2>2, <2>3
<1>5. CASE ~DeployContract /\ ~DeployProxy
  <2>1. UNCHANGED initArgs /\ (InitializeStrategy \/ UNCHANGED configOf)
    BY <1>5, OtherActions
  <2>2. configOf'[p] = configOf[p]
    <3>1. p # "FixedLeverageRatioStrategy"
      BY DEF Proxies
    <3>2. CASE InitializeStrategy
      BY <1>2, <3>1, <3>2 DEF InitializeStrategy
    <3> QED
      BY <2>1, <3>2
  <2> QED
    BY <1>1, <1>5, <2>1, <2>2
<1> QED
  BY <1>3, <1>4, <1>5

LEMMA ConfigsOlderKept ==
  ASSUME DeployInv, Next PROVE ConfigsAreOlder'
<1> DEFINE c == IsDeployed("NAOSConfig")
<1>1. /\ c => IsDeployed("NAOSConfig")' /\ Version <= Version'
      /\ c => Version \in Nat /\ deployment["NAOSConfig"] = <<Version, None>>
      /\ IsDeployed("NAOSConfig")' => Version' \in Nat
  BY VersionGrows DEF DeployInv, ConfigIsVersioned
<1> SUFFICES ASSUME NEW p \in Proxies, IsDeployed(p)'
             PROVE  /\ IsDeployed("NAOSConfig")'
                    /\ configOf'[p] = <<"NAOSConfig", <<configOf'[p][2][1], None>>>>
                    /\ configOf'[p][2][1] \in Nat /\ configOf'[p][2][1] <= Version'
  BY DEF ConfigsAreOlder
<1>2. CASE configOf'[p] = configOf[p] /\ IsDeployed(p)
  <2>1. /\ c /\ configOf[p] = <<"NAOSConfig", <<configOf[p][2][1], None>>>>
        /\ configOf[p][2][1] \in Nat /\ configOf[p][2][1] <= Version
    BY <1>2 DEF DeployInv, ConfigsAreOlder
  <2>2. configOf[p][2][1] <= Version'
    <3> DEFINE x == configOf[p][2][1]
               y == Version
               z == Version'
    <3>1. x \in Nat /\ y \in Nat /\ z \in Nat /\ x <= y /\ y <= z
      BY <1>1, <2>1
    <3> HIDE DEF x, y, z
    <3>2. x <= z
      BY <3>1
    <3> QED
      BY <3>2 DEF x, z
  <2> QED
    BY <1>1, <1>2, <2>1, <2>2
<1>3. CASE /\ configOf'[p] = <<"NAOSConfig", deployment["NAOSConfig"]>> /\ c
           /\ deployment'["NAOSConfig"] = deployment["NAOSConfig"]
  <2>1. configOf'[p] = <<"NAOSConfig", <<Version, None>>>> /\ Version \in Nat /\ Version' = Version
    BY <1>1, <1>3 DEF Version
  <2>2. configOf'[p][2][1] = Version
    BY <2>1
  <2> QED
    BY <1>1, <1>3, <2>1, <2>2
<1> QED
  BY <1>2, <1>3, ProxiesStay

\* An address that contracts copy is set at most once in a config.
LEMMA CopiedIsSetOnce ==
  ASSUME DeployInv, Next, NEW key \in Copied, addresses[key] # None,
         deployment'["NAOSConfig"] = deployment["NAOSConfig"]
  PROVE  addresses'[key] = addresses[key]
<1>1. CASE DeployContract
  <2>1. \/ UNCHANGED configVars
        \/ op.of = "NAOSConfig" /\ ~Current(op.of)
           /\ deployment' = [deployment EXCEPT ![op.of] = Bytecode(op.of)]
    BY <1>1, DeployContractEffect
  <2>2. "NAOSConfig" \in DOMAIN deployment
    BY Codes DEF DeployInv, DeployTypeOK
  <2> QED
    BY <2>1, <2>2 DEF Current, configVars
<1>2. CASE DeployProxy
  BY <1>2 DEF DeployProxy, configVars
<1>3. DOMAIN addresses = AddressKeys
  BY DEF DeployInv, DeployTypeOK
<1>4. CASE UpdateAddress
  <2>1. addresses[op.key] \in {None, AddressOf(op.of)}
    BY <1>4 DEF UpdateAddress, Running, Accepted
  <2> QED
    BY <1>3, <1>4, <2>1 DEF UpdateAddress
<1>5. CASE SetAddress
  <2>1. status = "running" /\ op.do = "setAddress"
    BY <1>5 DEF SetAddress, Running
  <2>2. op.key # key
    BY <2>1, PresentOperation DEF Proper
  <2> QED
    BY <1>3, <1>5, <2>2 DEF SetAddress
<1>6. CASE UNCHANGED addresses
  BY <1>6
<1> QED
  BY <1>1, <1>2, <1>4, <1>5, <1>6, OtherActions

LEMMA CopiesKept ==
  ASSUME DeployInv, Next PROVE CopiesHold'
<1>1. ConfigIsVersioned' /\ DeployTypeOK' /\ DeployTypeOK
  BY VersionGrows, DeployTypeKept DEF DeployInv
<1>2. AddressOf("NAOSConfig")' = <<"NAOSConfig", deployment'["NAOSConfig"]>>
  <2>1. "NAOSConfig" \notin Proxies \cup {"Multisig", "Owner"} \cup Tokens
    BY DEF Proxies, Tokens
  <2>2. chain'.knownTokens \subseteq Tokens
    BY <1>1 DEF DeployTypeOK
  <2> QED
    BY <2>1, <2>2 DEF AddressOf, getERC20Address
<1> SUFFICES ASSUME NEW p \in Proxies, IsDeployed(p)'
             PROVE  /\ DOMAIN initArgs'[p] = ReadAtInit(p)
                    /\ configOf'[p] = AddressOf("NAOSConfig")' =>
                         \A key \in ReadAtInit(p) :
                           addresses'[key] # None /\ initArgs'[p][key] = addresses'[key]
  BY DEF CopiesHold, ReadAtInit
<1>3. ReadAtInit(p) \subseteq Copied
  BY DEF ReadAtInit, Copied
<1>4. CASE configOf'[p] = configOf[p] /\ initArgs'[p] = initArgs[p] /\ IsDeployed(p)
  <2>1. /\ DOMAIN initArgs[p] = ReadAtInit(p)
        /\ configOf[p] = AddressOf("NAOSConfig") =>
             \A key \in ReadAtInit(p) : addresses[key] # None /\ initArgs[p][key] = addresses[key]
    BY <1>4 DEF DeployInv, CopiesHold
  <2>2. SUFFICES ASSUME configOf[p] = <<"NAOSConfig", deployment'["NAOSConfig"]>>
                 PROVE  \A key \in ReadAtInit(p) :
                          addresses'[key] # None /\ initArgs[p][key] = addresses'[key]
    BY <1>2, <1>4, <2>1
  <2>3. deployment'["NAOSConfig"] = deployment["NAOSConfig"]
    <3> SUFFICES ASSUME deployment'["NAOSConfig"] # deployment["NAOSConfig"] PROVE FALSE
      OBVIOUS
    <3>1. /\ IsDeployed("NAOSConfig") /\ configOf[p] = <<"NAOSConfig", <<configOf[p][2][1], None>>>>
          /\ configOf[p][2][1] \in Nat /\ configOf[p][2][1] <= Version
      BY <1>4 DEF DeployInv, ConfigsAreOlder
    <3>2. Version < Version' /\ IsDeployed("NAOSConfig")'
      BY <3>1, VersionGrows
    <3>3. /\ Version \in Nat /\ Version' \in Nat /\ deployment'["NAOSConfig"] = <<Version', None>>
      BY <1>1, <3>1, <3>2 DEF DeployInv, ConfigIsVersioned
    <3>4. configOf[p][2][1] = Version'
      BY <2>2, <3>3
    <3> QED
      BY <3>1, <3>2, <3>3, <3>4
  <2>4. configOf[p] = AddressOf("NAOSConfig")
    BY <1>1, <2>2, <2>3, Codes
  <2> QED
    BY <1>3, <2>1, <2>3, <2>4, CopiedIsSetOnce
<1>5. CASE /\ UNCHANGED configVars
           /\ initArgs'[p] = [key \in ReadAtInit(p) |-> addresses[key]]
           /\ \A key \in ReadAtInit(p) : addresses[key] # None
  BY <1>5 DEF configVars
<1> QED
  BY <1>4, <1>5, ProxiesStay

LEMMA ReserveKept ==
  ASSUME DeployInv, Next PROVE ReserveTellsInitialized'
<1>1. addresses["TreasuryReserve"] # None => "NAOSConfig" \in initialized
  BY DEF DeployInv, ReserveTellsInitialized
<1>2. CASE DeployContract
  <2>1. \/ UNCHANGED <<configVars, initialized>>
        \/ /\ initialized' = initialized \ {op.of}
           /\ \/ op.of # "NAOSConfig" /\ UNCHANGED configVars
              \/ addresses' = [key \in AddressKeys |-> None]
    BY <1>2, DeployContractEffect
  <2>2. "TreasuryReserve" \in AddressKeys
    BY DEF AddressKeys
  <2> QED
    BY <1>1, <2>1, <2>2 DEF ReserveTellsInitialized, configVars
<1>3. CASE DeployProxy
  BY <1>1, <1>3 DEF DeployProxy, configVars, ReserveTellsInitialized
<1>4. CASE UpdateAddress \/ SetAddress
  <2>1. status = "running" /\ op.do \in Setters /\ initialized' = initialized
    BY <1>4 DEF UpdateAddress, SetAddress, Running, Setters, chainVars
  <2>2. "NAOSConfig" \in initialized
    BY <2>1, PresentOperation
  <2> QED
    BY <2>1, <2>2 DEF ReserveTellsInitialized
<1>5. CASE ~DeployContract /\ ~DeployProxy /\ UNCHANGED addresses
  BY <1>1, <1>5, OtherActions DEF ReserveTellsInitialized
<1> QED
  BY <1>2, <1>3, <1>4, <1>5, OtherActions

\* A deployment in a run, of whatever.
LEMMA RunAfterDeployment ==
  ASSUME DeployInv, status = "running", Advance, op.do \in {"deploy", "deployToken"},
         UNCHANGED <<minters, signers, ceiling>>,
         \/ Current(op.of) /\ UNCHANGED <<deployment, configVars, initialized>>
         \/ /\ ~Current(op.of) \/ deployment[op.of] = Bytecode(op.of)
            /\ deployment' = [deployment EXCEPT ![op.of] = Bytecode(op.of)]
            /\ initialized \ (IF Current(op.of) THEN {} ELSE {op.of}) \subseteq initialized'
            /\ UNCHANGED configVars \/ (op.of = "NAOSConfig" /\ ~Current(op.of))
  PROVE  RunSoFar' /\ RunDone'
<1>1. /\ Proper(op)
      /\ Current("NAOSConfig") \/ (op = Deploy("NAOSConfig") /\ Past = {})
      /\ op.do = "deploy" /\ op.of \in DOMAIN Linked => Current(Linked[op.of])
  BY PresentOperation
<1>2. op.of \in Artifacts /\ op.of # "undefined"
  BY <1>1 DEF Proper, Artifacts, Proxies, Strategies, Tokens
<1>3. UNCHANGED <<chain, source, started, ownerSigns>> /\ UNCHANGED envVars
  BY DEF Advance, envVars
<1>4. \A o \in Past : Written(o)' /\ Witnessed(o)'
  <2>1. CASE UNCHANGED <<deployment, configVars, initialized>>
    BY <1>3, <2>1, EffectsStay DEF configVars
  <2>2. CASE /\ ~Current(op.of) \/ deployment[op.of] = Bytecode(op.of)
             /\ deployment' = [deployment EXCEPT ![op.of] = Bytecode(op.of)]
             /\ initialized \ (IF Current(op.of) THEN {} ELSE {op.of}) \subseteq initialized'
             /\ UNCHANGED configVars \/ (op.of = "NAOSConfig" /\ ~Current(op.of))
    <3>1. UNCHANGED configVars \/ Past = {}
      BY <1>1, <2>2
    <3> QED
      BY <1>2, <1>3, <2>2, <3>1, DeployKeepsPast
  <2> QED
    BY <2>1, <2>2
<1>5. ASSUME NEW o, o = op PROVE Written(o)' /\ Witnessed(o)'
  <2>1. Written(o)'
    BY <1>2, <1>5 DEF Written, Setters
  <2>2. Current(o.of)'
    <3>1. CASE Current(op.of) /\ UNCHANGED deployment
      BY <1>3, <1>5, <3>1 DEF Current, Bytecode, decimals, getERC20Address
    <3>2. CASE deployment' = [deployment EXCEPT ![op.of] = Bytecode(op.of)]
      <4>1. deployment = [b \in Artifacts |-> deployment[b]]
        BY DEF DeployInv, DeployTypeOK
      <4>2. deployment'[o.of] = Bytecode(o.of)
        BY <1>2, <1>5, <3>2, <4>1
      <4>3. o.of \in DOMAIN Linked => Linked[o.of] \in Artifacts /\ Linked[o.of] # o.of
        BY DEF Linked, Artifacts
      <4>4. o.of \in DOMAIN Linked => deployment'[Linked[o.of]] = deployment[Linked[o.of]]
        BY <1>5, <3>2, <4>1, <4>3
      <4>5. Bytecode(o.of)' = Bytecode(o.of)
        BY <1>3, <4>4 DEF Bytecode, decimals
      <4> QED
        BY <4>2, <4>5 DEF Current
    <3> QED
      BY <3>1, <3>2
  <2>3. o.do # "setAddress"
    BY <1>5
  <2> QED
    BY <2>1, <2>2, <2>3 DEF Witnessed
<1> QED
  BY <1>4, <1>5, RunGoesOn

LEMMA RunKept ==
  ASSUME DeployInv, Next PROVE RunSoFar' /\ RunDone'
<1> DEFINE Mine == \A o : o = op => Written(o)' /\ Witnessed(o)'
           Theirs == \A o \in Past : Written(o)' /\ Witnessed(o)'
<1>1. ASSUME status = "running", Advance, Mine, Theirs PROVE RunSoFar' /\ RunDone'
  BY <1>1, RunGoesOn
<1>2. CASE DeployContract
  <2>1. /\ status = "running" /\ op.do \in {"deploy", "deployToken"} /\ Advance
        /\ UNCHANGED <<implementation, configOf, initArgs, minters, signers, ceiling>>
        /\ \/ Current(op.of) /\ UNCHANGED <<deployment, configVars, initialized>>
           \/ /\ ~Current(op.of)
              /\ deployment' = [deployment EXCEPT ![op.of] = Bytecode(op.of)]
              /\ initialized' = initialized \ {op.of}
              /\ op.of = "NAOSConfig" \/ UNCHANGED configVars
    BY <1>2, DeployContractEffect
  <2> QED
    BY <2>1, RunAfterDeployment
<1>3. CASE DeployProxy
  <2>1. /\ status = "running" /\ op.do = "deploy" /\ op.of \in Proxies /\ Advance
        /\ deployment' = [deployment EXCEPT ![op.of] = Bytecode(op.of)]
        /\ UNCHANGED <<configVars, initialized, minters, signers, ceiling>>
    BY <1>3, DeployProxyEffect
  <2>2. ~Current(op.of) \/ deployment[op.of] = Bytecode(op.of)
    <3>1. op.of \notin Tokens
      BY <2>1 DEF Proxies, Tokens
    <3> QED
      BY <3>1, Codes DEF Current, DeployInv
  <2>3. initialized \ (IF Current(op.of) THEN {} ELSE {op.of}) \subseteq initialized'
    BY <2>1
  <2> QED
    BY <2>1, <2>2, <2>3, RunAfterDeployment
<1>4. ASSUME NEW do, Running(do), do \notin {"deploy", "deployToken"}
      PROVE  /\ status = "running" /\ op.do = do /\ op.of # "undefined" /\ Proper(op)
             /\ op.do = "setAddress" => ownerSigns
  BY <1>4, PresentOperation DEF Running, Accepted, SendsAsOwner
<1>5. ASSUME UNCHANGED <<deployment, envVars>>
      PROVE  /\ \A a : AddressOf(a)' = AddressOf(a)
             /\ \A key : InitialNumber(key)' = InitialNumber(key)
             /\ ownerSigns' = ownerSigns
  BY <1>5 DEF AddressOf, getERC20Address, InitialNumber, decimals, envVars
<1>6. Advance => UNCHANGED envVars
  BY DEF Advance
<1>7. ASSUME status = "running", UNCHANGED <<deployment, envVars>>,
             goList \subseteq goList', minters \subseteq minters', signers \subseteq signers',
             ceiling = TRUE => ceiling' = TRUE, initialized \subseteq initialized',
             \A key \in Keys : numbers'[key] \in {numbers[key], InitialNumber(key)},
             \A key \in AddressKeys : addresses'[key] \in {addresses[key], AddressOf(Holder(key))}
      PROVE  Theirs
  BY <1>7, EffectsStay
<1> HIDE DEF Mine, Theirs
<1>8. CASE InitializeConfig
  <2>1. /\ status = "running" /\ op.do = "initializeConfig" /\ op.of # "undefined" /\ Proper(op)
        /\ Advance /\ UNCHANGED <<deployment, configVars, minters, signers, ceiling>>
        /\ initialized' = IF addresses["TreasuryReserve"] = None
                          THEN initialized \cup {"NAOSConfig"} ELSE initialized
    BY <1>4, <1>8 DEF InitializeConfig
  <2>2. op.of \in initialized'
    BY <2>1 DEF Proper, DeployInv, ReserveTellsInitialized
  <2>3. Mine
    BY <2>1, <2>2 DEF Mine, Written, Witnessed, Setters
  <2>4. Theirs
    BY <1>6, <1>7, <2>1 DEF configVars
  <2> QED
    BY <1>1, <2>1, <2>3, <2>4
<1>9. CASE InitializeStrategy
  <2>1. /\ status = "running" /\ op.do = "initialize" /\ op.of # "undefined"
        /\ Advance /\ UNCHANGED <<deployment, configVars, minters, signers, ceiling>>
        /\ initialized' = initialized \cup {op.of}
    BY <1>4, <1>9 DEF InitializeStrategy
  <2>2. Mine
    BY <2>1 DEF Mine, Written, Witnessed, Setters
  <2>3. Theirs
    BY <1>6, <1>7, <2>1 DEF configVars
  <2> QED
    BY <1>1, <2>1, <2>2, <2>3
<1>10. CASE FundOwner
  <2>1. /\ status = "running" /\ op.do = "fundOwner" /\ op.of # "undefined"
        /\ Advance /\ UNCHANGED <<deployment, configVars, initialized, minters, signers, ceiling>>
    BY <1>4, <1>10 DEF FundOwner
  <2>2. Mine
    BY <2>1 DEF Mine, Written, Witnessed, Setters
  <2>3. Theirs
    BY <1>6, <1>7, <2>1 DEF configVars
  <2> QED
    BY <1>1, <2>1, <2>2, <2>3
<1>11. CASE UpdateNumber
  <2>1. /\ status = "running" /\ op.do = "updateNumber" /\ op.of # "undefined" /\ Proper(op)
        /\ Advance /\ UNCHANGED <<deployment, addresses, goList, chainVars>>
        /\ numbers' = [numbers EXCEPT ![op.key] = InitialNumber(op.key)]
    BY <1>4, <1>11 DEF UpdateNumber
  <2>2. DOMAIN numbers = Keys /\ op.key \in Keys
    BY <2>1 DEF DeployInv, DeployTypeOK, Proper
  <2>3. numbers'[op.key] = InitialNumber(op.key)
    BY <2>1, <2>2
  <2>4. Mine
    BY <1>5, <1>6, <2>1, <2>3 DEF Mine, Written, Witnessed, Setters
  <2>5. Theirs
    BY <1>6, <1>7, <2>1, <2>2 DEF chainVars
  <2> QED
    BY <1>1, <2>1, <2>4, <2>5
<1>12. CASE UpdateAddress \/ SetAddress
  <2>1. /\ status = "running" /\ op.do \in Setters /\ op.of # "undefined" /\ Proper(op)
        /\ Advance /\ UNCHANGED <<deployment, numbers, goList, chainVars>>
        /\ addresses' = [addresses EXCEPT ![op.key] = AddressOf(op.of)]
        /\ op.do = "setAddress" => ownerSigns
    BY <1>4, <1>12 DEF UpdateAddress, SetAddress, Setters
  <2>2. DOMAIN addresses = AddressKeys /\ op.key \in AddressKeys /\ op.of = Holder(op.key)
    BY <2>1 DEF DeployInv, DeployTypeOK, Proper
  <2>3. addresses'[op.key] = AddressOf(op.of)
    BY <2>1, <2>2
  <2>4. Mine
    BY <1>5, <1>6, <2>1, <2>3 DEF Mine, Written, Witnessed, Setters
  <2>5. Theirs
    BY <1>6, <1>7, <2>1, <2>2 DEF chainVars
  <2> QED
    BY <1>1, <2>1, <2>4, <2>5
<1>13. CASE AddToGoList
  <2>1. /\ status = "running" /\ op.do = "addToGoList" /\ op.of # "undefined"
        /\ Advance /\ UNCHANGED <<deployment, numbers, addresses, chainVars>>
        /\ goList' = goList \cup {AddressOf(op.of)}
    BY <1>4, <1>13 DEF AddToGoList
  <2>2. Mine
    BY <1>5, <1>6, <2>1 DEF Mine, Written, Witnessed, Setters
  <2>3. Theirs
    BY <1>6, <1>7, <2>1 DEF chainVars
  <2> QED
    BY <1>1, <2>1, <2>2, <2>3
<1>14. CASE grantMinterRoleToPool
  <2>1. /\ status = "running" /\ op.do = "grantMinter" /\ op.of # "undefined"
        /\ Advance /\ UNCHANGED <<deployment, configVars, initialized, signers, ceiling>>
        /\ minters' = minters \cup {AddressOf(op.of)}
    BY <1>4, <1>14 DEF grantMinterRoleToPool
  <2>2. Mine
    BY <1>5, <1>6, <2>1 DEF Mine, Written, Witnessed, Setters
  <2>3. Theirs
    BY <1>6, <1>7, <2>1 DEF configVars
  <2> QED
    BY <1>1, <2>1, <2>2, <2>3
<1>15. CASE GrantSigner
  <2>1. /\ status = "running" /\ op.do = "grantSigner" /\ op.of # "undefined"
        /\ Advance /\ UNCHANGED <<deployment, configVars, initialized, minters, ceiling>>
        /\ signers' = signers \cup {AddressOf(op.of)}
    BY <1>4, <1>15 DEF GrantSigner
  <2>2. Mine
    BY <2>1 DEF Mine, Written, Witnessed, Setters
  <2>3. Theirs
    BY <1>6, <1>7, <2>1 DEF configVars
  <2> QED
    BY <1>1, <2>1, <2>2, <2>3
<1>16. CASE SetCeiling
  <2>1. /\ status = "running" /\ op.do = "setCeiling" /\ op.of # "undefined"
        /\ Advance /\ UNCHANGED <<deployment, configVars, initialized, minters, signers>>
        /\ ceiling' = TRUE
    BY <1>4, <1>16 DEF SetCeiling
  <2>2. Mine
    BY <2>1 DEF Mine, Written, Witnessed, Setters
  <2>3. Theirs
    BY <1>6, <1>7, <2>1 DEF configVars
  <2> QED
    BY <1>1, <2>1, <2>2, <2>3
<1>17. CASE Abort \/ Interrupt
  BY <1>17 DEF Abort, Interrupt, RunSoFar, RunDone
<1>18. CASE Start
  <2>1. started' \in ScriptNames /\ pc' = 1 /\ status' = "running"
    BY <1>18, BaseDeployAssumption DEF Start, ScriptNames
  <2>2. 1 \in 1..Len(script)'
    <3>1. script' = baseDeploy \/ script' = updateConfigs
      BY <2>1 DEF script, ScriptNames, baseDeploy, baseDeploy18, getOrDeployUSDC, getOrDeployUSDC18
    <3>2. 1 \in 1..Len(baseDeploy) /\ 1 \in 1..Len(updateConfigs)
      BY NotEmpty
    <3> QED
      BY <3>1, <3>2
  <2>3. Past' = {}
    BY <2>1 DEF Past
  <2> QED
    BY <2>1, <2>2, <2>3 DEF RunSoFar, RunDone
<1>19. CASE Release
  <2>1. /\ status' = status /\ status # "running" /\ UNCHANGED <<chain, started>>
        /\ UNCHANGED <<deployment, configVars, initialized, minters, signers, ceiling>>
    BY <1>19 DEF Release, chainVars
  <2>2. \A o : Written(o)' = Written(o)
    BY <2>1 DEF Written, AddressOf, getERC20Address, InitialNumber, decimals, configVars
  <2>3. script' = script
    BY <2>1 DEF script
  <2> HIDE DEF script
  <2> QED
    BY <2>1, <2>2, <2>3 DEF RunSoFar, RunDone, DeployInv
<1> QED
  BY <1>2, <1>3, <1>8, <1>9, <1>10, <1>11, <1>12, <1>13, <1>14, <1>15, <1>16, <1>17, <1>18, <1>19
     DEF Next, Step

----------------------------------------------------------------------------
(* The theorems.                                                              *)

LEMMA DeployInvInit == Init => DeployInv
<1> SUFFICES ASSUME Init PROVE DeployInv
  OBVIOUS
<1>1. DeployTypeOK
  <2>1. {NumberKeys[i] : i \in 1..Len(NumberKeys)} = Keys
    BY TheNumberKeys
  <2>2. chain \in [knownTokens : SUBSET Tokens, deployerIsOwner : BOOLEAN]
    BY BaseDeployAssumption DEF Init
  <2> QED
    BY <2>1, <2>2 DEF Init, DeployTypeOK, ScriptNames
<1>2. Proxies \subseteq Artifacts /\ "NAOSConfig" \in Artifacts /\ "TreasuryReserve" \in AddressKeys
  BY DEF Artifacts, AddressKeys
<1>3. \A a \in Artifacts : ~IsDeployed(a)
  BY DEF Init, IsDeployed
<1>4. ConfigIsVersioned /\ ConfigsAreOlder /\ CopiesHold
  BY <1>2, <1>3 DEF ConfigIsVersioned, ConfigsAreOlder, CopiesHold
<1>5. ImplementationsRecorded /\ ReserveTellsInitialized
  BY <1>2 DEF Init, ImplementationsRecorded, ReserveTellsInitialized
<1>6. RunSoFar /\ RunDone
  BY DEF Init, RunSoFar, RunDone
<1> QED
  BY <1>1, <1>4, <1>5, <1>6 DEF DeployInv

LEMMA DeployInvNext == DeployInv /\ Next => DeployInv'
<1> SUFFICES ASSUME DeployInv, Next PROVE DeployInv'
  OBVIOUS
<1>1. DeployTypeOK'
  BY DeployTypeKept DEF DeployInv
<1>2. ImplementationsRecorded' /\ ConfigIsVersioned' /\ ConfigsAreOlder' /\ CopiesHold'
  BY RecordedKept, VersionGrows, ConfigsOlderKept, CopiesKept
<1>3. ReserveTellsInitialized' /\ RunSoFar' /\ RunDone'
  BY ReserveKept, RunKept
<1> QED
  BY <1>1, <1>2, <1>3 DEF DeployInv

LEMMA DeployInvStutters == DeployInv /\ UNCHANGED vars => DeployInv'
<1> SUFFICES ASSUME DeployInv, UNCHANGED vars PROVE DeployInv'
  OBVIOUS
<1> USE DEF configVars, chainVars, envVars, vars
<1>1. status' = status /\ pc' = pc /\ script' = script /\ ownerSigns' = ownerSigns
  BY DEF script
<1>2. \A o : Written(o)' = Written(o) /\ Witnessed(o)' = Witnessed(o)
  BY DEF Written, Witnessed, Current, Bytecode, AddressOf, getERC20Address, InitialNumber,
              decimals
<1>3. DeployTypeOK' /\ ImplementationsRecorded' /\ ConfigIsVersioned' /\ ConfigsAreOlder'
  BY DEF DeployInv, DeployTypeOK, ImplementationsRecorded, ConfigIsVersioned,
              ConfigsAreOlder, Version, IsDeployed
<1>4. CopiesHold' /\ ReserveTellsInitialized'
  BY DEF DeployInv, CopiesHold, ReserveTellsInitialized, IsDeployed, AddressOf,
              getERC20Address, ReadAtInit
<1>5. Past' = Past
  BY <1>1 DEF Past
<1> HIDE DEF script, Past
<1>6. RunSoFar' /\ RunDone'
  BY <1>1, <1>2, <1>5 DEF DeployInv, RunSoFar, RunDone
<1> QED
  BY <1>3, <1>4, <1>6 DEF DeployInv

LEMMA DeployInvWired == DeployInv => DeployedSystemIsWired
<1> SUFFICES ASSUME DeployInv, status = "done" PROVE DeployedSystemIsWired
  BY DEF DeployedSystemIsWired
<1>1. /\ Orderly(script)
      /\ Complete(script) \/ \E i \in 1..Len(script) : script[i].of = "undefined"
  BY TheScript DEF DeployInv, DeployTypeOK
<1>2. \A o \in Operations(script) : Written(o) /\ Proper(o)
  BY <1>1 DEF DeployInv, RunDone, Orderly, Operations
<1>3. \A i \in 1..Len(script) : script[i] \in Operations(script)
  BY DEF Operations
<1> HIDE DEF script
<1>4. Complete(script)
  BY <1>1, <1>2, <1>3 DEF Written
<1>5. \A i \in 1..Len(script) :
        script[i].do \in {"updateAddress", "setAddress"} =>
          addresses[script[i].key] = AddressOf(script[i].of)
  BY <1>2, <1>3 DEF Written, Setters
<1>6. \A key \in AddressKeys : addresses[key] # None
  <2> SUFFICES ASSUME NEW key \in AddressKeys PROVE addresses[key] # None
    OBVIOUS
  <2>1. PICK o \in Operations(script) : o.do \in Setters /\ o.key = key
    BY <1>4 DEF Complete
  <2> QED
    BY <1>2, <2>1, Codes DEF Written
<1>7. \A key \in DOMAIN numbers : numbers[key] = InitialNumber(key)
  <2>1. DOMAIN numbers = Keys
    BY DEF DeployInv, DeployTypeOK
  <2> SUFFICES ASSUME NEW key \in Keys PROVE numbers[key] = InitialNumber(key)
    BY <2>1
  <2>2. PICK o \in Operations(script) : o.do = "updateNumber" /\ o.key = key
    BY <1>4 DEF Complete
  <2> QED
    BY <1>2, <2>2 DEF Written
<1>8. ASSUME NEW do \in {"addToGoList", "grantMinter", "grantSigner", "setCeiling", "initializeConfig"}
      PROVE  \E o \in Operations(script) : o.do = do /\ Written(o) /\ Proper(o)
  BY <1>2, <1>4 DEF Complete
<1>9. AddressOf("IndexPool") \in goList \cap minters
  <2>1. AddressOf("IndexPool") \in goList
    <3>1. PICK o \in Operations(script) : o.do = "addToGoList" /\ Written(o) /\ Proper(o)
      BY <1>8
    <3> QED
      BY <3>1 DEF Written, Proper
  <2>2. AddressOf("IndexPool") \in minters
    <3>1. PICK o \in Operations(script) : o.do = "grantMinter" /\ Written(o) /\ Proper(o)
      BY <1>8
    <3> QED
      BY <3>1 DEF Written, Proper
  <2> QED
    BY <2>1, <2>2
<1>10. signers # {} /\ ceiling
  <2>1. signers # {}
    <3>1. PICK o \in Operations(script) : o.do = "grantSigner" /\ Written(o)
      BY <1>8
    <3> QED
      BY <3>1 DEF Written
  <2>2. ceiling = TRUE
    <3>1. PICK o \in Operations(script) : o.do = "setCeiling" /\ Written(o)
      BY <1>8
    <3> QED
      BY <3>1 DEF Written
  <2> QED
    BY <2>1, <2>2
<1>11. Strategies \cup {"NAOSConfig"} \subseteq initialized
  <2>1. "NAOSConfig" \in initialized
    <3>1. PICK o \in Operations(script) : o.do = "initializeConfig" /\ Written(o) /\ Proper(o)
      BY <1>8
    <3> QED
      BY <3>1 DEF Written, Proper
  <2>2. ASSUME NEW a \in Strategies PROVE a \in initialized
    <3>1. PICK o \in Operations(script) : o.do = "initialize" /\ o.of = a
      BY <1>4 DEF Complete
    <3> QED
      BY <1>2, <3>1 DEF Written
  <2> QED
    BY <2>1, <2>2
<1> QED
  BY <1>5, <1>6, <1>7, <1>9, <1>10, <1>11 DEF DeployedSystemIsWired, DeployInv, ImplementationsRecorded

LEMMA DeployInvCopies == DeployInv => CopiedAddressesStayRegistered
BY DEF DeployInv, CopiesHold, CopiedAddressesStayRegistered

\* The set-up scripts run after a deployment and change only what it promises
\* for its own end.
SetUpInv == DeployInv /\ (setUpStatus = "running" => status = "set up")

LEMMA SetUpInvInit == SetUpInit => SetUpInv
BY DeployInvInit DEF SetUpInit, SetUpInv

LEMMA SetUpLeaves ==
  ASSUME DeployInv, status # "running", status' \notin {"running", "done"},
         UNCHANGED <<deployment, addresses, implementation, configOf, initArgs, initialized>>,
         UNCHANGED <<chain, source, started, ownerSigns, pc>>, DOMAIN numbers' = DOMAIN numbers
  PROVE  DeployInv'
<1>1. DeployTypeOK'
  BY DEF DeployInv, DeployTypeOK
<1>2. ImplementationsRecorded' /\ ConfigIsVersioned' /\ ConfigsAreOlder'
  BY DEF DeployInv, ImplementationsRecorded, ConfigIsVersioned, ConfigsAreOlder, Version, IsDeployed
<1>3. CopiesHold' /\ ReserveTellsInitialized'
  BY DEF DeployInv, CopiesHold, ReserveTellsInitialized, IsDeployed, AddressOf, getERC20Address,
         ReadAtInit
<1>4. RunSoFar' /\ RunDone'
  BY DEF RunSoFar, RunDone
<1> QED
  BY <1>1, <1>2, <1>3, <1>4 DEF DeployInv

LEMMA SetUpInvNext == SetUpInv /\ [SetUpNext]_<<vars, setUpVars>> => SetUpInv'
<1> SUFFICES ASSUME SetUpInv, [SetUpNext]_<<vars, setUpVars>> PROVE SetUpInv'
  OBVIOUS
<1>1. CASE setUpStatus # "running" /\ Next /\ UNCHANGED setUpVars
  BY <1>1, DeployInvNext DEF SetUpInv, setUpVars
<1>2. ASSUME setUpStatus = "running" \/ StartSetUp,
             status' \notin {"running", "done"}, status' = "set up" \/ setUpStatus' # "running",
             UNCHANGED <<deployment, addresses, implementation, configOf, initArgs, initialized>>,
             UNCHANGED <<chain, source, started, ownerSigns, pc>>, DOMAIN numbers' = DOMAIN numbers
      PROVE  SetUpInv'
  <2>1. DeployInv /\ status # "running"
    BY <1>2 DEF SetUpInv, StartSetUp
  <2>2. DeployInv'
    BY <1>2, <2>1, SetUpLeaves
  <2> QED
    BY <1>2, <2>2 DEF SetUpInv
<1>3. setUpStatus = "running" => status = "set up"
  BY DEF SetUpInv
<1> USE DEF configVars, chainVars, envVars, vars
<1>4. CASE SetUpStep
  <2>1. setUpStatus = "running"
    BY <1>4 DEF SetUpStep, ReadOrFund, GetDepositLog, GrantLocalSigner, SetSupportedUIDTypes,
                SetLegacyGoList, SetNumber, BulkAddToGoList, CreatePool, DepositIndexPool,
                DepositJunior, LockJuniorCapital, Invest, LockPool, Drawdown, AdvanceTime, Pay,
                Redeem, Revert, Calling
  <2>2. /\ status' = status
        /\ UNCHANGED <<deployment, addresses, implementation, configOf, initArgs, initialized>>
        /\ UNCHANGED <<chain, source, started, ownerSigns, pc>> /\ DOMAIN numbers' = DOMAIN numbers
    <3>1. CASE ReadOrFund \/ GetDepositLog \/ SetSupportedUIDTypes \/ SetLegacyGoList \/ CreatePool
      BY <3>1 DEF ReadOrFund, GetDepositLog, SetSupportedUIDTypes, SetLegacyGoList, CreatePool
    <3>2. CASE GrantLocalSigner \/ SetNumber \/ BulkAddToGoList
      BY <3>2 DEF GrantLocalSigner, SetNumber, BulkAddToGoList
    <3>3. CASE DepositIndexPool \/ DepositJunior \/ LockJuniorCapital \/ Invest \/ LockPool
      BY <3>3 DEF DepositIndexPool, DepositJunior, LockJuniorCapital, Invest, LockPool
    <3>4. CASE Drawdown \/ AdvanceTime \/ Pay \/ Redeem \/ Revert
      BY <3>4 DEF Drawdown, AdvanceTime, Pay, Redeem, Revert
    <3> QED
      BY <1>4, <3>1, <3>2, <3>3, <3>4 DEF SetUpStep
  <2> QED
    BY <1>2, <1>3, <2>1, <2>2
<1>5. CASE StartSetUp
  BY <1>2, <1>5 DEF StartSetUp
<1>6. CASE InterruptSetUp
  BY <1>2, <1>3, <1>6 DEF InterruptSetUp
<1>7. CASE OtherBlock
  BY <1>2, <1>3, <1>7 DEF OtherBlock
<1>8. CASE UNCHANGED <<vars, setUpVars>>
  <2>1. DeployInv'
    BY <1>8, DeployInvStutters DEF SetUpInv
  <2> QED
    BY <1>8, <2>1 DEF SetUpInv, setUpVars
<1> QED
  BY <1>1, <1>4, <1>5, <1>6, <1>7, <1>8 DEF SetUpNext

\* Whatever runs, releases, interruptions and set-ups came before, the effects
\* of a run that ended are those of its script (baseDeploy.ts, setUpForTesting.ts).
THEOREM DeploymentInvariant == SetUpSpec => []SetUpInv
BY SetUpInvInit, SetUpInvNext, PTL DEF SetUpSpec

\* A deployment that ran to its end is wired: every key of the config, proxy
\* and role is that of the deployments folder.
THEOREM DeploymentIsWired == SetUpSpec => []DeployedSystemIsWired
<1>1. SetUpInv => DeployedSystemIsWired
  BY DeployInvWired DEF SetUpInv
<1> QED
  BY <1>1, DeploymentInvariant, PTL

\* What a proxy copied when it was initialized stays the registered address of
\* its config.
THEOREM CopiesStayRegistered == SetUpSpec => []CopiedAddressesStayRegistered
<1>1. SetUpInv => CopiedAddressesStayRegistered
  BY DeployInvCopies DEF SetUpInv
<1> QED
  BY <1>1, DeploymentInvariant, PTL

\* Without the set-up scripts, too.
THEOREM DeploymentAlone == Spec => [](DeployedSystemIsWired /\ CopiedAddressesStayRegistered)
<1>1. DeployInv /\ [Next]_vars => DeployInv'
  BY DeployInvNext, DeployInvStutters
<1> QED
  BY <1>1, DeployInvInit, DeployInvWired, DeployInvCopies, PTL DEF Spec

=============================================================================
