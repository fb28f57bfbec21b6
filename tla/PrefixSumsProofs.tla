------------------------- MODULE PrefixSumsProofs -------------------------
(***************************************************************************)
(* What PrefixSum computes, proved from the fact that every nonempty set   *)
(* of naturals has a least element (WFMin, NatLessThanWellFounded), and    *)
(* what products and rounded quotients of naturals are.  These lemmas      *)
(* carry the conservation proofs of the contract modules.                  *)
(***************************************************************************)
EXTENDS PrefixSums, NaturalsInduction, WellFoundedInduction, Integers, TLAPS

(* A set of naturals that has 0 and is closed under successor is Nat.      *)
LEMMA SetInduction ==
  ASSUME NEW S, S \subseteq Nat, 0 \in S, \A n \in S : n + 1 \in S
  PROVE  S = Nat
<1> SUFFICES ASSUME Nat \ S # {} PROVE FALSE
  OBVIOUS
<1>1. PICK m \in Nat \ S : \A k \in Nat \ S : ~ (<<k, m>> \in OpToRel(<, Nat))
  BY NatLessThanWellFounded, WFMin
<1>2. m # 0 /\ m - 1 \in Nat
  OBVIOUS
<1>3. <<m - 1, m>> \in OpToRel(<, Nat)
  BY <1>2 DEF OpToRel
<1>4. m - 1 \in S
  BY <1>1, <1>2, <1>3
<1> QED
  BY <1>2, <1>4

NatValued(f) == \A n \in DOMAIN f : f[n] \in Nat

(* The n-th summand of PrefixSum(f). *)
Summand(f, n) == IF n \in DOMAIN f THEN f[n] ELSE 0

\* A summand of a list of naturals, zero outside of its domain, is a natural.
LEMMA SummandType ==
  ASSUME NEW f, NatValued(f), NEW n
  PROVE  Summand(f, n) \in Nat
BY DEF Summand, NatValued

IsPartialSum(g, f, n) ==
  /\ g \in [0..n -> Nat]
  /\ g[0] = 0
  /\ \A k \in 1..n : g[k] = g[k - 1] + Summand(f, k)

(* The recursive definition of PrefixSum has a solution on every 0..n ...   *)
LEMMA PartialSumExists ==
  ASSUME NEW f, NatValued(f)
  PROVE  \A n \in Nat : \E g : IsPartialSum(g, f, n)
<1> DEFINE S == {n \in Nat : \E g : IsPartialSum(g, f, n)}
<1>1. 0 \in S
  <2>1. IsPartialSum([k \in 0..0 |-> 0], f, 0)
    BY DEF IsPartialSum
  <2> QED BY <2>1
<1>2. ASSUME NEW n \in S PROVE n + 1 \in S
  <2>1. PICK g : IsPartialSum(g, f, n)
    OBVIOUS
  <2> DEFINE h == [k \in 0..(n + 1) |->
                     IF k = n + 1 THEN g[n] + Summand(f, n + 1) ELSE g[k]]
  <2>2. Summand(f, n + 1) \in Nat
    BY SummandType
  <2>3. h \in [0..(n + 1) -> Nat] /\ h[0] = 0
    BY <2>1, <2>2 DEF IsPartialSum
  <2>4. ASSUME NEW k \in 1..(n + 1) PROVE h[k] = h[k - 1] + Summand(f, k)
    BY <2>1 DEF IsPartialSum
  <2>5. IsPartialSum(h, f, n + 1)
    BY <2>3, <2>4 DEF IsPartialSum
  <2> QED
    BY <2>5
<1>3. S = Nat
  <2> HIDE DEF S
  <2>1. S \subseteq Nat
    BY DEF S
  <2> QED
    BY <1>1, <1>2, <2>1, SetInduction
<1> QED
  BY <1>3

(* ... and solutions agree where both are defined.                          *)
LEMMA PartialSumUnique ==
  ASSUME NEW f, NatValued(f),
         NEW m \in Nat, NEW n \in Nat, NEW g, NEW h,
         IsPartialSum(g, f, m), IsPartialSum(h, f, n)
  PROVE  \A k \in Nat : k <= m /\ k <= n => g[k] = h[k]
<1> DEFINE S == {k \in Nat : k <= m /\ k <= n => g[k] = h[k]}
<1>1. 0 \in S
  BY DEF IsPartialSum
<1>2. ASSUME NEW k \in S PROVE k + 1 \in S
  <2> SUFFICES ASSUME k + 1 <= m, k + 1 <= n PROVE g[k + 1] = h[k + 1]
    OBVIOUS
  <2>1. g[k] = h[k]
    OBVIOUS
  <2>2. g[k + 1] = g[k] + Summand(f, k + 1) /\ h[k + 1] = h[k] + Summand(f, k + 1)
    BY DEF IsPartialSum
  <2> QED
    BY <2>1, <2>2
<1>3. S = Nat
  <2> HIDE DEF S
  <2>1. S \subseteq Nat
    BY DEF S
  <2> QED
    BY <1>1, <1>2, <2>1, SetInduction
<1> QED
  BY <1>3

(* Hence PrefixSum satisfies its definition and is a natural number.       *)
THEOREM PrefixSumDef ==
  ASSUME NEW f, NatValued(f)
  PROVE  /\ PrefixSum(f) \in [Nat -> Nat]
         /\ PrefixSum(f)[0] = 0
         /\ \A n \in Nat : PrefixSum(f)[n + 1] = PrefixSum(f)[n] + Summand(f, n + 1)
<1> DEFINE H(n) == CHOOSE g : IsPartialSum(g, f, n)
           s == [n \in Nat |-> H(n)[n]]
           Body(t) == [n \in Nat |-> IF n = 0 THEN 0 ELSE t[n - 1] + (IF n \in DOMAIN f THEN f[n] ELSE 0)]
<1>1. \A n \in Nat : IsPartialSum(H(n), f, n)
  BY PartialSumExists
<1> HIDE DEF H
<1>2. \A n \in Nat : s[n] \in Nat
  BY <1>1 DEF IsPartialSum
<1>3. s[0] = 0
  BY <1>1 DEF IsPartialSum
<1>4. ASSUME NEW n \in Nat PROVE s[n + 1] = s[n] + Summand(f, n + 1)
  <2>0. IsPartialSum(H(n + 1), f, n + 1) /\ n + 1 \in 1..(n + 1) /\ (n + 1) - 1 = n
    BY <1>1
  <2>1. H(n + 1)[n + 1] = H(n + 1)[n] + Summand(f, n + 1)
    BY <2>0 DEF IsPartialSum
  <2>2. H(n + 1)[n] = H(n)[n]
    BY <1>1, PartialSumUnique
  <2> QED
    BY <2>1, <2>2
<1>5. s = Body(s)
  <2> SUFFICES ASSUME NEW n \in Nat PROVE s[n] = Body(s)[n]
    OBVIOUS
  <2>1. CASE n = 0
    BY <2>1, <1>3
  <2>2. CASE n # 0
    <3>1. n - 1 \in Nat /\ (n - 1) + 1 = n
      BY <2>2
    <3> HIDE DEF s
    <3>2. s[n] = s[n - 1] + Summand(f, n)
      BY <1>4, <3>1
    <3> QED
      BY <2>2, <3>2 DEF Summand
  <2> QED
    BY <2>1, <2>2
<1>6. PrefixSum(f) = Body(PrefixSum(f))
  <2> HIDE DEF s
  <2>1. PrefixSum(f) = CHOOSE t : t = Body(t)
    BY DEF PrefixSum
  <2> HIDE DEF Body
  <2> QED
    BY <1>5, <2>1
<1> DEFINE p == PrefixSum(f)
<1> HIDE DEF p
<1>7. p = [n \in Nat |-> IF n = 0 THEN 0 ELSE p[n - 1] + (IF n \in DOMAIN f THEN f[n] ELSE 0)]
  BY <1>6 DEF p
<1>8. p[0] = 0
  BY <1>7
<1>9. ASSUME NEW n \in Nat PROVE p[n + 1] = p[n] + Summand(f, n + 1)
  BY <1>7 DEF Summand
<1>10. \A n \in Nat : p[n] \in Nat
  <2> DEFINE S == {n \in Nat : p[n] \in Nat}
  <2>1. 0 \in S
    BY <1>8
  <2>2. ASSUME NEW n \in S PROVE n + 1 \in S
    BY <1>9, SummandType
  <2> HIDE DEF S
  <2>3. S = Nat
    <3>1. S \subseteq Nat
      BY DEF S
    <3> QED
      BY <2>1, <2>2, <3>1, SetInduction
  <2> QED
    BY <2>3 DEF S
<1>11. p \in [Nat -> Nat]
  BY <1>7, <1>10
<1> QED
  BY <1>8, <1>9, <1>11 DEF p

----------------------------------------------------------------------------
(* The induction that the lemmas below share. *)
LEMMA PrefixSumStep ==
  ASSUME NEW f, NatValued(f), NEW n \in Nat
  PROVE  /\ PrefixSum(f)[0] = 0
         /\ PrefixSum(f)[n] \in Nat
         /\ PrefixSum(f)[n + 1] = PrefixSum(f)[n] + Summand(f, n + 1)
         /\ Summand(f, n + 1) \in Nat
BY PrefixSumDef, SummandType

(* Lists whose summands add up pointwise have prefix sums that add up.     *)
LEMMA PrefixSumAdd ==
  ASSUME NEW f, NatValued(f), NEW g, NatValued(g), NEW h, NatValued(h), NEW n \in Nat,
         \A k \in 1..n : Summand(f, k) = Summand(g, k) + Summand(h, k)
  PROVE  PrefixSum(f)[n] = PrefixSum(g)[n] + PrefixSum(h)[n]
<1> DEFINE S == {k \in Nat : k <= n => PrefixSum(f)[k] = PrefixSum(g)[k] + PrefixSum(h)[k]}
<1>1. 0 \in S
  BY PrefixSumStep
<1>2. ASSUME NEW k \in S PROVE k + 1 \in S
  <2> SUFFICES ASSUME k + 1 <= n
      PROVE PrefixSum(f)[k + 1] = PrefixSum(g)[k + 1] + PrefixSum(h)[k + 1]
    OBVIOUS
  <2>1. Summand(f, k + 1) = Summand(g, k + 1) + Summand(h, k + 1)
    OBVIOUS
  <2>2. PrefixSum(f)[k] = PrefixSum(g)[k] + PrefixSum(h)[k]
    OBVIOUS
  <2>3. /\ PrefixSum(f)[k + 1] = PrefixSum(f)[k] + Summand(f, k + 1)
        /\ PrefixSum(g)[k + 1] = PrefixSum(g)[k] + Summand(g, k + 1)
        /\ PrefixSum(h)[k + 1] = PrefixSum(h)[k] + Summand(h, k + 1)
    BY PrefixSumStep
  <2>4. /\ PrefixSum(g)[k] \in Nat /\ Summand(g, k + 1) \in Nat
        /\ PrefixSum(h)[k] \in Nat /\ Summand(h, k + 1) \in Nat
    BY PrefixSumStep
  <2> QED
    BY <2>1, <2>2, <2>3, <2>4
<1>3. S = Nat
  <2> HIDE DEF S
  <2>1. S \subseteq Nat
    BY DEF S
  <2> QED
    BY <1>1, <1>2, <2>1, SetInduction
<1> QED
  BY <1>3

(* Summands that are zero from m + 1 to n leave the prefix sum unchanged.  *)
LEMMA PrefixSumZeroTail ==
  ASSUME NEW f, NatValued(f), NEW m \in Nat, NEW n \in Nat, m <= n,
         \A k \in (m + 1)..n : Summand(f, k) = 0
  PROVE  PrefixSum(f)[n] = PrefixSum(f)[m]
<1> DEFINE S == {k \in Nat : m <= k /\ k <= n => PrefixSum(f)[k] = PrefixSum(f)[m]}
<1>1. 0 \in S
  OBVIOUS
<1>2. ASSUME NEW k \in S PROVE k + 1 \in S
  <2> SUFFICES ASSUME m <= k + 1, k + 1 <= n
      PROVE PrefixSum(f)[k + 1] = PrefixSum(f)[m]
    OBVIOUS
  <2>1. CASE k + 1 = m
    BY <2>1
  <2>2. CASE m <= k
    <3>1. Summand(f, k + 1) = 0
      BY <2>2
    <3>2. PrefixSum(f)[k] = PrefixSum(f)[m]
      BY <2>2
    <3> QED
      BY <3>1, <3>2, PrefixSumStep
  <2> QED
    BY <2>1, <2>2
<1>3. S = Nat
  <2> HIDE DEF S
  <2>1. S \subseteq Nat
    BY DEF S
  <2> QED
    BY <1>1, <1>2, <2>1, SetInduction
<1> QED
  BY <1>3

(* Prefix sums of naturals grow.                                           *)
LEMMA PrefixSumMonotone ==
  ASSUME NEW f, NatValued(f), NEW m \in Nat, NEW n \in Nat, m <= n
  PROVE  PrefixSum(f)[m] <= PrefixSum(f)[n]
<1> DEFINE S == {k \in Nat : m <= k => PrefixSum(f)[m] <= PrefixSum(f)[k]}
<1>1. 0 \in S
  BY PrefixSumStep
<1>2. ASSUME NEW k \in S PROVE k + 1 \in S
  <2> SUFFICES ASSUME m <= k + 1 PROVE PrefixSum(f)[m] <= PrefixSum(f)[k + 1]
    OBVIOUS
  <2>1. CASE k + 1 = m
    BY <2>1, PrefixSumStep
  <2>2. CASE m <= k
    <3>1. PrefixSum(f)[m] <= PrefixSum(f)[k]
      BY <2>2
    <3> QED
      BY <3>1, PrefixSumStep
  <2> QED
    BY <2>1, <2>2
<1>3. S = Nat
  <2> HIDE DEF S
  <2>1. S \subseteq Nat
    BY DEF S
  <2> QED
    BY <1>1, <1>2, <2>1, SetInduction
<1> QED
  BY <1>3

(* No summand exceeds the sum.                                             *)
LEMMA SummandWithinSum ==
  ASSUME NEW f, NatValued(f), NEW n \in Nat, NEW i \in 1..n
  PROVE  Summand(f, i) <= PrefixSum(f)[n]
<1>1. i - 1 \in Nat /\ (i - 1) + 1 = i /\ i \in Nat
  OBVIOUS
<1>2. PrefixSum(f)[i] = PrefixSum(f)[i - 1] + Summand(f, i)
  BY <1>1, PrefixSumStep
<1>3. PrefixSum(f)[i] <= PrefixSum(f)[n]
  BY <1>1, PrefixSumMonotone
<1>4. PrefixSum(f)[i - 1] \in Nat /\ PrefixSum(f)[n] \in Nat /\ Summand(f, i) \in Nat
  BY <1>1, PrefixSumStep, SummandType
<1> QED
  BY <1>2, <1>3, <1>4

(* A list whose only nonzero summand is the i-th sums to it.               *)
LEMMA PrefixSumSingle ==
  ASSUME NEW f, NatValued(f), NEW n \in Nat, NEW i \in 1..n,
         \A k \in 1..n : k # i => Summand(f, k) = 0
  PROVE  PrefixSum(f)[n] = Summand(f, i)
<1>1. i - 1 \in Nat /\ (i - 1) + 1 = i /\ i \in Nat
  OBVIOUS
<1>2. PrefixSum(f)[i - 1] = PrefixSum(f)[0]
  BY <1>1, PrefixSumZeroTail
<1>3. PrefixSum(f)[i] = PrefixSum(f)[i - 1] + Summand(f, i)
  BY <1>1, PrefixSumStep
<1>4. PrefixSum(f)[n] = PrefixSum(f)[i]
  BY <1>1, PrefixSumZeroTail
<1>5. PrefixSum(f)[0] = 0 /\ Summand(f, i) \in Nat
  BY <1>1, PrefixSumStep, SummandType
<1> QED
  BY <1>2, <1>3, <1>4, <1>5

(* Lists with the same summands up to n have the same sum.                 *)
LEMMA PrefixSumAgree ==
  ASSUME NEW f, NatValued(f), NEW g, NatValued(g), NEW n \in Nat,
         \A k \in 1..n : Summand(f, k) = Summand(g, k)
  PROVE  PrefixSum(f)[n] = PrefixSum(g)[n]
<1> DEFINE z == [k \in {} |-> 0]
<1>1. NatValued(z) /\ \A k \in Nat : Summand(z, k) = 0
  BY DEF NatValued, Summand
<1> HIDE DEF z
<1>2. PrefixSum(z)[n] = 0
  <2>1. \A k \in (0 + 1)..n : Summand(z, k) = 0
    BY <1>1
  <2>2. PrefixSum(z)[n] = PrefixSum(z)[0]
    BY <1>1, <2>1, PrefixSumZeroTail
  <2> QED
    BY <1>1, <2>2, PrefixSumStep
<1>3. \A k \in 1..n : Summand(f, k) = Summand(g, k) + Summand(z, k)
  BY <1>1, SummandType
<1>4. PrefixSum(f)[n] = PrefixSum(g)[n] + PrefixSum(z)[n]
  BY <1>1, <1>3, PrefixSumAdd
<1> QED
  BY <1>2, <1>4, PrefixSumStep

\* The summands of f that belong to u.
Belonging(f, owner, u) == [i \in DOMAIN f |-> IF owner[i] = u THEN f[i] ELSE 0]

\* The sum of each owner's first n summands, owner by owner.
SumsOfOwners(f, owner, m, n) == [u \in 1..m |-> PrefixSum(Belonging(f, owner, u))[n]]

\* A sum can be taken owner by owner.
LEMMA SumByOwner ==
  ASSUME NEW f, NatValued(f), NEW owner, NEW m \in Nat,
         \A i \in DOMAIN f : owner[i] \in 1..m,
         NEW n \in Nat
  PROVE  PrefixSum(SumsOfOwners(f, owner, m, n))[m] = PrefixSum(f)[n]
<1> DEFINE S == {k \in Nat : PrefixSum(SumsOfOwners(f, owner, m, k))[m] = PrefixSum(f)[k]}
<1>1. \A u \in 1..m : NatValued(Belonging(f, owner, u))
  BY DEF NatValued, Belonging
<1>2. ASSUME NEW k \in Nat
      PROVE  /\ NatValued(SumsOfOwners(f, owner, m, k))
             /\ \A u \in 1..m : Summand(SumsOfOwners(f, owner, m, k), u)
                                  = PrefixSum(Belonging(f, owner, u))[k]
  BY <1>1, PrefixSumStep DEF NatValued, SumsOfOwners, Summand
<1>3. 0 \in S
  <2>1. \A u \in (0 + 1)..m : Summand(SumsOfOwners(f, owner, m, 0), u) = 0
    <3> SUFFICES ASSUME NEW u \in 1..m PROVE Summand(SumsOfOwners(f, owner, m, 0), u) = 0
      OBVIOUS
    <3>1. PrefixSum(Belonging(f, owner, u))[0] = 0
      BY <1>1, PrefixSumStep
    <3> QED
      BY <1>2, <3>1
  <2>2. NatValued(SumsOfOwners(f, owner, m, 0))
    BY <1>2
  <2>3. PrefixSum(SumsOfOwners(f, owner, m, 0))[m] = PrefixSum(SumsOfOwners(f, owner, m, 0))[0]
    BY <2>1, <2>2, PrefixSumZeroTail
  <2> QED
    BY <2>2, <2>3, PrefixSumStep
<1>4. ASSUME NEW k \in S PROVE k + 1 \in S
  <2> DEFINE next == [u \in 1..m |-> Summand(Belonging(f, owner, u), k + 1)]
             old == SumsOfOwners(f, owner, m, k)
             new == SumsOfOwners(f, owner, m, k + 1)
  <2>1. k \in Nat /\ k + 1 \in Nat
    OBVIOUS
  <2>2. NatValued(next) /\ \A u \in 1..m : Summand(next, u) = Summand(Belonging(f, owner, u), k + 1)
    BY <1>1, SummandType DEF NatValued, Summand
  <2>3. /\ NatValued(old) /\ NatValued(new)
        /\ \A u \in 1..m : /\ Summand(old, u) = PrefixSum(Belonging(f, owner, u))[k]
                           /\ Summand(new, u) = PrefixSum(Belonging(f, owner, u))[k + 1]
    BY <1>2, <2>1
  <2> HIDE DEF next, old, new
  <2>4. \A u \in 1..m : Summand(new, u) = Summand(old, u) + Summand(next, u)
    <3> SUFFICES ASSUME NEW u \in 1..m
                 PROVE  Summand(new, u) = Summand(old, u) + Summand(next, u)
      OBVIOUS
    <3>1. PrefixSum(Belonging(f, owner, u))[k + 1]
            = PrefixSum(Belonging(f, owner, u))[k] + Summand(Belonging(f, owner, u), k + 1)
      BY <1>1, <2>1, PrefixSumStep
    <3> QED
      BY <2>2, <2>3, <3>1
  <2>5. PrefixSum(new)[m] = PrefixSum(old)[m] + PrefixSum(next)[m]
    BY <2>2, <2>3, <2>4, PrefixSumAdd
  <2>6. PrefixSum(next)[m] = Summand(f, k + 1)
    <3>1. CASE k + 1 \in DOMAIN f
      <4>1. owner[k + 1] \in 1..m
        BY <3>1
      <4>2. \A u \in 1..m : u # owner[k + 1] => Summand(next, u) = 0
        BY <2>2, <3>1 DEF Summand, Belonging
      <4>3. Summand(next, owner[k + 1]) = Summand(f, k + 1)
        BY <2>2, <3>1, <4>1 DEF Summand, Belonging
      <4> QED
        BY <2>2, <4>1, <4>2, <4>3, PrefixSumSingle
    <3>2. CASE k + 1 \notin DOMAIN f
      <4>1. Summand(f, k + 1) = 0
        BY <3>2 DEF Summand
      <4>2. \A u \in (0 + 1)..m : Summand(next, u) = 0
        BY <2>2, <3>2 DEF Summand, Belonging
      <4>3. PrefixSum(next)[m] = PrefixSum(next)[0]
        BY <2>2, <4>2, PrefixSumZeroTail
      <4> QED
        BY <2>2, <4>1, <4>3, PrefixSumStep
    <3> QED
      BY <3>1, <3>2
  <2>7. PrefixSum(old)[m] = PrefixSum(f)[k]
    BY DEF old
  <2>8. PrefixSum(new)[m] = PrefixSum(f)[k + 1]
    BY <2>1, <2>5, <2>6, <2>7, PrefixSumStep
  <2> QED
    BY <2>1, <2>8 DEF new
<1>5. S = Nat
  <2> HIDE DEF S
  <2>1. S \subseteq Nat
    BY DEF S
  <2> QED
    BY <1>3, <1>4, <2>1, SetInduction
<1> QED
  BY <1>5

\* Lists that differ at u only have sums that differ by their values there.
LEMMA SumAfterChange ==
  ASSUME NEW f, NatValued(f), NEW g, NatValued(g), NEW n \in Nat, NEW u \in 1..n,
         \A k \in 1..n : k # u => Summand(f, k) = Summand(g, k)
  PROVE  PrefixSum(f)[n] + Summand(g, u) = PrefixSum(g)[n] + Summand(f, u)
<1> DEFINE rest == [k \in 1..n |-> IF k = u THEN 0 ELSE Summand(f, k)]
           F == [k \in 1..n |-> IF k = u THEN Summand(f, u) ELSE 0]
           G == [k \in 1..n |-> IF k = u THEN Summand(g, u) ELSE 0]
<1>1. Summand(f, u) \in Nat /\ Summand(g, u) \in Nat
  BY SummandType
<1>2. /\ NatValued(rest) /\ NatValued(F) /\ NatValued(G)
      /\ \A k \in 1..n : /\ Summand(rest, k) = (IF k = u THEN 0 ELSE Summand(f, k))
                         /\ Summand(F, k) = (IF k = u THEN Summand(f, u) ELSE 0)
                         /\ Summand(G, k) = (IF k = u THEN Summand(g, u) ELSE 0)
  <2>1. NatValued(rest) /\ NatValued(F) /\ NatValued(G)
    BY <1>1, SummandType DEF NatValued
  <2> QED
    BY <2>1 DEF Summand
<1> HIDE DEF rest, F, G
<1>3. PrefixSum(F)[n] = Summand(f, u) /\ PrefixSum(G)[n] = Summand(g, u)
  BY <1>2, PrefixSumSingle
<1>4. \A k \in 1..n : /\ Summand(f, k) = Summand(rest, k) + Summand(F, k)
                      /\ Summand(g, k) = Summand(rest, k) + Summand(G, k)
  BY <1>1, <1>2, SummandType
<1>5. /\ PrefixSum(f)[n] = PrefixSum(rest)[n] + PrefixSum(F)[n]
      /\ PrefixSum(g)[n] = PrefixSum(rest)[n] + PrefixSum(G)[n]
  BY <1>2, <1>4, PrefixSumAdd
<1>6. PrefixSum(rest)[n] \in Nat
  BY <1>2, PrefixSumStep
<1> QED
  BY <1>1, <1>3, <1>5, <1>6

----------------------------------------------------------------------------
(* Products and quotients.                                                 *)

\* Its products are naturals.
LEMMA TimesType ==
  ASSUME NEW a \in Nat, NEW b \in Nat
  PROVE  a * b \in Nat
OBVIOUS

\* The quotients of the code are naturals.
LEMMA DivType ==
  ASSUME NEW a \in Nat, NEW b \in Nat \ {0}
  PROVE  a \div b \in Nat
OBVIOUS

\* A fraction rate / total of an amount, rounded down, is at most the amount.
LEMMA ShareWithin ==
  ASSUME NEW a \in Nat, NEW d \in Nat \ {0}, NEW b \in 0..d
  PROVE  (a * b) \div d \in 0..a
<1>1. a * b \in Nat /\ a * b <= a * d
  OBVIOUS
<1>2. DEFINE k == (a * b) \div d
<1>3. k \in Nat /\ k * d <= a * b
  BY <1>1
<1>4. k * d <= a * d
  BY <1>1, <1>3
<1>5. k <= a
  <2> SUFFICES ASSUME k > a PROVE FALSE
    BY <1>3
  <2>1. k * d >= (a + 1) * d
    BY <1>3
  <2>2. (a + 1) * d = a * d + d
    OBVIOUS
  <2> QED
    BY <1>3, <1>4, <2>1, <2>2
<1> QED
  BY <1>3, <1>5

\* Products keep the order.
LEMMA TimesMonotone ==
  ASSUME NEW a \in Nat, NEW b \in Nat, NEW c \in Nat, a <= b
  PROVE  a * c <= b * c
<1>1. PICK d \in Nat : b = a + d
  <2>1. b - a \in Nat /\ b = a + (b - a)
    OBVIOUS
  <2> QED
    BY <2>1
<1>2. b * c = a * c + d * c
  BY <1>1
<1>3. a * c \in Nat /\ d * c \in Nat
  BY TimesType
<1> QED
  BY <1>2, <1>3

\* A common factor can be cancelled.
LEMMA TimesCancel ==
  ASSUME NEW a \in Nat, NEW b \in Nat, NEW c \in Nat \ {0}, a * c < b * c
  PROVE  a < b
<1> SUFFICES ASSUME b <= a PROVE FALSE
  OBVIOUS
<1>1. b * c <= a * c
  BY TimesMonotone
<1>2. a * c \in Nat /\ b * c \in Nat
  BY TimesType
<1> QED
  BY <1>1, <1>2

\* It can be cancelled from a weak inequality, too.
LEMMA TimesCancelLe ==
  ASSUME NEW a \in Nat, NEW b \in Nat, NEW c \in Nat \ {0}, a * c <= b * c
  PROVE  a <= b
<1> SUFFICES ASSUME b < a PROVE FALSE
  OBVIOUS
<1>1. (b + 1) * c <= a * c
  BY TimesMonotone
<1>2. (b + 1) * c = b * c + c
  OBVIOUS
<1>3. a * c \in Nat /\ b * c \in Nat
  BY TimesType
<1> QED
  BY <1>1, <1>2, <1>3

\* x is the fraction a / d rounded down.
IsFloor(x, a, d) == x \in Nat /\ x * d <= a /\ a < x * d + d

\* That is what the quotient of the code is.
LEMMA QuotientIsFloor ==
  ASSUME NEW a \in Nat, NEW d \in Nat \ {0}
  PROVE  IsFloor(a \div d, a, d)
<1> DEFINE x == a \div d
<1>1. x \in Nat /\ x * d <= a
  OBVIOUS
<1>2. a < x * d + d
  OBVIOUS
<1> QED
  BY <1>1, <1>2 DEF IsFloor

\* It is the largest number whose multiple is within a, and no other.
LEMMA FloorBounds ==
  ASSUME NEW a \in Nat, NEW d \in Nat \ {0}, NEW x, IsFloor(x, a, d), NEW y \in Nat
  PROVE  /\ y * d <= a => y <= x
         /\ a < y * d + d => x <= y
<1>1. x \in Nat /\ x * d \in Nat /\ y * d \in Nat
  BY TimesType DEF IsFloor
<1>2. (x + 1) * d = x * d + d /\ (y + 1) * d = y * d + d
  BY <1>1
<1>3. ASSUME y * d <= a PROVE y <= x
  <2>1. y * d < (x + 1) * d
    BY <1>1, <1>2, <1>3 DEF IsFloor
  <2>2. y < x + 1
    BY <1>1, <2>1, TimesCancel
  <2> QED
    BY <1>1, <2>2
<1>4. ASSUME a < y * d + d PROVE x <= y
  <2>1. x * d < (y + 1) * d
    BY <1>1, <1>2, <1>4 DEF IsFloor
  <2>2. x < y + 1
    BY <1>1, <2>1, TimesCancel
  <2> QED
    BY <1>1, <2>2
<1> QED
  BY <1>3, <1>4

\* Rounding down twice is rounding down once.
LEMMA FloorOfFloor ==
  ASSUME NEW a \in Nat, NEW d \in Nat \ {0}, NEW e \in Nat \ {0},
         NEW x, NEW y, IsFloor(x, a, d), IsFloor(y, x, e)
  PROVE  IsFloor(y, a, e * d)
<1>1. x \in Nat /\ y \in Nat /\ x * d \in Nat /\ y * e \in Nat /\ e * d \in Nat
      /\ (y * e) * d \in Nat
  BY TimesType DEF IsFloor
<1>2. (y * e) * d = y * (e * d)
  BY <1>1
<1>3. y * (e * d) <= a
  <2>1. (y * e) * d <= x * d
    BY <1>1, TimesMonotone DEF IsFloor
  <2> QED
    BY <1>1, <1>2, <2>1 DEF IsFloor
<1>4. a < y * (e * d) + e * d
  <2>1. x + 1 <= y * e + e
    BY <1>1 DEF IsFloor
  <2>2. (x + 1) * d <= (y * e + e) * d
    BY <1>1, <2>1, TimesMonotone
  <2>3. (x + 1) * d = x * d + d /\ (y * e + e) * d = (y * e) * d + e * d
    BY <1>1
  <2> QED
    BY <1>1, <1>2, <2>2, <2>3 DEF IsFloor
<1> QED
  BY <1>1, <1>3, <1>4 DEF IsFloor

\* A common factor of a fraction does not change its rounding.
LEMMA FloorReduced ==
  ASSUME NEW a \in Nat, NEW d \in Nat \ {0}, NEW m \in Nat \ {0}, NEW x, IsFloor(x, a * m, d * m)
  PROVE  IsFloor(x, a, d)
<1>1. x \in Nat /\ x * d \in Nat
  BY TimesType DEF IsFloor
<1>2. x * (d * m) = (x * d) * m /\ (x * d) * m + d * m = (x * d + d) * m
  BY <1>1
<1>3. x * d <= a
  BY <1>1, <1>2, TimesCancelLe DEF IsFloor
<1>4. a < x * d + d
  BY <1>1, <1>2, TimesCancel DEF IsFloor
<1> QED
  BY <1>1, <1>3, <1>4 DEF IsFloor

\* If each g is f in other units, but for less than one unit of rounding, so
\* are the sums, but for as many units as there are summands.
LEMMA ScaledSums ==
  ASSUME NEW f, NatValued(f), NEW g, NatValued(g), NEW P \in Nat, NEW U \in Nat, NEW n \in Nat,
         \A k \in 1..n : /\ Summand(f, k) * U <= Summand(g, k) * P
                         /\ Summand(g, k) * P <= Summand(f, k) * U + U
  PROVE  /\ PrefixSum(f)[n] * U <= PrefixSum(g)[n] * P
         /\ PrefixSum(g)[n] * P <= PrefixSum(f)[n] * U + n * U
<1> DEFINE S == {k \in Nat : k <= n =>
                   /\ PrefixSum(f)[k] * U <= PrefixSum(g)[k] * P
                   /\ PrefixSum(g)[k] * P <= PrefixSum(f)[k] * U + k * U}
<1>1. 0 \in S
  <2>1. PrefixSum(f)[0] = 0 /\ PrefixSum(g)[0] = 0
    BY PrefixSumStep
  <2> QED
    BY <2>1
<1>2. ASSUME NEW k \in S PROVE k + 1 \in S
  <2> SUFFICES ASSUME k + 1 <= n
      PROVE  /\ PrefixSum(f)[k + 1] * U <= PrefixSum(g)[k + 1] * P
             /\ PrefixSum(g)[k + 1] * P <= PrefixSum(f)[k + 1] * U + (k + 1) * U
    OBVIOUS
  <2> DEFINE F == PrefixSum(f)[k]
             G == PrefixSum(g)[k]
             a == Summand(f, k + 1)
             b == Summand(g, k + 1)
  <2>1. k \in Nat /\ k + 1 \in 1..n
    OBVIOUS
  <2>2. F * U <= G * P /\ G * P <= F * U + k * U
    BY <2>1
  <2>3. a * U <= b * P /\ b * P <= a * U + U
    BY <2>1
  <2>4. PrefixSum(f)[k + 1] = F + a /\ PrefixSum(g)[k + 1] = G + b
    BY <2>1, PrefixSumStep
  <2>5. F \in Nat /\ G \in Nat /\ a \in Nat /\ b \in Nat
    BY <2>1, PrefixSumStep
  <2> HIDE DEF F, G, a, b
  <2>6. (F + a) * U = F * U + a * U /\ (G + b) * P = G * P + b * P /\ (k + 1) * U = k * U + U
    BY <2>1, <2>5
  <2>7. F * U \in Nat /\ a * U \in Nat /\ G * P \in Nat /\ b * P \in Nat /\ k * U \in Nat
    BY <2>1, <2>5, TimesType
  <2>8. (F + a) * U <= (G + b) * P /\ (G + b) * P <= (F + a) * U + (k + 1) * U
    BY <2>2, <2>3, <2>6, <2>7
  <2> QED
    BY <2>4, <2>8
<1>3. S = Nat
  <2> HIDE DEF S
  <2>1. S \subseteq Nat
    BY DEF S
  <2> QED
    BY <1>1, <1>2, <2>1, SetInduction
<1> QED
  BY <1>3

\* If no summand of f exceeds that of g in other units, the sum does not either.
LEMMA SumsWithin ==
  ASSUME NEW f, NatValued(f), NEW g, NatValued(g), NEW P \in Nat, NEW U \in Nat, NEW n \in Nat,
         \A k \in 1..n : Summand(f, k) * U <= Summand(g, k) * P
  PROVE  PrefixSum(f)[n] * U <= PrefixSum(g)[n] * P
<1> DEFINE S == {k \in Nat : k <= n => PrefixSum(f)[k] * U <= PrefixSum(g)[k] * P}
<1>1. 0 \in S
  <2>1. PrefixSum(f)[0] = 0 /\ PrefixSum(g)[0] = 0
    BY PrefixSumStep
  <2> QED
    BY <2>1
<1>2. ASSUME NEW k \in S PROVE k + 1 \in S
  <2> SUFFICES ASSUME k + 1 <= n
      PROVE  PrefixSum(f)[k + 1] * U <= PrefixSum(g)[k + 1] * P
    OBVIOUS
  <2> DEFINE F == PrefixSum(f)[k]
             G == PrefixSum(g)[k]
             a == Summand(f, k + 1)
             b == Summand(g, k + 1)
  <2>1. k \in Nat /\ k + 1 \in 1..n
    OBVIOUS
  <2>2. F * U <= G * P
    BY <2>1
  <2>3. a * U <= b * P
    BY <2>1
  <2>4. PrefixSum(f)[k + 1] = F + a /\ PrefixSum(g)[k + 1] = G + b
    BY <2>1, PrefixSumStep
  <2>5. F \in Nat /\ G \in Nat /\ a \in Nat /\ b \in Nat
    BY <2>1, PrefixSumStep
  <2> HIDE DEF F, G, a, b
  <2>6. (F + a) * U = F * U + a * U /\ (G + b) * P = G * P + b * P
    BY <2>1, <2>5
  <2>7. F * U \in Nat /\ a * U \in Nat /\ G * P \in Nat /\ b * P \in Nat
    BY <2>1, <2>5, TimesType
  <2>8. (F + a) * U <= (G + b) * P
    BY <2>2, <2>3, <2>6, <2>7
  <2> QED
    BY <2>4, <2>8
<1>3. S = Nat
  <2> HIDE DEF S
  <2>1. S \subseteq Nat
    BY DEF S
  <2> QED
    BY <1>1, <1>2, <2>1, SetInduction
<1> QED
  BY <1>3

\* What divides can be multiplied away: half of what a rounded quotient is.
LEMMA QuotientWithin ==
  ASSUME NEW a \in Nat, NEW d \in Nat \ {0}
  PROVE  a \div d \in Nat /\ (a \div d) * d <= a
BY QuotientIsFloor DEF IsFloor
===========================================================================
