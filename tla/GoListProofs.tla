---------------------------- MODULE GoListProofs ----------------------------
(* Whom the go-list script proposes, for any inquiries, page size and number  *)
(* of runs.  The accounts it keeps are the first approved inquiries of their  *)
(* accounts (Firsts), it has kept one for every account up to the token       *)
(* (KeptUpTo), and the token only ever moves to an inquiry that is not        *)
(* repeated (Advanced).  The loop over a page keeps all three at every turn.  *)
EXTENDS GoList, PrefixSumsProofs

Event ==
  [account : Accounts \cup {None}, status : {"approved", "other"},
   countryCode : Countries \cup {None}, verificationCountryCode : Countries \cup {None}]

\* Only the first approved inquiry of an account is kept.
Firsts(accounts) ==
  \A i \in DOMAIN accounts :
    \E j \in DOMAIN events : accounts[i] = events[j] /\ Counts(events[j]) /\ ~Repeated(j)

\* Among the first n inquiries no approved one was missed.
KeptUpTo(accounts, n) ==
  \A j \in DOMAIN events : j <= n /\ Counts(events[j]) => Kept(accounts, events[j])

\* Every page that starts before the token has an inquiry that is not repeated.
PageEnd(token) == Min({token + PageSize, Len(events)})
PageAdvances(token) == \E i \in (token + 1)..PageEnd(token) : ~Repeated(i)
Advanced(token) == \A t \in 0..(token - 1) : PageAdvances(t)

GoListInv ==
  /\ events \in Seq(Event)
  /\ allAccounts \in Seq(Event)
  /\ paginationToken \in 0..Len(events)
  /\ checked \in 0..Len(allAccounts)
  /\ Firsts(allAccounts) /\ KeptUpTo(allAccounts, paginationToken) /\ Advanced(paginationToken)
  /\ status = "fetching" => checked = 0
  /\ status \in {"checking", "done"} => paginationToken = Len(events)
  /\ \A i \in 1..checked : CountryOf(allAccounts[i]) # None
  /\ OnlyEligibleAreProposed
  /\ DoneCoversEveryAccount

----------------------------------------------------------------------------
(* Pages.                                                                     *)

\* The end of a page.
LEMMA PageEndIs ==
  ASSUME NEW token \in Nat, Len(events) \in Nat
  PROVE  PageEnd(token) = IF token + PageSize <= Len(events) THEN token + PageSize ELSE Len(events)
<1> DEFINE S == {token + PageSize, Len(events)}
           m == IF token + PageSize <= Len(events) THEN token + PageSize ELSE Len(events)
<1>1. token + PageSize \in Nat
  BY GoListAssumption
<1>2. m \in S /\ \A y \in S : m <= y
  BY <1>1
<1>3. \A x \in S : (\A y \in S : x <= y) => x = m
  BY <1>1
<1>4. PageEnd(token) = CHOOSE x \in S : \A y \in S : x <= y
  BY DEF PageEnd, Min
<1> HIDE DEF S, m
<1>5. PageEnd(token) = m
  BY <1>2, <1>3, <1>4
<1> QED
  BY <1>5 DEF m

\* A page is what follows the token, up to the end of the page.
LEMMA PageIs ==
  ASSUME events \in Seq(Event), NEW token \in 0..Len(events)
  PROVE  /\ PageEnd(token) \in token..Len(events)
         /\ fetchEntities(token) \in Seq(Event)
         /\ Len(fetchEntities(token)) = PageEnd(token) - token
         /\ \A n \in 1..Len(fetchEntities(token)) : fetchEntities(token)[n] = events[token + n]
         /\ PageEnd(token) = token => token = Len(events)
<1> DEFINE m == PageEnd(token)
<1>1. Len(events) \in Nat /\ token \in Nat
  OBVIOUS
<1>0. PageSize \in Nat \ {0}
  BY GoListAssumption
<1> DEFINE l == Len(events)
<1>5. m = IF token + PageSize <= l THEN token + PageSize ELSE l
  BY <1>1, PageEndIs
<1>6. l \in Nat /\ token <= l
  BY <1>1
<1>7. m \in token..l /\ (m = token => token = l)
  <2> HIDE DEF l, m
  <2> QED
    BY <1>0, <1>1, <1>5, <1>6
<1>2. m \in token..Len(events) /\ (m = token => token = Len(events))
  BY <1>7
<1>3. fetchEntities(token) = SubSeq(events, token + 1, m)
  BY DEF fetchEntities, PageEnd
<1> HIDE DEF m
<1>4. /\ SubSeq(events, token + 1, m) \in Seq(Event)
      /\ Len(SubSeq(events, token + 1, m)) = m - token
      /\ \A n \in 1..(m - token) : SubSeq(events, token + 1, m)[n] = events[token + n]
  BY <1>1, <1>2
<1> QED
  BY <1>2, <1>3, <1>4 DEF m

\* The state of the loop after n turns.
IsRun(g, page, n) ==
  /\ g = [i \in 0..n |-> g[i]]
  /\ g[0] = [accounts |-> allAccounts, position |-> paginationToken, token |-> paginationToken]
  /\ \A i \in 1..n : g[i] = processEvent(g[i - 1], page[i])

\* The loop over a page has a state after each turn ...
LEMMA RunExists ==
  ASSUME NEW page
  PROVE  \A n \in Nat : \E g : IsRun(g, page, n)
<1> DEFINE S == {n \in Nat : \E g : IsRun(g, page, n)}
           start == [accounts |-> allAccounts, position |-> paginationToken,
                     token |-> paginationToken]
<1>1. 0 \in S
  <2>1. IsRun([i \in 0..0 |-> start], page, 0)
    BY DEF IsRun
  <2> QED
    BY <2>1
<1>2. ASSUME NEW n \in S PROVE n + 1 \in S
  <2>1. PICK g : IsRun(g, page, n)
    OBVIOUS
  <2> DEFINE h == [i \in 0..(n + 1) |->
                     IF i = n + 1 THEN processEvent(g[n], page[n + 1]) ELSE g[i]]
  <2>2. n \in Nat
    OBVIOUS
  <2>6. h[0] = g[0]
    BY <2>2
  <2>3. \A i \in 1..(n + 1) : h[i] = processEvent(h[i - 1], page[i])
    <3> SUFFICES ASSUME NEW i \in 1..(n + 1) PROVE h[i] = processEvent(h[i - 1], page[i])
      OBVIOUS
    <3>1. h[i - 1] = g[i - 1]
      BY <2>2
    <3>2. CASE i = n + 1
      BY <2>2, <3>1, <3>2
    <3>3. CASE i # n + 1
      <4>1. i \in 1..n /\ h[i] = g[i]
        BY <2>2, <3>3
      <4> HIDE DEF h
      <4> QED
        BY <2>1, <3>1, <4>1 DEF IsRun
    <3> QED
      BY <3>2, <3>3
  <2>4. h = [i \in 0..(n + 1) |-> h[i]]
    OBVIOUS
  <2> HIDE DEF h
  <2>5. IsRun(h, page, n + 1)
    BY <2>1, <2>3, <2>4, <2>6 DEF IsRun
  <2> QED
    BY <2>2, <2>5
<1>3. S \subseteq Nat
  OBVIOUS
<1>4. S = Nat
  <2> HIDE DEF S
  <2> QED
    BY <1>1, <1>2, <1>3, SetInduction
<1> QED
  BY <1>4

\* ... which is what the recursive definition computes.
LEMMA WorkedThroughIs ==
  ASSUME NEW page, Len(page) \in Nat
  PROVE  IsRun(workedThrough(page), page, Len(page))
<1> DEFINE start == [accounts |-> allAccounts, position |-> paginationToken,
                     token |-> paginationToken]
           Body(t) == [n \in 0..Len(page) |->
                         IF n = 0 THEN start ELSE processEvent(t[n - 1], page[n])]
<1>1. PICK g : IsRun(g, page, Len(page))
  BY RunExists
<1>2. g = Body(g)
  <2>1. \A n \in 0..Len(page) : g[n] = Body(g)[n]
    BY <1>1 DEF IsRun
  <2>2. g = [n \in 0..Len(page) |-> g[n]]
    BY <1>1 DEF IsRun
  <2> QED
    BY <2>1, <2>2
<1>3. workedThrough(page) = CHOOSE t : t = Body(t)
  BY DEF workedThrough
<1> DEFINE w == workedThrough(page)
<1> HIDE DEF w
<1>4. w = Body(w)
  <2> HIDE DEF Body
  <2> QED
    BY <1>2, <1>3 DEF w
<1>5. w = [i \in 0..Len(page) |-> w[i]] /\ w[0] = start
  BY <1>4
<1>6. \A i \in 1..Len(page) : w[i] = processEvent(w[i - 1], page[i])
  BY <1>4
<1>7. IsRun(w, page, Len(page))
  BY <1>5, <1>6 DEF IsRun
<1> QED
  BY <1>7 DEF w

----------------------------------------------------------------------------
(* The loop over a page.                                                      *)

LoopState == [accounts : Seq(Event), position : Nat, token : Nat]

\* After n turns, started at the token: the position is n further, and the token
\* is where it was or at an inquiry that was not met before.
Worked(st, n) ==
  /\ st \in LoopState
  /\ st.position = paginationToken + n
  /\ Firsts(st.accounts) /\ KeptUpTo(st.accounts, st.position)
  /\ \/ st.token = paginationToken
     \/ st.token \in (paginationToken + 1)..st.position /\ ~Repeated(st.token)

\* One turn: an account that is not kept has no approved inquiry before.
LEMMA TurnWorks ==
  ASSUME GoListInv, NEW n \in Nat, NEW st, Worked(st, n), paginationToken + n + 1 <= Len(events)
  PROVE  Worked(processEvent(st, events[paginationToken + n + 1]), n + 1)
<1> DEFINE p == paginationToken + n + 1
           e == events[p]
           next == processEvent(st, e)
<1>1. events \in Seq(Event) /\ paginationToken \in Nat
  BY DEF GoListInv
<1>2. p \in DOMAIN events /\ p \in Nat /\ e \in Event /\ p = st.position + 1
  BY <1>1 DEF Worked
<1>3. CASE Counts(e) /\ Kept(st.accounts, e)
  <2>1. next = [st EXCEPT !.position = @ + 1]
    BY <1>3 DEF processEvent
  <2>2. /\ next \in LoopState /\ next.accounts = st.accounts /\ next.token = st.token
        /\ next.position = p
    BY <1>2, <2>1 DEF Worked, LoopState
  <2>3. KeptUpTo(next.accounts, p)
    <3> SUFFICES ASSUME NEW j \in DOMAIN events, j <= p, Counts(events[j])
                 PROVE  Kept(st.accounts, events[j])
      BY <2>2 DEF KeptUpTo
    <3>1. j = p \/ j <= st.position
      BY <1>1, <1>2 DEF Worked
    <3> QED
      BY <1>3, <3>1 DEF Worked, KeptUpTo
  <2>4. next.token \in (paginationToken + 1)..st.position => next.token \in (paginationToken + 1)..p
    BY <1>1, <1>2 DEF Worked
  <2> QED
    BY <1>1, <1>2, <2>2, <2>3, <2>4 DEF Worked
<1>4. CASE ~(Counts(e) /\ Kept(st.accounts, e))
  <2> DEFINE kept == IF Counts(e) THEN Append(st.accounts, e) ELSE st.accounts
  <2>1. next = [accounts |-> kept, position |-> p, token |-> p]
    BY <1>2, <1>4 DEF processEvent
  <2>2. ~Repeated(p)
    <3> SUFFICES ASSUME Counts(e), NEW j \in 1..(p - 1), Counts(events[j]),
                        events[j].account = e.account
                 PROVE  FALSE
      BY DEF Repeated
    <3>4. st.position \in Nat
      BY DEF Worked, LoopState
    <3>1. j \in DOMAIN events /\ j <= st.position
      <4> HIDE DEF p
      <4> QED
        BY <1>1, <1>2, <3>4
    <3>2. Kept(st.accounts, events[j])
      BY <3>1 DEF Worked, KeptUpTo
    <3>3. Kept(st.accounts, e)
      BY <3>2 DEF Kept
    <3> QED
      BY <1>4, <3>3
  <2>3. kept \in Seq(Event)
    BY <1>2 DEF Worked, LoopState
  <2>4. Firsts(kept)
    <3>1. CASE ~Counts(e)
      BY <3>1 DEF Worked
    <3>2. CASE Counts(e)
      <4> SUFFICES ASSUME NEW i \in DOMAIN kept
                   PROVE  \E j \in DOMAIN events :
                            kept[i] = events[j] /\ Counts(events[j]) /\ ~Repeated(j)
        BY DEF Firsts
      <4>1. st.accounts \in Seq(Event)
        BY DEF Worked, LoopState
      <4>2. (i \in DOMAIN st.accounts /\ kept[i] = st.accounts[i]) \/ kept[i] = e
        BY <3>2, <4>1
      <4> QED
        BY <1>2, <2>2, <3>2, <4>2 DEF Worked, Firsts
    <3> QED
      BY <3>1, <3>2
  <2>5. KeptUpTo(kept, p)
    <3> SUFFICES ASSUME NEW j \in DOMAIN events, j <= p, Counts(events[j])
                 PROVE  Kept(kept, events[j])
      BY DEF KeptUpTo
    <3>1. st.accounts \in Seq(Event)
      BY DEF Worked, LoopState
    <3>2. CASE j = p
      <4>1. kept = Append(st.accounts, e) /\ Counts(e)
        BY <3>2
      <4>2. Len(st.accounts) + 1 \in DOMAIN kept /\ kept[Len(st.accounts) + 1] = e
        BY <3>1, <4>1
      <4> QED
        BY <3>2, <4>2 DEF Kept
    <3>3. CASE j # p
      <4>1. j <= st.position
        BY <1>1, <1>2, <3>3 DEF Worked
      <4>2. Kept(st.accounts, events[j])
        BY <4>1 DEF Worked, KeptUpTo
      <4>3. \A i \in DOMAIN st.accounts : i \in DOMAIN kept /\ kept[i] = st.accounts[i]
        BY <3>1
      <4> QED
        BY <4>2, <4>3 DEF Kept
    <3> QED
      BY <3>2, <3>3
  <2> HIDE DEF kept, e
  <2>6. p = paginationToken + (n + 1) /\ p \in (paginationToken + 1)..p
    BY <1>1
  <2> HIDE DEF p
  <2>7. next \in LoopState
    BY <1>2, <2>1, <2>3 DEF LoopState
  <2>8. next.accounts = kept /\ next.position = p /\ next.token = p
    BY <2>1
  <2> HIDE DEF next
  <2>9. Worked(next, n + 1)
    BY <2>2, <2>4, <2>5, <2>6, <2>7, <2>8 DEF Worked
  <2> QED
    BY <2>9 DEF next, e, p
<1> QED
  BY <1>3, <1>4

\* Hence the whole page.
LEMMA PageWorks ==
  ASSUME GoListInv
  PROVE  LET page == fetchEntities(paginationToken)
         IN  Worked(workedThrough(page)[Len(page)], Len(page))
<1> DEFINE page == fetchEntities(paginationToken)
           w == workedThrough(page)
           S == {n \in Nat : n <= Len(page) => Worked(w[n], n)}
<1>1. /\ events \in Seq(Event) /\ paginationToken \in Nat /\ allAccounts \in Seq(Event)
      /\ paginationToken \in 0..Len(events)
      /\ Firsts(allAccounts) /\ KeptUpTo(allAccounts, paginationToken)
  BY DEF GoListInv
<1>2. /\ Len(page) \in Nat
      /\ paginationToken + Len(page) <= Len(events)
      /\ \A n \in 1..Len(page) : page[n] = events[paginationToken + n]
  <2>1. /\ PageEnd(paginationToken) \in paginationToken..Len(events)
        /\ Len(page) = PageEnd(paginationToken) - paginationToken
        /\ \A n \in 1..Len(page) : page[n] = events[paginationToken + n]
    BY <1>1, PageIs
  <2> HIDE DEF page
  <2> QED
    BY <1>1, <2>1
<1>3. IsRun(w, page, Len(page))
  BY <1>2, WorkedThroughIs
<1> HIDE DEF w, page
<1>4. 0 \in S
  <2>1. w[0] = [accounts |-> allAccounts, position |-> paginationToken, token |-> paginationToken]
    BY <1>3 DEF IsRun
  <2>2. w[0] \in LoopState
    BY <1>1, <2>1 DEF LoopState
  <2> QED
    BY <1>1, <2>1, <2>2 DEF Worked
<1>5. ASSUME NEW n \in S PROVE n + 1 \in S
  <2> SUFFICES ASSUME n + 1 <= Len(page) PROVE Worked(w[n + 1], n + 1)
    OBVIOUS
  <2>1. n \in Nat /\ n + 1 \in 1..Len(page) /\ (n + 1) - 1 = n /\ Worked(w[n], n)
    BY <1>2
  <2>2. w[n + 1] = processEvent(w[n], page[n + 1])
    BY <1>3, <2>1 DEF IsRun
  <2>3. page[n + 1] = events[paginationToken + n + 1] /\ paginationToken + n + 1 <= Len(events)
    BY <1>1, <1>2, <2>1
  <2> QED
    BY <2>1, <2>2, <2>3, TurnWorks
<1>6. S = Nat
  <2>1. S \subseteq Nat
    OBVIOUS
  <2> HIDE DEF S
  <2> QED
    BY <1>4, <1>5, <2>1, SetInduction
<1>7. Worked(w[Len(page)], Len(page))
  BY <1>2, <1>6
<1> QED
  BY <1>7 DEF w, page

----------------------------------------------------------------------------
(* The steps.                                                                 *)

\* An approved inquiry that is not repeated is the first one of its account.
LEMMA FirstInquiryIs ==
  ASSUME events \in Seq(Event), NEW j \in DOMAIN events, Counts(events[j]), ~Repeated(j)
  PROVE  FirstInquiry(events[j].account) = events[j] /\ events[j].account \in Approved
<1> DEFINE positions == {i \in DOMAIN events :
                           Counts(events[i]) /\ events[i].account = events[j].account}
<1>1. DOMAIN events = 1..Len(events) /\ Len(events) \in Nat
  OBVIOUS
<1>2. j \in positions /\ \A i \in positions : j <= i
  <2> SUFFICES ASSUME NEW i \in positions, i < j PROVE FALSE
    BY <1>1
  <2>1. i \in 1..(j - 1)
    BY <1>1
  <2> QED
    BY <2>1 DEF Repeated
<1>3. \A i \in positions : (\A k \in positions : i <= k) => i = j
  BY <1>1, <1>2
<1>4. Min(positions) = CHOOSE i \in positions : \A k \in positions : i <= k
  BY DEF Min
<1> HIDE DEF positions
<1>5. Min(positions) = j
  BY <1>2, <1>3, <1>4
<1>6. FirstInquiry(events[j].account) = events[Min(positions)]
  BY DEF FirstInquiry, positions
<1> QED
  BY <1>5, <1>6 DEF Approved

\* When all the accounts are looked up, the proposal is right and complete.
LEMMA ProposalIs ==
  ASSUME GoListInv, status = "checking", checked = Len(allAccounts)
  PROVE  accountsToAdd \subseteq Eligible /\ Eligible \subseteq accountsToAdd \cup golisted
<1>1. /\ events \in Seq(Event) /\ allAccounts \in Seq(Event)
      /\ paginationToken = Len(events)
      /\ DOMAIN allAccounts = 1..Len(allAccounts)
  BY DEF GoListInv
<1>2. ASSUME NEW i \in DOMAIN allAccounts
      PROVE  /\ FirstInquiry(allAccounts[i].account) = allAccounts[i]
             /\ allAccounts[i].account \in Approved
             /\ CountryOf(allAccounts[i]) # None
  <2>1. PICK j \in DOMAIN events : allAccounts[i] = events[j] /\ Counts(events[j]) /\ ~Repeated(j)
    BY DEF GoListInv, Firsts
  <2>2. CountryOf(allAccounts[i]) # None
    BY <1>1 DEF GoListInv
  <2> QED
    BY <1>1, <2>1, <2>2, FirstInquiryIs
<1>3. ASSUME NEW a \in accountsToAdd PROVE a \in Eligible
  <2>1. PICK i \in DOMAIN allAccounts : allAccounts[i].account = a /\ CountryOf(allAccounts[i]) # "US"
    BY DEF accountsToAdd, ToSet
  <2> QED
    BY <1>2, <2>1 DEF Eligible
<1>4. ASSUME NEW a \in Eligible, a \notin golisted PROVE a \in accountsToAdd
  <2>1. a \in Approved /\ CountryOf(FirstInquiry(a)) # "US"
    BY DEF Eligible
  <2>2. PICK j \in DOMAIN events : Counts(events[j]) /\ events[j].account = a
    BY <2>1 DEF Approved
  <2>3. Kept(allAccounts, events[j])
    BY <1>1, <2>2 DEF GoListInv, KeptUpTo
  <2>4. PICK i \in DOMAIN allAccounts : allAccounts[i].account = a
    BY <2>2, <2>3 DEF Kept
  <2>5. CountryOf(allAccounts[i]) # "US" /\ allAccounts[i] \in ToSet(allAccounts)
    BY <1>2, <2>1, <2>4 DEF ToSet
  <2> QED
    BY <1>4, <2>4, <2>5 DEF accountsToAdd
<1> QED
  BY <1>3, <1>4

\* A token that has moved leaves only pages behind that have a new inquiry.
LEMMA TokenAdvances ==
  ASSUME GoListInv, NEW t, t \in (paginationToken + 1)..PageEnd(paginationToken), ~Repeated(t)
  PROVE  Advanced(t)
<1>1. paginationToken \in Nat /\ Len(events) \in Nat /\ PageSize \in Nat \ {0}
  BY GoListAssumption DEF GoListInv
<1> SUFFICES ASSUME NEW u \in 0..(t - 1), u >= paginationToken PROVE PageAdvances(u)
  BY <1>1 DEF GoListInv, Advanced
<1> DEFINE l == Len(events)
<1>2. PageEnd(paginationToken)
        = IF paginationToken + PageSize <= l THEN paginationToken + PageSize ELSE l
  BY <1>1, PageEndIs
<1>5. u \in Nat
  BY <1>1
<1>3. PageEnd(u) = IF u + PageSize <= l THEN u + PageSize ELSE l
  BY <1>1, <1>5, PageEndIs
<1> HIDE DEF l
<1>4. t \in (u + 1)..PageEnd(u)
  BY <1>1, <1>2, <1>3 DEF l
<1> QED
  BY <1>4 DEF PageAdvances

\* What depends on the inquiries alone stays as it is.
LEMMA SameInquiries ==
  ASSUME UNCHANGED events
  PROVE  /\ Eligible' = Eligible
         /\ \A a, n : Firsts(a)' = Firsts(a) /\ KeptUpTo(a, n)' = KeptUpTo(a, n)
         /\ \A n : Advanced(n)' = Advanced(n)
         /\ EveryPageAdvances' = EveryPageAdvances
<1>1. \A j : Repeated(j)' = Repeated(j)
  BY DEF Repeated
<1>2. \A a : FirstInquiry(a)' = FirstInquiry(a)
  BY DEF FirstInquiry
<1>3. Approved' = Approved
  BY DEF Approved
<1>4. Eligible' = Eligible
  BY <1>2, <1>3 DEF Eligible
<1>5. \A n : PageAdvances(n)' = PageAdvances(n)
  BY <1>1 DEF PageAdvances, PageEnd
<1> QED
  BY <1>1, <1>4, <1>5 DEF Firsts, KeptUpTo, Advanced, EveryPageAdvances

\* The page is worked through.
LEMMA FetchKeeps ==
  ASSUME GoListInv, fetchAllAccounts
  PROVE  GoListInv'
<1> DEFINE page == fetchEntities(paginationToken)
           after == workedThrough(page)[Len(page)]
           t == paginationToken
<1>1. Worked(after, Len(page))
  BY PageWorks
<1>2. /\ events \in Seq(Event) /\ t \in 0..Len(events) /\ t \in Nat /\ Len(events) \in Nat
      /\ status = "fetching" /\ checked = 0
  BY DEF GoListInv, fetchAllAccounts
<1>3. /\ PageEnd(t) \in t..Len(events) /\ Len(page) = PageEnd(t) - t
      /\ PageEnd(t) = t => t = Len(events)
      /\ page \in Seq(Event)
  BY <1>2, PageIs
<1>4. /\ allAccounts' = after.accounts /\ paginationToken' = after.token
      /\ status' = IF page = <<>> THEN "checking" ELSE "fetching"
      /\ UNCHANGED <<events, checked, golisted, proposals, proposed>>
  BY DEF fetchAllAccounts
<1> HIDE DEF after, page
<1>5. Firsts(allAccounts') /\ KeptUpTo(allAccounts', after.position) /\ allAccounts' \in Seq(Event)
  BY <1>1, <1>4 DEF Worked, LoopState
<1>6. after.position = PageEnd(t) /\ after.position \in Nat /\ after.token \in Nat
  BY <1>1, <1>2, <1>3 DEF Worked, LoopState
<1>7. after.token \in 0..Len(events) /\ after.token <= after.position /\ Advanced(after.token)
  <2>1. CASE after.token = t
    BY <1>2, <1>3, <1>6, <2>1 DEF GoListInv
  <2>2. CASE after.token # t
    <3>1. after.token \in (t + 1)..PageEnd(t) /\ ~Repeated(after.token)
      BY <1>1, <1>6, <2>2 DEF Worked
    <3> QED
      BY <1>2, <1>3, <1>6, <3>1, TokenAdvances
  <2> QED
    BY <2>1, <2>2
<1>8. KeptUpTo(allAccounts', paginationToken')
  <2> SUFFICES ASSUME NEW j \in DOMAIN events, j <= after.token, Counts(events[j])
               PROVE  Kept(allAccounts', events[j])
    BY <1>4 DEF KeptUpTo
  <2>1. j \in Nat /\ j <= after.position
    BY <1>2, <1>6, <1>7
  <2> QED
    BY <1>5, <2>1 DEF KeptUpTo
<1>9. status' = "checking" => after.token = Len(events)
  <2> SUFFICES ASSUME page = <<>> PROVE after.token = Len(events)
    BY <1>4
  <2>1. PageEnd(t) = t
    BY <1>2, <1>3
  <2>2. after.token = t
    BY <1>1, <1>2, <1>6, <2>1 DEF Worked
  <2> QED
    BY <1>3, <2>1, <2>2
<1>10. /\ events' \in Seq(Event) /\ allAccounts' \in Seq(Event)
       /\ paginationToken' \in 0..Len(events')
       /\ checked' \in 0..Len(allAccounts')
       /\ status' \in {"fetching", "checking"}
       /\ status' = "fetching" => checked' = 0
       /\ status' \in {"checking", "done"} => paginationToken' = Len(events')
       /\ \A i \in 1..checked' : CountryOf(allAccounts'[i]) # None
  BY <1>2, <1>4, <1>5, <1>7, <1>9
<1>11. Firsts(allAccounts)' /\ KeptUpTo(allAccounts, paginationToken)' /\ Advanced(paginationToken)'
  <2>1. Firsts(allAccounts)' /\ KeptUpTo(allAccounts, paginationToken)'
    BY <1>4, <1>5, <1>8 DEF Firsts, KeptUpTo, Repeated
  <2>2. Advanced(paginationToken)'
    BY <1>4, <1>7 DEF Advanced, PageAdvances, PageEnd, Repeated
  <2> QED
    BY <2>1, <2>2
<1>12. OnlyEligibleAreProposed' /\ DoneCoversEveryAccount'
  BY <1>4, <1>10, SameInquiries DEF GoListInv, OnlyEligibleAreProposed, DoneCoversEveryAccount
<1> QED
  BY <1>10, <1>11, <1>12 DEF GoListInv

\* A step that leaves the accounts and the proposals alone.
LEMMA UntouchedKeeps ==
  ASSUME GoListInv,
         UNCHANGED <<events, paginationToken, allAccounts, proposed>>,
         golisted' = golisted \/ status' # "done",
         UNION proposals' \subseteq UNION proposals,
         status' \in {"checking", "done"} => status' = status,
         status' = "fetching" => status = "fetching",
         checked' \in 0..Len(allAccounts), status = "fetching" => checked' = checked,
         \A i \in 1..checked' : CountryOf(allAccounts[i]) # None
  PROVE  GoListInv'
<1>1. OnlyEligibleAreProposed' /\ DoneCoversEveryAccount'
  BY SameInquiries DEF GoListInv, OnlyEligibleAreProposed, DoneCoversEveryAccount
<1>2. Firsts(allAccounts)' /\ KeptUpTo(allAccounts, paginationToken)' /\ Advanced(paginationToken)'
  BY DEF GoListInv, Firsts, KeptUpTo, Advanced, PageAdvances, PageEnd, Repeated
<1> QED
  BY <1>1, <1>2 DEF GoListInv

\* Every step keeps the invariant.
LEMMA GoListStep == GoListInv /\ [Next]_vars => GoListInv'
<1> SUFFICES ASSUME GoListInv, [Next]_vars PROVE GoListInv'
  OBVIOUS
<1> DEFINE Others == <<events, paginationToken, allAccounts, proposed>>
<1>0. /\ checked \in 0..Len(allAccounts) /\ checked \in Nat /\ Len(allAccounts) \in Nat
      /\ allAccounts \in Seq(Event)
      /\ \A i \in 1..checked : CountryOf(allAccounts[i]) # None
  BY DEF GoListInv
<1>1. ASSUME fetchAllAccounts PROVE GoListInv'
  BY <1>1, FetchKeeps
<1>2. ASSUME UnknownCountry PROVE GoListInv'
  BY <1>0, <1>2, UntouchedKeeps DEF UnknownCountry
<1>3. ASSUME ReadGoList PROVE GoListInv'
  <2>1. /\ status = "checking" /\ checked < Len(allAccounts) /\ checked' = checked + 1
        /\ CountryOf(allAccounts[checked + 1]) # None
        /\ UNCHANGED <<events, paginationToken, allAccounts, proposals, proposed, status>>
    BY <1>3 DEF ReadGoList, Checking, current
  <2>2. \A i \in 1..checked' : CountryOf(allAccounts[i]) # None
    BY <1>0, <2>1
  <2>3. checked' \in 0..Len(allAccounts)
    BY <1>0, <2>1
  <2> QED
    BY <2>1, <2>2, <2>3, UntouchedKeeps
<1>4. ASSUME proposeBulkAddToGoList PROVE GoListInv'
  <2>1. /\ status = "checking" /\ checked = Len(allAccounts)
        /\ UNCHANGED <<events, paginationToken, allAccounts, checked, golisted>>
    BY <1>4 DEF proposeBulkAddToGoList
  <2>2. CASE ~hasSafe
    BY <1>0, <1>4, <2>1, <2>2, UntouchedKeeps DEF proposeBulkAddToGoList
  <2>3. CASE hasSafe
    <3>1. /\ proposed' = accountsToAdd /\ status' = "done"
          /\ proposals' = IF accountsToAdd = {} THEN proposals ELSE proposals \cup {accountsToAdd}
      BY <1>4, <2>3 DEF proposeBulkAddToGoList
    <3>2. accountsToAdd \subseteq Eligible /\ Eligible \subseteq accountsToAdd \cup golisted
      BY <2>1, ProposalIs
    <3>3. OnlyEligibleAreProposed'
      BY <2>1, <3>1, <3>2, SameInquiries DEF GoListInv, OnlyEligibleAreProposed
    <3>4. DoneCoversEveryAccount'
      BY <2>1, <3>1, <3>2, SameInquiries DEF DoneCoversEveryAccount
    <3>5. Firsts(allAccounts)' /\ KeptUpTo(allAccounts, paginationToken)' /\ Advanced(paginationToken)'
      BY <2>1 DEF GoListInv, Firsts, KeptUpTo, Advanced, PageAdvances, PageEnd, Repeated
    <3> QED
      BY <2>1, <3>1, <3>3, <3>4, <3>5 DEF GoListInv
  <2> QED
    BY <2>2, <2>3
<1>5. ASSUME FetchFails PROVE GoListInv'
  BY <1>0, <1>5, UntouchedKeeps DEF FetchFails
<1>6. ASSUME retry PROVE GoListInv'
  BY <1>0, <1>6, UntouchedKeeps DEF retry, Checking
<1>7. ASSUME ProposalFails PROVE GoListInv'
  BY <1>0, <1>7, UntouchedKeeps DEF ProposalFails
<1>8. ASSUME Start PROVE GoListInv'
  <2>1. /\ status' = "fetching" /\ paginationToken' = 0 /\ allAccounts' = <<>> /\ checked' = 0
        /\ golisted' = {} /\ proposed' = {} /\ UNCHANGED <<events, proposals>>
    BY <1>8 DEF Start
  <2>2. events \in Seq(Event) /\ Len(events) \in Nat
    BY DEF GoListInv
  <2>3. OnlyEligibleAreProposed' /\ DoneCoversEveryAccount'
    BY <2>1, SameInquiries DEF GoListInv, OnlyEligibleAreProposed, DoneCoversEveryAccount
  <2>4. Firsts(allAccounts)' /\ KeptUpTo(allAccounts, paginationToken)' /\ Advanced(paginationToken)'
    BY <2>1, <2>2 DEF Firsts, KeptUpTo, Advanced
  <2> QED
    BY <2>1, <2>2, <2>3, <2>4 DEF GoListInv
<1>9. ASSUME bulkAddToGoList PROVE GoListInv'
  BY <1>0, <1>9, UntouchedKeeps DEF bulkAddToGoList
<1>10. ASSUME DropProposal PROVE GoListInv'
  BY <1>0, <1>10, UntouchedKeeps DEF DropProposal
<1>11. ASSUME removeFromGoList PROVE GoListInv'
  BY <1>0, <1>11, UntouchedKeeps DEF removeFromGoList
<1>12. ASSUME UNCHANGED vars PROVE GoListInv'
  BY <1>0, <1>12, UntouchedKeeps DEF vars
<1> QED
  BY <1>1, <1>2, <1>3, <1>4, <1>5, <1>6, <1>7, <1>8, <1>9, <1>10, <1>11, <1>12
     DEF Next, Script, Failure

LEMMA GoListInit == Init => GoListInv
<1> SUFFICES ASSUME Init PROVE GoListInv
  OBVIOUS
<1>1. /\ paginationToken = 0 /\ allAccounts = <<>> /\ checked = 0 /\ proposals = {}
      /\ proposed = {} /\ status = "idle"
  BY DEF Init
<1>2. events \in Seq(Event) /\ Len(events) \in Nat
  <2>1. EventLists \subseteq Seq(Event)
    BY GoListAssumption, Zenon DEF Event
  <2>2. events \in EventLists
    BY DEF Init
  <2> QED
    BY <2>1, <2>2
<1>3. Firsts(allAccounts) /\ KeptUpTo(allAccounts, paginationToken) /\ Advanced(paginationToken)
  BY <1>1, <1>2 DEF Firsts, KeptUpTo, Advanced
<1> QED
  BY <1>1, <1>2, <1>3 DEF GoListInv, OnlyEligibleAreProposed, DoneCoversEveryAccount

\* The script's memory is right at each step, for any inquiries, page size,
\* failures and runs: every account is kept once its first approved inquiry is
\* behind the token, and with that inquiry.
THEOREM GoListInvariant == Spec => []GoListInv
BY GoListInit, GoListStep, PTL DEF Spec

\* Whoever is proposed to the safe, or waits there, is eligible: of several
\* inquiries on several pages, met again when a page is fetched again, the first
\* approved one decides.
THEOREM OnlyEligible == Spec => []OnlyEligibleAreProposed
<1>1. GoListInv => OnlyEligibleAreProposed
  BY DEF GoListInv
<1> QED
  BY <1>1, GoListInvariant, PTL

\* A run that ends with a proposal has missed nobody.
THEOREM NobodyIsMissed == Spec => []DoneCoversEveryAccount
<1>1. GoListInv => DoneCoversEveryAccount
  BY DEF GoListInv
<1> QED
  BY <1>1, GoListInvariant, PTL

\* Every account with an approved inquiry is kept, with the first of them.
AllAreKept ==
  status \in {"checking", "done"} => \A a \in Approved : FirstInquiry(a) \in ToSet(allAccounts)

\* When the script gets to its lookups, no account was lost between pages and none
\* is kept with a later inquiry, although the token is not moved by a repeated one
\* and pages overlap; and it gets there only if every page that can be fetched has
\* an inquiry that is not repeated (the safety part of FetchingEnds).
THEOREM PagesAdvanced == Spec => [](AllAreKept /\ FetchedAllPages)
<1>1. GoListInv => FetchedAllPages
  BY DEF GoListInv, FetchedAllPages, EveryPageAdvances, Advanced, PageAdvances, PageEnd
<1>2. ASSUME GoListInv PROVE AllAreKept
  <2> SUFFICES ASSUME status \in {"checking", "done"}, NEW a \in Approved
               PROVE  FirstInquiry(a) \in ToSet(allAccounts)
    BY DEF AllAreKept
  <2>1. events \in Seq(Event) /\ paginationToken = Len(events)
    BY <1>2 DEF GoListInv
  <2>2. PICK j \in DOMAIN events : Counts(events[j]) /\ events[j].account = a
    BY DEF Approved
  <2>3. Kept(allAccounts, events[j])
    BY <1>2, <2>1, <2>2 DEF GoListInv, KeptUpTo
  <2>4. PICK i \in DOMAIN allAccounts : allAccounts[i].account = a
    BY <2>2, <2>3 DEF Kept
  <2>5. PICK k \in DOMAIN events : allAccounts[i] = events[k] /\ Counts(events[k]) /\ ~Repeated(k)
    BY <1>2 DEF GoListInv, Firsts
  <2>6. FirstInquiry(a) = allAccounts[i]
    BY <2>1, <2>4, <2>5, FirstInquiryIs
  <2> QED
    BY <2>6 DEF ToSet
<1> QED
  BY <1>1, <1>2, GoListInvariant, PTL
=============================================================================
