------------------------------- MODULE GoList -------------------------------
(* The script personaGolist.ts: it fetches the approved inquiries of Persona  *)
(* page after page, reads of every account whether it is on the go list, and  *)
(* proposes to the safe to add the accounts outside of the US that are not.   *)
(* Proposals are executed or dropped later, by the owners of the safe.        *)
(* Abstracted: the rate limit, the csv file, e-mails and inquiry ids.         *)
EXTENDS Integers, Sequences, SequencesExt, FiniteSetsExt

CONSTANTS Accounts,       \* reference ids: the addresses of the accounts
          EventLists,     \* what Persona may hold, in the order it is listed
          PageSize,       \* events in a full page
          MaxRuns, MaxRemovals

None == "none"
Countries == {"US", "DE"}
maxRetries == 3

ASSUME GoListAssumption ==
  /\ None \notin Accounts
  /\ EventLists \subseteq Seq([account : Accounts \cup {None}, status : {"approved", "other"},
                               countryCode : Countries \cup {None},
                               verificationCountryCode : Countries \cup {None}])
  /\ PageSize \in Nat \ {0}
  /\ {MaxRuns, MaxRemovals} \subseteq Nat

VARIABLES
  events,           \* the inquiries, fixed while the script runs
  hasSafe,          \* the chain has a safe in SAFE_CONFIG
  paginationToken,  \* the position of the event the next page starts after
  allAccounts,      \* the events kept, one for each account, in order
  checked,          \* how many of them were looked up on the go list
  retries,          \* failures of the lookup at hand
  golisted,         \* accounts that were found on the go list
  proposals,        \* sets of accounts that wait for the safe
  proposed,         \* what the run proposed
  goList, removed,  \* the go list of the config, accounts its owner took off
  status, runs

vars == <<events, hasSafe, paginationToken, allAccounts, checked, retries, golisted, proposals,
          proposed, goList, removed, status, runs>>

----------------------------------------------------------------------------
(* Fetching.                                                                  *)

\* As if a page began one event too late.
fetchEntitiesSkipping(token) ==
  SubSeq(events, token + 2, Min({token + PageSize, Len(events)}))
fetchEntities(token) == SubSeq(events, token + 1, Min({token + PageSize, Len(events)}))

Kept(accounts, e) == \E i \in DOMAIN accounts : accounts[i].account = e.account
Counts(e) == e.account # None /\ e.status = "approved"

\* As if the token were only taken from approved inquiries.
processEventApprovedOnly(state, e) ==
  IF ~Counts(e) \/ Kept(state.accounts, e) THEN [state EXCEPT !.position = @ + 1]
  ELSE [accounts |-> Append(state.accounts, e), position |-> state.position + 1,
        token |-> state.position + 1]
\* As if a later inquiry replaced an earlier one.
processEventLastWins(state, e) ==
  IF Counts(e) /\ Kept(state.accounts, e)
  THEN [state EXCEPT !.position = @ + 1,
                     !.accounts = Append(SelectSeq(@, LAMBDA k : k.account # e.account), e)]
  ELSE [accounts |-> IF Counts(e) THEN Append(state.accounts, e) ELSE state.accounts,
        position |-> state.position + 1, token |-> state.position + 1]

\* One turn of the loop over a page.  An account that was met before is skipped
\* with the assignment of the token.
processEvent(state, e) ==
  IF Counts(e) /\ Kept(state.accounts, e) THEN [state EXCEPT !.position = @ + 1]
  ELSE [accounts |-> IF Counts(e) THEN Append(state.accounts, e) ELSE state.accounts,
        position |-> state.position + 1, token |-> state.position + 1]

\* The loop over a page, after n turns.
workedThrough(page) ==
  LET after[n \in 0..Len(page)] ==
        IF n = 0
        THEN [accounts |-> allAccounts, position |-> paginationToken, token |-> paginationToken]
        ELSE processEvent(after[n - 1], page[n])
  IN  after

\* A page that is answered is worked through at once; an empty one is the last.
fetchAllAccounts ==
  /\ status = "fetching"
  /\ LET page == fetchEntities(paginationToken)
         after == workedThrough(page)[Len(page)]
     IN /\ allAccounts' = after.accounts
        /\ paginationToken' = after.token
        /\ status' = IF page = <<>> THEN "checking" ELSE "fetching"
  /\ UNCHANGED <<events, hasSafe, checked, retries, golisted, proposals, proposed, goList, removed,
                 runs>>

\* fetchEntities catches its error and answers nothing, which has no data.
FetchFails ==
  /\ status = "fetching"
  /\ status' = "aborted"
  /\ UNCHANGED <<events, hasSafe, paginationToken, allAccounts, checked, retries, golisted,
                 proposals, proposed, goList, removed, runs>>

----------------------------------------------------------------------------
(* The country and the go list of the accounts, one after the other.          *)

CountryOf(e) == IF e.countryCode # None THEN e.countryCode ELSE e.verificationCountryCode
current == allAccounts[checked + 1]
Checking == status = "checking" /\ checked < Len(allAccounts)

\* asNonNullable throws before the skip of unknown countries is reached.
UnknownCountry ==
  /\ Checking /\ CountryOf(current) = None
  /\ status' = "aborted"
  /\ UNCHANGED <<events, hasSafe, paginationToken, allAccounts, checked, retries, golisted,
                 proposals, proposed, goList, removed, runs>>

ReadGoList ==
  /\ Checking /\ CountryOf(current) # None
  /\ golisted' = golisted \cup ({current.account} \cap goList)
  /\ checked' = checked + 1 /\ retries' = 0
  /\ UNCHANGED <<events, hasSafe, paginationToken, allAccounts, proposals, proposed, goList,
                 removed, status, runs>>

retry ==
  /\ Checking /\ CountryOf(current) # None
  /\ IF retries < maxRetries THEN retries' = retries + 1 /\ UNCHANGED status
     ELSE status' = "aborted" /\ UNCHANGED retries
  /\ UNCHANGED <<events, hasSafe, paginationToken, allAccounts, checked, golisted, proposals,
                 proposed, goList, removed, runs>>

----------------------------------------------------------------------------
(* The proposal.                                                              *)

accountsToAdd ==
  {e.account : e \in {k \in ToSet(allAccounts) : CountryOf(k) # "US"}} \ golisted

\* The proposer needs a safe even when there is nothing to propose.
proposeBulkAddToGoList ==
  /\ status = "checking" /\ checked = Len(allAccounts)
  /\ IF hasSafe
     THEN /\ proposed' = accountsToAdd
          /\ proposals' = IF accountsToAdd = {} THEN proposals
                          ELSE proposals \cup {accountsToAdd}
          /\ status' = "done"
     ELSE status' = "aborted" /\ UNCHANGED <<proposed, proposals>>
  /\ UNCHANGED <<events, hasSafe, paginationToken, allAccounts, checked, retries, golisted, goList,
                 removed, runs>>

ProposalFails ==
  /\ status = "checking" /\ checked = Len(allAccounts)
  /\ status' = "aborted"
  /\ UNCHANGED <<events, hasSafe, paginationToken, allAccounts, checked, retries, golisted,
                 proposals, proposed, goList, removed, runs>>

----------------------------------------------------------------------------
(* The operator, the owners of the safe and the owner of the go list.         *)

Start ==
  /\ status \in {"idle", "done", "aborted"} /\ runs < MaxRuns
  /\ runs' = runs + 1 /\ status' = "fetching"
  /\ paginationToken' = 0 /\ allAccounts' = <<>> /\ checked' = 0 /\ retries' = 0
  /\ golisted' = {} /\ proposed' = {}
  /\ UNCHANGED <<events, hasSafe, proposals, goList, removed>>

bulkAddToGoList ==
  \E p \in proposals :
    /\ goList' = goList \cup p
    /\ proposals' = proposals \ {p}
    /\ UNCHANGED <<events, hasSafe, paginationToken, allAccounts, checked, retries, golisted,
                   proposed, removed, status, runs>>
DropProposal ==
  \E p \in proposals :
    /\ proposals' = proposals \ {p}
    /\ UNCHANGED <<events, hasSafe, paginationToken, allAccounts, checked, retries, golisted,
                   proposed, goList, removed, status, runs>>

removeFromGoList ==
  /\ Len(removed) < MaxRemovals
  /\ \E a \in goList : goList' = goList \ {a} /\ removed' = Append(removed, a)
  /\ UNCHANGED <<events, hasSafe, paginationToken, allAccounts, checked, retries, golisted,
                 proposals, proposed, status, runs>>

Init ==
  /\ events \in EventLists /\ hasSafe \in BOOLEAN
  /\ \E a \in Accounts : goList \in {{}, {a}}
  /\ paginationToken = 0 /\ allAccounts = <<>> /\ checked = 0 /\ retries = 0
  /\ golisted = {} /\ proposals = {} /\ proposed = {} /\ removed = <<>>
  /\ status = "idle" /\ runs = 0

Script == fetchAllAccounts \/ UnknownCountry \/ ReadGoList \/ proposeBulkAddToGoList
Failure == FetchFails \/ retry \/ ProposalFails
Next == Script \/ Failure \/ Start \/ bulkAddToGoList \/ DropProposal \/ removeFromGoList
Spec == Init /\ [][Next]_vars
\* A script that was started runs on until it ends; no request has to fail.
FairSpec == Spec /\ WF_vars(Script)

----------------------------------------------------------------------------
(* Properties.                                                                *)

FirstInquiry(a) ==
  LET positions == {i \in DOMAIN events : Counts(events[i]) /\ events[i].account = a}
  IN events[Min(positions)]
Approved == {events[i].account : i \in {j \in DOMAIN events : Counts(events[j])}}
Eligible == {a \in Approved : CountryOf(FirstInquiry(a)) \notin {"US", None}}

\* Whatever the safe executes and however late, whoever it adds to the go list
\* has an approved inquiry, and by the first of them lives outside of the US, in
\* a country that is known.
OnlyEligibleAreProposed == proposed \cup UNION proposals \subseteq Eligible

\* A run that ends has, page limits, retries and repeated inquiries
\* notwithstanding, proposed every account it should or found it listed.
DoneCoversEveryAccount == status = "done" => Eligible \subseteq proposed \cup golisted

\* An inquiry of an account that had one already is skipped with the assignment
\* of the token, so a page of nothing else is fetched again and again.
Repeated(i) ==
  Counts(events[i]) /\ \E j \in 1..(i - 1) : Counts(events[j]) /\ events[j].account = events[i].account
EveryPageAdvances ==
  \A token \in 0..(Len(events) - 1) :
    \E i \in (token + 1)..Min({token + PageSize, Len(events)}) : ~Repeated(i)

\* The script gets through the pages, whatever of them is not approved or has
\* no account, exactly when no page has only repeated inquiries; the last page
\* is short, so that a repeated inquiry at the end is enough to keep it there.
FetchedAllPages == status \in {"checking", "done"} => EveryPageAdvances
FetchingEnds ==
  /\ (status = "fetching" /\ EveryPageAdvances) ~> status # "fetching"
  /\ []FetchedAllPages
=============================================================================
