------------------------------ MODULE MCGoList ------------------------------
(* Instances of GoList for TLC.                                               *)
EXTENDS GoList

Event(account, status_, country, verification) ==
  [account |-> account, status |-> status_, countryCode |-> country,
   verificationCountryCode |-> verification]
Events ==
  {Event("a", "approved", "DE", "US"), Event("a", "approved", None, "US"),
   Event("b", "approved", None, "DE"), Event("b", "other", "US", None),
   Event("b", "approved", None, None), Event(None, "approved", "DE", "DE")}

MCEventLists == SeqOf(Events, 4)
=============================================================================
