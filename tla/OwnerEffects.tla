---------------------------- MODULE OwnerEffects ----------------------------
(* What the migration scripts promise about the transactions of the protocol  *)
(* owner: effects are collected, submitted together and carried out later,    *)
(* each submission in the order in which its effects were added and each      *)
(* effect at most once per submission.  Where the owner is a multisig, a      *)
(* submission is carried out as a whole or not at all and nothing else is.    *)
EXTENDS Integers, Sequences

CONSTANT Effect     \* transactions of the owner

VARIABLES
  asWhole,     \* the owner is a multisig
  collected,   \* added, not forgotten
  submitted,   \* for each submission, what may still be carried out
  carriedOut   \* the owner's transactions, in the order of the chain

Init ==
  /\ asWhole \in BOOLEAN
  /\ collected = <<>> /\ submitted = <<>> /\ carriedOut = <<>>

Collect ==
  /\ collected' \in Seq(Effect)
  /\ Len(collected') >= Len(collected)
  /\ \A i \in DOMAIN collected : collected'[i] = collected[i]
  /\ UNCHANGED <<asWhole, submitted, carriedOut>>
\* The collection lives in the memory of a script.
Forget == collected' = <<>> /\ UNCHANGED <<asWhole, submitted, carriedOut>>

Submit ==
  /\ \/ submitted' = Append(submitted, collected)
     \/ \E effect \in Effect : submitted' = Append(submitted, <<effect>>)
  /\ UNCHANGED <<asWhole, collected, carriedOut>>

CarryOut(i) ==
  /\ carriedOut' = carriedOut \o submitted[i]
  /\ submitted' = [submitted EXCEPT ![i] = <<>>]
  /\ UNCHANGED <<asWhole, collected>>
CarryOutNext(i) ==
  /\ ~asWhole /\ submitted[i] # <<>>
  /\ carriedOut' = Append(carriedOut, Head(submitted[i]))
  /\ submitted' = [submitted EXCEPT ![i] = Tail(submitted[i])]
  /\ UNCHANGED <<asWhole, collected>>
\* A submission that the signers reject.
Drop(i) ==
  /\ submitted' = [submitted EXCEPT ![i] = <<>>]
  /\ UNCHANGED <<asWhole, collected, carriedOut>>
\* An owner that is an account may be used without a submission.
Direct ==
  /\ ~asWhole
  /\ \E effect \in Effect : carriedOut' = Append(carriedOut, effect)
  /\ UNCHANGED <<asWhole, collected, submitted>>

Next ==
  \/ Collect \/ Forget \/ Submit \/ Direct
  \/ \E i \in DOMAIN submitted : CarryOut(i) \/ CarryOutNext(i) \/ Drop(i)
vars == <<asWhole, collected, submitted, carriedOut>>
Spec == Init /\ [][Next]_vars
=============================================================================
