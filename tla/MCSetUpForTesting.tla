-------------------------- MODULE MCSetUpForTesting -------------------------
(* Instances of the deployment scripts for TLC.                               *)
EXTENDS SetUpForTesting

\* A local chain, where the deployer is another account than the owner; one
\* with a known NAOS token, where they are the same.
MCChains ==
  {[knownTokens |-> {}, deployerIsOwner |-> FALSE],
   [knownTokens |-> {"TestNAOS"}, deployerIsOwner |-> TRUE]}

\* Releases that change no more than the strategies, a library, a proxy and
\* what a run cannot register again.
MCReleases ==
  {Strategies, Strategies \cup {"Accountant"}, Strategies \cup {"RWA", "TranchingLogic"},
   {"TestUSDC", "NAOSConfig"}}
=============================================================================
