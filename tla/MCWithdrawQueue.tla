-------------------------- MODULE MCWithdrawQueue --------------------------
(* Instances of WithdrawQueue for TLC.  Four base units make one RWA, two   *)
(* make one USDC, and a share price of 4 is one USDC per RWA: conversions   *)
(* round, as 10^18 and 10^6 do, at numbers TLC can enumerate.               *)
EXTENDS WithdrawQueue

State(usdc, vault, price, paused) ==
  [usdc |-> usdc, vault |-> vault, sharePrice |-> price, paused |-> paused]

\* Dry; cash for one entry; cash split with the vault after interest;
\* cash after a writedown; paused with cash.
MCIndexPoolStates ==
  {State(0, 0, 4, FALSE), State(1, 3, 5, FALSE), State(3, 0, 3, FALSE), State(2, 0, 4, TRUE)}
MCFewPoolStates == {State(0, 0, 4, FALSE), State(0, 4, 5, FALSE)}
MCDryThenOne == {State(0, 0, 4, FALSE), State(0, 1, 4, FALSE)}
MCDryThenTwo == {State(0, 0, 4, FALSE), State(0, 2, 4, FALSE)}

Tier(stake, fee) == [veNAOSAmount |-> stake, fee |-> fee]
MCFeeTiers == {Tier(0, 3), Tier(1, 1), Tier(1, 2), Tier(2, 1), Tier(2, 2)}
============================================================================
