----------------------------- MODULE MCUpgrades -----------------------------
EXTENDS Upgrades, TLC

MCEffect == [contract : Contracts, version : Versions, by : Tools]
\* The third version can follow the second one, not the first one.
MCCompatible == {<<1, 1>>, <<2, 2>>, <<3, 3>>, <<1, 2>>, <<2, 3>>}
\* Contracts and owners are model values, and nothing tells them apart.
MCSymmetry == Permutations(Contracts) \cup Permutations(SafeOwners)
=============================================================================
