--------------------------- MODULE MCEnsurePerms ----------------------------
(* Instances of EnsurePerms for TLC: the contracts the script names when the  *)
(* environment names none.                                                    *)
EXTENDS EnsurePerms

MCContracts == <<"GoldfinchConfig", "GoldfinchFactory", "Fidu">>
\* All of them have a deployment record, or one does not.
MCDeployments ==
  {{"GoldfinchConfig", "CreditLineFactory", "Fidu"}, {"GoldfinchConfig", "Fidu"}}
=============================================================================
