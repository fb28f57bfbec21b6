SPECIFICATION FairSpec
CONSTANTS
  CONTRACTS <- MCContracts
  Deployments <- MCDeployments
  ProtocolOwners = {"owner_key", "gf_deployer", "safe"}
  MaxInterruptions = 2
INVARIANTS
  EveryRoleIsHeld
  DoneIsHandedOver
PROPERTY
  HandOverCompletes
CHECK_DEADLOCK FALSE
