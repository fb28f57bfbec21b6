SPECIFICATION FairSetUpSpec
CONSTANTS
  Chains <- MCChains
  Scripts = {"baseDeploy", "baseDeploy18", "updateConfigs"}
  Releases <- MCReleases
  MaxRuns = 2
  MaxReleases = 1
  MaxInterruptions = 1
  MaxSetUps = 2
  MaxOtherBlocks = 1
INVARIANTS
  DeployedSystemIsWired
  CopiedAddressesStayRegistered
PROPERTIES
  FirstDeployCompletes
  SetUpCompletes
CHECK_DEADLOCK FALSE
