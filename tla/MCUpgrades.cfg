SPECIFICATION Spec
CONSTANTS
  Contracts = {RWA, IndexPool}
  MaxVersion = 3
  Effect <- MCEffect
  Compatible <- MCCompatible
  SafeOwners = {o1, o2}
  Threshold = 2
  MaxSubmissions = 2
  MaxRuns = 2
  MaxInterruptions = 1
SYMMETRY MCSymmetry
INVARIANT RecordLeadsChain
INVARIANT ExecutedUpgradesAreCompatible
PROPERTY RunsFinishTheJob
PROPERTY ImplementsOwnerEffects
CHECK_DEADLOCK FALSE
