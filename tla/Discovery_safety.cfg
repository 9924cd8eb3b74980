\* Two installations, restarts with other configurations, one fault.
CONSTANTS
  h1 = h1
  h2 = h2
  None = None
  Host = {h1, h2}
  Device <- MCDevice
  SafeId = {"a", "a2", "b"}
  Order <- MCOrder
  Configs <- MCTwoConfigs
  Initial <- MCInitial
  Every = 2
  MaxFaults = 1
SPECIFICATION Spec
INVARIANTS TypeOK StaleGone
PROPERTIES OthersPreserved DesiredNeverCleared
