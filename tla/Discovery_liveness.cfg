\* One installation, two faults.
CONSTANTS
  h1 = h1
  h2 = h2
  None = None
  Host = {h1}
  Device <- MCDevice
  SafeId = {"a", "b"}
  Order <- MCOrder
  Configs <- MCOneConfigs
  Initial <- MCInitial
  Every = 2
  MaxFaults = 2
SPECIFICATION FairSpec
PROPERTY EventuallyPublished
