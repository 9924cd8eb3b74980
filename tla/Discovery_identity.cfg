\* One installation restarted under another device id, no fault.
CONSTANTS
  h1 = h1
  h2 = h2
  None = None
  Host = {h1}
  Device <- MCDevice
  SafeId = {"a", "a2", "b"}
  Order <- MCOrder
  Configs <- MCMovedConfigs
  Initial <- MCEmptyInitial
  Every = 2
  MaxFaults = 0
SPECIFICATION Spec
INVARIANT OldIdentityGone
