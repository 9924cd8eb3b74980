\* A disk with a space in its name, and nothing that goes wrong.
CONSTANTS
  Unreadable = Unreadable
  Invalid = Invalid
  Omitted = Omitted
  MachineId <- MCMachineId
  ExplicitId <- MCExplicitId
  UnsafeId = {"nas/1"}
  SharedId = "zimaos-monitor"
  Range = 2
  Word = 16
  MaxEnergy = 3
  MaxTime = 2
  Checker <- MCChecker
  Feed <- MCFeed
  Disk <- MCDisk
  Underscored <- MCUnderscored
  Hosts <- MCSpaced
  Every = 2
  MaxCrashes = 0
SPECIFICATION Spec
INVARIANT DiskValuesReach
