\* Two checkers, a power meter and bad machine ids, each on a host of its own.
CONSTANTS
  Unreadable = Unreadable
  Invalid = Invalid
  Omitted = Omitted
  MachineId <- MCMachineId
  ExplicitId <- MCExplicitId
  UnsafeId = {"nas/1"}
  SharedId = "zimaos-monitor"
  Range = 2
  Word = 16
  MaxEnergy = 3
  MaxTime = 2
  Checker <- MCChecker
  Feed <- MCFeed
  Disk <- MCDisk
  Underscored <- MCUnderscored
  Hosts <- MCHosts
  Every = 2
  MaxCrashes = 1
SPECIFICATION FairSpec
INVARIANTS TypeOK PairConsistent NeverBehindNetwork IdentitySound PowerTrue
PROPERTIES NeverBackwards Shutdown KeepsCollecting
