\* Two installers, an update, and the hosts they meet; installers stop when they are done.
CONSTANTS
  None = None
  Partial = Partial
  Root = "root"
  Old = "old"
  Updated = "updated"
  Existing = "existing"
  Odd = "odd"
  Installer = {"i", "j"}
  Hosts <- MCHosts
  MaxFaults = 2
  MaxKills = 1
SPECIFICATION FairSpec
INVARIANTS TypeOK Consent EchoKept RolledBack Settled NoLeftovers
PROPERTIES ConfigNeverReplaced InstallerEnds
CHECK_DEADLOCK FALSE
