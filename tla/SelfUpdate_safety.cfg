\* Two overlapping updates, every kind of fault.
CONSTANTS
  p1 = p1
  p2 = p2
  Proc = {p1, p2}
  NoProc = NoProc
  None = None
  Torn = Torn
  MaxUint64 = 9
  Binary <- MCBinary
  Reports <- MCReports
  Releases <- MCReleases
  Installed = "b120"
  Faults = {"net", "disk", "systemctl", "hang", "cancel", "crash"}
SPECIFICATION Spec
INVARIANTS TypeOK InstalledIsReleased OutcomeMatchesService DivergenceExplained BackupExplained
PROPERTIES NoDowngrade BusyOnlyWhileRunning Transaction
