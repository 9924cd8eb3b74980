\* One update, no fault but a signal to the update command.
CONSTANTS
  p1 = p1
  p2 = p2
  Proc = {p1}
  NoProc = NoProc
  None = None
  Torn = Torn
  MaxUint64 = 9
  Binary <- MCBinary
  Reports <- MCReports
  Releases <- MCShortReleases
  Installed = "b120"
  Faults = {"cancel"}
SPECIFICATION FairSpec
PROPERTY PreviousRestarted
