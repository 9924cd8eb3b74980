\* Every update ends, and the service with it; a development build, no network fault.
CONSTANTS
  p1 = p1
  p2 = p2
  Proc = {p1, p2}
  NoProc = NoProc
  None = None
  Torn = Torn
  MaxUint64 = 9
  Binary <- MCBinary
  Reports <- MCDevReports
  Releases <- MCShortReleases
  Installed = "b120"
  Faults = {"disk", "systemctl", "hang", "cancel", "crash"}
SPECIFICATION FairSpec
PROPERTIES Terminates ServiceSettles
