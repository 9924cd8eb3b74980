\* Two updates started by hand at about the same time, no fault at all.
CONSTANTS
  p1 = p1
  p2 = p2
  Proc = {p1, p2}
  NoProc = NoProc
  None = None
  Torn = Torn
  MaxUint64 = 9
  Binary <- MCBinary
  Reports <- MCReports
  Releases <- MCShortReleases
  Installed = "b120"
  Faults = {}
SPECIFICATION Spec
INVARIANT CurrentLeftAlone
