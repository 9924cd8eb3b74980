\* Times in the proportion of the program (2 s to 300 ms), three records, one foreign publication, one lost connection.
CONSTANTS
  None = None
  Topic <- MCTopic
  Payload <- MCPayload
  Start <- MCStart
  TotalTime = 12
  Grace = 2
  MaxLive = 1
  Faulty = TRUE
SPECIFICATION FairSpec
INVARIANTS TypeOK MissesExplained
PROPERTIES ScanEnds ScanImplemented
