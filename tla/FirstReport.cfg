\* The first report of a tape may be dropped as a duplicate.
SPECIFICATION Spec
CONSTANTS
  listedTape = listedTape
  otherTape = otherTape
  Tapes <- MCTapes
  Listed <- MCListed
  Readings <- MCReadings
  QuartzType <- MCQuartzType
  Rssis <- MCRssis
  HoldSecs = 1
  MaxTime = 3
  MaxSeen = 3
INVARIANT
  FirstReportProcessed
CHECK_DEADLOCK FALSE
