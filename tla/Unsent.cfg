\* A report that passes the checks may never be queued.
SPECIFICATION Spec
CONSTANTS
  listedTape = listedTape
  otherTape = otherTape
  Tapes <- MCTapes
  Listed <- MCListed
  Readings <- MCReadings
  QuartzType <- MCQuartzType
  Rssis <- MCRssis
  HoldSecs = 1
  MaxTime = 3
  MaxSeen = 3
INVARIANT
  ProcessedIsSent
CHECK_DEADLOCK FALSE
