\* The statistics and the duplicates check.
SPECIFICATION Spec
CONSTANTS
  listedTape = listedTape
  otherTape = otherTape
  Tapes <- MCTapes
  Listed <- MCListed
  Readings <- MCReadings
  QuartzType <- MCQuartzType
  Rssis <- MCRssis
  HoldSecs = 1
  MaxTime = 3
  MaxSeen = 3
INVARIANTS
  TypeOK
  AverageWithinHeard
PROPERTIES
  HoldOff
  DropsAreDuplicates
CHECK_DEADLOCK FALSE
