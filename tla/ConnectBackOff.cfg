\* Finding: a failed attempt is not followed by a back-off.
SPECIFICATION FairSpec
CONSTANTS
  ConfigTapes <- MCConfigTapes
  Addresses = {1, 2, 3}
  Delay = 1
  BackOffStep = 2
  BackOffCap = 3
  FdLimit = 5
  MaxTime = 2
PROPERTY FailureBacksOff
CHECK_DEADLOCK FALSE
