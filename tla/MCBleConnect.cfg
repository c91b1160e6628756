\* The scan thread's marks and the connect thread's attempts.
SPECIFICATION FairSpec
CONSTANTS
  ConfigTapes <- MCConfigTapes
  Addresses = {1, 2, 3}
  Delay = 1
  BackOffStep = 2
  BackOffCap = 3
  FdLimit = 4
  MaxTime = 2
INVARIANTS
  TypeOK
  CooldownKept
  SocketsAccounted
PROPERTIES
  MarkAttempted
  EndsAfterRound
\* The thread sleeps when no tape is heard.
CHECK_DEADLOCK FALSE
