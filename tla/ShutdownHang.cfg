\* A SIGINT whose notify_all is missed leaves the program hanging.
SPECIFICATION FairSpec
CONSTANTS
  MaxAdverts = 1
  MaxSignals = 1
PROPERTY
  ShutdownCompletes
CHECK_DEADLOCK FALSE
