\* The cloud thread with its requests: handle, URL, failures, end-to-end order.
SPECIFICATION UplinkFairSpec
CONSTANTS
  Requests <- MCRequests
  NoRequest = NoRequest
  BaseLens <- MCBaseLens
  TextLens <- MCTextLens
  MaxAdverts = 1
  MaxSignals = 1
INVARIANTS
  TypeOK
  HandleDiscipline
  OwnRequest
  UrlFits
  SentInOrder
  PacketsAccounted
PROPERTIES
  QueueSpec
\* The program stops after a SIGINT.
CHECK_DEADLOCK FALSE
