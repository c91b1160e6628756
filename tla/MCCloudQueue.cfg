\* The queue hand-over and the shutdown, every property that holds.
SPECIFICATION FairSpec
CONSTANTS
  MaxAdverts = 2
  MaxSignals = 2
INVARIANTS
  TypeOK
  QueueExclusive
  NoLostPacketWakeup
  FifoNoLoss
  WholeBursts
  RequestNumbers
PROPERTIES
  ShutdownProgress
  ShutdownUnlessMissed
  ChannelSpec
\* The program really stops, and it may also hang: see ShutdownHang.cfg.
CHECK_DEADLOCK FALSE
