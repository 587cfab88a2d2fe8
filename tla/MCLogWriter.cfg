\* Batches of two; a queue of one batch with one live stream, and queues of one
\* and of three records without; requests may outlive Shutdown.
CONSTANTS
  p1 = p1
  p2 = p2
  s1 = s1
  Requests = {p1, p2}
  Subscribers = {s1}
  QueueCapacities = {1, 2, 3}
  FlushBatch = 2
  SubBuffer = 1
  FewRecords = 3
  MaxRecords = 4
SPECIFICATION MCSpec
INVARIANTS TypeOK NoLostWakeup NoSendOnClosed DropsOldest NothingLeftBehind
PROPERTIES ImplementsLogPipeline EventuallyFlushed CloseReturns
CHECK_DEADLOCK FALSE
