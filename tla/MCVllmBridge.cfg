SPECIFICATION FairSpec
CONSTANTS
  m1 = m1
  t2 = t2
  Threads <- MCThreads
  Main = m1
  NoThread = NoThread
  MaxId = 3
  Capacity = 2
  HasTimeout = TRUE
INVARIANTS
  TypeOK
  ReplyIsOwn
  WorkerAligned
  FinalizerGuardsWorker
PROPERTIES
  NoSendAfterClose
  LockReleased
  OrderlyExitStopsWorker
  OrphanStops
  ServiceSpec
