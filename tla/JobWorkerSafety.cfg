\* Two blocks: one job running or waiting while another one is being queued.
CONSTANTS
  Block = {b1, b2}
  NoBlock = NoBlock
  InputSent = {TRUE, FALSE}
  WindowCloses = TRUE
SPECIFICATION FairSpec
INVARIANTS
  TypeOK
  ListAccessExclusive
  HandlesOutliveWorker
  LockHandleValid
  HeapSafeUntilStop
  DoneMeansIdle
PROPERTIES
  NoStartAfterStop
  ImplementsQueue
  QueuedJobServed
  OrphanExits
