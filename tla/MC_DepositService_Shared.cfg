SPECIFICATION Spec
CONSTANTS
  t1 = t1
  t2 = t2
  Threads <- MCThreads
  IDs <- MCIDs
  VideoIDs <- MCVideos
  MaxDeletes = 0
INVARIANTS DepositOnline
CHECK_DEADLOCK FALSE
