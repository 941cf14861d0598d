SPECIFICATION FairSpec
CONSTANTS
  t1 = t1
  t2 = t2
  Threads <- MCThreads
  IDs <- MCIDs
  VideoIDs <- MCVideos
  MaxDeletes = 2
INVARIANTS TypeOK  OwnDepositOnline OwnDeletionDone
PROPERTIES OwnMediaKept 
CHECK_DEADLOCK FALSE
