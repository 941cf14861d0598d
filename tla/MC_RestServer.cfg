SPECIFICATION FairSpec
CONSTANTS
  r1 = r1
  r2 = r2
  r3 = r3
  Requests <- MCRequests
  Contents <- MCContents
  Threads = 2
  MaxPages = 2
INVARIANTS SearchesOwnType 
PROPERTIES Answered
CHECK_DEADLOCK FALSE
