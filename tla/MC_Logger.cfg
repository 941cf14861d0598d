SPECIFICATION FairSpec
CONSTANTS
  Main = main
  Workers = {w1, w2}
  MaxMessages = 2
INVARIANTS TypeOK NothingLost NotMissed
PROPERTY Handled
CHECK_DEADLOCK FALSE
