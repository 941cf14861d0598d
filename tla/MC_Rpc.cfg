SPECIFICATION FairSpec
CONSTANTS
  Threads <- MCThreads
  MaxCalls = 2
  MaxRestarts = 1
  Stubs <- MCStubs
  Scenarios <- MCScenarios
INVARIANTS OwnAnswer FailuresContained
PROPERTIES CallsReturn
CHECK_DEADLOCK FALSE
