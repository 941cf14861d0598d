SPECIFICATION Spec
CONSTANTS
  s1 = s1
  s2 = s2
  Ads = {1}
  Deposits = {3}
  Spiders = {s1}
  SourceOf <- OneSite
  Awaited = {}
  MaxDelay = 1
  MaxDelaySurfyn = 1
  Overlap = TRUE
  Failures = TRUE
INVARIANTS TypeOK SummaryNotFresher
