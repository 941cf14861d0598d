SPECIFICATION Spec
CONSTANTS
  s1 = s1
  s2 = s2
  Ads = {1, 2}
  Deposits = {}
  Spiders = {s1, s2}
  SourceOf <- TwoSites
  Awaited = {s1}
  MaxDelay = 1
  MaxDelaySurfyn = 1
  Overlap = FALSE
  Failures = FALSE
INVARIANTS CrawlStored
