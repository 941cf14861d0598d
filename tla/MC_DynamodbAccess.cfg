SPECIFICATION FairSpec
CONSTANTS
  c1 = c1
  c2 = c2
  t1 = t1
  Clients <- MCClients
  TableNames = {t1}
  N = 2
  Items <- MCItems
  Updates <- MCUpdates
  Filters <- MCFilters
  MaxScans = 1
  MaxWrites = 2
INVARIANTS TypeOK ScanCompleteAlone KeyHasScan ScanSound
PROPERTIES FirstPutKept ScanEnds ScanServiceImplemented
