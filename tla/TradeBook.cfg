SPECIFICATION Spec
CONSTANTS
  Fills = {1, 2, 3}
  Detail <- CrossingDetail
  Sources <- ManySources
  LedgerCap = 2
  MaxCrashes = 2
  Events = {"crash", "read", "write", "load"}
INVARIANT TypeOK
INVARIANT BooksAreOneSided
INVARIANT NetIsTraded
INVARIANT CashIsConserved
INVARIANT OldestCloseFirst
INVARIANT IdleMeansSaved
PROPERTY CheckpointExtends
