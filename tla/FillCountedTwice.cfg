SPECIFICATION Spec
CONSTANTS
  Fills = {1, 2, 3}
  Detail <- CrossingDetail
  Sources <- ManySources
  LedgerCap = 2
  MaxCrashes = 0
  Events = {}
INVARIANT FillsCountOnce
