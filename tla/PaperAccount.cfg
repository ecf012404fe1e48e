SPECIFICATION FairSpec
CONSTANTS
  adapter = adapter
  recovery = recovery
  Detail <- RoundTrip
  Connections = {adapter, recovery}
  Capital = 20
  MaxConnects = 2
  MaxCrashes = 1
  Events = {"crash", "query"}
INVARIANT TypeOK
INVARIANT HoldingsAreFills
INVARIANT PaperCashIsConserved
INVARIANT MarginIsTheAudit
INVARIANT FillsAreListed
PROPERTY OrdersSettle
