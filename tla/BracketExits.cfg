SPECIFICATION FairSpec
CONSTANTS
  Entries = {e1, e2}
  MaxCrashes = 1
  Events = {"crash", "db", "refuse", "cancel", "unpriced", "dark"}
INVARIANT TypeOK
INVARIANT OneExitPerLife
INVARIANT ProtectedFill
PROPERTY BreachIsActedOn
