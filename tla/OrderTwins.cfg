SPECIFICATION Spec
CONSTANTS
  Orders = {o1, o2}
  NoBid = NoBid
  NotFoundThreshold = 1
  MaxRetries = 0
  MaxCrashes = 1
  Expected <- OneUnnamed
  Listed <- Contracts
  Closings = {"filled"}
  Events = {"lost", "audit", "crash"}
INVARIANT AdoptsOnlyAlike
PROPERTY ImplementsOrderOnce
