SPECIFICATION Spec
CONSTANTS
  Orders = {o1}
  NoBid = NoBid
  NotFoundThreshold = 3
  MaxRetries = 3
  MaxCrashes = 2
  Expected <- Same
  Listed <- Same
  Closings = {"filled", "cancelled", "expired"}
  Events = {"crash", "lost", "dropped", "partial", "lookup", "redis", "db", "audit"}
INVARIANT TypeOK
INVARIANT AtMostOnePost
INVARIANT EveryPostIsAudited
INVARIANT FilledIsReal
INVARIANT SentWithinBudget
PROPERTY StepsFollowTable
