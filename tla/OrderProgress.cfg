SPECIFICATION FairSpec
CONSTANTS
  Orders = {o1}
  NoBid = NoBid
  NotFoundThreshold = 2
  MaxRetries = 1
  MaxCrashes = 0
  Expected <- Same
  Listed <- Same
  Closings = {"filled", "cancelled", "rejected", "expired"}
  Events = {"cancel", "lost", "lookup"}
INVARIANT SentIsWorkedOn
 
PROPERTY CancelIsFinal
PROPERTY OrdersAreHandled
PROPERTY DoubtIsResolved
PROPERTY ClosedIsNoticed
