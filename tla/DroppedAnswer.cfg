SPECIFICATION Spec
CONSTANTS
  Orders = {o1}
  NoBid = NoBid
  NotFoundThreshold = 1
  MaxRetries = 0
  MaxCrashes = 0
  Expected <- Same
  Listed <- Same
  Closings = {"filled"}
  Events = {"dropped"}
INVARIANT RejectedIsNotLive
