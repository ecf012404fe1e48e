SPECIFICATION Spec
CONSTANTS
  Orders = {o1}
  NoBid = NoBid
  NotFoundThreshold = 1
  MaxRetries = 1
  MaxCrashes = 0
  Expected <- Same
  Listed <- Same
  Closings = {"filled", "expired"}
  Events = {"cancel", "retry", "modify", "lost", "dropped", "partial", "audit"}
INVARIANT QueuedIsQueued
