SPECIFICATION FairSpec
CONSTANTS
  Tasks = {t1, t2}
  Workers = {w1, w2}
  w1 = w1
  w2 = w2
  t1 = t1
  t2 = t2
  None = None
  QueueMax = 1
  MaxCrashes = 1
  AfterOverlap = FALSE
  Events = {"crash", "fail", "load", "emergency", "dryrun", "store"}
INVARIANT TypeOK
INVARIANT RecordIsTrue
INVARIANT CheckpointIsRecord
INVARIANT OneMoreAtMost
PROPERTY RestoredAsSaved
CHECK_DEADLOCK FALSE
