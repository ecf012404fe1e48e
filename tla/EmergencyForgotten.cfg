SPECIFICATION Spec
CONSTANTS
  Tasks = {t1}
  Workers = {w1, w2}
  w1 = w1
  w2 = w2
  t1 = t1
  None = None
  QueueMax = 1
  MaxCrashes = 1
  AfterOverlap = TRUE
  Events = {"crash", "emergency"}
PROPERTY StopSurvivesRestarts
