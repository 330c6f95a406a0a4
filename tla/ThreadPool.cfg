CONSTANTS
  w1 = w1
  w2 = w2
  w3 = w3
  p1 = p1
  p2 = p2
  t1 = t1
  t2 = t2
  t3 = t3
  Workers = {w1, w2, w3}
  Posters = {p1, p2}
  Tasks = {t1, t2, t3}
  Forever = {t1}
  Levels = 2
  NoTask = NoTask
SPECIFICATION FairSpec
INVARIANTS
  EveryTaskInOnePlace
  NoSleepOverWork
  NoSleepAfterStop
PROPERTIES
  ImplementsService
  EveryTaskStarts
  DestructorReturns
CHECK_DEADLOCK FALSE
