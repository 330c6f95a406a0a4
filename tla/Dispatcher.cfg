CONSTANTS
  p1 = p1
  p2 = p2
  loop = loop
  j1 = j1
  c1 = c1
  c2 = c2
  s2 = s2
  s1 = s1
  Loop = loop
  Joiners = {j1}
  Stops = {s1, s2}
  MaxDispatches = 2
  Posters = {p1, p2}
  Callbacks = {c1, c2, s1, s2}
SPECIFICATION FairSpec
INVARIANTS
  NoStrandedCallback
  RunsInPostOrder
  StopEndsOneDispatch
PROPERTIES
  EveryCallbackRuns
  StopEndsDispatch
CHECK_DEADLOCK FALSE
