CONSTANTS
  p1 = p1
  loop = loop
  j1 = j1
  c1 = c1
  s1 = s1
  Loop = loop
  Joiners = {j1}
  Stops = {s1}
  MaxDispatches = 1
  Posters = {p1}
  Callbacks = {c1, s1}
SPECIFICATION FairSpec
PROPERTIES
  JoinEnds
CHECK_DEADLOCK FALSE
