SPECIFICATION FairSpec
CONSTANTS
  c1 = c1
  c2 = c2
  Conns = {c1, c2}
  N = 3
  Main = 0
INVARIANTS
  OneThreadPerBase
  ServesForEver
PROPERTY
  EveryConnectionAccepted
CHECK_DEADLOCK FALSE
