CONSTANTS
  Clients = {c1, c2, c3}
  Engines = {e1, e2}
  NoEngine = NoEngine
  ExtraDestroys = 0
SPECIFICATION Spec
INVARIANT DestroyShutsDown
\* undefined behaviour ends the process
CHECK_DEADLOCK FALSE
SYMMETRY Symmetry
