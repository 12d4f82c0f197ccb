CONSTANTS
  Clients = {c1, c2, c3}
  Engines = {e1, e2}
  NoEngine = NoEngine
  ExtraDestroys = 2
SPECIFICATION Spec
INVARIANTS TypeOK CountsHolders OneBuilder OneEngine NoFreeFault
PROPERTY DeletedWhenUnheld
\* undefined behaviour ends the process
CHECK_DEADLOCK FALSE
SYMMETRY Symmetry
