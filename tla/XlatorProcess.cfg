SPECIFICATION PskfdSpec
CONSTANTS
  Pids = {1, 2}
  Asked = 1
  Gpus <- TwoGpus
  Gpu = 2
  Pasids = {1, 2}
  Bases <- MixedBases
  NumVmids = 2
  MaxChanges = 3
INVARIANTS TypeOK ScanDecides
PROPERTY PskfdEnds
\* the call and the tool end
CHECK_DEADLOCK FALSE
