CONSTANTS
  Machines <- MCMachines
  NoTopology = NoTopology
  NoTable = NoTable
SPECIFICATION Spec
INVARIANTS TypeOK NodesAsPrinted NoPartitionLost EveryNodeReachedOnce
           AscendingRoundTrips XccsHandedOutInOrder
\* the constructor of the engine ends
CHECK_DEADLOCK FALSE
