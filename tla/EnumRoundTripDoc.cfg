CONSTANTS
  Machines <- IdMachines
  NoTopology = NoTopology
  NoTable = NoTable
SPECIFICATION Spec
INVARIANT PartitionLeadsToItsDevice
\* the constructor of the engine ends
CHECK_DEADLOCK FALSE
