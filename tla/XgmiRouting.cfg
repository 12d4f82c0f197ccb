CONSTANTS
  Machines <- MCMachines
  Gib = 4
  Modulus = 32
SPECIFICATION Spec
INVARIANTS TypeOK RenderListsSorted RoutedByHiveAddress FailsForCause
\* a null dereference ends the process
CHECK_DEADLOCK FALSE
