SPECIFICATION Spec
CONSTANTS
  Fan = 2
  FbWidth = 4
  MallocFails = TRUE
  Cases <- MCCases
INVARIANTS TypeOK CoversRequest AgreesWithTables FailsOnlyOnAlias
PROPERTY CallReturns
\* the call ends
CHECK_DEADLOCK FALSE
