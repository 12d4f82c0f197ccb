CONSTANTS
  Gib = 4
  Modulus = 32
  Threads <- MCThreads
  Devices <- MCDevices
  Parts <- MCParts
  Gpus <- MCGpus
  GpuOf <- MCGpuOf
  Hive <- MCHive
  Sizes <- MCSizes
  Requests <- MCRequests
  AnyCalls <- MCAnyCalls
  Main = "main"
  Part = "p1"
  MaxCount = 2
  BufSize = 2
  MaxCalls = 2
SPECIFICATION ReadSpec
INVARIANTS
  ReadTypeOK
  TouchesWhatItNames
  PrintsOnlyMapped
  PrintsTheRange
PROPERTY ReadMemEnds
CHECK_DEADLOCK FALSE
