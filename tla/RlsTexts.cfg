CONSTANTS
  ProcessWords = 2
  QueuesWords = 1
  Nodes = {"n1", "n2"}
  AnyNode = AnyNode
  Texts <- MCTexts
  npos = npos
SPECIFICATION Spec
INVARIANTS TypeOK RunlistsInOrder PacketsTile
PROPERTY Terminates
\* the calls come to an end
CHECK_DEADLOCK FALSE
