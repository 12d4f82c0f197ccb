CONSTANTS
  Threads = {t1, t2}
  Files = {f1, f2}
  NumRegs = 4
  Lo = 2
  Hi = 2
  Values = {0, 1}
  NoValue = NoValue
  SmnRegs = {1, 2}
SPECIFICATION Spec
INVARIANTS TypeOK Undisturbed
PROPERTY CallsAtomic
SYMMETRY Symmetry
