SPECIFICATION Spec
CONSTANTS
  BufferBytes = 6
  SgeNum = 3
  MaxBytes = 15
INVARIANTS TypeOK PrefixIntact
CHECK_DEADLOCK FALSE
