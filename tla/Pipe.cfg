CONSTANTS
  Size = 4
  Bytes = {0, 1}
  MaxLen = 4
SPECIFICATION Spec
INVARIANT TypeOK
PROPERTY ImplementsFifo
