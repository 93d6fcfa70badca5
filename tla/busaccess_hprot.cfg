SPECIFICATION Spec
CONSTANTS
  NetSize = 3
  Cores <- MCWideHprot
  Data = {1}
  Prot = {32}
  Size = {2}
INVARIANT MiscArrives
