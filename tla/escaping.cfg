SPECIFICATION Spec
CONSTANTS
  Byte = {a, esc, rst}
  NoByte = NoByte
  ESCAPE_SYMBOL = esc
  RESET_SYMBOL = rst
  LinkSize = 4
  SessionSize = 3
INVARIANTS TypeOK SessionIntegrity
PROPERTY OfferedByteIsHeld
