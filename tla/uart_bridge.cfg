SPECIFICATION Spec
CHECK_DEADLOCK FALSE
CONSTANTS
  None = None
  Backlog = 2
INVARIANTS TypeOK PortOwnership NoStaleByte
PROPERTY PumpsEnd
