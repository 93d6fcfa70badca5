SPECIFICATION Spec
CONSTANTS
  NetSize = 3
  Cores <- MCCores
  Data = {1}
  Prot = {9}
  Size = {1, 2}
INVARIANTS InStep AnswersMatch MiscArrives LockHeld
PROPERTIES CloseDelivers IsRemoteBus CallReturns
