SPECIFICATION Spec
CONSTANTS
  Byte = {a, b}
  NoByte = NoByte
  NUM_FUNCTIONS = 2
  MFF_LENGTH = 1
  FLOW_CONTROL_ENABLE = {1}
  ScanGap = 6
  HostTools = {0, 1}
  UpCores = {0}
  AbortedScans = TRUE
PROPERTY ReceivedBeforeReleased
