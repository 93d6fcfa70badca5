SPECIFICATION StalledSpec
CONSTANTS
  Byte = {a}
  NoByte = NoByte
  NUM_FUNCTIONS = 3
  MFF_LENGTH = 1
  FLOW_CONTROL_ENABLE = {0, 1}
  ScanGap = 6
  HostTools = {0, 1, 2}
  UpCores = {0, 1, 2}
  AbortedScans = TRUE
INVARIANT DownIntegrity
