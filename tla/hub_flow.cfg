SPECIFICATION FairSpec
CONSTANTS
  Byte = {a}
  NoByte = NoByte
  NUM_FUNCTIONS = 2
  MFF_LENGTH = 1
  FLOW_CONTROL_ENABLE = {1}
  ScanGap = 6
  HostTools = {0, 1}
  UpCores = {0, 1}
  AbortedScans = FALSE
INVARIANTS TypeOK DownIntegrity UpIntegrity XoffAgreement OpenChannelHasRoom ResetAnswered
PROPERTIES HeldUntilTaken StoppedChannelReopens UpByteLeaves
