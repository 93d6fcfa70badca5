SPECIFICATION FairSpec
CONSTANTS
  ADDR_WIDTH = 2
  Delays = {0, 1, 3}
  None = None
INVARIANT CaptureIsRight
PROPERTY EveryCaptureIsSent
