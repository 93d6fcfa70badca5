SPECIFICATION FairSpec
CONSTANTS
  Byte = {a, b}
  NoByte = NoByte
  MFF_LENGTH = 3
  MaxResets = 2
INVARIANT StableWhileLoaded
PROPERTIES IsBuffer ReadyAgain
