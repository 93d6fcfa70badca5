SPECIFICATION CoreSpec
CONSTANTS
  Depth = 3
  MaxWrites = 2
  Generics <- MCGenerics
INVARIANTS CoreTypeOK CleanSwitch
PROPERTIES RepetitionLength NewestIsPlayed
