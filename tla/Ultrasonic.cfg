SPECIFICATION FairSpec
CONSTANTS
  Wrap = 16
  Period = 8
  Timeout = 4
  Cycle = 2
  Late = 1
  Prompt = 1
  Slow = 2
  NearWidth = 1
  FarWidth = 3
INVARIANTS SampleIsTrue SampleIsFresh NearIsSeen
PROPERTIES KeepsMeasuring
