SPECIFICATION FairSpec
CONSTANTS
  Calls <- ThreeCalls
  Threshold = 3
  MaxLevel = 3
INVARIANT TypeOK
INVARIANT OpensInTime
PROPERTY Heals
