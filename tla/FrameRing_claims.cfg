SPECIFICATION FairSpec
CONSTANTS
  NSlots = 2
  MaxFrames = 3
  MaxGen = 2
  MaxClaims = 2
PROPERTY WriterNeverWaits
