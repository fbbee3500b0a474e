SPECIFICATION Spec
CONSTANTS
  NSlots = 2
  MaxFrames = 3
  MaxGen = 2
  MaxClaims = 1
INVARIANT ClaimedTextureUntouched
