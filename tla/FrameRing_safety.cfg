SPECIFICATION Spec
CONSTANTS
  NSlots = 3
  MaxFrames = 4
  MaxGen = 2
  MaxClaims = 1
INVARIANTS
  TypeOK
  HeldTextureUntouched
  ClaimsAreSound
  KeyAgrees
  FreshestSurvives
  LossesAreCounted
PROPERTIES
  SequencesAdvance
  IsMailbox
