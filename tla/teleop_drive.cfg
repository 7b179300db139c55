SPECIFICATION Spec
CONSTANTS
  Mode <- TwoFamilies
  MaxFeedback = 2
  MaxUpdates = 3
INVARIANT VelocityReady
