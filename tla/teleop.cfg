SPECIFICATION Spec
CONSTANTS
  Mode <- TwoFamilies
  MaxFeedback = 2
  MaxUpdates = 3
INVARIANTS TypeOK MenuShowsMode PublishersFollowMode MarkersFollowMode OneModeShown
PROPERTIES OnlyRunningModeCommands ImplementsTeleop
