SPECIFICATION FairSpec
CONSTANTS
  Mode <- OneBody
  MaxFeedback = 3
  MaxUpdates = 2
PROPERTIES ViewCatchesUp MarkerSnapsBack
