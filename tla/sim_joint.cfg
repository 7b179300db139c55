SPECIFICATION FairSpec
INVARIANTS TypeOK MovesWhenComplete
PROPERTIES StartsReleased QuietWhenGone UnloadEnds LoadReturns
CHECK_DEADLOCK FALSE
