SPECIFICATION Spec
CONSTANT Amount <- Backwards
INVARIANTS PointsComplete
