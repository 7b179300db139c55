SPECIFICATION Spec
INVARIANTS FrictionFollowsDevices
CHECK_DEADLOCK FALSE
