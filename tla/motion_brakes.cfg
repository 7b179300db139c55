SPECIFICATION Spec
CONSTANTS
  Scripts = {"walk", "hug", "step"}
  Brakes = {"front_body_joint", "rear_right_arm_inner_joint", "rear_right_arm_wheel_joint"}
  Driven = {"front_body_joint"}
INVARIANTS EveryBrakeAwaited
CHECK_DEADLOCK FALSE
