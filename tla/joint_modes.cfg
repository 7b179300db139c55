SPECIFICATION Spec
CONSTANTS
  Draggable <- BodyAndArm
  CameraMode <- TwoCameras
  MaxCommands = 2
  Standing <- Upright
INVARIANTS TypeOK NeverOvershoots
PROPERTIES AnglesCatchUp CamerasKeepTheirPlace
