SPECIFICATION CarSpec
CONSTANTS
  MaxDuty = 2
  RampStep = 1
  EcuQueue = 1
  PanelQueue = 2
  MaxFds = 1
  None = none
PROPERTIES LightFollowsBrake NoSpontaneousLight
