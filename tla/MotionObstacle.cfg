SPECIFICATION FairMotionSpec
CONSTANTS
  MaxSpeed = 2
  MotorMax = 6
  MotorDeadband = 0
  Dt = 1
  RampStep = 1
  Kp = 100
  Ki = 0
  IntegralLimit = 0
  OutputScale <- MCUnequalScale
  PwmMin = 2
  TurnStartPwm = 3
  BoostTime = 2
  StillBand = 0
  Requests = {0}
  Measurements = {0, 2}
  Reports <- MCObstacleReports
  HostFrames <- MCGoFrames
  HostTimeout = 1
  PadHold = 1
  ManualDeadband = 1
  PivotThreshold = 2
  AutoDeadband = 1
  WheelTrack = 2
  TickMod = 4
  TickWraps = FALSE
  FramesPerCycle = 1
  MaxLate = 1
PROPERTIES ObstacleNeverApproached ForwardMotionEnds
