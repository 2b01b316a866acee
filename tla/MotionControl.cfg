SPECIFICATION MotionSpec
CONSTANTS
  MaxSpeed = 1
  MotorMax = 6
  MotorDeadband = 0
  Dt = 1
  RampStep = 1
  Kp = 0
  Ki = 0
  IntegralLimit = 0
  OutputScale <- MCOutputScale
  PwmMin = 2
  TurnStartPwm = 2
  BoostTime = 0
  StillBand = 0
  Requests = {0}
  Measurements = {0}
  Reports <- MCPlainReports
  HostFrames <- MCHostFrames
  HostTimeout = 1
  PadHold = 1
  ManualDeadband = 1
  PivotThreshold = 2
  AutoDeadband = 1
  WheelTrack = 2
  TickMod = 6
  TickWraps = FALSE
  FramesPerCycle = 1
  MaxLate = 1
INVARIANTS HostMotionIsCurrent PadMotionIsCurrent
PROPERTIES PadKeepsChassis
