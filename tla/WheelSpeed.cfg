SPECIFICATION WheelSpec
CONSTANTS
  MaxSpeed = 3
  MotorMax = 6
  MotorDeadband = 1
  Dt = 2
  RampStep = 2
  Kp = 100
  Ki = 50000
  IntegralLimit = 6
  OutputScale <- MCOutputScale
  PwmMin = 2
  TurnStartPwm = 4
  BoostTime = 6
  StillBand = 0
  Requests <- MCRequests
  Measurements <- MCMeasurements
INVARIANTS CleanHistory
PROPERTIES PwmFollowsRamp PivotShedsMotion
