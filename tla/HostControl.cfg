SPECIFICATION Spec
CONSTANTS
  CmdTimeout = 3
  McuTimeout = 2
  WireDelay = 1
  LineMax = 2
INVARIANTS MotionIsRecent ObstacleReachesCar CommandHolds
