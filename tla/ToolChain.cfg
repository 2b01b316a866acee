SPECIFICATION ChainSpec
CONSTANTS
  t1 = t1
  t2 = t2
  s1 = s1
  NoTask = NoTask
  NoCall = NoCall
  Tasks = {t1, t2}
  Sessions = {s1}
  SessionOf <- MCSessionOf
  Budget <- MCOneEach
  Tools = {"motion", "stop"}
  MayStop = FALSE
INVARIANTS CompletedMeansArrived OneToolAtATime
CHECK_DEADLOCK FALSE
