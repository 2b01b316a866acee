SPECIFICATION FairChainSpec
CONSTANTS
  t1 = t1
  t2 = t2
  s1 = s1
  NoTask = NoTask
  NoCall = NoCall
  Tasks = {t1, t2}
  Sessions = {s1}
  SessionOf <- MCSessionOf
  Budget <- MCOneTask
  Tools = {"motion", "stop"}
  MayStop = TRUE
INVARIANTS OneLateGoalAtMost
PROPERTIES FairTaskSpec GatewayComesFree
CHECK_DEADLOCK FALSE
