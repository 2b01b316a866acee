SPECIFICATION FairTaskSpec
CONSTANTS
  t1 = t1
  t2 = t2
  t3 = t3
  s1 = s1
  s2 = s2
  NoTask = NoTask
  Tasks = {t1, t2, t3}
  Sessions = {s1, s2}
  SessionOf <- MCSessionOf
INVARIANTS OneOwner TokenTellsStatus NothingLost OnlyEndsAnnounced
PROPERTIES EveryTaskEnds EveryEndAnnounced
CHECK_DEADLOCK FALSE
