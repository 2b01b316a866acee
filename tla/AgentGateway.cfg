SPECIFICATION FairSpec
CONSTANTS
  c1 = c1
  c2 = c2
  c3 = c3
  c4 = c4
  c5 = c5
  r1 = r1
  r2 = r2
  r3 = r3
  s1 = s1
  s2 = s2
  Nobody = Nobody
  Callers = {c1, c2, c3, c4, c5}
  Requests = {r1, r2, r3}
  Sessions = {s1, s2}
  RequestOf <- MCRequestOf
  SessionOf <- MCSessionOf
  CacheSize = 2
INVARIANTS SessionsAreSerial CacheIsSound
PROPERTIES EveryCallReturns
CHECK_DEADLOCK FALSE
