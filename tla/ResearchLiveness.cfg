SPECIFICATION FairSpec
CONSTANTS
  r1 = r1
  r2 = r2
  x1 = x1
  x2 = x2
  i1 = i1
  i2 = i2
  o1 = o1
  o2 = o2
  Nobody = Nobody
  Run = {r1, r2}
  Exec = {x1, x2}
  Job = {1}
  Origin = {o1, o2}
  RemoteId = {i1}
  MaxFaults = 2
PROPERTIES EveryExecutionEnds
CHECK_DEADLOCK FALSE
