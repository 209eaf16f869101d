SPECIFICATION FairSpec
CONSTANTS
  r1 = r1
  r2 = r2
  Nobody = Nobody
  Evidence = {1, 2}
  Worker = {r1, r2}
  Pins = {p1, p2}
  BatchSize = 2
  MaxFaults = 2
PROPERTIES ImplementsLedger EveryEvidenceSettles
CHECK_DEADLOCK FALSE
