SPECIFICATION Spec
CONSTANTS
  r1 = r1
  r2 = r2
  a1 = a1
  a2 = a2
  Nobody = Nobody
  Article = {a1, a2}
  LegacyDocs = {a1}
  Worker = {r1, r2}
  MaxFaults = 1
SYMMETRY RunSymmetry
INVARIANTS EventMarkersFirst
CHECK_DEADLOCK FALSE
