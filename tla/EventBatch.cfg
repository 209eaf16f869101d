SPECIFICATION Spec
CONSTANTS
  r1 = r1
  r2 = r2
  Nobody = Nobody
  Evidence = {1, 2}
  Worker = {r1, r2}
  Pins = {p1, p2}
  BatchSize = 2
  MaxFaults = 3
SYMMETRY RunSymmetry
INVARIANTS OnePlace AlwaysResumable SettledByDecision PublishesFrozenAnswer OnePinSet
PROPERTIES NoLostReceipt FencedWrites
CHECK_DEADLOCK FALSE
