SPECIFICATION Spec
CONSTANTS
  None = None
  Evidence = {"e1", "e2", "e3"}
  SourceTime = {"e1"}
  Groups <- MCGroups
  Worlds <- MCWorlds
  Extractions <- MCRedundant
  IdentityRows <- MCIdentityRows
  MatchRows <- MCMatchRows
  SignalRows <- MCSignalRows
  MaxItems = 2
  MaxFaults = 1
INVARIANT ResumeReusesFrozen
