SPECIFICATION Spec
CONSTANTS
  None = None
  Evidence = {"e1", "e2", "e3"}
  SourceTime = {"e1"}
  Groups <- MCGroups
  Worlds <- MCWorlds
  Extractions <- MCExtractions
  IdentityRows <- MCIdentityRows
  MatchRows <- MCMatchRows
  SignalRows <- MCSignalRows
  MaxItems = 2
  MaxFaults = 2
INVARIANTS SettledAsAnswered PublishesWhatWasOffered OnlyRedundancyBlocks
