SPECIFICATION Spec
CONSTANTS
  NoParent = NoParent
  NoScope = NoScope
  AnyText = AnyText
  NoManifest = NoManifest
  BaseCountries = 1
  BaseRegions = 1
  j1 = j1
  j2 = j2
  JobsOf <- MCJobsOf
  Staff <- MCStaff
  d1 = d1
  d2 = d2
  Dir = {d1, d2}
  DirsOf <- MCDirsOf
  WriteBatch = 2
  MaxRoots = 2
  MaxIndustries = 2
  MaxNodes = 2
  CompanyIds = {"com1", "com2", "com3"}
  ChainLimits = {1}
  Opinions <- MCOpinions
  Published <- MCPublished
  Rank <- MCRank
  Scenarios <- MCScenarios
SYMMETRY Interchangeable
INVARIANTS ReplacementsConverge
PROPERTIES KeptFactsStay RelationsAreGrounded
CHECK_DEADLOCK FALSE
