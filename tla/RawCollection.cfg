SPECIFICATION Spec
CONSTANTS
  Run = {1, 2}
  Exec = {1, 2, 3}
  Scenarios <- MCScenarios
  Answers <- MCAnswers
  Failure = Failure
  Canonical <- MCCanonical
  Blank = Blank
  NoTitle = NoTitle
  NoFile = NoFile
  MaxBatch = 2
  MaxOmissions = 2
  Judgements = {"relevant", "irrelevant", "omitted"}
  Near <- MCNear
  LegacyUrls = {}
INVARIANTS ReceiptsAreTrue OneVerdictPerVersion PublishedIsWhole
PROPERTY DecisionsStand
CHECK_DEADLOCK FALSE
