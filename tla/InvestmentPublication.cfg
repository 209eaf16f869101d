SPECIFICATION Spec
CONSTANTS
  Run = {r1}
  Execution = {w1, w2, w3}
  Analyses = {"early", "late", "rejected"}
  Accepted = {"early", "late"}
  Prose = {p1, p2}
  NoArtifact = NoArtifact
  NoRun = NoRun
  MaxAttempts = 2
INVARIANTS OutcomesAreTrue
PROPERTIES ImplementsReportLedger
CHECK_DEADLOCK FALSE
