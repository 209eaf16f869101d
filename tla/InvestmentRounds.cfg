SPECIFICATION SpecReporting
CONSTANTS
  Never = Never
  EventWindow = 2
  MinAnchorMatches = 1
  Contexts <- MCContexts
  LayerProposals <- MCLayerProposals
  CrossConfidence = {"MEDIUM"}
  Proposals <- MCProposals
  Answers <- MCAnswers
  MaxHops = 3
  MaxIds = 1
  MaxFacts = 3
  MaxTransmissions = 4
  MaxGaps = 1
  MaxCards = 1
  MaxListed = 2
  EventBatches <- MCEventBatches
  MaxRewrites = 1
INVARIANTS
  TransmissionsSound
  AcceptedIsGrounded
  NormalizedPassesGate
  ReportCloses
  ClaimsHaveBasis
PROPERTIES
  PairsNeverVanish
CHECK_DEADLOCK FALSE
