SPECIFICATION FairSpec
CONSTANTS
  r1 = r1
  r2 = r2
  a1 = a1
  a2 = a2
  Nobody = Nobody
  Article = {a1, a2}
  LegacyDocs = {a1}
  Worker = {r1, r2}
  MaxFaults = 2
INVARIANTS LegacyHandedOver OutcomeComesLast ReviewedOnce PublishedAsReviewed
PROPERTIES SettledOnceByOwner PendingArticlesSettle
CHECK_DEADLOCK FALSE
