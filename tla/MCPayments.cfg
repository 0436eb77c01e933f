SPECIFICATION Spec
CONSTANTS
  Probs = {"some", "always"}
  DefaultProb = "some"
  MaxAnswers = 2
  MaxPosts = 1
  MaxFailures = 1
  Outcomes <- DrawOutcomes
  NotFetched = NotFetched
  MaxAttempts = 2
  MaxCrashes = 1
INVARIANTS TypeOK RecoversInOneTry
PROPERTIES OffUntilToggled CopiesCatchUp StormEnds
