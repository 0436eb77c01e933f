SPECIFICATION PanelSpec
CONSTANTS
  Probs = {"some", "always"}
  DefaultProb = "some"
  MaxAnswers = 2
  MaxPosts = 1
  MaxFailures = 0
INVARIANT ResetSticks
