\* Two retries, two rounds of each editor; definitions go back to the client as connectivity lists.
SPECIFICATION Spec
CONSTANTS
  MaxAttempts = 2
  Connectivity = TRUE
  MaxSteps = 2
INVARIANTS ValidatorSeesDict SavedHasText
PROPERTIES ErrorIsFinal RetryReachesModel BudgetAfterSave TurnEnds
