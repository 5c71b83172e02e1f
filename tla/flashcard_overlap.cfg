\* Two reviewers, four reviews.
SPECIFICATION Spec
CONSTANTS
  Reviewers = {r1, r2}
  MaxReviews = 4
  Horizon = 40
CHECK_DEADLOCK FALSE
INVARIANTS LapseRestartsInterval
