\* Two reviewers, six reviews of all grades; the last date is 40 days away.
SPECIFICATION Spec
CONSTANTS
  Reviewers = {r1, r2}
  MaxReviews = 6
  Horizon = 40
SYMMETRY Symmetry
CHECK_DEADLOCK FALSE
INVARIANTS TypeOK NeverZero OnScheme
PROPERTIES SuccessGrows ReviewsAreAtomic
