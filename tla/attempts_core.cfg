\* Three answers race with two submits.
SPECIFICATION Spec
CONSTANTS
  qa = qa
  qb = qb
  Questions <- MCQuestions
  Options <- MCOptions
  Choices <- MCChoices
  Key <- MCKey
  Answerers = {a1, a2, a3}
  Submitters = {s1, s2}
SYMMETRY Symmetry
CHECK_DEADLOCK FALSE
INVARIANTS TypeOK ScoreMatchesGrades
PROPERTY GradingIsAtomic
