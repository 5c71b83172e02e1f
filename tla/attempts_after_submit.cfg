\* One answer races with two submits.
SPECIFICATION Spec
CONSTANTS
  qa = qa
  qb = qb
  Questions <- MCQuestions
  Options <- MCOptions
  Choices <- MCChoices
  Key <- MCKey
  Answerers = {a1}
  Submitters = {s1, s2}
CHECK_DEADLOCK FALSE
PROPERTIES SubmittedIsFinal
