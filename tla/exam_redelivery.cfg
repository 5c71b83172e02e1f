\* One exam and one process death: the message comes back.
SPECIFICATION Spec
CONSTANTS
  Exams = {e1}
  Workers = {w1}
  NoExam = NoExam
  MaxRetries = 1
  MaxFaults = 1
CHECK_DEADLOCK FALSE
INVARIANTS FilledOnce
