\* Two exams, two processes, a retry and a process or connection lost; no symmetry, since
\* the run also checks liveness.
SPECIFICATION FairSpec
CONSTANTS
  Exams = {e1, e2}
  Workers = {w1, w2}
  NoExam = NoExam
  MaxRetries = 1
  MaxFaults = 1
CHECK_DEADLOCK FALSE
INVARIANTS TypeOK PendingOnlyWhenLost QuestionsFitStatus QuestionSetsBounded
PROPERTIES VerdictIsFinal EventuallyDecided
