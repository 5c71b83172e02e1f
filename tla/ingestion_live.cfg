\* Liveness: no symmetry.  One document without text and one that no parser
\* handles, so every verdict is reached.
SPECIFICATION FairSpec
CONSTANTS
  Docs = {d1, d2}
  Requests = {q1, q2}
  Workers = {w1, w2}
  NoDoc = NoDoc
  Blank = {d1}
  Unsupported = {d2}
  MaxRetries = 1
  MaxFaults = 0
CHECK_DEADLOCK FALSE
PROPERTIES EventuallySettled
