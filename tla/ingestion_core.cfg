\* One document, three requests: overlapping re-chunks and a delete, a retry,
\* and one process or connection lost.
SPECIFICATION Spec
CONSTANTS
  Docs = {d1}
  Requests = {q1, q2, q3}
  Workers = {w1, w2}
  NoDoc = NoDoc
  Blank = {}
  Unsupported = {}
  MaxRetries = 1
  MaxFaults = 1
SYMMETRY Symmetry
CHECK_DEADLOCK FALSE
INVARIANTS TypeOK StrandedOnlyWhenLost ContentFitsStatus NoChunkPileUp SingleUnlessOverlap ListedIsStored
PROPERTIES ContentNeverLost VerdictIsFinal
