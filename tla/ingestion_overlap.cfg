\* An upload and one re-chunk, whose tasks may overlap.
SPECIFICATION Spec
CONSTANTS
  Docs = {d1}
  Requests = {q1, q2}
  Workers = {w1, w2}
  NoDoc = NoDoc
  Blank = {}
  Unsupported = {}
  MaxRetries = 0
  MaxFaults = 0
SYMMETRY Symmetry
CHECK_DEADLOCK FALSE
INVARIANTS SingleChunkSet
