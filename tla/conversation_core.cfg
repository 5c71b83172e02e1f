\* Three turns race with one another and with a deletion.
SPECIFICATION Spec
CONSTANTS
  Turns = {t1, t2, t3}
SYMMETRY Symmetry
CHECK_DEADLOCK FALSE
INVARIANT TypeOK
PROPERTY TurnsAreAtomic
