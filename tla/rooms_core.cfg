\* Two rooms, two users, two codes, three overlapping requests.
SPECIFICATION Spec
CONSTANTS
  Rooms = {r1, r2}
  Users = {u1, u2}
  Codes = {c1, c2}
  Columns = {f1, f2}
  Names = {n1, n2}
  Created <- SameCreated
  Requests = {q1, q2, q3}
  NoRoom = NoRoom
  NoUser = NoUser
  NoCode = NoCode
  NoName = NoName
  MaxAttempts = 2
SYMMETRY Symmetry
CHECK_DEADLOCK FALSE
INVARIANTS TypeOK GivenCodeWorks NothingOutlivesRoom BroadcastIsStored OwnerlessIsExplained
PROPERTIES RolesAreKept EditsAreKept OperationsAreAtomic
