\* Two people, two addresses, two webhooks and one request at a time.
SPECIFICATION FairSpec
CONSTANTS
  People = {u1, u2}
  Emails = {e1, e2}
  Placeholder <- MCPlaceholder
  Names = {n1}
  LongNames = {long}
  NoName = NoName
  Keys = {k1}
  Callers = {c1}
  Webhooks = {w1, w2}
  NoPerson = NoPerson
  MaxFaults = 1
CHECK_DEADLOCK FALSE
INVARIANTS TypeOK CallerHasRow
PROPERTIES NothingIsUndone SyncSucceeds
