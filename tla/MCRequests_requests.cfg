SPECIFICATION FairSpec
CONSTANTS
  first = first
  again = again
  other = other
  external = external
  a = a
  b = b
  c = c
  key = key
  complete = complete
  fetch = fetch
  report = report
  Request = {first, again, other, external}
  Object = {a, b, c}
  Change = {complete, fetch, report}
  Key = {key}
  None = None
  ChangeOf <- Changes
  KeyOf <- KeysSent
  Order <- Orders
  CallsOut = {report}
  RecordsFailure = {fetch}
  Room <- Rooms
  Retries = 1
  MaxFaults = 2
INVARIANTS
  DoneOnce
  OutwardTrue
PROPERTIES
  TakeEffectSerially
  EveryRequestEnds
CHECK_DEADLOCK FALSE
