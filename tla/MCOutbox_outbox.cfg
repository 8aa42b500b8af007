SPECIFICATION FairSpec
CONSTANTS
  event = event
  push = push
  mail = mail
  Entry = {event, push, mail}
  Dispatcher = {d1, d2}
  Subscription = {s}
  None = None
  Kind <- EntryKinds
  MaxAttempts = 2
  Threshold = 2
  MaxStored = 2
  MaxFaults = 1
INVARIANTS
  OneDeliveryPerLease
PROPERTIES
  PromiseKept
  EntryClosed
CHECK_DEADLOCK FALSE
