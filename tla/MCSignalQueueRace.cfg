SPECIFICATION Spec
CONSTANTS
  Senders = {p1, p2}
  NoPid = NoPid
  QueueLen = 4
  Slots = 2
  MaxUnread = 2
  MaxSignals = 5
INVARIANTS
  NoneLeftBehind
CHECK_DEADLOCK FALSE
