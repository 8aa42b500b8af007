SPECIFICATION Spec
CONSTANTS
  Actor = {a1, a2}
  Worker = {w1}
  Token = {k1, k2}
  Step = {s, p}
  Push = {p}
  Task = {1, 2}
  MaxRounds = 2
  Budget = 1
  MaxIncidents = 1
  None = None
INVARIANTS
  HandedOutOnce
  PulledWorkNotLost
PROPERTIES
  BookedOnce
CHECK_DEADLOCK FALSE
SYMMETRY Symmetry
