SPECIFICATION FairSpec
CONSTANTS
  Request = {r1, r2, r3}
  Session = {s1}
  LeaseCanLapse = TRUE
  None = None
INVARIANTS ExclusiveTurns
PROPERTIES SessionsRecover
CHECK_DEADLOCK FALSE
