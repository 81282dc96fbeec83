SPECIFICATION Spec
CONSTANTS
  c1 = c1
  u1 = u1
  u2 = u2
  Session = {c1, c2}
  Traveler = {u1, u2}
  TravelerOf <- Travelers
  Trip = {t1}
  Capacity <- Capacities
  t1 = t1
  Shared = FALSE
  Worker = {w1, w2}
  MaxBooking = 3
  MaxTry <- Tries
  Intake <- Intakes
  Correction = {"Waiting", "Cancelled"}
  None = None
INVARIANTS TypeOK HeldByDrafts
PROPERTY RepeatedConfirmationWritesOnce
CHECK_DEADLOCK FALSE
