SPECIFICATION FairSpec
CONSTANTS
  c1 = c1
  u1 = u1
  u2 = u2
  Session = {c1, c2}
  Traveler = {u1, u2}
  TravelerOf <- Travelers
  Trip = {t1, t2}
  Capacity <- Capacities
  t1 = t1
  Shared = TRUE
  Worker = {w1}
  MaxBooking = 3
  MaxTry <- Tries
  Intake <- Intakes
  Correction = {"Waiting", "Cancelled"}
  None = None
INVARIANT ToldOfOwnBooking
PROPERTIES AloneHoldsTheRoom AloneWritesNoDuplicate ConfirmationsAreAnswered
CHECK_DEADLOCK FALSE
