SPECIFICATION Spec
CONSTANTS
  Worker = {w1, w2}
  Lead = {l1, l2}
  TravelerOf <- MCTravelerOf
  NSales = 2
  Size = {1, 2}
  MaxBookings = 2
  MaxEvents = 3
  None = None
SYMMETRY MCSymmetry
INVARIANTS TypeOK AutoAlternates
PROPERTIES AloneCreatesOneBooking AloneKeepsSizes
CHECK_DEADLOCK FALSE
