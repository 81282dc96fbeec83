\* Two employees at once on one request: what the database alone guarantees.
SPECIFICATION Spec
CONSTANTS
  e1 = e1
  e2 = e2
  EGP = EGP
  USD = USD
  None = None
  Employee <- TwoEmployees
  Request = {1}
  Currency = {EGP, USD}
  Amount = {1}
  MaxEntries = 3
SYMMETRY Symmetry
INVARIANTS TypeOK DepositRecordedOnce NoOrphanedMoney CommittedStagesAreFunded
PROPERTY KeepsPromise
