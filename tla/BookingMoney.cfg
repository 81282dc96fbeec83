SPECIFICATION Spec
CONSTANTS
  Employee = {u1, u2}
  Price <- Prices
  Size = {1}
  Refund = {1, 3}
  FeeAmount = {1}
  StatusSent = {"Completed"}
  PaymentSent = {"Partial Refund"}
  JsonFields = {{"payment", "refund"}, {"refund"}}
  MaxFees = 1
  MaxRequests = 3
  None = None
INVARIANTS TypeOK RecordsTellCurrent RevenueIsCurrent
PROPERTIES FormsOverwriteWhatTheyShowed RefundsAreBacked
SYMMETRY Symmetry
CHECK_DEADLOCK FALSE
