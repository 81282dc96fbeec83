\* One handler at a time: what the checks of the code establish.
SPECIFICATION Spec
CONSTANTS
  e1 = e1
  e2 = e2
  EGP = EGP
  USD = USD
  None = None
  Employee <- OneEmployee
  Request = {1}
  Currency = {EGP, USD}
  Amount = {1, 2}
  MaxEntries = 4
SYMMETRY CurrencySymmetry
INVARIANTS OneCurrency ReversedAtMostOnce
PROPERTY RefundStaysWithinReceipts
