SPECIFICATION Spec
CONSTANTS
  Trip = {"siwa", "bali"}
  TypeOf <- MCTypeOf
  Party = {"pair", "group"}
  Said <- PrivateTrip
  Offer <- MCOffer
  None = None
INVARIANTS OneRecordPerRequest PrivateRequestsAreHandedOver
