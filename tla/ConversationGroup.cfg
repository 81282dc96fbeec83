SPECIFICATION Spec
CONSTANTS
  Trip = {"siwa", "bali"}
  TypeOf <- MCTypeOf
  Party = {"pair", "group"}
  Said <- GroupTrip
  Offer <- MCOffer
  None = None
INVARIANTS TypeOK AskedIsReady
PROPERTIES DraftsAreOfShownTrip MinorsHaveConsent
