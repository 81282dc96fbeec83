SPECIFICATION Spec
CONSTANTS
    Employee = {e1}
    Trip = {t1}
    Traveler = {v1}
    Lead = {l1}
    Session = {s1}
    Double = Double
    Boys = Boys
    TypePool = {Double}
    GroupPool = {Boys}
    Demand <- MCDemandGroups
    Capacity <- MCCapacityGroups
    Target = {"Draft", "Waiting Customer", "Pending Confirmation", "Confirmed", "Payment Pending", "Paid", "Completed", "Cancelled"}
    MaxRooms = 2
    MaxSeq = 2
    Overlap = FALSE
    Corrections = FALSE
    None = None
INVARIANTS LeadBookingIsLive NoOrphanedBookings
