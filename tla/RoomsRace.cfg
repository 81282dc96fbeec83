SPECIFICATION Spec
CONSTANTS
    Employee = {e1, e2}
    Trip = {t1}
    Traveler = {v1}
    Lead = {}
    Session = {s1}
    Double = Double
    Boys = Boys
    TypePool = {Double}
    GroupPool = {}
    Demand <- MCDemandPlain
    Capacity <- MCCapacityPlain
    Target = {"Draft", "Completed", "Cancelled"}
    MaxRooms = 1
    MaxSeq = 2
    Overlap = TRUE
    Corrections = TRUE
    None = None
SYMMETRY MCSymmetry
INVARIANTS TypeOK LastBookingIsLive
PROPERTY CreationFits
