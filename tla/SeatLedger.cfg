SPECIFICATION Spec
CONSTANTS
    o1 = o1
    Operator = {op1}
    Offer = {o1}
    Booking = {b1, b2}
    OfferOf <- MCOfferOf
    Client = {c1, c2}
    PostSeats = {1, 2}
    SetSeats = {0, 2}
    Status = {"INSCRIPTION", "CONFIRMATION"}
    MaxBatch = 1
    MaxVersion <- MCMaxVersion
    Absent = Absent
    Idle = Idle
SYMMETRY ClientSymmetry
INVARIANTS TypeOK SeatsConserved NoOverbooking IInv
PROPERTIES CurrentKeyOnWrite BookSpec
