SPECIFICATION OfferSpec
CONSTANTS
    op1 = op1
    op2 = op2
    o1 = o1
    o2 = o2
    Operator = {op1, op2}
    Offer = {o1, o2}
    OperatorOf <- MCOperatorOf
    Area <- MCArea
    Booking = {b1}
    OfferOf <- MCOfferOf
    Client = {c1, c2}
    PostSeats = {1}
    SetSeats = {2}
    Status = {"CONFIRMATION"}
    MaxBatch = 3
    MaxVersion <- MCMaxVersion
    Absent = Absent
    Idle = Idle
INVARIANTS AnswersHold OwnersInv
PROPERTIES OffersByTheirOperator CurrentKeyOnWrite BookSpec
CHECK_DEADLOCK FALSE
SYMMETRY ClientSymmetry
