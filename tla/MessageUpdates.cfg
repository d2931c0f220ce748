SPECIFICATION Spec
CONSTANTS
    op1 = op1
    op2 = op2
    Operator = {op1, op2}
    Pair <- MCPair
    Request = {r1, r2}
    Step = {"INSCRIPTION", "CONFIRMATION", "BOOKING_CANCELLATION"}
    State = {"seen", "deleted"}
    NoMessage = NoMessage
    Absent = Absent
    Idle = Idle
INVARIANT UpdatesAreStored
CHECK_DEADLOCK FALSE
SYMMETRY RequestSymmetry
