SPECIFICATION Spec
CONSTANTS
    op1 = op1
    op2 = op2
    Operator = {op1, op2}
    Pair <- MCPair
    Request = {r1, r2, r3}
    Step = {"INSCRIPTION", "CONFIRMATION", "BOOKING_CANCELLATION"}
    State = {"seen", "deleted"}
    NoMessage = NoMessage
    Absent = Absent
    Idle = Idle
INVARIANTS TypeOK RecordedBeforeTold OtherSideTold StatusFollowsMessage
CHECK_DEADLOCK FALSE
SYMMETRY RequestSymmetry
