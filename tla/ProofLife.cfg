SPECIFICATION Spec
CONSTANTS
    op1 = op1
    op2 = op2
    driver = driver
    rider = rider
    h1 = h1
    h2 = h2
    c1 = c1
    c2 = c2
    Operator = {op1, op2}
    Owner = op1
    Delegated = {op2}
    Driver = driver
    Rider = {rider}
    Certified = {op1, op2}
    Home <- MCHome
    Handler <- MCHandler
    Caller <- MCCaller
    Report <- MCReport
    MaxVersion = 3
    Absent = Absent
    Idle = Idle
    Ended = Ended
INVARIANTS TypeOK JobsFollowProofs ClassCountsUsers IInv
PROPERTY PositionsAccumulate
CHECK_DEADLOCK FALSE
SYMMETRY SlotSymmetry
