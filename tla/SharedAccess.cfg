SPECIFICATION Spec
CONSTANTS
    op1 = op1
    op2 = op2
    q1 = q1
    q2 = q2
    Operator <- MCOperator
    Delegation <- MCOneWay
    Item = {i1, i2}
    Request <- MCRequest
    MaxKeys = 1
    MaxProxyKeys = 2
    MaxRestarts = 1
    Absent = Absent
    Garbage = Garbage
    Idle = Idle
INVARIANTS TypeOK DelegationWorks CeremonyCompletes
PROPERTY AccessIsKept
SYMMETRY RequestSymmetry
