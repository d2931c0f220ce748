SPECIFICATION Spec
CONSTANTS
    op1 = op1
    op2 = op2
    Order <- MCOrder
    Point <- MCPoint
    Zero <- MCZero
    Generator <- MCGenerator
    Add <- MCAdd
    Mul <- MCMul
    Invm <- MCInvm
    Digest <- MCDigest
    Base = 7
    Size = 2
    Secret <- MCSecret
    Party <- MCParty
    Delegation <- MCOneWay
    Item = {i1}
    Absent = Absent
INVARIANTS TypeOK NeverAnotherKey ReadBackIsExact OnlyZerosLost
