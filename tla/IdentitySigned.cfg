SPECIFICATION Spec
CONSTANTS
    User = {u1, u2}
    Admin = Admin
    Asked = {u1, u2}
    Operator = {op1, op2}
    NoOperator = NoOperator
    Login = {l1, l2, l3}
    Call = {c1}
    Idle = Idle
INVARIANT SignedByRequester
SYMMETRY MCSymmetry
