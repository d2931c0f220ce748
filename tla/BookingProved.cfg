SPECIFICATION Spec
CONSTANTS
    p1 = p1
    p2 = p2
    r1 = r1
    Passenger = {p1, p2}
    Driver = driver
    Foreign = {p2}
    Request = {r1, r2}
    PassengerOf <- MCPassengerOf
    Type = {"CONFIRMATION"}
    Seats = 2
    Fault = {}
    Absent = Absent
INVARIANT EveryConfirmationProved
CHECK_DEADLOCK FALSE
