SPECIFICATION FairSpec
CONSTANTS
    p1 = p1
    p2 = p2
    r1 = r1
    Passenger = {p1, p2}
    Driver = driver
    Foreign = {p2}
    Request = {r1, r2, r3}
    PassengerOf <- MCPassengerOf
    Type = {"INSCRIPTION", "CONFIRMATION"}
    Seats = 2
    Fault = {"query", "keys", "webhook", "late", "lost", "crash"}
    Absent = Absent
INVARIANTS TypeOK AnswersAreTrue ProofsFollowBookings DriverProvedFirst SeatsTaken
PROPERTY HandlersEnd
CHECK_DEADLOCK FALSE
