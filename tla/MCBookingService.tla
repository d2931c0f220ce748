-------------------------- MODULE MCBookingService --------------------------
(***************************************************************************)
(* A small instance of BookingService: a passenger of the other operator,  *)
(* and one whose request is retried while the first still runs.            *)
(***************************************************************************)
EXTENDS BookingService

CONSTANTS p1, p2, r1

MCPassengerOf == [r \in Request |-> IF r = r1 THEN p2 ELSE p1]
=============================================================================
