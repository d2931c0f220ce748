------------------------------ MODULE SeatBook ------------------------------
(***************************************************************************)
(* What the offers and transactions chaincodes promise together, as if     *)
(* every call took effect at once: a book of free seats per offer and of   *)
(* the last status of every booking.  A confirmation takes exactly one     *)
(* seat, finds one free, and is recorded in the same step.                 *)
(***************************************************************************)
EXTENDS Integers

CONSTANTS
    Offer,      \* offers (idOffer, idOperator)
    Booking,    \* bookings (offer, passenger, passenger's operator)
    OfferOf,    \* the offer of each booking
    Status,     \* the statuses a booking record can carry
    PostSeats,  \* seat counts an offer can be posted with
    SetSeats,   \* seat counts an operator can set afterwards
    Absent      \* nothing posted, nothing recorded

VARIABLES
    free,       \* free seats of each posted offer
    status      \* last status recorded of each booking

book == <<free, status>>

Init ==
    /\ free = [o \in Offer |-> Absent]
    /\ status = [b \in Booking |-> Absent]

\* A batch of offers is posted, all of it or nothing.
Post ==
    \E S \in SUBSET Offer : \E seats \in [S -> PostSeats] :
        /\ free' = [o \in Offer |-> IF o \in S THEN seats[o] ELSE free[o]]
        /\ UNCHANGED status

\* An operator sets the free seats of a posted offer.
Adjust(o) ==
    /\ free[o] # Absent
    /\ \E n \in SetSeats : free' = [free EXCEPT ![o] = n]
    /\ UNCHANGED status

\* A booking is confirmed: one seat that was free is taken.
Confirm(b) ==
    /\ free[OfferOf[b]] # Absent
    /\ free[OfferOf[b]] > 0
    /\ free' = [free EXCEPT ![OfferOf[b]] = @ - 1]
    /\ status' = [status EXCEPT ![b] = "CONFIRMATION"]

\* Any other status is recorded and leaves the seats alone.
Record(b) ==
    /\ \E s \in Status \ {"CONFIRMATION"} : status' = [status EXCEPT ![b] = s]
    /\ UNCHANGED free

Next ==
    \/ Post
    \/ \E o \in Offer : Adjust(o)
    \/ \E b \in Booking : Confirm(b) \/ Record(b)

Spec == Init /\ [][Next]_book
=============================================================================
