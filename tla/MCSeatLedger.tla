---------------------------- MODULE MCSeatLedger ----------------------------
(* Small instances of SeatLedger for TLC.                                  *)
EXTENDS SeatLedger, TLC

CONSTANT o1

\* All bookings compete for the seats of one offer.
MCOfferOf == [b \in Booking |-> o1]

\* An offer is posted and then written three more times; two writes of the others.
MCMaxVersion == [k \in Record |-> IF k \in Offer THEN 4 ELSE 2]

ClientSymmetry == Permutations(Client)
=============================================================================
