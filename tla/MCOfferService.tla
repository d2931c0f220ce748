--------------------------- MODULE MCOfferService ---------------------------
(* A small instance of OfferService: an offer of each of two operators, in *)
(* lists that mix them and repeat one on both sides of the other.          *)
EXTENDS OfferService, TLC

CONSTANTS op1, op2, o1, o2

MCOperatorOf == [o \in Offer |-> IF o = o2 THEN op2 ELSE op1]

MCOfferOf == [b \in Booking |-> o1]

MCArea == {{o1, o2}, {o1}}

\* The first operator's key and o1 are written twice, the rest once.
MCMaxVersion == [k \in Record |-> IF k \in {op1, o1} THEN 2 ELSE 1]

ClientSymmetry == Permutations(Client)
=============================================================================
