--------------------------- MODULE MCSharedAccess ---------------------------
(***************************************************************************)
(* A small instance of SharedAccess: two operators, one delegating to the  *)
(* other.                                                                  *)
(***************************************************************************)
EXTENDS SharedAccess

CONSTANTS op1, op2, q1, q2

MCOperator == {op1, op2}

MCRequest == {q1, q2}

MCOneWay == {<<op1, op2>>}

\* Requests are interchangeable; operators are not, since only op1 delegates.
RequestSymmetry == {[q \in MCRequest |-> q],
                    [q \in MCRequest |-> IF q = q1 THEN q2 ELSE q1]}
=============================================================================
