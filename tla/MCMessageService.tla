------------------------- MODULE MCMessageService -------------------------
(* A small instance of MessageService: three requests at once, between two *)
(* operators or within one.                                                *)
EXTENDS MessageService, TLC

CONSTANTS op1, op2

MCPair == {<<op1, op2>>, <<op1, op1>>}

RequestSymmetry == Permutations(Request)
=============================================================================
