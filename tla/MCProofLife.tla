---------------------------- MODULE MCProofLife ----------------------------
(***************************************************************************)
(* A small instance of ProofLife: the driver and a passenger of the other  *)
(* operator, either of whom may be booked, so that a driver may book the   *)
(* own trip; two bookings and two upgrades at once.                        *)
(***************************************************************************)
EXTENDS ProofLife, TLC

CONSTANTS op1, op2, driver, rider, h1, h2, c1, c2

MCHome(u) == IF u = driver THEN op1 ELSE op2

MCHandler == {h1, h2}

MCCaller == {c1, c2}

MCReport == {<<"fix", "number">>}

SlotSymmetry == Permutations(MCHandler) \cup Permutations(MCCaller)
=============================================================================
