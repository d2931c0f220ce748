----------------------------- MODULE MCIdentity -----------------------------
(***************************************************************************)
(* A small instance of Identity: two users, two operators, two logins at   *)
(* once.                                                                   *)
(***************************************************************************)
EXTENDS Identity, TLC

\* Users, operators, logins and calls are each interchangeable.
MCSymmetry ==
    Permutations(User) \cup Permutations(Operator) \cup Permutations(Login)
=============================================================================
