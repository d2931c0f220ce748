------------------------ MODULE MCProxyReEncryption ------------------------
(***************************************************************************)
(* ProxyReEncryption on a curve of the shape of secp256k1 that TLC can     *)
(* tabulate: y^2 = x^3 + 7 modulo 43, whose 31 points form a group of      *)
(* prime order.  Bytes have 7 values and numbers take 2 of them, so that   *)
(* leading zeros, and sums of scalars that need a third byte, are common.  *)
(***************************************************************************)
EXTENDS ProxyReEncryption, SequencesExt

CONSTANTS op1, op2

Field == 43

MCOrder == 31

MCZero == <<0, 0>>

MCGenerator == <<7, 7>>

MCPoint == {p \in (0..42) \X (0..42) : (p[2] * p[2]) % Field = (p[1]^3 + 7) % Field}

FieldInverse == [a \in 1..42 |-> CHOOSE b \in 1..42 : (a * b) % Field = 1]

\* The chord and tangent rule.
CurveAdd(p, q) ==
    LET third(slope) ==
            LET x == (slope^2 - p[1] - q[1]) % Field
            IN  <<x, (slope * (p[1] - x) - p[2]) % Field>>
    IN  CASE p = MCZero -> q
          [] q = MCZero -> p
          [] p[1] = q[1] /\ (p[2] + q[2]) % Field = 0 -> MCZero
          [] p = q -> third((3 * p[1]^2 * FieldInverse[(2 * p[2]) % Field]) % Field)
          [] OTHER -> third(((q[2] - p[2]) * FieldInverse[(q[1] - p[1]) % Field]) % Field)

Sum == [p \in MCPoint \cup {MCZero} |-> [q \in MCPoint \cup {MCZero} |-> CurveAdd(p, q)]]

\* The multiples of the generator: all points, since the order is prime.
Multiples ==
    FoldLeft(LAMBDA ps, n : Append(ps, Sum[ps[n]][MCGenerator]),
             <<MCGenerator>>, [n \in 1..(MCOrder - 2) |-> n])

Log == [p \in MCPoint \cup {MCZero} |->
            IF p = MCZero THEN 0 ELSE CHOOSE k \in 1..(MCOrder - 1) : Multiples[k] = p]

MCAdd(p, q) == Sum[p][q]

MCMul(p, a) ==
    LET k == (Log[p] * a) % MCOrder IN IF k = 0 THEN MCZero ELSE Multiples[k]

MCInvm(a) == CHOOSE b \in 1..(MCOrder - 1) : (a * b) % MCOrder = 1

\* A stand-in for SHA256 that spreads points over all numbers of two bytes and
\* leaves out 30, which is -1 modulo the order.
MCDigest(points) ==
    LET d == FoldLeft(LAMBDA n, p : 5 * n + 3 * p[1] + p[2], 2, points) % 49
    IN  IF d = 30 THEN 3 ELSE d

\* The first has a leading zero, the point of the second has one; sums need a third byte.
MCSecret == {5, 15, 30}

MCParty == {op1, op2}

MCOneWay == {<<op1, op2>>}
=============================================================================
