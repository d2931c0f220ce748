---------------------- MODULE ProxyReEncryptionProofs ----------------------
(***************************************************************************)
(* The scheme of proxy.js is exact in every group, and so are the bytes it *)
(* travels in, in every base and for every size: whatever is encapsulated  *)
(* for a key is opened by that key, and, re-encrypted, by the delegatee,   *)
(* with the same symmetric key, after every value was written out, read    *)
(* back, or refused.                                                       *)
(*                                                                         *)
(* Numbers in bytes are defined by recursion.  The library's theorems on   *)
(* induction take operators, which the provers cannot instantiate; here    *)
(* induction is over sets of naturals, from the least one left out.        *)
(***************************************************************************)
EXTENDS ProxyReEncryption, WellFoundedInduction, SequenceTheorems, TLAPS

-----------------------------------------------------------------------------
(* Induction and recursion.                                                *)

\* Induction over the naturals, from the least number that is left out.
LEMMA Induction ==
    ASSUME NEW T \in SUBSET Nat, 0 \in T, \A n \in T : n + 1 \in T
    PROVE  T = Nat
<1>1. SUFFICES ASSUME Nat \ T # {} PROVE FALSE
  OBVIOUS
<1>2. PICK x \in Nat \ T : \A y \in Nat \ T : <<y, x>> \notin OpToRel(<, Nat)
  BY <1>1, NatLessThanWellFounded, WFMin
<1>3. x \in Nat /\ x # 0
  BY <1>2
<1>4. x - 1 \in Nat /\ x - 1 < x
  BY <1>3
<1>5. <<x - 1, x>> \in OpToRel(<, Nat)
  BY <1>3, <1>4 DEF OpToRel
<1>6. x - 1 \in T
  BY <1>2, <1>4, <1>5
<1>7. (x - 1) + 1 = x
  BY <1>3
<1> QED
  BY <1>2, <1>6, <1>7

\* Up to a bound.
LEMMA BoundedInduction ==
    ASSUME NEW m \in Nat, NEW T, 0 \in T,
           \A n \in 0..(m - 1) : n \in T => n + 1 \in T
    PROVE  \A n \in 0..m : n \in T
<1> DEFINE U == {n \in Nat : n <= m => n \in T}
<1>1. 0 \in U
  OBVIOUS
<1>2. \A n \in U : n + 1 \in U
  <2> SUFFICES ASSUME NEW n \in U, n + 1 <= m PROVE n + 1 \in T
    OBVIOUS
  <2>1. n \in 0..(m - 1) /\ n \in T
    OBVIOUS
  <2> QED
    BY <2>1
<1> HIDE DEF U
<1>3. U \in SUBSET Nat
  BY DEF U
<1>4. U = Nat
  BY <1>1, <1>2, <1>3, Induction
<1> QED
  BY <1>4 DEF U

\* A recursion on a bounded number has a solution.
LEMMA Recursion ==
    ASSUME NEW m \in Nat, NEW base \in Nat, NEW step \in [(1..m) \X Nat -> Nat]
    PROVE  \E f \in [0..m -> Nat] :
             f[0] = base /\ \A k \in 1..m : f[k] = step[<<k, f[k - 1]>>]
<1> DEFINE Solves(f, n) == f[0] = base /\ \A k \in 1..n : f[k] = step[<<k, f[k - 1]>>]
           T == {n \in 0..m : \E f \in [0..n -> Nat] : Solves(f, n)}
<1>1. 0 \in T
  <2> DEFINE g == [k \in 0..0 |-> base]
  <2>1. g \in [0..0 -> Nat] /\ Solves(g, 0)
    OBVIOUS
  <2> HIDE DEF g, Solves
  <2>2. \E f \in [0..0 -> Nat] : Solves(f, 0)
    BY <2>1
  <2> QED
    BY <2>2
<1>2. ASSUME NEW n \in 0..(m - 1), n \in T PROVE n + 1 \in T
  <2>1. PICK f \in [0..n -> Nat] : Solves(f, n)
    BY <1>2
  <2> DEFINE g == [k \in 0..(n + 1) |-> IF k <= n THEN f[k] ELSE step[<<n + 1, f[n]>>]]
  <2>2. step[<<n + 1, f[n]>>] \in Nat
    OBVIOUS
  <2>3. g \in [0..(n + 1) -> Nat]
    BY <2>2
  <2>4. ASSUME NEW k \in 1..(n + 1) PROVE g[k] = step[<<k, g[k - 1]>>]
    <3>1. g[k - 1] = f[k - 1]
      OBVIOUS
    <3>2. CASE k <= n
      BY <2>1, <3>1, <3>2
    <3>3. CASE k = n + 1
      <4>1. g[k] = step[<<n + 1, f[n]>>]
        BY <3>3
      <4>2. k - 1 = n
        BY <3>3
      <4> QED
        BY <3>1, <3>3, <4>1, <4>2
    <3> QED
      BY <3>2, <3>3
  <2>5. g[0] = base
    BY <2>1
  <2>6. Solves(g, n + 1)
    BY <2>4, <2>5
  <2> HIDE DEF g, Solves
  <2>7. \E h \in [0..(n + 1) -> Nat] : Solves(h, n + 1)
    BY <2>3, <2>6
  <2> QED
    BY <2>7
<1> HIDE DEF T
<1>3. m \in T
  BY <1>1, <1>2, BoundedInduction
<1> QED
  BY <1>3 DEF T

\* Powers of the base.
LEMMA PowerSteps ==
    /\ Power \in [0..(Size + 1) -> Nat]
    /\ Power[0] = 1
    /\ \A n \in 1..(Size + 1) : Power[n] = Base * Power[n - 1]
<1> DEFINE m == Size + 1
           Body(f) == [n \in 0..(Size + 1) |-> IF n = 0 THEN 1 ELSE Base * f[n - 1]]
           step == [x \in (1..m) \X Nat |-> Base * x[2]]
<1>1. m \in Nat /\ 1 \in Nat /\ step \in [(1..m) \X Nat -> Nat]
  BY BaseAssumption
<1>2. \A k \in 1..m, v \in Nat : step[<<k, v>>] = Base * v
  OBVIOUS
<1>3. PICK f \in [0..m -> Nat] :
        f[0] = 1 /\ \A n \in 1..m : f[n] = step[<<n, f[n - 1]>>]
  <2> HIDE DEF step, m
  <2> QED
    BY <1>1, Recursion
<1>4. \A n \in 1..m : f[n] = Base * f[n - 1]
  <2> HIDE DEF step
  <2> TAKE n \in 1..m
  <2>1. n - 1 \in 0..m
    BY <1>1
  <2>2. f[n - 1] \in Nat
    BY <2>1
  <2> QED
    BY <1>2, <1>3, <2>2
<1>5. f = Body(f)
  BY <1>1, <1>3, <1>4
<1>6. Power = Body(Power)
  BY <1>5 DEF Power
<1>7. Power[0] = 1 /\ \A n \in 1..m : Power[n] = Base * Power[n - 1]
  BY <1>1, <1>6
<1> DEFINE T == {n \in 0..m : Power[n] \in Nat}
<1>8. 0 \in T
  BY <1>1, <1>7
<1>9. ASSUME NEW n \in 0..(m - 1), n \in T PROVE n + 1 \in T
  <2>1. n + 1 \in 1..m /\ (n + 1) - 1 = n
    BY <1>1
  <2> QED
    BY <1>7, <1>9, <2>1, BaseAssumption
<1>10. \A n \in 0..m : n \in T
  <2> HIDE DEF T, m
  <2> QED
    BY <1>1, <1>8, <1>9, BoundedInduction
<1>11. Power = [n \in 0..m |-> Power[n]]
  <2>1. DOMAIN Power = 0..m
    BY <1>6
  <2> QED
    BY <1>6, <2>1
<1> QED
  BY <1>7, <1>10, <1>11

\* No power is zero, and one more byte at least doubles what fits.
LEMMA PowerIsPositive ==
    /\ \A n \in 0..(Size + 1) : Power[n] \in Nat \ {0}
    /\ 2 * Power[Size] <= Power[Size + 1]
<1> DEFINE m == Size + 1
           T == {n \in 0..m : Power[n] # 0}
<1>1. m \in Nat /\ Size \in 0..m
  BY BaseAssumption
<1>2. 0 \in T
  BY <1>1, PowerSteps
<1>3. ASSUME NEW n \in 0..(m - 1), n \in T PROVE n + 1 \in T
  <2>1. n + 1 \in 1..m /\ (n + 1) - 1 = n /\ n \in 0..m
    BY <1>1
  <2>2. Power[n + 1] = Base * Power[n] /\ Power[n] \in Nat /\ Power[n] # 0
    BY <1>3, <2>1, PowerSteps
  <2> QED
    BY <2>1, <2>2, BaseAssumption
<1>4. \A n \in 0..m : n \in T
  <2> HIDE DEF T, m
  <2> QED
    BY <1>1, <1>2, <1>3, BoundedInduction
<1>5. \A n \in 0..m : Power[n] \in Nat \ {0}
  BY <1>4, PowerSteps
<1>6. Power[Size + 1] = Base * Power[Size]
  <2>1. Size + 1 \in 1..m /\ (Size + 1) - 1 = Size
    BY BaseAssumption
  <2> QED
    BY <2>1, PowerSteps
<1> QED
  BY <1>1, <1>5, <1>6, BaseAssumption

-----------------------------------------------------------------------------
(* Division.                                                               *)

\* Quotient and remainder.
LEMMA Division ==
    ASSUME NEW n \in Nat, NEW b \in Nat \ {0}
    PROVE  /\ n = b * (n \div b) + (n % b)
           /\ n % b \in 0..(b - 1)
           /\ n \div b \in Nat
  OBVIOUS

\* Nothing else is a quotient and a remainder.
LEMMA QuotientIsUnique ==
    ASSUME NEW n \in Nat, NEW b \in Nat \ {0}, NEW q \in Nat, NEW r \in 0..(b - 1),
           n = b * q + r
    PROVE  n \div b = q /\ n % b = r
  OBVIOUS

\* Dividing by one number and then by another is dividing by their product.
LEMMA DivideTwice ==
    ASSUME NEW n \in Nat, NEW m \in Nat \ {0}, NEW b \in Nat \ {0}
    PROVE  (n \div m) \div b = n \div (b * m)
<1> DEFINE q == n \div m
           r == n % m
           p == q \div b
           t == q % b
<1>1. n = m * q + r /\ r \in 0..(m - 1) /\ q \in Nat
  BY Division
<1>2. q = b * p + t /\ t \in 0..(b - 1) /\ p \in Nat
  BY <1>1, Division
<1> HIDE DEF q, r, p, t
<1>3. n = (b * m) * p + (m * t + r)
  BY <1>1, <1>2
<1>4. m * t + r \in 0..((b * m) - 1)
  <2>1. m * t <= m * (b - 1) /\ m * t \in Nat
    BY <1>2
  <2>2. m * (b - 1) = b * m - m
    OBVIOUS
  <2> QED
    BY <1>1, <2>1, <2>2
<1>5. b * m \in Nat \ {0}
  OBVIOUS
<1>6. n \div (b * m) = p
  BY <1>2, <1>3, <1>4, <1>5, QuotientIsUnique
<1> QED
  BY <1>6 DEF p, q

-----------------------------------------------------------------------------
(* A number in bytes.                                                      *)

\* A number that takes at most one byte too many has a length.
LEMMA LengthExists ==
    ASSUME NEW n \in Nat, n < Power[Size + 1]
    PROVE  \E l \in 1..(Size + 1) : n < Power[l] /\ (l = 1 \/ n >= Power[l - 1])
<1> SUFFICES ASSUME \A l \in 1..(Size + 1) : n < Power[l] => l # 1 /\ n < Power[l - 1]
             PROVE  FALSE
  <2>1. ASSUME NEW l \in 1..(Size + 1) PROVE Power[l - 1] \in Nat
    <3>1. l - 1 \in 0..(Size + 1)
      BY BaseAssumption
    <3> QED
      BY <3>1, PowerSteps
  <2>2. ASSUME NEW l \in 1..(Size + 1), n < Power[l], ~(l # 1 /\ n < Power[l - 1])
        PROVE  n < Power[l] /\ (l = 1 \/ n >= Power[l - 1])
    BY <2>1, <2>2
  <2> QED
    BY <2>2
<1> DEFINE m == Size + 1
           T == {k \in 0..m : k < m => n < Power[m - k]}
<1>1. m \in Nat /\ 0 \in T
  BY BaseAssumption
<1>2. ASSUME NEW k \in 0..(m - 1), k \in T PROVE k + 1 \in T
  <2>1. m - k \in 1..m /\ (m - k) - 1 = m - (k + 1) /\ k < m
    BY <1>1
  <2>2. n < Power[m - (k + 1)]
    BY <1>2, <2>1
  <2> QED
    BY <1>1, <2>2
<1>3. \A k \in 0..m : k \in T
  <2> HIDE DEF T, m
  <2> QED
    BY <1>1, <1>2, BoundedInduction
<1>4. Size \in 0..m /\ Size < m /\ m - Size = 1 /\ 1 \in 1..m
  BY BaseAssumption
<1>5. n < Power[1]
  <2>1. n < Power[m - Size]
    BY <1>3, <1>4
  <2> QED
    BY <1>4, <2>1
<1> QED
  BY <1>4, <1>5

\* The bytes of a number: how many, and which.
LEMMA ArrayOf ==
    ASSUME NEW n \in Nat, n < Power[Size + 1]
    PROVE  \E len \in 1..(Size + 1) :
             /\ n < Power[len]
             /\ n < Power[Size] => len <= Size
             /\ ToArray(n) = [i \in 1..len |-> (n \div Power[len - i]) % Base]
<1> DEFINE Fits(l) == n < Power[l] /\ (l = 1 \/ n >= Power[l - 1])
           len == CHOOSE l \in 1..(Size + 1) : Fits(l)
<1>1. len \in 1..(Size + 1) /\ Fits(len)
  BY LengthExists
<1>2. ToArray(n) = [i \in 1..len |-> (n \div Power[len - i]) % Base]
  BY DEF ToArray
<1> HIDE DEF len
<1>3. ASSUME n < Power[Size] PROVE len <= Size
  <2> SUFFICES ASSUME len = Size + 1 PROVE FALSE
    BY <1>1, BaseAssumption
  <2>1. len - 1 = Size /\ len # 1
    BY BaseAssumption
  <2>2. n >= Power[Size]
    BY <1>1, <2>1
  <2> QED
    BY <1>3, <2>2, PowerIsPositive, BaseAssumption
<1> QED
  BY <1>1, <1>2, <1>3

\* A byte has values.
LEMMA BaseIsPositive == Base \in Nat \ {0}
  BY BaseAssumption

\* So every place of a number has a value.
LEMMA PowerAt ==
    ASSUME NEW len \in 1..(Size + 1), NEW i \in 0..len
    PROVE  Power[len - i] \in Nat \ {0}
<1>1. len - i \in 0..(Size + 1)
  BY BaseAssumption
<1> QED
  BY <1>1, PowerIsPositive

\* They are bytes.
LEMMA ArrayIsBytes ==
    ASSUME NEW n \in Nat, n < Power[Size + 1]
    PROVE  /\ ToArray(n) \in Seq(Byte)
           /\ Len(ToArray(n)) \in 1..(Size + 1)
           /\ n < Power[Size] => Len(ToArray(n)) <= Size
<1>1. PICK len \in 1..(Size + 1) :
        /\ n < Power[Size] => len <= Size
        /\ ToArray(n) = [i \in 1..len |-> (n \div Power[len - i]) % Base]
  BY ArrayOf
<1>2. ASSUME NEW i \in 1..len PROVE (n \div Power[len - i]) % Base \in Byte
  <2>1. Power[len - i] \in Nat \ {0}
    BY PowerAt
  <2>2. n \div Power[len - i] \in Nat
    BY <2>1, Division
  <2> QED
    BY <2>2, Division, BaseIsPositive DEF Byte
<1>3. ToArray(n) \in [1..len -> Byte]
  BY <1>1, <1>2
<1>4. len \in Nat /\ ToArray(n) \in Seq(Byte) /\ Len(ToArray(n)) = len
  BY <1>3, BaseAssumption
<1> QED
  BY <1>1, <1>4

\* The value of the first k bytes, for every k.
LEMMA NumberSteps ==
    ASSUME NEW bytes \in Seq(Byte)
    PROVE  \E value \in [0..Len(bytes) -> Nat] :
             /\ value[0] = 0
             /\ \A k \in 1..Len(bytes) : value[k] = Base * value[k - 1] + bytes[k]
             /\ Number(bytes) = value[Len(bytes)]
<1> DEFINE m == Len(bytes)
           Body(f) == [k \in 0..m |-> IF k = 0 THEN 0 ELSE Base * f[k - 1] + bytes[k]]
           step == [x \in (1..m) \X Nat |-> Base * x[2] + bytes[x[1]]]
           value == CHOOSE f : f = Body(f)
<1>1. m \in Nat /\ 0 \in Nat /\ \A k \in 1..m : bytes[k] \in Nat
  BY BaseAssumption DEF Byte
<1>2. step \in [(1..m) \X Nat -> Nat]
  BY <1>1, BaseAssumption
<1>3. \A k \in 1..m, v \in Nat : step[<<k, v>>] = Base * v + bytes[k]
  OBVIOUS
<1>4. PICK f \in [0..m -> Nat] :
        f[0] = 0 /\ \A k \in 1..m : f[k] = step[<<k, f[k - 1]>>]
  <2> HIDE DEF step, m
  <2> QED
    BY <1>1, <1>2, Recursion
<1>5. ASSUME NEW k \in 1..m PROVE f[k] = Base * f[k - 1] + bytes[k]
  <2> HIDE DEF step
  <2>1. k - 1 \in 0..m
    BY <1>1
  <2>2. f[k - 1] \in Nat
    BY <2>1
  <2> QED
    BY <1>3, <1>4, <2>2
<1>6. f = Body(f)
  <2> HIDE DEF step, m
  <2> QED
    BY <1>1, <1>4, <1>5
<1>7. value = Body(value)
  BY <1>6
<1>8. Number(bytes) = value[m]
  BY DEF Number
<1> HIDE DEF value, m
<1>9. value[0] = 0 /\ \A k \in 1..m : value[k] = Base * value[k - 1] + bytes[k]
  BY <1>1, <1>7
<1> DEFINE T == {k \in 0..m : value[k] \in Nat}
<1>10. 0 \in T
  BY <1>1, <1>9
<1>11. ASSUME NEW k \in 0..(m - 1), k \in T PROVE k + 1 \in T
  <2>1. k + 1 \in 1..m /\ k + 1 \in 0..m /\ (k + 1) - 1 = k
    BY <1>1
  <2>2. value[k + 1] = Base * value[k] + bytes[k + 1]
    BY <1>9, <2>1
  <2>3. Base * value[k] \in Nat
    BY <1>11, BaseAssumption
  <2> QED
    BY <1>1, <2>1, <2>2, <2>3
<1>12. \A k \in 0..m : k \in T
  <2> HIDE DEF T
  <2> QED
    BY <1>1, <1>10, <1>11, BoundedInduction
<1>13. value \in [0..m -> Nat]
  <2>1. DOMAIN value = 0..m
    BY <1>7
  <2>2. value = [k \in 0..m |-> value[k]]
    BY <1>7, <2>1
  <2> QED
    BY <1>12, <2>2
<1> QED
  BY <1>8, <1>9, <1>13 DEF m

\* Reading the bytes of a number gives the number.
LEMMA NumberOfArray ==
    ASSUME NEW n \in Nat, n < Power[Size + 1]
    PROVE  Number(ToArray(n)) = n
<1>1. PICK len \in 1..(Size + 1) :
        n < Power[len] /\ ToArray(n) = [i \in 1..len |-> (n \div Power[len - i]) % Base]
  BY ArrayOf
<1>2. len \in Nat /\ Len(ToArray(n)) = len /\ ToArray(n) \in Seq(Byte)
  BY <1>1, ArrayIsBytes, BaseAssumption
<1>3. PICK value \in [0..len -> Nat] :
        /\ value[0] = 0
        /\ \A k \in 1..len : value[k] = Base * value[k - 1] + ToArray(n)[k]
        /\ Number(ToArray(n)) = value[len]
  BY <1>2, NumberSteps
<1> DEFINE T == {k \in 0..len : value[k] = n \div Power[len - k]}
<1>4. 0 \in T
  <2>1. Power[len] \in Nat \ {0}
    BY PowerIsPositive, <1>2, BaseAssumption
  <2>2. n = Power[len] * 0 + n /\ n \in 0..(Power[len] - 1)
    BY <1>1, <2>1
  <2>3. n \div Power[len] = 0
    BY <2>1, <2>2, QuotientIsUnique
  <2>4. len - 0 = len /\ 0 \in 0..len
    BY <1>2
  <2> QED
    BY <1>3, <2>3, <2>4
<1>5. ASSUME NEW k \in 0..(len - 1), k \in T PROVE k + 1 \in T
  <2> DEFINE m == Power[len - (k + 1)]
  <2>1. /\ k + 1 \in 1..len /\ k + 1 \in 0..len /\ (k + 1) - 1 = k
        /\ len - k \in 1..(Size + 1) /\ (len - k) - 1 = len - (k + 1)
    BY <1>2, BaseAssumption
  <2>2. m \in Nat \ {0} /\ Power[len - k] = Base * m
    BY <2>1, PowerAt, PowerSteps
  <2>3. value[k + 1] = Base * (n \div Power[len - k]) + ((n \div m) % Base)
    BY <1>1, <1>3, <1>5, <2>1
  <2> HIDE DEF m
  <2>4. (n \div m) \div Base = n \div (Base * m)
    BY <2>2, DivideTwice, BaseIsPositive
  <2>5. n \div m \in Nat
    BY <2>2, Division
  <2>6. n \div m = Base * ((n \div m) \div Base) + ((n \div m) % Base)
    BY <2>5, Division, BaseIsPositive
  <2>7. value[k + 1] = n \div m
    BY <2>2, <2>3, <2>4, <2>6
  <2> QED
    BY <2>1, <2>7 DEF m
<1>6. len \in T
  <2>1. \A k \in 0..len : k \in T
    <3> HIDE DEF T
    <3> QED
      BY <1>2, <1>4, <1>5, BoundedInduction
  <2> QED
    BY <1>2, <2>1
<1>7. n \div Power[0] = n
  <2>1. n = 1 * n + 0 /\ 0 \in 0..(1 - 1)
    OBVIOUS
  <2>2. n \div 1 = n
    BY <2>1, QuotientIsUnique
  <2> QED
    BY <2>2, PowerSteps
<1> QED
  BY <1>2, <1>3, <1>6, <1>7

-----------------------------------------------------------------------------
(* Values in bytes.                                                        *)

\* A number of Size bytes is written in Size bytes at most.
LEMMA WordIsShort ==
    ASSUME NEW n \in Word
    PROVE  n \in Nat /\ n < Power[Size] /\ n < Power[Size + 1]
<1>1. Size \in 0..(Size + 1) /\ Size + 1 \in 0..(Size + 1)
  BY BaseAssumption
<1>2. Power[Size] \in Nat /\ Power[Size + 1] \in Nat
  BY <1>1, PowerSteps
<1> QED
  BY <1>2, PowerIsPositive DEF Word

\* What stands between two other parts of a sequence.
LEMMA Between ==
    ASSUME NEW S, NEW a \in Seq(S), NEW b \in Seq(S), NEW c \in Seq(S)
    PROVE  SubSeq(a \o b \o c, Len(a) + 1, Len(a) + Len(b)) = b
<1> DEFINE s == a \o b \o c
           t == SubSeq(s, Len(a) + 1, Len(a) + Len(b))
<1>1. Len(a) \in Nat /\ Len(b) \in Nat /\ Len(c) \in Nat
  OBVIOUS
<1>2. a \o b \in Seq(S) /\ Len(a \o b) = Len(a) + Len(b)
  BY ConcatProperties
<1>3. s \in Seq(S) /\ Len(s) = Len(a) + Len(b) + Len(c)
  BY <1>2, ConcatProperties
<1>4. \A i \in 1..Len(b) : s[Len(a) + i] = b[i]
  <2> TAKE i \in 1..Len(b)
  <2>1. s[Len(a) + i] = (a \o b)[Len(a) + i]
    BY <1>1, <1>2, ConcatProperties
  <2>2. (a \o b)[Len(a) + i] = b[i]
    BY <1>1, ConcatProperties
  <2> QED
    BY <2>1, <2>2
<1> HIDE DEF s
<1>5. \A i \in (Len(a) + 1)..(Len(a) + Len(b)) : s[i] \in S
  BY <1>1, <1>3
<1>6. /\ t \in Seq(S)
      /\ Len(t) = Len(b)
      /\ \A i \in 1..Len(b) : t[i] = s[Len(a) + i]
  <2>1. Len(a) + 1 \in Int /\ Len(a) + Len(b) \in Int
    BY <1>1
  <2>2. /\ t \in Seq(S)
        /\ Len(t) = IF Len(a) + 1 <= Len(a) + Len(b)
                    THEN Len(a) + Len(b) - (Len(a) + 1) + 1 ELSE 0
        /\ \A i \in 1..(Len(a) + Len(b) - (Len(a) + 1) + 1) : t[i] = s[Len(a) + 1 + i - 1]
    BY <1>5, <2>1, SubSeqProperties
  <2>3. Len(a) + Len(b) - (Len(a) + 1) + 1 = Len(b)
    BY <1>1
  <2>4. \A i \in 1..Len(b) : Len(a) + 1 + i - 1 = Len(a) + i
    BY <1>1
  <2> QED
    BY <1>1, <2>2, <2>3, <2>4
<1>7. t = b
  BY <1>4, <1>6, SeqEqual
<1> QED
  BY <1>7 DEF s

\* Bytes read back give a number.
LEMMA NumberIsNat ==
    ASSUME NEW bytes \in Seq(Byte)
    PROVE  Number(bytes) \in Nat
<1>1. PICK value \in [0..Len(bytes) -> Nat] : Number(bytes) = value[Len(bytes)]
  BY NumberSteps
<1> QED
  BY <1>1

\* A number that may be a byte too long is cut to Size bytes, and accepted back when
\* it has as many.
LEMMA ScalarInBytes ==
    ASSUME NEW n \in Nat, n < Power[Size + 1]
    PROVE  /\ ScalarToBytes(n) \in Seq(Byte)
           /\ Len(ScalarToBytes(n)) \in 0..Size
           /\ ScalarFromBytes(ScalarToBytes(n)) \subseteq {Number(ScalarToBytes(n))}
           /\ Number(ScalarToBytes(n)) \in Nat
           /\ Len(ScalarToBytes(n)) = Size =>
                ScalarFromBytes(ScalarToBytes(n)) = {Number(ScalarToBytes(n))}
<1>1. ToArray(n) \in Seq(Byte) /\ Len(ToArray(n)) \in 1..(Size + 1)
  BY ArrayIsBytes
<1>2. ScalarToBytes(n) \in Seq(Byte) /\ Len(ScalarToBytes(n)) \in 0..Size
  <2>1. CASE Len(ToArray(n)) = Size + 1
    <3>1. ToArray(n) # <<>>
      BY <1>1, <2>1, BaseAssumption
    <3>2. Tail(ToArray(n)) \in Seq(Byte) /\ Len(Tail(ToArray(n))) = Len(ToArray(n)) - 1
      BY <1>1, <3>1, HeadTailProperties
    <3> QED
      BY <2>1, <3>2, BaseAssumption DEF ScalarToBytes
  <2>2. CASE Len(ToArray(n)) # Size + 1
    BY <1>1, <2>2, BaseAssumption DEF ScalarToBytes
  <2> QED
    BY <2>1, <2>2
<1> QED
  BY <1>2, NumberIsNat DEF ScalarFromBytes

\* A number of the group is read back as it was written, or refused.
LEMMA WordInBytes ==
    ASSUME NEW n \in Word
    PROVE  /\ ScalarFromBytes(ScalarToBytes(n)) \subseteq {n}
           /\ Len(ScalarToBytes(n)) = Size => ScalarFromBytes(ScalarToBytes(n)) = {n}
<1>1. n \in Nat /\ n < Power[Size] /\ n < Power[Size + 1]
  BY WordIsShort
<1>2. Len(ToArray(n)) <= Size /\ Len(ToArray(n)) \in Nat
  BY <1>1, ArrayIsBytes, BaseAssumption
<1>3. ScalarToBytes(n) = ToArray(n)
  BY <1>2, BaseAssumption DEF ScalarToBytes
<1> QED
  BY <1>1, <1>3, ScalarInBytes, NumberOfArray

\* A point is read back as it was written, or refused.
LEMMA PointInBytes ==
    ASSUME NEW p \in Point
    PROVE  /\ PointToBytes(p) \in Seq(Byte)
           /\ Len(PointToBytes(p)) \in 0..PointSize
           /\ PointFromBytes(PointToBytes(p)) \subseteq {p}
           /\ Len(PointToBytes(p)) = PointSize => PointFromBytes(PointToBytes(p)) = {p}
<1> DEFINE x == ToArray(p[1])
           y == ToArray(p[2])
<1>1. p[1] \in Word /\ p[2] \in Word /\ p = <<p[1], p[2]>>
  BY PointAssumption
<1>2. /\ x \in Seq(Byte) /\ Len(x) \in 1..Size
      /\ y \in Seq(Byte) /\ Len(y) \in 1..Size
  <2>1. \A n \in Word : ToArray(n) \in Seq(Byte) /\ Len(ToArray(n)) \in 1..Size
    BY WordIsShort, ArrayIsBytes, BaseAssumption
  <2> QED
    BY <1>1, <2>1
<1>3. <<4>> \in Seq(Byte) /\ Len(<<4>>) = 1
  BY BaseAssumption DEF Byte
<1>4. Number(x) = p[1] /\ Number(y) = p[2]
  BY <1>1, WordIsShort, NumberOfArray
<1> HIDE DEF x, y
<1>5. PointToBytes(p) = <<4>> \o x \o y
  BY DEF PointToBytes, x, y
<1>6. <<4>> \o x \in Seq(Byte) /\ Len(<<4>> \o x) = 1 + Len(x)
  BY <1>2, <1>3, ConcatProperties
<1>7. PointToBytes(p) \in Seq(Byte) /\ Len(PointToBytes(p)) = 1 + Len(x) + Len(y)
  BY <1>2, <1>5, <1>6, ConcatProperties
<1>8. Len(PointToBytes(p)) \in 0..PointSize
  BY <1>2, <1>7, BaseAssumption DEF PointSize
<1>9. ASSUME Len(PointToBytes(p)) = PointSize PROVE PointFromBytes(PointToBytes(p)) = {p}
  <2>1. Len(x) = Size /\ Len(y) = Size
    BY <1>2, <1>7, <1>9, BaseAssumption DEF PointSize
  <2>2. SubSeq(PointToBytes(p), 2, Size + 1) = x
    <3>1. SubSeq(<<4>> \o x \o y, Len(<<4>>) + 1, Len(<<4>>) + Len(x)) = x
      BY <1>2, <1>3, Between
    <3>2. Len(<<4>>) + 1 = 2 /\ Len(<<4>>) + Len(x) = Size + 1
      BY <1>3, <2>1, BaseAssumption
    <3> QED
      BY <1>5, <3>1, <3>2
  <2>3. SubSeq(PointToBytes(p), Size + 2, PointSize) = y
    <3>1. <<>> \in Seq(Byte)
      OBVIOUS
    <3>2. SubSeq((<<4>> \o x) \o y \o <<>>, Len(<<4>> \o x) + 1, Len(<<4>> \o x) + Len(y)) = y
      BY <1>2, <1>6, <3>1, Between
    <3>3. (<<4>> \o x) \o y \o <<>> = PointToBytes(p)
      BY <1>5, <1>7, ConcatEmptySeq
    <3>4. Len(<<4>> \o x) + 1 = Size + 2 /\ Len(<<4>> \o x) + Len(y) = PointSize
      BY <1>6, <2>1, BaseAssumption DEF PointSize
    <3> QED
      BY <3>2, <3>3, <3>4
  <2> QED
    BY <1>1, <1>4, <1>9, <2>2, <2>3 DEF PointFromBytes
<1>10. Len(PointToBytes(p)) # PointSize => PointFromBytes(PointToBytes(p)) = {}
  BY DEF PointFromBytes
<1> QED
  BY <1>7, <1>8, <1>9, <1>10

\* A sequence is the first part of any it is continued to,
LEMMA FirstPart ==
    ASSUME NEW S, NEW a \in Seq(S), NEW b \in Seq(S)
    PROVE  SubSeq(a \o b, 1, Len(a)) = a
<1>1. <<>> \in Seq(S) /\ Len(<<>>) = 0
  OBVIOUS
<1>2. SubSeq(<<>> \o a \o b, Len(<<>>) + 1, Len(<<>>) + Len(a)) = a
  BY <1>1, Between
<1>3. Len(<<>>) + 1 = 1 /\ Len(<<>>) + Len(a) = Len(a)
  BY <1>1
<1>4. <<>> \o a = a
  BY ConcatEmptySeq
<1> QED
  BY <1>2, <1>3, <1>4

\* and the last part of any it continues.
LEMMA LastPart ==
    ASSUME NEW S, NEW a \in Seq(S), NEW b \in Seq(S)
    PROVE  SubSeq(a \o b, Len(a) + 1, Len(a) + Len(b)) = b
<1>1. <<>> \in Seq(S) /\ a \o b \in Seq(S)
  BY ConcatProperties
<1>2. SubSeq(a \o b \o <<>>, Len(a) + 1, Len(a) + Len(b)) = b
  BY <1>1, Between
<1>3. a \o b \o <<>> = a \o b
  BY <1>1, ConcatEmptySeq
<1> QED
  BY <1>2, <1>3

\* The length of a point in bytes.
LEMMA Sizes ==
    /\ Size \in Nat \ {0} /\ PointSize \in Nat \ {0}
    /\ PointSize = 1 + 2 * Size
  BY BaseAssumption DEF PointSize

\* The parts of a capsule, as they are cut out of its bytes.
Parts(bytes, e, v, s, x) ==
    /\ SubSeq(bytes, 1, PointSize) = e
    /\ SubSeq(bytes, PointSize + 1, 2 * PointSize) = v
    /\ SubSeq(bytes, 2 * PointSize + 1, 2 * PointSize + Size) = s
    /\ SubSeq(bytes, 2 * PointSize + Size + 1, 2 * PointSize + Size + Len(x)) = x

\* They are found again by their lengths.
LEMMA FourParts ==
    ASSUME NEW a \in Seq(Byte), NEW b \in Seq(Byte), NEW c \in Seq(Byte), NEW d \in Seq(Byte),
           Len(a) = PointSize, Len(b) = PointSize, Len(c) = Size
    PROVE  Parts(a \o b \o c \o d, a, b, c, d)
<1> DEFINE i == PointSize
           j == Size
           ab == a \o b
           abc == ab \o c
<1>0. i \in Nat \ {0} /\ j \in Nat \ {0} /\ Len(a) = i /\ Len(b) = i /\ Len(c) = j
  BY Sizes
<1> HIDE DEF i, j
<1>1. ab \in Seq(Byte) /\ Len(ab) = 2 * i
  <2>1. ab \in Seq(Byte) /\ Len(ab) = Len(a) + Len(b)
    BY ConcatProperties
  <2> HIDE DEF ab
  <2> QED
    BY <1>0, <2>1
<1> HIDE DEF ab
<1>2. abc \in Seq(Byte) /\ Len(abc) = 2 * i + j
  BY <1>0, <1>1, ConcatProperties
<1> HIDE DEF abc
<1>3. SubSeq(ab, 1, i) = a /\ SubSeq(ab, i + 1, 2 * i) = b
  <2>1. Len(a) + Len(b) = 2 * i
    BY <1>0
  <2> QED
    BY <1>0, <2>1, FirstPart, LastPart DEF ab
<1>4. SubSeq(abc, 1, i) = a /\ SubSeq(abc, i + 1, 2 * i) = b
  <2>1. \A m, n \in 1..(2 * i) : SubSeq(abc, m, n) = SubSeq(ab, m, n)
    BY <1>0, <1>1, SubSeqOfConcat1 DEF abc
  <2>2. 1 \in 1..(2 * i) /\ i \in 1..(2 * i) /\ i + 1 \in 1..(2 * i) /\ 2 * i \in 1..(2 * i)
    BY <1>0
  <2> QED
    BY <1>3, <2>1, <2>2
<1>5. SubSeq(abc, 2 * i + 1, 2 * i + j) = c
  BY <1>0, <1>1, LastPart DEF abc
<1>6. \A m, n \in 1..(2 * i + j) : SubSeq(abc \o d, m, n) = SubSeq(abc, m, n)
  BY <1>0, <1>2, SubSeqOfConcat1
<1>7. /\ 1 \in 1..(2 * i + j) /\ i \in 1..(2 * i + j) /\ i + 1 \in 1..(2 * i + j)
      /\ 2 * i \in 1..(2 * i + j) /\ 2 * i + 1 \in 1..(2 * i + j)
      /\ 2 * i + j \in 1..(2 * i + j)
  BY <1>0
<1>8. SubSeq(abc \o d, 2 * i + j + 1, 2 * i + j + Len(d)) = d
  BY <1>0, <1>2, LastPart
<1>9. /\ SubSeq(abc \o d, 1, i) = a
      /\ SubSeq(abc \o d, i + 1, 2 * i) = b
      /\ SubSeq(abc \o d, 2 * i + 1, 2 * i + j) = c
  BY <1>4, <1>5, <1>6, <1>7
<1> QED
  BY <1>8, <1>9 DEF Parts, abc, ab, i, j

\* Bytes of one of the two lengths, each of whose parts can be read.
Readable(bytes, long, E, V, S, XG) ==
    /\ (Len(bytes) = 2 * PointSize + Size + PointSize) = long
    /\ ~long => Len(bytes) = 2 * PointSize + Size
    /\ PointFromBytes(SubSeq(bytes, 1, PointSize)) = {E}
    /\ PointFromBytes(SubSeq(bytes, PointSize + 1, 2 * PointSize)) = {V}
    /\ ScalarFromBytes(SubSeq(bytes, 2 * PointSize + 1, 2 * PointSize + Size)) = {S}
    /\ (IF long THEN PointFromBytes(SubSeq(bytes, 2 * PointSize + Size + 1,
                                           2 * PointSize + Size + PointSize))
        ELSE {Zero}) = {XG}

\* Parts that can be read are a capsule that can be.
LEMMA ReadParts ==
    ASSUME NEW bytes, NEW long \in BOOLEAN, NEW E, NEW V, NEW S, NEW XG,
           Readable(bytes, long, E, V, S, XG)
    PROVE  CapsuleFromBytes(bytes) =
             {[E |-> E, V |-> V, S |-> S, XG |-> XG, reEncrypted |-> long]}
<1> DEFINE Es == PointFromBytes(SubSeq(bytes, 1, PointSize))
           Vs == PointFromBytes(SubSeq(bytes, PointSize + 1, 2 * PointSize))
           Ss == ScalarFromBytes(SubSeq(bytes, 2 * PointSize + 1, 2 * PointSize + Size))
           XGs == IF long THEN PointFromBytes(SubSeq(bytes, 2 * PointSize + Size + 1,
                                                     2 * PointSize + Size + PointSize))
                  ELSE {Zero}
<1>1. CapsuleFromBytes(bytes) =
        {[E |-> e, V |-> v, S |-> s, XG |-> x, reEncrypted |-> long] :
           e \in Es, v \in Vs, s \in Ss, x \in XGs}
  <2>1. /\ (Len(bytes) = 2 * PointSize + Size + PointSize) = long
        /\ ~long => Len(bytes) = 2 * PointSize + Size
    BY DEF Readable
  <2> QED
    BY <2>1 DEF CapsuleFromBytes
<1>2. Es = {E} /\ Vs = {V} /\ Ss = {S} /\ XGs = {XG}
  BY DEF Readable
<1> HIDE DEF Es, Vs, Ss, XGs
<1> QED
  BY <1>1, <1>2

ReadableKey(bytes, rk, XG) ==
    /\ Len(bytes) = Size + PointSize
    /\ ScalarFromBytes(SubSeq(bytes, 1, Size)) = {rk}
    /\ PointFromBytes(SubSeq(bytes, Size + 1, Size + PointSize)) = {XG}

\* And so for a re-encryption key.
LEMMA ReadReKey ==
    ASSUME NEW bytes, NEW rk, NEW XG, ReadableKey(bytes, rk, XG)
    PROVE  ReKeyFromBytes(bytes) = {[rk |-> rk, XG |-> XG]}
  BY DEF ReadableKey, ReKeyFromBytes

\* A re-encryption key is read back as it was written, or refused.
LEMMA ReKeyInBytes ==
    ASSUME NEW rk \in Word, NEW XG \in Point
    PROVE  LET r == [rk |-> rk, XG |-> XG]
               bytes == ReKeyToBytes(r)
           IN  /\ bytes \in Seq(Byte)
               /\ Len(bytes) \in 0..(Size + PointSize)
               /\ ReKeyFromBytes(bytes) \subseteq {r}
               /\ Len(bytes) = Size + PointSize => ReKeyFromBytes(bytes) = {r}
<1> DEFINE r == [rk |-> rk, XG |-> XG]
           bytes == ReKeyToBytes(r)
           a == ScalarToBytes(rk)
           b == PointToBytes(XG)
<1>1. /\ a \in Seq(Byte) /\ Len(a) \in 0..Size
      /\ Len(a) = Size => ScalarFromBytes(a) = {rk}
  BY WordIsShort, ScalarInBytes, WordInBytes
<1>2. /\ b \in Seq(Byte) /\ Len(b) \in 0..PointSize
      /\ Len(b) = PointSize => PointFromBytes(b) = {XG}
  BY PointInBytes
<1>3. bytes = a \o b
  BY DEF ReKeyToBytes
<1> HIDE DEF a, b, bytes
<1>4. bytes \in Seq(Byte) /\ Len(bytes) = Len(a) + Len(b)
  BY <1>1, <1>2, <1>3, ConcatProperties
<1>5. Len(bytes) \in 0..(Size + PointSize)
  BY <1>1, <1>2, <1>4, Sizes
<1>6. ASSUME Len(bytes) = Size + PointSize PROVE ReKeyFromBytes(bytes) = {r}
  <2>1. Len(a) = Size /\ Len(b) = PointSize
    BY <1>1, <1>2, <1>4, <1>6, Sizes
  <2>2. SubSeq(bytes, 1, Size) = a /\ SubSeq(bytes, Size + 1, Size + PointSize) = b
    BY <1>1, <1>2, <1>3, <2>1, FirstPart, LastPart
  <2>3. ScalarFromBytes(a) = {rk} /\ PointFromBytes(b) = {XG}
    BY <1>1, <1>2, <2>1
  <2>4. ReadableKey(bytes, rk, XG)
    BY <1>6, <2>2, <2>3 DEF ReadableKey
  <2> QED
    BY <2>4, ReadReKey
<1>7. Len(bytes) # Size + PointSize => ReKeyFromBytes(bytes) = {}
  BY DEF ReKeyFromBytes
<1> QED
  BY <1>4, <1>5, <1>6, <1>7 DEF bytes

\* What a capsule is read back as, and how long it is written out in full.
ReadBack(c) ==
    [E |-> c.E, V |-> c.V, S |-> Number(ScalarToBytes(c.S)),
     XG |-> IF c.reEncrypted THEN c.XG ELSE Zero, reEncrypted |-> c.reEncrypted]

Layout(c) == 2 * PointSize + Size + (IF c.reEncrypted THEN PointSize ELSE 0)

\* Capsules as they come up, before or after re-encryption.
Sound(c) ==
    /\ c.E \in Point /\ c.V \in Point
    /\ c.S \in Nat /\ c.S < Power[Size + 1]
    /\ c.reEncrypted \in BOOLEAN
    /\ c.reEncrypted => c.XG \in Point

\* The bytes of a capsule: none too many, and read back as they were written when
\* none is missing.
LEMMA CapsuleInBytes ==
    ASSUME NEW c, Sound(c)
    PROVE  LET bytes == CapsuleToBytes(c)
           IN  /\ bytes \in Seq(Byte)
               /\ Len(bytes) \in 0..Layout(c)
               /\ Len(bytes) = Layout(c) => CapsuleFromBytes(bytes) = {ReadBack(c)}
               /\ Len(bytes) # Layout(c) =>
                    \/ CapsuleFromBytes(bytes) = {}
                    \/ c.reEncrypted /\ Len(bytes) = 2 * PointSize + Size
<1> DEFINE bytes == CapsuleToBytes(c)
           e == PointToBytes(c.E)
           v == PointToBytes(c.V)
           s == ScalarToBytes(c.S)
           x == IF c.reEncrypted THEN PointToBytes(c.XG) ELSE <<>>
           full == IF c.reEncrypted THEN PointSize ELSE 0
<1>1. /\ e \in Seq(Byte) /\ Len(e) \in 0..PointSize
      /\ Len(e) = PointSize => PointFromBytes(e) = {c.E}
  BY PointInBytes DEF Sound
<1>2. /\ v \in Seq(Byte) /\ Len(v) \in 0..PointSize
      /\ Len(v) = PointSize => PointFromBytes(v) = {c.V}
  BY PointInBytes DEF Sound
<1>3. /\ s \in Seq(Byte) /\ Len(s) \in 0..Size
      /\ Len(s) = Size => ScalarFromBytes(s) = {Number(s)}
  BY ScalarInBytes DEF Sound
<1>4. /\ x \in Seq(Byte) /\ Len(x) \in 0..full
      /\ c.reEncrypted /\ Len(x) = full => PointFromBytes(x) = {c.XG}
  <2>1. CASE c.reEncrypted
    BY <2>1, PointInBytes DEF Sound
  <2>2. CASE ~c.reEncrypted
    BY <2>2
  <2> QED
    BY <2>1, <2>2
<1>5. bytes = e \o v \o s \o x
  BY DEF CapsuleToBytes
<1>6. full \in {0, PointSize} /\ Layout(c) = 2 * PointSize + Size + full
  BY DEF Layout
<1>7. c.reEncrypted <=> full = PointSize
  BY Sizes DEF Sound
<1> HIDE DEF bytes, e, v, s, x, full
<1>8. bytes \in Seq(Byte) /\ Len(bytes) = Len(e) + Len(v) + Len(s) + Len(x)
  <2>1. e \o v \in Seq(Byte) /\ Len(e \o v) = Len(e) + Len(v)
    BY <1>1, <1>2, ConcatProperties
  <2>2. e \o v \o s \in Seq(Byte) /\ Len(e \o v \o s) = Len(e) + Len(v) + Len(s)
    BY <1>3, <2>1, ConcatProperties
  <2>3. /\ e \o v \o s \o x \in Seq(Byte)
        /\ Len(e \o v \o s \o x) = Len(e) + Len(v) + Len(s) + Len(x)
    BY <1>4, <2>2, ConcatProperties
  <2> QED
    BY <1>5, <2>3
<1>9. Len(bytes) \in 0..Layout(c)
  BY <1>1, <1>2, <1>3, <1>4, <1>6, <1>8, Sizes
<1>10. ASSUME Len(bytes) = Layout(c) PROVE CapsuleFromBytes(bytes) = {ReadBack(c)}
  <2>1. Len(e) = PointSize /\ Len(v) = PointSize /\ Len(s) = Size /\ Len(x) = full
    BY <1>1, <1>2, <1>3, <1>4, <1>6, <1>8, <1>10, Sizes
  <2>2. /\ SubSeq(bytes, 1, PointSize) = e
        /\ SubSeq(bytes, PointSize + 1, 2 * PointSize) = v
        /\ SubSeq(bytes, 2 * PointSize + 1, 2 * PointSize + Size) = s
        /\ SubSeq(bytes, 2 * PointSize + Size + 1, 2 * PointSize + Size + full) = x
    <3>1. Parts(e \o v \o s \o x, e, v, s, x)
      BY <1>1, <1>2, <1>3, <1>4, <2>1, FourParts
    <3>2. Parts(bytes, e, v, s, x)
      BY <1>5, <3>1
    <3> QED
      BY <2>1, <3>2 DEF Parts
  <2>3. PointFromBytes(e) = {c.E} /\ PointFromBytes(v) = {c.V} /\ ScalarFromBytes(s) = {Number(s)}
    BY <1>1, <1>2, <1>3, <2>1
  <2>4. c.reEncrypted \in BOOLEAN
    BY DEF Sound
  <2>5. (Len(bytes) = 2 * PointSize + Size + PointSize) = c.reEncrypted
    BY <1>6, <1>7, <1>10, <2>4, Sizes
  <2>6. ~c.reEncrypted => Len(bytes) = 2 * PointSize + Size
    BY <1>6, <1>7, <1>10, Sizes
  <2>7. (IF c.reEncrypted THEN PointFromBytes(SubSeq(bytes, 2 * PointSize + Size + 1,
                                                     2 * PointSize + Size + PointSize))
         ELSE {Zero}) = {IF c.reEncrypted THEN c.XG ELSE Zero}
    BY <1>4, <1>7, <2>1, <2>2
  <2>8. /\ PointFromBytes(SubSeq(bytes, 1, PointSize)) = {c.E}
        /\ PointFromBytes(SubSeq(bytes, PointSize + 1, 2 * PointSize)) = {c.V}
        /\ ScalarFromBytes(SubSeq(bytes, 2 * PointSize + 1, 2 * PointSize + Size)) = {Number(s)}
    BY <2>2, <2>3
  <2>9. Readable(bytes, c.reEncrypted, c.E, c.V, Number(s),
                 IF c.reEncrypted THEN c.XG ELSE Zero)
    BY <2>5, <2>6, <2>7, <2>8 DEF Readable
  <2>10. CapsuleFromBytes(bytes) =
          {[E |-> c.E, V |-> c.V, S |-> Number(s),
            XG |-> IF c.reEncrypted THEN c.XG ELSE Zero, reEncrypted |-> c.reEncrypted]}
    BY <2>4, <2>9, ReadParts
  <2> QED
    BY <2>10 DEF ReadBack, s
<1>11. ASSUME Len(bytes) # Layout(c), ~(c.reEncrypted /\ Len(bytes) = 2 * PointSize + Size)
       PROVE  CapsuleFromBytes(bytes) = {}
  <2>1. Len(bytes) # 2 * PointSize + Size /\ Len(bytes) # 2 * PointSize + Size + PointSize
    BY <1>6, <1>7, <1>8, <1>9, <1>11, Sizes
  <2> QED
    BY <2>1 DEF CapsuleFromBytes
<1> QED
  BY <1>8, <1>9, <1>10, <1>11 DEF bytes

-----------------------------------------------------------------------------
(* The scheme.                                                             *)

\* Scalars, sums of two of them and digests plus one are multipliers.
LEMMA Multipliers ==
    /\ Scalar \subseteq Multiplier
    /\ 1 \in Multiplier
    /\ \A a, b \in Scalar : a + b \in Multiplier
    /\ \A a, b \in Multiplier : a * b = b * a /\ (a * b) % Order \in Scalar
  BY OrderAssumption DEF Scalar, Multiplier

\* The order of two multiplications does not matter.
LEMMA MulCommutes ==
    ASSUME NEW p \in Element, NEW a \in Multiplier, NEW b \in Multiplier
    PROVE  Mul(Mul(p, a), b) = Mul(Mul(p, b), a)
  <1>1. a * b = b * a
    BY Multipliers
  <1>2. Mul(Mul(p, a), b) = Mul(p, (a * b) % Order)
    BY GroupAssumption
  <1>3. Mul(Mul(p, b), a) = Mul(p, (b * a) % Order)
    BY GroupAssumption
  <1> QED
    BY <1>1, <1>2, <1>3

\* A number times its inverse leaves every point where it is.
LEMMA InvmCancels ==
    ASSUME NEW p \in Element, NEW h \in Multiplier, h % Order # 0
    PROVE  Mul(Mul(p, Invm(h)), h) = p
  <1>1. Invm(h) \in Scalar /\ (h * Invm(h)) % Order = 1
    BY InvmAssumption
  <1>2. Invm(h) \in Multiplier
    BY <1>1, Multipliers
  <1>3. Invm(h) * h = h * Invm(h)
    BY <1>2, Multipliers
  <1>4. Mul(Mul(p, Invm(h)), h) = Mul(p, (Invm(h) * h) % Order)
    BY <1>2, GroupAssumption
  <1> QED
    BY <1>1, <1>3, <1>4, GroupAssumption

\* The point both sides of a capsule digest: the owner multiplies the sum of
\* its two points by the secret, encapsulation the public key by the sum.
LEMMA SharedPoint ==
    ASSUME NEW sk \in Scalar, NEW r1 \in Scalar, NEW r2 \in Scalar
    PROVE  /\ Add(PublicKey(r1), PublicKey(r2)) \in Element
           /\ Mul(Add(PublicKey(r1), PublicKey(r2)), sk) = Mul(PublicKey(sk), r1 + r2)
  <1>1. Generator \in Element
    BY ClosureAssumption DEF Element
  <1>2. Add(PublicKey(r1), PublicKey(r2)) = Mul(Generator, r1 + r2)
    BY <1>1, GroupAssumption DEF PublicKey
  <1>3. sk \in Multiplier /\ r1 + r2 \in Multiplier
    BY Multipliers
  <1>4. Mul(Generator, r1 + r2) \in Element
    BY <1>1, <1>3, ClosureAssumption
  <1>5. Mul(Mul(Generator, r1 + r2), sk) = Mul(Mul(Generator, sk), r1 + r2)
    BY <1>1, <1>3, MulCommutes
  <1> QED
    BY <1>2, <1>4, <1>5 DEF PublicKey

\* decapsulate_original with the owner's key gives the symmetric key that
\* encapsulate returned, for every pair of random numbers.
THEOREM OwnerOpens ==
    ASSUME NEW sk \in Scalar, NEW r1 \in Scalar, NEW r2 \in Scalar
    PROVE  LET c == Encapsulate(PublicKey(sk), r1, r2)
           IN  Decapsulate(c, sk) = c.key
  BY SharedPoint DEF Decapsulate, DecapsulateOriginal, Encapsulate

\* What the delegatee digests is what the re-encryption key was made with.
LEMMA SameHash ==
    ASSUME NEW sk \in Scalar, NEW t \in Scalar
    PROVE  LET X == PublicKey(t)
               pk == PublicKey(sk)
           IN  /\ HashToScalar(<<X, pk, Mul(pk, t)>>) = HashToScalar(<<X, pk, Mul(X, sk)>>)
               /\ HashToScalar(<<X, pk, Mul(X, sk)>>) \in Multiplier
               /\ HashToScalar(<<X, pk, Mul(X, sk)>>) % Order # 0
  <1>1. Generator \in Element /\ sk \in Multiplier /\ t \in Multiplier
    BY ClosureAssumption, Multipliers DEF Element
  <1>2. Mul(PublicKey(sk), t) = Mul(PublicKey(t), sk)
    BY <1>1, MulCommutes DEF PublicKey
  <1>3. /\ PublicKey(t) \in Element /\ PublicKey(sk) \in Element
        /\ Mul(PublicKey(t), sk) \in Element
    BY <1>1, ClosureAssumption DEF PublicKey
  <1> DEFINE s == <<PublicKey(t), PublicKey(sk), Mul(PublicKey(t), sk)>>
  <1>4. Digest(s) \in Word /\ (Digest(s) + 1) % Order # 0
    BY <1>3, DigestAssumption
  <1>5. HashToScalar(s) \in Multiplier /\ HashToScalar(s) % Order # 0
    <2>1. Power[Size] \in Nat
      BY PowerIsPositive, BaseAssumption
    <2>2. Digest(s) + 1 \in 1..Power[Size]
      BY <1>4, <2>1 DEF Word
    <2> QED
      BY <1>4, <2>2 DEF HashToScalar, Multiplier
  <1> QED
    BY <1>2, <1>5

\* decapsulate_re_encrypted with the delegatee's key gives the symmetric key
\* that the owner's encapsulate returned, whatever random numbers the capsule
\* and the re-encryption key were made with: delegation never ends in a wrong
\* key.
THEOREM DelegateeOpens ==
    ASSUME NEW sk \in Scalar, NEW skTo \in Scalar,
           NEW r1 \in Scalar, NEW r2 \in Scalar, NEW t \in Scalar
    PROVE  LET c == Encapsulate(PublicKey(sk), r1, r2)
               rekey == ReKey(sk, PublicKey(skTo), t)
           IN  Decapsulate(ReEncryptCapsule(c, rekey), skTo) = c.key
  <1> DEFINE X == PublicKey(t)
             pk == PublicKey(skTo)
             h == HashToScalar(<<X, pk, Mul(X, skTo)>>)
             rk == (sk * Invm(h)) % Order
             E == PublicKey(r1)
             V == PublicKey(r2)
             Q == Add(E, V)
  <1>1. /\ HashToScalar(<<X, pk, Mul(pk, t)>>) = h
        /\ h \in Multiplier /\ h % Order # 0
    BY SameHash
  <1>2. Generator \in Element
    BY ClosureAssumption DEF Element
  <1>3. /\ Q \in Element
        /\ Mul(Q, sk) = Mul(PublicKey(sk), r1 + r2)
    BY SharedPoint
  <1>4. E \in Element /\ V \in Element
    BY <1>2, ClosureAssumption, Multipliers DEF PublicKey
  <1>5. sk \in Multiplier /\ Invm(h) \in Multiplier /\ rk \in Multiplier
    BY <1>1, InvmAssumption, Multipliers
  <1>6. Add(Mul(E, rk), Mul(V, rk)) = Mul(Q, rk)
    BY <1>4, <1>5, GroupAssumption
  <1>7. Mul(Q, rk) = Mul(Mul(Q, sk), Invm(h))
    BY <1>3, <1>5, GroupAssumption
  <1>8. Mul(Q, sk) \in Element
    BY <1>3, <1>5, ClosureAssumption
  <1>9. Mul(Add(Mul(E, rk), Mul(V, rk)), h) = Mul(PublicKey(sk), r1 + r2)
    BY <1>1, <1>3, <1>6, <1>7, <1>8, InvmCancels
  <1> DEFINE c == Encapsulate(PublicKey(sk), r1, r2)
             rekey == ReKey(sk, pk, t)
             d == ReEncryptCapsule(c, rekey)
  <1>10. c.E = E /\ c.V = V /\ c.key = Digest(<<Mul(PublicKey(sk), r1 + r2)>>)
    BY DEF Encapsulate
  <1>11. rekey.rk = rk /\ rekey.XG = X
    BY <1>1 DEF ReKey
  <1>12. /\ d.E = Mul(E, rk) /\ d.V = Mul(V, rk)
         /\ d.XG = X /\ d.reEncrypted = TRUE
    BY <1>11 DEF ReEncryptCapsule, Encapsulate
  <1> QED
    BY <1>9, <1>10, <1>12 DEF Decapsulate, DecapsulateReEncrypted

-----------------------------------------------------------------------------
(* What the exchange makes, written out and read back.                     *)

\* What Size bytes stand for can be written in Size bytes, or one more.
LEMMA NumberIsBounded ==
    ASSUME NEW bytes \in Seq(Byte), Len(bytes) <= Size
    PROVE  Number(bytes) \in Nat /\ Number(bytes) < Power[Size + 1]
<1> DEFINE m == Len(bytes)
<1>1. m \in Nat /\ m <= Size /\ \A k \in 1..m : bytes[k] \in Byte
  OBVIOUS
<1>2. PICK value \in [0..m -> Nat] :
        /\ value[0] = 0
        /\ \A k \in 1..m : value[k] = Base * value[k - 1] + bytes[k]
        /\ Number(bytes) = value[m]
  BY NumberSteps
<1> HIDE DEF m
<1> DEFINE T == {k \in 0..m : value[k] < Power[k + (Size + 1 - m)]}
           d == Size + 1 - m
<1>3. d \in 1..(Size + 1) /\ Size \in Nat
  BY <1>1, BaseAssumption
<1>4. 0 \in T
  BY <1>1, <1>2, <1>3, PowerIsPositive
<1>5. ASSUME NEW k \in 0..(m - 1), k \in T PROVE k + 1 \in T
  <2>1. /\ k + 1 \in 1..m /\ (k + 1) - 1 = k /\ k + d \in 0..(Size + 1)
        /\ k + 1 + d \in 1..(Size + 1) /\ (k + 1 + d) - 1 = k + d
    BY <1>1, <1>3
  <2> DEFINE v == value[k]
             p == Power[k + d]
  <2>2. value[k + 1] = Base * v + bytes[k + 1] /\ bytes[k + 1] \in Byte /\ v \in Nat
    BY <1>1, <1>2, <2>1
  <2>3. p \in Nat /\ Power[k + 1 + d] = Base * p
    BY <2>1, PowerSteps
  <2>4. v < p
    BY <1>5
  <2> HIDE DEF v, p
  <2>5. Base * (v + 1) <= Base * p
    BY <2>2, <2>3, <2>4, BaseAssumption
  <2>6. Base * (v + 1) = Base * v + Base
    BY <2>2, BaseAssumption
  <2>7. Base * v \in Nat /\ Base * p \in Nat
    BY <2>2, <2>3, BaseAssumption
  <2>8. value[k + 1] < Power[k + 1 + d]
    <3> DEFINE x == Base * v
               y == Base * p
               b == bytes[k + 1]
    <3>1. b \in Nat /\ b < Base
      BY <2>2, BaseAssumption DEF Byte
    <3>2. x \in Nat /\ y \in Nat /\ x + Base <= y
      BY <2>5, <2>6, <2>7
    <3>3. value[k + 1] = x + b /\ Power[k + 1 + d] = y
      BY <2>2, <2>3
    <3> HIDE DEF x, y, b
    <3> QED
      BY <3>1, <3>2, <3>3, BaseAssumption
  <2> QED
    BY <2>1, <2>8
<1>6. m \in T
  <2>1. \A k \in 0..m : k \in T
    <3> HIDE DEF T
    <3> QED
      BY <1>1, <1>4, <1>5, BoundedInduction
  <2> QED
    BY <1>1, <2>1
<1>7. m + (Size + 1 - m) = Size + 1
  BY <1>1, <1>3
<1> QED
  BY <1>1, <1>2, <1>6, <1>7

\* Secrets and their public points can be written.
LEMMA SecretIsWord ==
    ASSUME NEW s \in Secret
    PROVE  /\ s \in Scalar /\ s \in Word
           /\ s \in Multiplier /\ s % Order # 0
           /\ PublicKey(s) \in Point
<1>1. s \in Scalar \ {0}
  BY SecretAssumption
<1>2. Power[Size] \in Nat
  BY PowerIsPositive, BaseAssumption
<1>3. s \in Word /\ s \in Multiplier
  BY <1>1, <1>2, OrderAssumption DEF Scalar, Word, Multiplier
<1>4. s % Order = s
  BY <1>1, OrderAssumption DEF Scalar
<1> QED
  BY <1>1, <1>3, <1>4, ClosureAssumption DEF PublicKey

\* A scalar takes at most Size bytes.
LEMMA ScalarIsWord == Scalar \subseteq Word
<1>1. Power[Size] \in Nat
  BY PowerIsPositive, BaseAssumption
<1> QED
  BY <1>1, OrderAssumption DEF Scalar, Word

\* A re-encryption key is a scalar and a point, and no point but the one at infinity
\* is mapped to it.
LEMMA ReKeyIsTyped ==
    ASSUME NEW from \in Secret, NEW to \in Secret, NEW t \in Secret
    PROVE  LET r == ReKey(from, PublicKey(to), t)
           IN  /\ r = [rk |-> r.rk, XG |-> r.XG]
               /\ r.rk \in Scalar /\ r.rk \in Word
               /\ r.XG \in Point
               /\ \A p \in Point : Mul(p, r.rk) \in Point
<1> DEFINE X == PublicKey(t)
           pk == PublicKey(to)
           h == HashToScalar(<<X, pk, Mul(pk, t)>>)
           rk == (from * Invm(h)) % Order
<1>1. ReKey(from, pk, t) = [rk |-> rk, XG |-> X]
  BY DEF ReKey
<1>2. X \in Point /\ from \in Multiplier /\ from % Order # 0
  BY SecretIsWord
<1>3. h \in Multiplier /\ h % Order # 0
  BY SameHash, SecretIsWord
<1>4. Invm(h) \in Scalar /\ (h * Invm(h)) % Order = 1
  BY <1>3, InvmAssumption
<1>5. Invm(h) \in Multiplier
  BY <1>4, Multipliers
<1>6. Invm(h) % Order # 0
  <2>1. Invm(h) # 0
    <3> SUFFICES ASSUME Invm(h) = 0 PROVE FALSE
      OBVIOUS
    <3>1. h \in Nat
      BY <1>3, PowerIsPositive, OrderAssumption, BaseAssumption DEF Multiplier
    <3> HIDE DEF h
    <3>2. h * Invm(h) = 0
      BY <3>1
    <3> QED
      BY <1>4, <3>2, OrderAssumption
  <2> HIDE DEF h
  <2> QED
    BY <1>4, <2>1, OrderAssumption DEF Scalar
<1>7. rk \in Scalar /\ rk \in Word
  BY <1>2, <1>5, Multipliers, ScalarIsWord
<1>8. ASSUME NEW p \in Point PROVE Mul(p, rk) \in Point
  <2>1. Mul(p, from) \in Point
    BY <1>2, ClosureAssumption
  <2>2. Mul(Mul(p, from), Invm(h)) \in Point
    BY <1>5, <1>6, <2>1, ClosureAssumption
  <2>3. Mul(Mul(p, from), Invm(h)) = Mul(p, rk)
    BY <1>2, <1>5, GroupAssumption DEF Element
  <2> QED
    BY <2>2, <2>3
<1> HIDE DEF rk
<1> QED
  BY <1>1, <1>2, <1>7, <1>8

\* An encapsulated capsule can be written out.
LEMMA EncapsulateIsSound ==
    ASSUME NEW s \in Secret, NEW r1 \in Secret, NEW r2 \in Secret
    PROVE  LET c == Encapsulate(PublicKey(s), r1, r2)
           IN  Sound(c) /\ ~c.reEncrypted
<1> DEFINE h == HashToScalar(<<PublicKey(r1), PublicKey(r2)>>)
           S == r1 + ((r2 * h) % Order)
           c == Encapsulate(PublicKey(s), r1, r2)
<1>1. PublicKey(r1) \in Point /\ PublicKey(r2) \in Point
  BY SecretIsWord
<1>2. h \in Nat
  <2>1. Digest(<<PublicKey(r1), PublicKey(r2)>>) \in Word
    BY <1>1, DigestAssumption DEF Element
  <2> QED
    BY <2>1, WordIsShort DEF HashToScalar
<1>3. S \in Nat /\ S < 2 * Order
  <2> HIDE DEF h
  <2>1. r1 \in 0..(Order - 1) /\ r2 \in 0..(Order - 1)
    BY SecretIsWord DEF Scalar
  <2>2. (r2 * h) \in Nat
    BY <1>2, <2>1, OrderAssumption
  <2>3. (r2 * h) % Order \in 0..(Order - 1)
    BY <2>2, OrderAssumption
  <2> QED
    BY <2>1, <2>3, OrderAssumption
<1>4. S < Power[Size + 1]
  <2> HIDE DEF S
  <2>1. Power[Size] \in Nat /\ Power[Size + 1] \in Nat /\ 2 * Power[Size] <= Power[Size + 1]
    BY PowerIsPositive, BaseAssumption
  <2> QED
    BY <1>3, <2>1, OrderAssumption
<1>5. c.E = PublicKey(r1) /\ c.V = PublicKey(r2) /\ c.S = S /\ c.reEncrypted = FALSE
  BY DEF Encapsulate
<1> HIDE DEF S, c
<1> QED
  BY <1>1, <1>3, <1>4, <1>5 DEF Sound, c

\* A capsule read back can be re-encrypted, and written out again.
LEMMA ReEncryptIsSound ==
    ASSUME NEW c, Sound(c),
           NEW from \in Secret, NEW to \in Secret, NEW t \in Secret
    PROVE  LET d == ReEncryptCapsule(ReadBack(c), ReKey(from, PublicKey(to), t))
           IN  Sound(d) /\ d.reEncrypted
<1> DEFINE r == ReKey(from, PublicKey(to), t)
           b == ReadBack(c)
           d == ReEncryptCapsule(b, r)
<1>1. r.XG \in Point /\ \A p \in Point : Mul(p, r.rk) \in Point
  BY ReKeyIsTyped
<1>2. Number(ScalarToBytes(c.S)) \in Nat /\ Number(ScalarToBytes(c.S)) < Power[Size + 1]
  <2>1. ScalarToBytes(c.S) \in Seq(Byte) /\ Len(ScalarToBytes(c.S)) <= Size
    BY ScalarInBytes, BaseAssumption DEF Sound
  <2> QED
    BY <2>1, NumberIsBounded
<1> HIDE DEF r
<1>3. /\ d.E = Mul(c.E, r.rk) /\ d.V = Mul(c.V, r.rk)
      /\ d.S = Number(ScalarToBytes(c.S))
      /\ d.XG = r.XG /\ d.reEncrypted = TRUE
  BY DEF ReEncryptCapsule, ReadBack
<1> HIDE DEF d
<1>4. Sound(d) /\ d.reEncrypted
  BY <1>1, <1>2, <1>3 DEF Sound
<1> QED
  BY <1>4 DEF d, r

-----------------------------------------------------------------------------
(* The exchange.                                                           *)

\* A generated pair is read back as it was, or refused.
LEMMA KeyPairInBytes ==
    ASSUME NEW s \in Secret
    PROVE  LET k == KeyPair(s)
           IN  /\ k.secret = s
               /\ k.sk \in Seq(Byte) /\ Len(k.sk) \in 0..Size
               /\ k.pk \in Seq(Byte) /\ Len(k.pk) \in 0..PointSize
               /\ ScalarFromBytes(k.sk) \subseteq {s}
               /\ Len(k.sk) = Size => ScalarFromBytes(k.sk) = {s}
               /\ PointFromBytes(k.pk) \subseteq {PublicKey(s)}
<1>1. s \in Word /\ PublicKey(s) \in Point
  BY SecretIsWord
<1>2. /\ ScalarToBytes(s) \in Seq(Byte) /\ Len(ScalarToBytes(s)) \in 0..Size
      /\ ScalarFromBytes(ScalarToBytes(s)) \subseteq {s}
      /\ Len(ScalarToBytes(s)) = Size => ScalarFromBytes(ScalarToBytes(s)) = {s}
  BY <1>1, WordIsShort, ScalarInBytes, WordInBytes
<1>3. /\ PointToBytes(PublicKey(s)) \in Seq(Byte)
      /\ Len(PointToBytes(PublicKey(s))) \in 0..PointSize
      /\ PointFromBytes(PointToBytes(PublicKey(s))) \subseteq {PublicKey(s)}
  BY <1>1, PointInBytes
<1>4. /\ KeyPair(s).secret = s /\ KeyPair(s).sk = ScalarToBytes(s)
      /\ KeyPair(s).pk = PointToBytes(PublicKey(s))
  BY DEF KeyPair
<1> QED
  BY <1>2, <1>3, <1>4

\* Nothing is stored at first.
LEMMA InitInv == Init => IInv
  BY DEF Init, IInv

\* A new key pair is one.
LEMMA CreateKeysInv ==
    ASSUME IInv, NEW p \in Party, NEW s \in Secret, CreateKeys(p, s)
    PROVE  IInv'
  BY DEF CreateKeys, IInv

\* A key read back is the one that was written: the re-encryption key is made from it.
LEMMA CreateRekeyInv ==
    ASSUME IInv, NEW p \in Party, NEW q \in Party, NEW t \in Secret,
           <<p, q>> \in Delegation, CreateRekey(p, q, t)
    PROVE  IInv'
<1>1. PICK from \in Secret : keys[p] = KeyPair(from)
  BY DEF CreateRekey, IInv
<1>2. PICK to \in Secret : keys[q] = KeyPair(to)
  BY DEF CreateRekey, IInv
<1>3. PICK sk \in ScalarFromBytes(keys[p].sk), pk \in PointFromBytes(keys[q].pk) :
        rekeys' = [rekeys EXCEPT ![<<p, q>>] = [bytes |-> ReKeyToBytes(ReKey(sk, pk, t)),
                                            from |-> keys[p].secret,
                                            to |-> keys[q].secret]]
  BY DEF CreateRekey
<1>4. sk = from /\ keys[p].secret = from
  BY <1>1, <1>3, KeyPairInBytes
<1>5. pk = PublicKey(to) /\ keys[q].secret = to
  BY <1>2, <1>3, KeyPairInBytes
<1> DEFINE r == [bytes |-> ReKeyToBytes(ReKey(from, PublicKey(to), t)),
                 from |-> from, to |-> to]
<1>6. MadeRekey(r)
  BY DEF MadeRekey
<1>7. rekeys' = [rekeys EXCEPT ![<<p, q>>] = r]
  BY <1>3, <1>4, <1>5
<1> HIDE DEF r
<1>8. /\ DOMAIN rekeys' = Delegation
      /\ \A d \in Delegation : rekeys'[d] # Absent => MadeRekey(rekeys'[d])
  BY <1>6, <1>7 DEF IInv
<1>9. keys' = keys /\ records' = records
  BY DEF CreateRekey
<1> QED
  BY <1>8, <1>9 DEF IInv

\* Deletion leaves the others as they were.
LEMMA DeleteRekeyInv ==
    ASSUME IInv, NEW p, NEW q, DeleteRekey(p, q)
    PROVE  IInv'
  BY DEF DeleteRekey, IInv

\* So is the capsule of a record.
LEMMA EncryptInv ==
    ASSUME IInv, NEW i \in Item, NEW p \in Party, NEW r1 \in Secret, NEW r2 \in Secret,
           Encrypt(i, p, r1, r2)
    PROVE  IInv'
<1>1. PICK s \in Secret : keys[p] = KeyPair(s)
  BY DEF Encrypt, IInv
<1>2. PICK pk \in PointFromBytes(keys[p].pk) :
        LET c == Encapsulate(pk, r1, r2)
        IN  /\ CipherTakes(c.key)
            /\ records' = [records EXCEPT ![i] =
                            [owner |-> p, secret |-> keys[p].secret,
                             capsule |-> CapsuleToBytes(c), key |-> c.key]]
  BY DEF Encrypt
<1>3. pk = PublicKey(s) /\ keys[p].secret = s
  BY <1>1, <1>2, KeyPairInBytes
<1> DEFINE c == Encapsulate(PublicKey(s), r1, r2)
           r == [owner |-> p, secret |-> s, capsule |-> CapsuleToBytes(c), key |-> c.key]
<1>4. CipherTakes(c.key) /\ records' = [records EXCEPT ![i] = r]
  BY <1>2, <1>3
<1>5. (r1 + r2) % Order # 0
  BY DEF Encrypt
<1>6. MadeRecord(r)
  BY <1>4, <1>5 DEF MadeRecord
<1> HIDE DEF r
<1>7. /\ DOMAIN records' = Item
      /\ \A j \in Item : records'[j] # Absent => MadeRecord(records'[j])
  BY <1>4, <1>6 DEF IInv
<1>8. keys' = keys /\ rekeys' = rekeys
  BY DEF Encrypt
<1> QED
  BY <1>7, <1>8 DEF IInv

\* What is stored was made by the scheme, from the secrets it is kept with, whatever
\* is generated, deleted, lost and encrypted over.
THEOREM Invariance == Spec => []IInv
<1>1. ASSUME IInv, [Next]_vars PROVE IInv'
  <2>1. ASSUME NEW p \in Party, NEW s \in Secret, CreateKeys(p, s) PROVE IInv'
    BY <1>1, <2>1, CreateKeysInv
  <2>2. ASSUME NEW d \in Delegation, DeleteRekey(d[1], d[2]) PROVE IInv'
    BY <1>1, <2>2, DeleteRekeyInv
  <2>3. ASSUME NEW d \in Delegation, NEW t \in Secret, CreateRekey(d[1], d[2], t) PROVE IInv'
    <3>1. d[1] \in Party /\ d[2] \in Party /\ <<d[1], d[2]>> \in Delegation
      BY DelegationAssumption
    <3> QED
      BY <1>1, <2>3, <3>1, CreateRekeyInv
  <2>4. ASSUME NEW i \in Item, NEW p \in Party, NEW r1 \in Secret, NEW r2 \in Secret,
               Encrypt(i, p, r1, r2)
        PROVE  IInv'
    BY <1>1, <2>4, EncryptInv
  <2>5. CASE UNCHANGED vars
    BY <1>1, <2>5 DEF vars, IInv, MadeRekey, MadeRecord
  <2> QED
    BY <1>1, <2>1, <2>2, <2>3, <2>4, <2>5 DEF Next
<1> QED
  BY <1>1, InitInv, PTL DEF Spec

\* The bytes of a re-encryption key, and what is read back from them.
LEMMA RekeyRead ==
    ASSUME NEW from \in Secret, NEW to \in Secret, NEW t \in Secret
    PROVE  LET r == ReKey(from, PublicKey(to), t)
               bytes == ReKeyToBytes(r)
           IN  /\ bytes \in Seq(Byte)
               /\ Len(bytes) \in 0..(Size + PointSize)
               /\ ReKeyFromBytes(bytes) \subseteq {r}
               /\ Len(bytes) = Size + PointSize => ReKeyFromBytes(bytes) = {r}
               /\ r \in ReEncryptionKey
<1> DEFINE r == ReKey(from, PublicKey(to), t)
<1>1. r = [rk |-> r.rk, XG |-> r.XG] /\ r.rk \in Word /\ r.rk \in Scalar /\ r.XG \in Point
  BY ReKeyIsTyped
<1> HIDE DEF r
<1>2. r \in ReEncryptionKey
  BY <1>1 DEF ReEncryptionKey, Element
<1> DEFINE x == [rk |-> r.rk, XG |-> r.XG]
<1>3. LET bytes == ReKeyToBytes(x)
      IN  /\ bytes \in Seq(Byte)
          /\ Len(bytes) \in 0..(Size + PointSize)
          /\ ReKeyFromBytes(bytes) \subseteq {x}
          /\ Len(bytes) = Size + PointSize => ReKeyFromBytes(bytes) = {x}
  BY <1>1, ReKeyInBytes
<1>4. x = r
  BY <1>1
<1> HIDE DEF x
<1> QED
  BY <1>2, <1>3, <1>4 DEF r

\* The bytes of a record's capsule, and what is read back from them.
LEMMA CapsuleRead ==
    ASSUME NEW s \in Secret, NEW r1 \in Secret, NEW r2 \in Secret
    PROVE  LET c == Encapsulate(PublicKey(s), r1, r2)
               bytes == CapsuleToBytes(c)
           IN  /\ bytes \in Seq(Byte)
               /\ Len(bytes) \in 0..(2 * PointSize + Size)
               /\ CapsuleFromBytes(bytes) \subseteq {ReadBack(c)}
               /\ Len(bytes) = 2 * PointSize + Size => CapsuleFromBytes(bytes) = {ReadBack(c)}
               /\ ReadBack(c) \in Capsule /\ ~ReadBack(c).reEncrypted
               /\ Decapsulate(ReadBack(c), s) = c.key
<1> DEFINE c == Encapsulate(PublicKey(s), r1, r2)
           bytes == CapsuleToBytes(c)
<1>1. Sound(c) /\ ~c.reEncrypted
  BY EncapsulateIsSound
<1>2. s \in Scalar /\ r1 \in Scalar /\ r2 \in Scalar
  BY SecretIsWord
<1>3. Decapsulate(c, s) = c.key
  BY <1>2, OwnerOpens
<1> HIDE DEF c
<1>4. Layout(c) = 2 * PointSize + Size
  BY <1>1, Sizes DEF Layout
<1>5. /\ bytes \in Seq(Byte)
      /\ Len(bytes) \in 0..Layout(c)
      /\ Len(bytes) = Layout(c) => CapsuleFromBytes(bytes) = {ReadBack(c)}
      /\ Len(bytes) # Layout(c) => CapsuleFromBytes(bytes) = {}
  BY <1>1, CapsuleInBytes
<1>6. ReadBack(c) \in Capsule /\ ~ReadBack(c).reEncrypted
  <2>1. Number(ScalarToBytes(c.S)) \in Nat
    BY <1>1, ScalarInBytes DEF Sound
  <2> QED
    BY <1>1, <2>1 DEF Sound, ReadBack, Capsule, Element
<1>7. Decapsulate(ReadBack(c), s) = c.key
  <2>1. ReadBack(c).E = c.E /\ ReadBack(c).V = c.V
    BY DEF ReadBack
  <2> QED
    BY <1>1, <1>3, <1>6, <2>1 DEF Decapsulate, DecapsulateOriginal
<1> HIDE DEF bytes
<1>8. /\ bytes \in Seq(Byte)
      /\ Len(bytes) \in 0..(2 * PointSize + Size)
      /\ CapsuleFromBytes(bytes) \subseteq {ReadBack(c)}
      /\ Len(bytes) = 2 * PointSize + Size => CapsuleFromBytes(bytes) = {ReadBack(c)}
  BY <1>4, <1>5
<1> QED
  BY <1>6, <1>7, <1>8 DEF bytes, c

\* Whatever is stored is bytes of its layout, and reads back as a value of the group.
THEOREM TypeCorrect == Spec => []TypeOK
<1>1. ASSUME IInv PROVE TypeOK
  <2>1. ASSUME NEW p \in Party, keys[p] # Absent
        PROVE  /\ keys[p].secret \in Secret
               /\ keys[p].sk \in Seq(Byte) /\ Len(keys[p].sk) <= Size
               /\ keys[p].pk \in Seq(Byte) /\ Len(keys[p].pk) <= PointSize
    <3>1. PICK s \in Secret : keys[p] = KeyPair(s)
      BY <1>1, <2>1 DEF IInv
    <3> QED
      BY <3>1, KeyPairInBytes, Sizes
  <2>2. ASSUME NEW d \in Delegation, rekeys[d] # Absent
        PROVE  /\ rekeys[d].bytes \in Seq(Byte) /\ Len(rekeys[d].bytes) <= Size + PointSize
               /\ ReKeyFromBytes(rekeys[d].bytes) \subseteq ReEncryptionKey
    <3>1. PICK from, to, t \in Secret :
            rekeys[d] = [bytes |-> ReKeyToBytes(ReKey(from, PublicKey(to), t)),
                         from |-> from, to |-> to]
      BY <1>1, <2>2 DEF IInv, MadeRekey
    <3>2. rekeys[d].bytes = ReKeyToBytes(ReKey(from, PublicKey(to), t))
      BY <3>1
    <3> QED
      BY <3>2, RekeyRead, Sizes
  <2>3. ASSUME NEW i \in Item, records[i] # Absent
        PROVE  /\ records[i].owner \in Party
               /\ records[i].capsule \in Seq(Byte)
               /\ Len(records[i].capsule) <= 2 * PointSize + Size
               /\ CapsuleFromBytes(records[i].capsule) \subseteq Capsule
    <3>1. PICK p \in Party, s, r1, r2 \in Secret :
            LET c == Encapsulate(PublicKey(s), r1, r2)
            IN  records[i] = [owner |-> p, secret |-> s,
                              capsule |-> CapsuleToBytes(c), key |-> c.key]
      BY <1>1, <2>3 DEF IInv, MadeRecord
    <3> DEFINE c == Encapsulate(PublicKey(s), r1, r2)
    <3>2. records[i].owner = p /\ records[i].capsule = CapsuleToBytes(c)
      BY <3>1
    <3>3. /\ CapsuleToBytes(c) \in Seq(Byte)
          /\ Len(CapsuleToBytes(c)) \in 0..(2 * PointSize + Size)
          /\ CapsuleFromBytes(CapsuleToBytes(c)) \subseteq {ReadBack(c)}
          /\ ReadBack(c) \in Capsule
      BY CapsuleRead
    <3> HIDE DEF c
    <3> QED
      BY <3>2, <3>3, Sizes
  <2> QED
    BY <2>1, <2>2, <2>3 DEF TypeOK
<1> QED
  BY <1>1, Invariance, PTL

\* What is accepted back from bytes is what was written, for every secret and every
\* random number: no shortened value is cut at the wrong places.
THEOREM ReadBackExact == Spec => []ReadBackIsExact
<1>1. ASSUME IInv PROVE ReadBackIsExact
  <2>1. ASSUME NEW p \in Party, keys[p] # Absent
        PROVE  /\ ScalarFromBytes(keys[p].sk) \subseteq {keys[p].secret}
               /\ PointFromBytes(keys[p].pk) \subseteq {PublicKey(keys[p].secret)}
    <3>1. PICK s \in Secret : keys[p] = KeyPair(s)
      BY <1>1, <2>1 DEF IInv
    <3> QED
      BY <3>1, KeyPairInBytes
  <2>2. ASSUME NEW i \in Item, records[i] # Absent,
               NEW b \in CapsuleFromBytes(records[i].capsule)
        PROVE  /\ ~b.reEncrypted
               /\ Digest(<<Mul(Add(b.E, b.V), records[i].secret)>>) = records[i].key
    <3>1. PICK p \in Party, s, r1, r2 \in Secret :
            LET c == Encapsulate(PublicKey(s), r1, r2)
            IN  records[i] = [owner |-> p, secret |-> s,
                              capsule |-> CapsuleToBytes(c), key |-> c.key]
      BY <1>1, <2>2 DEF IInv, MadeRecord
    <3> DEFINE c == Encapsulate(PublicKey(s), r1, r2)
    <3>2. /\ records[i].secret = s /\ records[i].capsule = CapsuleToBytes(c)
          /\ records[i].key = c.key
      BY <3>1
    <3>3. /\ CapsuleFromBytes(CapsuleToBytes(c)) \subseteq {ReadBack(c)}
          /\ ~ReadBack(c).reEncrypted
          /\ Decapsulate(ReadBack(c), s) = c.key
      BY CapsuleRead
    <3> HIDE DEF c
    <3>4. b = ReadBack(c)
      BY <2>2, <3>2, <3>3
    <3> QED
      BY <3>2, <3>3, <3>4 DEF Decapsulate, DecapsulateOriginal
  <2> QED
    BY <2>1, <2>2 DEF ReadBackIsExact
<1> QED
  BY <1>1, Invariance, PTL

-----------------------------------------------------------------------------
(* Reading a record.                                                       *)

\* The capsule the proxy makes of one made for the key of s, to be opened by that of to.
ReEncrypted(s, to, t, r1, r2) ==
    ReEncryptCapsule(ReadBack(Encapsulate(PublicKey(s), r1, r2)), ReKey(s, PublicKey(to), t))

\* What the bytes of such a capsule are read as, and that key to opens it to key.
OpensTo(d, to, key) ==
    LET bytes == CapsuleToBytes(d)
    IN  /\ Len(bytes) # 2 * PointSize + Size => CapsuleFromBytes(bytes) \subseteq {ReadBack(d)}
        /\ Len(bytes) = 3 * PointSize + Size => CapsuleFromBytes(bytes) = {ReadBack(d)}
        /\ Decapsulate(ReadBack(d), to) = key

\* A capsule that was read, re-encrypted, written out and read again opens with the
\* delegatee's key to what it was encapsulated with.
LEMMA ReEncryptedRead ==
    ASSUME NEW s \in Secret, NEW to \in Secret, NEW t \in Secret,
           NEW r1 \in Secret, NEW r2 \in Secret
    PROVE  OpensTo(ReEncrypted(s, to, t, r1, r2), to, Encapsulate(PublicKey(s), r1, r2).key)
<1> DEFINE c == Encapsulate(PublicKey(s), r1, r2)
           r == ReKey(s, PublicKey(to), t)
           d == ReEncryptCapsule(ReadBack(c), r)
           bytes == CapsuleToBytes(d)
<1>1. Sound(c) /\ ~c.reEncrypted
  BY EncapsulateIsSound
<1>2. Sound(d) /\ d.reEncrypted
  <2> HIDE DEF c
  <2> QED
    BY <1>1, ReEncryptIsSound
<1>3. s \in Scalar /\ to \in Scalar /\ t \in Scalar /\ r1 \in Scalar /\ r2 \in Scalar
  BY SecretIsWord
<1>4. Decapsulate(ReEncryptCapsule(c, r), to) = c.key
  BY <1>3, DelegateeOpens
<1> HIDE DEF c, r
<1>5. /\ d.E = Mul(c.E, r.rk) /\ d.V = Mul(c.V, r.rk)
      /\ d.XG = r.XG /\ d.reEncrypted = TRUE
  BY DEF ReEncryptCapsule, ReadBack
<1>6. Decapsulate(ReadBack(d), to) = c.key
  <2> DEFINE a == ReEncryptCapsule(c, r)
             b == ReadBack(d)
  <2>1. c.E = c.E /\ a.reEncrypted = TRUE
    <3>1. a = [c EXCEPT !.E = Mul(@, r.rk), !.V = Mul(@, r.rk),
                        !.XG = r.XG, !.reEncrypted = TRUE]
      BY DEF ReEncryptCapsule
    <3> QED
      BY <3>1 DEF c, Encapsulate
  <2>2. a.E = Mul(c.E, r.rk) /\ a.V = Mul(c.V, r.rk) /\ a.XG = r.XG
    BY DEF ReEncryptCapsule, c, Encapsulate
  <2>3. /\ b.E = Mul(c.E, r.rk) /\ b.V = Mul(c.V, r.rk)
        /\ b.XG = r.XG /\ b.reEncrypted = TRUE
    <3> HIDE DEF d
    <3> QED
      BY <1>5 DEF ReadBack
  <2> HIDE DEF a, b
  <2>4. Decapsulate(a, to) = DecapsulateReEncrypted(a, to)
    BY <2>1 DEF Decapsulate
  <2>5. Decapsulate(b, to) = DecapsulateReEncrypted(b, to)
    BY <2>3 DEF Decapsulate
  <2>6. DecapsulateReEncrypted(a, to) = DecapsulateReEncrypted(b, to)
    BY <2>2, <2>3 DEF DecapsulateReEncrypted
  <2> QED
    BY <1>4, <2>4, <2>5, <2>6 DEF a, b
<1> HIDE DEF d
<1>7. Layout(d) = 3 * PointSize + Size
  BY <1>2, Sizes DEF Layout
<1>8. /\ Len(bytes) = Layout(d) => CapsuleFromBytes(bytes) = {ReadBack(d)}
      /\ Len(bytes) # Layout(d) =>
           CapsuleFromBytes(bytes) = {} \/ Len(bytes) = 2 * PointSize + Size
  BY <1>2, CapsuleInBytes
<1> HIDE DEF bytes
<1>9. /\ Len(bytes) # 2 * PointSize + Size => CapsuleFromBytes(bytes) \subseteq {ReadBack(d)}
      /\ Len(bytes) = 3 * PointSize + Size => CapsuleFromBytes(bytes) = {ReadBack(d)}
  BY <1>7, <1>8
<1> QED
  BY <1>6, <1>9 DEF OpensTo, bytes, d, c, r, ReEncrypted

\* What a reader makes of one capsule it can read as c, with a key it can read as s.
LEMMA DecryptIs ==
    ASSUME NEW q, NEW capsule, NEW c, NEW s,
           CapsuleFromBytes(capsule) \subseteq {c}, ScalarFromBytes(keys[q].sk) \subseteq {s}
    PROVE  /\ Decrypt(q, capsule) \subseteq {Decapsulate(c, s)}
           /\ /\ CapsuleFromBytes(capsule) = {c} /\ ScalarFromBytes(keys[q].sk) = {s}
              /\ CipherTakes(Decapsulate(c, s))
              => Decrypt(q, capsule) = {Decapsulate(c, s)}
<1> DEFINE K == {Decapsulate(b, k) : b \in CapsuleFromBytes(capsule),
                                    k \in ScalarFromBytes(keys[q].sk)}
<1>1. Decrypt(q, capsule) = {k \in K : CipherTakes(k)}
  BY DEF Decrypt
<1>2. K \subseteq {Decapsulate(c, s)}
  OBVIOUS
<1>3. ASSUME CapsuleFromBytes(capsule) = {c}, ScalarFromBytes(keys[q].sk) = {s}
      PROVE  K = {Decapsulate(c, s)}
  BY <1>3
<1> HIDE DEF K
<1> QED
  BY <1>1, <1>2, <1>3

\* An owner who still has the key of a record.
LEMMA OwnerReads ==
    ASSUME IInv, NEW i \in Item, NEW q \in Party, Entitled(i, q), records[i].owner = q
    PROVE  /\ Reads(i, q) \subseteq {records[i].key}
           /\ WholeLength(i, q) => Reads(i, q) = {records[i].key}
<1>1. PICK p \in Party, s, r1, r2 \in Secret :
        LET c == Encapsulate(PublicKey(s), r1, r2)
        IN  /\ CipherTakes(c.key)
            /\ records[i] = [owner |-> p, secret |-> s,
                             capsule |-> CapsuleToBytes(c), key |-> c.key]
  BY DEF Entitled, IInv, MadeRecord
<1> DEFINE c == Encapsulate(PublicKey(s), r1, r2)
           b == ReadBack(c)
<1>2. /\ records[i].secret = s /\ records[i].capsule = CapsuleToBytes(c)
      /\ records[i].key = c.key /\ CipherTakes(c.key)
  BY <1>1
<1>3. /\ CapsuleFromBytes(records[i].capsule) \subseteq {b}
      /\ Len(records[i].capsule) = 2 * PointSize + Size
           => CapsuleFromBytes(records[i].capsule) = {b}
      /\ Decapsulate(b, s) = c.key
  <2>1. LET bytes == CapsuleToBytes(c)
        IN  /\ CapsuleFromBytes(bytes) \subseteq {b}
            /\ Len(bytes) = 2 * PointSize + Size => CapsuleFromBytes(bytes) = {b}
            /\ Decapsulate(b, s) = c.key
    BY CapsuleRead
  <2> HIDE DEF c, b
  <2> QED
    BY <1>2, <2>1
<1> HIDE DEF c, b
<1>4. PICK k \in Secret : keys[q] = KeyPair(k)
  BY DEF Entitled, IInv
<1>5. /\ keys[q].secret = k
      /\ ScalarFromBytes(keys[q].sk) \subseteq {k}
      /\ Len(keys[q].sk) = Size => ScalarFromBytes(keys[q].sk) = {k}
  BY <1>4, KeyPairInBytes
<1>6. k = s
  BY <1>2, <1>5 DEF Entitled
<1>7. Reads(i, q) = Decrypt(q, records[i].capsule)
  <2>1. Delivered(i, q) = {records[i].capsule}
    BY DEF Delivered
  <2> QED
    BY <2>1 DEF Reads
<1>8. Decrypt(q, records[i].capsule) \subseteq {c.key}
  BY <1>3, <1>5, <1>6, DecryptIs
<1>9. ASSUME WholeLength(i, q) PROVE Decrypt(q, records[i].capsule) = {c.key}
  BY <1>2, <1>3, <1>5, <1>6, <1>9, DecryptIs DEF WholeLength
<1> QED
  BY <1>2, <1>7, <1>8, <1>9

\* A delegatee, for whom the owner's key was made into a re-encryption key.
LEMMA DelegateeReads ==
    ASSUME IInv, NEW i \in Item, NEW q \in Party, Entitled(i, q), records[i].owner # q
    PROVE  /\ ~LooksOriginal(i, q) => Reads(i, q) \subseteq {records[i].key}
           /\ WholeLength(i, q) => Reads(i, q) = {records[i].key}
<1> DEFINE e == <<records[i].owner, q>>
<1>1. PICK p \in Party, s, r1, r2 \in Secret :
        LET c == Encapsulate(PublicKey(s), r1, r2)
        IN  /\ CipherTakes(c.key)
            /\ records[i] = [owner |-> p, secret |-> s,
                             capsule |-> CapsuleToBytes(c), key |-> c.key]
  BY DEF Entitled, IInv, MadeRecord
<1>2. PICK k \in Secret : keys[q] = KeyPair(k)
  BY DEF Entitled, IInv
<1>3. /\ keys[q].secret = k
      /\ ScalarFromBytes(keys[q].sk) \subseteq {k}
      /\ Len(keys[q].sk) = Size => ScalarFromBytes(keys[q].sk) = {k}
  BY <1>2, KeyPairInBytes
<1>4. /\ e \in Delegation /\ rekeys[e] # Absent
      /\ rekeys[e].from = records[i].secret /\ rekeys[e].to = keys[q].secret
  BY DEF Entitled
<1>5. PICK from, to, t \in Secret :
        rekeys[e] = [bytes |-> ReKeyToBytes(ReKey(from, PublicKey(to), t)),
                     from |-> from, to |-> to]
  BY <1>4 DEF IInv, MadeRekey
<1> DEFINE c == Encapsulate(PublicKey(s), r1, r2)
           b == ReadBack(c)
           r == ReKey(s, PublicKey(k), t)
           d == ReEncrypted(s, k, t, r1, r2)
           bytes == CapsuleToBytes(d)
<1>6. /\ records[i].secret = s /\ records[i].capsule = CapsuleToBytes(c)
      /\ records[i].key = c.key /\ CipherTakes(c.key)
  BY <1>1
<1>7. from = s /\ to = k /\ rekeys[e].bytes = ReKeyToBytes(r)
  BY <1>3, <1>4, <1>5, <1>6
<1>8. /\ CapsuleFromBytes(CapsuleToBytes(c)) \subseteq {b}
      /\ Len(CapsuleToBytes(c)) = 2 * PointSize + Size
           => CapsuleFromBytes(CapsuleToBytes(c)) = {b}
  BY CapsuleRead
<1>9. /\ ReKeyFromBytes(ReKeyToBytes(r)) \subseteq {r}
      /\ Len(ReKeyToBytes(r)) = Size + PointSize => ReKeyFromBytes(ReKeyToBytes(r)) = {r}
  BY RekeyRead
<1>10. /\ Len(bytes) # 2 * PointSize + Size => CapsuleFromBytes(bytes) \subseteq {ReadBack(d)}
       /\ Len(bytes) = 3 * PointSize + Size => CapsuleFromBytes(bytes) = {ReadBack(d)}
       /\ Decapsulate(ReadBack(d), k) = c.key
  <2>1. OpensTo(d, k, c.key)
    BY ReEncryptedRead
  <2> HIDE DEF d, c
  <2> QED
    BY <2>1 DEF OpensTo
<1>11. Delivered(i, q) = ReEncrypt(CapsuleToBytes(c), ReKeyToBytes(r))
  <2> HIDE DEF c, r
  <2> QED
    BY <1>4, <1>6, <1>7 DEF Delivered
<1>12. d = ReEncryptCapsule(b, r)
  BY DEF ReEncrypted
<1> HIDE DEF c, b, r, d, e
<1>13. Delivered(i, q) \subseteq {bytes}
  BY <1>8, <1>9, <1>11, <1>12 DEF ReEncrypt
<1>14. ASSUME WholeLength(i, q) PROVE Delivered(i, q) = {bytes}
  <2>1. /\ Len(CapsuleToBytes(c)) = 2 * PointSize + Size
        /\ Len(ReKeyToBytes(r)) = Size + PointSize
    BY <1>6, <1>7, <1>14 DEF WholeLength, e
  <2>2. CapsuleFromBytes(CapsuleToBytes(c)) = {b} /\ ReKeyFromBytes(ReKeyToBytes(r)) = {r}
    BY <1>8, <1>9, <2>1
  <2> QED
    BY <1>11, <1>12, <2>2 DEF ReEncrypt
<1> HIDE DEF bytes
<1>15. ASSUME ~LooksOriginal(i, q) PROVE Reads(i, q) \subseteq {c.key}
  <2>1. CASE Delivered(i, q) = {}
    BY <2>1 DEF Reads
  <2>2. CASE Delivered(i, q) = {bytes}
    <3>1. Len(bytes) # 2 * PointSize + Size
      BY <1>15, <2>2 DEF LooksOriginal
    <3>2. CapsuleFromBytes(bytes) \subseteq {ReadBack(d)}
      BY <1>10, <3>1
    <3>3. Decrypt(q, bytes) \subseteq {c.key}
      BY <1>3, <1>10, <3>2, DecryptIs
    <3> QED
      BY <2>2, <3>3 DEF Reads
  <2> QED
    BY <1>13, <2>1, <2>2
<1>16. ASSUME WholeLength(i, q) PROVE Reads(i, q) = {c.key}
  <2>1. Len(bytes) = 3 * PointSize + Size /\ Len(keys[q].sk) = Size
    BY <1>14, <1>16 DEF WholeLength
  <2>2. CapsuleFromBytes(bytes) = {ReadBack(d)} /\ ScalarFromBytes(keys[q].sk) = {k}
    BY <1>3, <1>10, <2>1
  <2>3. Decrypt(q, bytes) = {c.key}
    BY <1>6, <1>10, <2>2, DecryptIs
  <2> QED
    BY <1>14, <1>16, <2>3 DEF Reads
<1> QED
  BY <1>6, <1>15, <1>16

\* Whoever has the key a record is for, or one it was delegated to, and gets a
\* symmetric key out of it, gets the right one: through every encoding, for every
\* secret and every random number.
THEOREM OnlyTheRightKey == Spec => []NeverAnotherKey
<1>1. IInv => NeverAnotherKey
  BY OwnerReads, DelegateeReads DEF NeverAnotherKey
<1> QED
  BY <1>1, Invariance, PTL

\* Nothing but a lost leading zero keeps an entitled reader from a record.
THEOREM NothingElseLost == Spec => []OnlyZerosLost
<1>1. IInv => OnlyZerosLost
  BY OwnerReads, DelegateeReads DEF OnlyZerosLost
<1> QED
  BY <1>1, Invariance, PTL
=============================================================================
