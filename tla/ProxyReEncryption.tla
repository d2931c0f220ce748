------------------------- MODULE ProxyReEncryption -------------------------
(***************************************************************************)
(* The re-encryption scheme of proxy.js and the bytes its values travel    *)
(* in.  The key pair of an operator, the re-encryption keys made from it   *)
(* and the capsule of every record are stored as bytes, on the ledger or   *)
(* at the proxy, and read back by another process before they are used.    *)
(*                                                                         *)
(* The group is a parameter: its order, its points (pairs of coordinates), *)
(* addition, and multiplication by a number.  Digest stands for SHA256.    *)
(* Bytes are digits in base Base; a number of the group takes Size of      *)
(* them, as 32 bytes do for secp256k1.  What cannot be read back is an     *)
(* exception in the code: an operator that reads returns the set of its    *)
(* results, which is empty then.                                           *)
(***************************************************************************)
EXTENDS Integers, Sequences

CONSTANTS
    Order, Point, Zero,      \* the group: order, points, point at infinity
    Generator,
    Add(_, _), Mul(_, _),    \* of two points, of a point by a number
    Invm(_),              \* of a number modulo the order
    Digest(_),               \* SHA256 of a sequence of points, a number
    Base, Size,              \* values of a byte, bytes of a number
    Secret,                  \* numbers genKeyPair may draw
    Party,                   \* operators
    Delegation,              \* pairs <<delegator, delegatee>>
    Item,                    \* encrypted records
    Absent

Scalar == 0..(Order - 1)

\* Powers of the base, up to one byte more than numbers take.
Power[n \in 0..(Size + 1)] == IF n = 0 THEN 1 ELSE Base * Power[n - 1]

\* Numbers of Size bytes.
Word == 0..(Power[Size] - 1)

\* Numbers a point is multiplied by: sums of two scalars, digests plus one.
Multiplier == (0..(2 * Order)) \cup (1..Power[Size])

Element == Point \cup {Zero}

\* Among the bytes is 4, the mark of a point written in full.
ASSUME BaseAssumption == Base \in Nat /\ Base > 4 /\ Size \in Nat \ {0}

ASSUME OrderAssumption == Order \in Nat /\ Order > 1 /\ Order <= Power[Size]

\* The coordinates of a point fit their bytes; the point at infinity has none.
ASSUME PointAssumption == Point \subseteq Word \X Word

\* The order is prime: no point but the one at infinity has a smaller one.
ASSUME ClosureAssumption ==
    /\ Generator \in Point
    /\ \A p, q \in Element : Add(p, q) \in Element
    /\ \A p \in Element, a \in Multiplier : Mul(p, a) \in Element
    /\ \A p \in Point, a \in Multiplier : a % Order # 0 => Mul(p, a) \in Point

\* The laws of a group whose order is Order.
ASSUME GroupAssumption ==
    /\ \A p \in Element : Mul(p, 1) = p
    /\ \A p \in Element, a, b \in Multiplier :
        Mul(Mul(p, a), b) = Mul(p, (a * b) % Order)
    /\ \A p \in Element, a, b \in Scalar :
        Add(Mul(p, a), Mul(p, b)) = Mul(p, a + b)
    /\ \A p, q \in Element, a \in Multiplier :
        Mul(Add(p, q), a) = Add(Mul(p, a), Mul(q, a))

ASSUME InvmAssumption ==
    \A a \in Multiplier : a % Order # 0 =>
        Invm(a) \in Scalar /\ (a * Invm(a)) % Order = 1

\* A digest is a number of Size bytes, and is not -1 modulo the order: one in
\* 2^256 digests is, for secp256k1.
ASSUME DigestAssumption ==
    \A p, q, r \in Element : \A s \in {<<p>>, <<p, q>>, <<p, q, r>>} :
        Digest(s) \in Word /\ (Digest(s) + 1) % Order # 0

ASSUME SecretAssumption == Secret \subseteq Scalar \ {0}

ASSUME DelegationAssumption == Delegation \subseteq Party \X Party

VARIABLES
    keys,     \* kms: the key pair of each operator, in bytes, and its secret
    rekeys,   \* proxy: the re-encryption key of each pair, and what it is from
    records   \* chaincodes: the capsule of each record, and what it hides

vars == <<keys, rekeys, records>>

-----------------------------------------------------------------------------
(* Values.                                                                 *)

\* A capsule, and a re-encryption key: its number and the point of its own key pair.
Capsule == [E : Element, V : Element, S : Nat, XG : Element, reEncrypted : BOOLEAN]

ReEncryptionKey == [rk : Scalar, XG : Element]

\* hash_to_scalar adds one to the digest and does not reduce it.
HashToScalar(points) == Digest(points) + 1

PublicKey(sk) == Mul(Generator, sk)

\* Two fresh key pairs r1 and r2; S is their signature, which nobody verifies.
Encapsulate(pk, r1, r2) ==
    LET E == PublicKey(r1)
        V == PublicKey(r2)
    IN  [E |-> E, V |-> V,
         S |-> r1 + ((r2 * HashToScalar(<<E, V>>)) % Order),
         XG |-> Zero, reEncrypted |-> FALSE,
         key |-> Digest(<<Mul(pk, r1 + r2)>>)]

\* A fresh key pair t, and the delegator's secret over a number that the
\* delegatee can compute from the point of t.
ReKey(sk, pk, t) ==
    LET X == PublicKey(t)
    IN  [rk |-> (sk * Invm(HashToScalar(<<X, pk, Mul(pk, t)>>))) % Order,
         XG |-> X]

\* Faulty variant: only one of the two points is moved.
ReEncryptCapsuleE(c, rekey) ==
    [c EXCEPT !.E = Mul(@, rekey.rk), !.XG = rekey.XG, !.reEncrypted = TRUE]

ReEncryptCapsule(c, rekey) ==
    [c EXCEPT !.E = Mul(@, rekey.rk), !.V = Mul(@, rekey.rk),
              !.XG = rekey.XG, !.reEncrypted = TRUE]

DecapsulateOriginal(c, sk) == Digest(<<Mul(Add(c.E, c.V), sk)>>)

DecapsulateReEncrypted(c, sk) ==
    LET h == HashToScalar(<<c.XG, PublicKey(sk), Mul(c.XG, sk)>>)
    IN  Digest(<<Mul(Add(c.E, c.V), h)>>)

Decapsulate(c, sk) ==
    IF c.reEncrypted THEN DecapsulateReEncrypted(c, sk) ELSE DecapsulateOriginal(c, sk)

-----------------------------------------------------------------------------
(* Bytes.                                                                  *)

\* BN.toArray: big-endian, without leading zeros (a zero is one byte).
ToArray(n) ==
    LET len == CHOOSE l \in 1..(Size + 1) :
                    n < Power[l] /\ (l = 1 \/ n >= Power[l - 1])
    IN  [i \in 1..len |-> (n \div Power[len - i]) % Base]

\* new BN(bytes): the value of the first k bytes, for every k.
Number(bytes) ==
    LET value[k \in 0..Len(bytes)] ==
            IF k = 0 THEN 0 ELSE Base * value[k - 1] + bytes[k]
    IN  value[Len(bytes)]

PointSize == 1 + 2 * Size

\* Faulty variant: a byte too many is kept.
ScalarToBytesWhole(n) == ToArray(n)

\* One byte too many is cut off at the front.
ScalarToBytes(n) == IF Len(ToArray(n)) = Size + 1 THEN Tail(ToArray(n)) ELSE ToArray(n)

ScalarFromBytes(bytes) ==
    IF Len(bytes) \in {Size, 2 * Size} THEN {Number(bytes)} ELSE {}

PointToBytes(p) == <<4>> \o ToArray(p[1]) \o ToArray(p[2])

\* Faulty variant: any length is taken, what is missing counts as nothing.
PointFromBytesAny(bytes) ==
    {<<Number(SubSeq(bytes, 2, Size + 1)),
       Number(SubSeq(bytes, Size + 2, Len(bytes)))>>}

PointFromBytes(bytes) ==
    IF Len(bytes) = PointSize
    THEN {<<Number(SubSeq(bytes, 2, Size + 1)), Number(SubSeq(bytes, Size + 2, PointSize))>>}
    ELSE {}

ReKeyToBytes(rekey) == ScalarToBytes(rekey.rk) \o PointToBytes(rekey.XG)

ReKeyFromBytes(bytes) ==
    IF Len(bytes) # Size + PointSize THEN {}
    ELSE {[rk |-> rk, XG |-> XG] :
            rk \in ScalarFromBytes(SubSeq(bytes, 1, Size)),
            XG \in PointFromBytes(SubSeq(bytes, Size + 1, Size + PointSize))}

CapsuleToBytes(c) ==
    PointToBytes(c.E) \o PointToBytes(c.V) \o ScalarToBytes(c.S)
        \o (IF c.reEncrypted THEN PointToBytes(c.XG) ELSE <<>>)

\* Faulty variant: a capsule is taken for an original one, whatever its length.
CapsuleFromBytesOriginal(bytes) ==
    LET original == 2 * PointSize + Size
    IN  IF Len(bytes) # original THEN {}
        ELSE {[E |-> E, V |-> V, S |-> S, XG |-> Zero, reEncrypted |-> FALSE] :
                E \in PointFromBytes(SubSeq(bytes, 1, PointSize)),
                V \in PointFromBytes(SubSeq(bytes, PointSize + 1, 2 * PointSize)),
                S \in ScalarFromBytes(SubSeq(bytes, 2 * PointSize + 1, original))}

\* The length alone tells a re-encrypted capsule from an original one.
CapsuleFromBytes(bytes) ==
    LET part(from, to) == SubSeq(bytes, from, to)
        original == 2 * PointSize + Size
        long     == Len(bytes) = original + PointSize
    IN  IF Len(bytes) # original /\ ~long THEN {}
        ELSE {[E |-> E, V |-> V, S |-> S, XG |-> XG, reEncrypted |-> long] :
                E \in PointFromBytes(part(1, PointSize)),
                V \in PointFromBytes(part(PointSize + 1, 2 * PointSize)),
                S \in ScalarFromBytes(part(2 * PointSize + 1, original)),
                XG \in IF long THEN PointFromBytes(part(original + 1, original + PointSize))
                       ELSE {Zero}}

-----------------------------------------------------------------------------
(* The exchange.                                                           *)

Init ==
    /\ keys = [p \in Party |-> Absent]
    /\ rekeys = [d \in Delegation |-> Absent]
    /\ records = [i \in Item |-> Absent]

\* What is stored of a generated pair, and the secret it came from.
KeyPair(s) ==
    [secret |-> s, sk |-> ScalarToBytes(s), pk |-> PointToBytes(PublicKey(s))]

(* POST kms: a key pair is generated and stored in bytes.                  *)
CreateKeys(p, s) ==
    /\ keys' = [keys EXCEPT ![p] = KeyPair(s)]
    /\ UNCHANGED <<rekeys, records>>

(* POST kms/rekey, when both keys can be read; the proxy refuses a pair it *)
(* has a key for.                                                          *)
CreateRekey(p, q, t) ==
    /\ keys[p] # Absent /\ keys[q] # Absent
    /\ rekeys[<<p, q>>] = Absent
    /\ \E sk \in ScalarFromBytes(keys[p].sk), pk \in PointFromBytes(keys[q].pk) :
        rekeys' = [rekeys EXCEPT ![<<p, q>>] = [bytes |-> ReKeyToBytes(ReKey(sk, pk, t)),
                                            from |-> keys[p].secret,
                                            to |-> keys[q].secret]]
    /\ UNCHANGED <<keys, records>>

DeleteRekey(p, q) ==
    /\ rekeys[<<p, q>>] # Absent
    /\ rekeys' = [rekeys EXCEPT ![<<p, q>>] = Absent]
    /\ UNCHANGED <<keys, records>>

\* A cipher takes a symmetric key of Size bytes and no other.
CipherTakes(key) == Len(ScalarToBytes(key)) = Size

(* encryptEntity of a chaincode, for the operator whose public key it      *)
(* takes.  The point of r1 + r2 = 0 has no bytes to digest.                *)
Encrypt(i, p, r1, r2) ==
    /\ keys[p] # Absent
    /\ (r1 + r2) % Order # 0
    /\ \E pk \in PointFromBytes(keys[p].pk) :
        LET c == Encapsulate(pk, r1, r2)
        IN  /\ CipherTakes(c.key)
            /\ records' = [records EXCEPT ![i] =
                            [owner |-> p, secret |-> keys[p].secret,
                             capsule |-> CapsuleToBytes(c), key |-> c.key]]
    /\ UNCHANGED <<keys, rekeys>>

Next ==
    \/ \E p \in Party, s \in Secret : CreateKeys(p, s)
    \/ \E d \in Delegation :
        DeleteRekey(d[1], d[2]) \/ \E t \in Secret : CreateRekey(d[1], d[2], t)
    \/ \E i \in Item, p \in Party, r1, r2 \in Secret : Encrypt(i, p, r1, r2)

Spec == Init /\ [][Next]_vars

-----------------------------------------------------------------------------
(* Reading a record.                                                       *)

\* The proxy's answer for one capsule.
ReEncrypt(capsule, rekey) ==
    {CapsuleToBytes(ReEncryptCapsule(c, rk)) :
        c \in CapsuleFromBytes(capsule), rk \in ReKeyFromBytes(rekey)}

Decrypt(p, capsule) ==
    {k \in {Decapsulate(c, sk) : c \in CapsuleFromBytes(capsule),
                                 sk \in ScalarFromBytes(keys[p].sk)} : CipherTakes(k)}

\* What the proxy hands to reader q: the owner's capsules go through as they are.
Delivered(i, q) ==
    LET r == records[i] IN
    IF r.owner = q THEN {r.capsule}
    ELSE IF <<r.owner, q>> \notin Delegation \/ rekeys[<<r.owner, q>>] = Absent THEN {}
    ELSE ReEncrypt(r.capsule, rekeys[<<r.owner, q>>].bytes)

Reads(i, q) == UNION {Decrypt(q, c) : c \in Delivered(i, q)}

\* Reader q has the key the record is for, or one it was delegated to.
Entitled(i, q) ==
    /\ records[i] # Absent /\ keys[q] # Absent
    /\ \/ records[i].owner = q /\ keys[q].secret = records[i].secret
       \/ /\ records[i].owner # q
          /\ <<records[i].owner, q>> \in Delegation
          /\ rekeys[<<records[i].owner, q>>] # Absent
          /\ rekeys[<<records[i].owner, q>>].from = records[i].secret
          /\ rekeys[<<records[i].owner, q>>].to = keys[q].secret

-----------------------------------------------------------------------------
(* Properties.                                                             *)

Byte == 0..(Base - 1)

\* Types: bytes are bytes, nothing is longer than its layout, and what is read back
\* from them is a capsule, or a re-encryption key, of the group.
TypeOK ==
    /\ \A p \in Party : keys[p] # Absent =>
        /\ keys[p].secret \in Secret
        /\ keys[p].sk \in Seq(Byte) /\ Len(keys[p].sk) <= Size
        /\ keys[p].pk \in Seq(Byte) /\ Len(keys[p].pk) <= PointSize
    /\ \A d \in Delegation : rekeys[d] # Absent =>
        /\ rekeys[d].bytes \in Seq(Byte) /\ Len(rekeys[d].bytes) <= Size + PointSize
        /\ ReKeyFromBytes(rekeys[d].bytes) \subseteq ReEncryptionKey
    /\ \A i \in Item : records[i] # Absent =>
        /\ records[i].owner \in Party
        /\ records[i].capsule \in Seq(Byte)
        /\ Len(records[i].capsule) <= 2 * PointSize + Size
        /\ CapsuleFromBytes(records[i].capsule) \subseteq Capsule

\* A re-encrypted capsule that lost as many leading zeros as a point has bytes is as
\* long as an original one.
LooksOriginal(i, q) ==
    records[i].owner # q /\ \E c \in Delivered(i, q) : Len(c) = 2 * PointSize + Size

\* Whoever is entitled to a record and gets as far as a symmetric key gets the
\* one the record was encrypted with, through the owner's key and through
\* re-encryption alike: no chain of encodings and multiplications ends in a
\* wrong key that would open as garbage, unless the length is taken for another's.
NeverAnotherKey ==
    \A i \in Item, q \in Party :
        Entitled(i, q) /\ ~LooksOriginal(i, q) => Reads(i, q) \subseteq {records[i].key}

\* What is accepted back from bytes is what was written: the fields of a
\* shortened value are never cut at the wrong places, an original capsule is
\* never taken for a re-encrypted one.
ReadBackIsExact ==
    /\ \A p \in Party : keys[p] # Absent =>
        /\ ScalarFromBytes(keys[p].sk) \subseteq {keys[p].secret}
        /\ PointFromBytes(keys[p].pk) \subseteq {PublicKey(keys[p].secret)}
    /\ \A i \in Item : records[i] # Absent =>
        \A c \in CapsuleFromBytes(records[i].capsule) :
            /\ ~c.reEncrypted
            /\ Digest(<<Mul(Add(c.E, c.V), records[i].secret)>>) = records[i].key

\* Reader q's private key, the capsule of record i and what it takes to deliver it
\* are all as long as their layout.
WholeLength(i, q) ==
    /\ Len(keys[q].sk) = Size
    /\ Len(records[i].capsule) = 2 * PointSize + Size
    /\ records[i].owner # q =>
        /\ Len(rekeys[<<records[i].owner, q>>].bytes) = Size + PointSize
        /\ \A c \in Delivered(i, q) : Len(c) = 3 * PointSize + Size

\* Whoever is entitled to a record can read it, but for leading zeros: to_bytes
\* drops them, from_bytes refuses what is shorter than it expects, and nothing else
\* on the way from the owner's key to the reader's loses a record.
OnlyZerosLost ==
    \A i \in Item, q \in Party :
        Entitled(i, q) /\ WholeLength(i, q) => Reads(i, q) = {records[i].key}

-----------------------------------------------------------------------------
(* The inductive invariant.                                                *)

\* A re-encryption key was made from two secrets and a fresh one.
MadeRekey(r) ==
    \E from, to, t \in Secret :
        r = [bytes |-> ReKeyToBytes(ReKey(from, PublicKey(to), t)), from |-> from, to |-> to]

\* The capsule of a record was made for the public key of the secret it is kept with,
\* and a cipher took its symmetric key.
MadeRecord(r) ==
    \E p \in Party, s, r1, r2 \in Secret :
        LET c == Encapsulate(PublicKey(s), r1, r2)
        IN  /\ (r1 + r2) % Order # 0
            /\ CipherTakes(c.key)
            /\ r = [owner |-> p, secret |-> s, capsule |-> CapsuleToBytes(c), key |-> c.key]

\* The invariant TLAPS proves inductive: what is stored was made by the scheme from
\* the very secrets it is kept with, though it went through bytes on the way.
IInv ==
    /\ DOMAIN keys = Party /\ DOMAIN rekeys = Delegation /\ DOMAIN records = Item
    /\ \A p \in Party : keys[p] # Absent => \E s \in Secret : keys[p] = KeyPair(s)
    /\ \A d \in Delegation : rekeys[d] # Absent => MadeRekey(rekeys[d])
    /\ \A i \in Item : records[i] # Absent => MadeRecord(records[i])
=============================================================================
