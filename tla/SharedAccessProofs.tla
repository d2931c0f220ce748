------------------------- MODULE SharedAccessProofs -------------------------
(***************************************************************************)
(* Proofs about SharedAccess.  Every key named in a record, a rekey        *)
(* request or a ReKey document was made by the operator it is taken for;   *)
(* while each operator made one key pair, that pins all of them down.      *)
(***************************************************************************)
EXTENDS SharedAccess, TLAPS

\* A key that op did make.
MadeBy(k, op) == k[1] = op /\ k[2] \in 1..made[op]

RecordsMade ==
    \A i \in Item : items[i] # Absent =>
        items[i].seal <= proxyKey /\ MadeBy(items[i].capsule, items[i].capsule[1])

RequestMade(q) ==
    requests[q] # Idle =>
        /\ MadeBy(requests[q].from, requests[q].pair[1])
        /\ requests[q].at # "delegator" => MadeBy(requests[q].to, requests[q].pair[2])

ReKeyMade(rk, p) == MadeBy(rk.from, p[1]) /\ MadeBy(rk.to, p[2])

\* The invariant: nobody has a key that was not made, and what is stored or on its
\* way names keys of the right operators.
KeysInv ==
    /\ TypeOK
    /\ deployedKey <= proxyKey
    /\ \A op \in Operator : kms[op] <= made[op] /\ made[op] <= MaxKeys * (restarts + 1)
    /\ RecordsMade
    /\ \A q \in Request : RequestMade(q)
    /\ \A p \in Pair : \A j \in 1..Len(rekeys[p]) : ReKeyMade(rekeys[p][j], p)

-----------------------------------------------------------------------------
LEMMA CurrentKeyIsMade ==
    ASSUME KeysInv, NEW op \in Operator, HasKeys(op)
    PROVE  CurrentKey(op) \in Key /\ MadeBy(CurrentKey(op), op)
<1>1. kms[op] \in Generation /\ made[op] \in Generation /\ kms[op] <= made[op] /\ kms[op] > 0
  BY DEF KeysInv, TypeOK, HasKeys
<1>2. kms[op] \in Nat /\ made[op] \in Nat
  BY <1>1, BoundsAssumption DEF Generation
<1>3. QED
  BY <1>1, <1>2 DEF CurrentKey, Key, MadeBy

\* A key stays a made one: key pairs are only added.
LEMMA StaysMade ==
    ASSUME NEW k, NEW op \in Operator, MadeBy(k, op),
           made[op] \in Nat, made'[op] \in Nat, made[op] <= made'[op]
    PROVE  MadeBy(k, op)'
BY DEF MadeBy

LEMMA InitKeys == Init => KeysInv
<1> SUFFICES ASSUME Init PROVE KeysInv
  OBVIOUS
<1>1. 0 \in Generation /\ MaxKeys * (0 + 1) \in Nat
  BY BoundsAssumption DEF Generation
<1>2. TypeOK
  BY <1>1, BoundsAssumption DEF Init, TypeOK
<1>3. QED
  BY <1>1, <1>2, BoundsAssumption DEF Init, KeysInv, RecordsMade, RequestMade

LEMMA BoundGrows ==
    ASSUME NEW r \in 0..MaxRestarts
    PROVE  /\ MaxKeys * (r + 1) \in Nat
           /\ MaxKeys * (r + 1) <= MaxKeys * (MaxRestarts + 1)
           /\ MaxKeys * (r + 1) <= MaxKeys * (r + 2)
<1>1. MaxKeys \in Nat /\ MaxRestarts \in Nat /\ r \in Nat /\ r <= MaxRestarts
  BY BoundsAssumption
<1> DEFINE a == MaxRestarts - r
<1>2. a \in Nat /\ MaxRestarts + 1 = (r + 1) + a
  BY <1>1
<1>3. MaxKeys * ((r + 1) + a) = MaxKeys * (r + 1) + MaxKeys * a
  BY <1>1, <1>2
<1>4. MaxKeys * a \in Nat /\ MaxKeys * (r + 1) \in Nat
  BY <1>1, <1>2
<1>5. MaxKeys * (r + 2) = MaxKeys * (r + 1) + MaxKeys
  BY <1>1
<1>6. QED
  BY <1>1, <1>2, <1>3, <1>4, <1>5

\* What was made stays made, for steps that leave the place that names it alone.
LEMMA KeptParts ==
    ASSUME TypeOK, TypeOK', KeysInv, \A op \in Operator : made[op] <= made'[op]
    PROVE  /\ UNCHANGED items /\ proxyKey <= proxyKey' => RecordsMade'
           /\ \A q \in Request : requests'[q] = requests[q] => RequestMade(q)'
           /\ UNCHANGED rekeys =>
                (\A p \in Pair : \A j \in 1..Len(rekeys[p]) : ReKeyMade(rekeys[p][j], p))'
<1>0. \A op \in Operator : made[op] \in Nat /\ made'[op] \in Nat
  BY BoundsAssumption DEF TypeOK, Generation
<1>1. ASSUME UNCHANGED items, proxyKey <= proxyKey'
      PROVE  RecordsMade'
  <2> SUFFICES ASSUME NEW i \in Item, items[i] # Absent
               PROVE  items[i].seal <= proxyKey'
                      /\ MadeBy(items[i].capsule, items[i].capsule[1])'
    BY <1>1 DEF RecordsMade
  <2>1. /\ items[i].seal \in Int /\ items[i].capsule[1] \in Operator
        /\ proxyKey \in Int /\ proxyKey' \in Int
    BY <1>1 DEF TypeOK, Encrypted, Key
  <2>2. items[i].seal <= proxyKey /\ MadeBy(items[i].capsule, items[i].capsule[1])
    BY DEF KeysInv, RecordsMade
  <2>3. QED
    BY <1>0, <1>1, <2>1, <2>2, StaysMade
<1>2. ASSUME NEW q \in Request, requests'[q] = requests[q]
      PROVE  RequestMade(q)'
  <2> SUFFICES ASSUME requests[q] # Idle
               PROVE  /\ MadeBy(requests[q].from, requests[q].pair[1])'
                      /\ requests[q].at # "delegator" =>
                            MadeBy(requests[q].to, requests[q].pair[2])'
    BY <1>2 DEF RequestMade
  <2>1. requests[q].pair[1] \in Operator /\ requests[q].pair[2] \in Operator
    BY DEF TypeOK, Requested, Pair
  <2>2. RequestMade(q)
    BY DEF KeysInv
  <2>3. QED
    BY <1>0, <1>2, <2>1, <2>2, StaysMade DEF RequestMade
<1>3. ASSUME UNCHANGED rekeys, NEW p \in Pair, NEW j \in 1..Len(rekeys[p])
      PROVE  ReKeyMade(rekeys[p][j], p)'
  <2>1. p[1] \in Operator /\ p[2] \in Operator
    BY DEF Pair
  <2>2. ReKeyMade(rekeys[p][j], p)
    BY DEF KeysInv
  <2>3. QED
    BY <1>0, <1>3, <2>1, <2>2, StaysMade DEF ReKeyMade
<1>4. QED
  BY <1>1, <1>2, <1>3

LEMMA CreateKeysKeepsKeys ==
    ASSUME KeysInv, NEW op \in Operator, CreateKeys(op)
    PROVE  KeysInv'
<1>1. made[op] \in Nat /\ restarts \in 0..MaxRestarts /\ MaxRestarts \in Nat
      /\ made[op] < MaxKeys * (restarts + 1)
  BY BoundsAssumption DEF KeysInv, TypeOK, Generation, CreateKeys
<1>2. made[op] + 1 \in Generation /\ made[op] + 1 <= MaxKeys * (restarts + 1)
  BY <1>1, BoundGrows DEF Generation
<1>3. /\ made' = [made EXCEPT ![op] = made[op] + 1] /\ kms' = [kms EXCEPT ![op] = made[op] + 1]
      /\ ceremony' \subseteq ceremony
      /\ UNCHANGED <<items, rekeys, requests, proxyKey, deployedKey, restarts>>
  BY DEF CreateKeys
<1>4. TypeOK'
  BY <1>2, <1>3 DEF KeysInv, TypeOK
<1>5. \A x \in Operator : kms'[x] <= made'[x] /\ made[x] <= made'[x]
                          /\ made'[x] <= MaxKeys * (restarts + 1)
  <2>1. \A x \in Operator : made[x] \in Nat /\ kms[x] \in Nat /\ kms[x] <= made[x]
                            /\ made[x] <= MaxKeys * (restarts + 1)
    BY BoundsAssumption DEF KeysInv, TypeOK, Generation
  <2>2. QED
    BY <1>2, <1>3, <2>1 DEF KeysInv, TypeOK
<1>6. TypeOK /\ deployedKey <= proxyKey /\ proxyKey \in Int
  BY DEF KeysInv, TypeOK
<1>7. RecordsMade' /\ (\A p \in Pair : \A j \in 1..Len(rekeys[p]) : ReKeyMade(rekeys[p][j], p))'
  BY <1>3, <1>4, <1>5, <1>6, KeptParts
<1>8. \A q \in Request : RequestMade(q)'
  BY <1>3, <1>4, <1>5, <1>6, KeptParts
<1>9. QED
  BY <1>3, <1>4, <1>5, <1>6, <1>7, <1>8 DEF KeysInv

\* A rekey request moves on: it names made keys, the rest stays.
LEMMA RequestKeepsKeys ==
    ASSUME KeysInv, NEW q \in Request, RequestMade(q)',
           \A r \in Request \ {q} : requests'[r] = requests[r],
           requests' \in [Request -> Requested \cup {Idle}],
           ceremony' \subseteq Pair,
           UNCHANGED <<kms, made, items, rekeys, proxyKey, deployedKey, restarts>>
    PROVE  KeysInv'
<1>1. TypeOK'
  BY DEF KeysInv, TypeOK
<1>2. \A op \in Operator : made[op] <= made'[op]
  BY BoundsAssumption DEF KeysInv, TypeOK, Generation
<1>3. \A r \in Request : RequestMade(r)'
  BY <1>1, <1>2, KeptParts DEF KeysInv
<1>4. RecordsMade' /\ (\A p \in Pair : \A j \in 1..Len(rekeys[p]) : ReKeyMade(rekeys[p][j], p))'
  BY <1>1, <1>2, KeptParts DEF KeysInv, TypeOK
<1>5. QED
  BY <1>1, <1>3, <1>4 DEF KeysInv

LEMMA ReadDelegatorKeepsKeys ==
    ASSUME KeysInv, NEW q \in Request, NEW p \in Delegation, ReadDelegator(q, p)
    PROVE  KeysInv'
<1>1. p \in Pair /\ p[1] \in Operator /\ p[2] \in Operator
  BY DelegationAssumption DEF Pair
<1> DEFINE r == [at |-> "delegator", pair |-> p, from |-> CurrentKey(p[1]),
                 to |-> CurrentKey(p[1])]
<1>2. CurrentKey(p[1]) \in Key /\ MadeBy(CurrentKey(p[1]), p[1])
  BY <1>1, CurrentKeyIsMade DEF ReadDelegator
<1>3. r \in Requested
  BY <1>1, <1>2 DEF Requested
<1>4. requests' = [requests EXCEPT ![q] = r]
  BY DEF ReadDelegator
<1>5. requests \in [Request -> Requested \cup {Idle}]
  BY DEF KeysInv, TypeOK
<1>6. requests'[q] = r /\ requests' \in [Request -> Requested \cup {Idle}]
      /\ \A x \in Request \ {q} : requests'[x] = requests[x]
  BY <1>3, <1>4, <1>5
<1>7. UNCHANGED <<kms, made, items, rekeys, proxyKey, deployedKey, restarts, ceremony>>
  BY DEF ReadDelegator
<1>8. MadeBy(CurrentKey(p[1]), p[1])'
  BY <1>2, <1>7 DEF MadeBy, CurrentKey
<1>9. RequestMade(q)'
  BY <1>6, <1>7, <1>8 DEF RequestMade, CurrentKey
<1>10. QED
  BY <1>6, <1>7, <1>9, RequestKeepsKeys DEF KeysInv, TypeOK

\* A request that is answered leaves nothing behind.
LEMMA AnsweredKeepsKeys ==
    ASSUME KeysInv, NEW q \in Request, Answered(q), ceremony' \subseteq Pair,
           UNCHANGED <<kms, made, items, rekeys, proxyKey, deployedKey, restarts>>
    PROVE  KeysInv'
<1>1. requests \in [Request -> Requested \cup {Idle}]
  BY DEF KeysInv, TypeOK
<1>2. requests'[q] = Idle /\ requests' \in [Request -> Requested \cup {Idle}]
      /\ \A x \in Request \ {q} : requests'[x] = requests[x]
  BY <1>1 DEF Answered
<1>3. QED
  BY <1>2, RequestKeepsKeys DEF RequestMade

LEMMA ReadDelegateeKeepsKeys ==
    ASSUME KeysInv, NEW q \in Request, ReadDelegatee(q)
    PROVE  KeysInv'
<1>1. /\ requests \in [Request -> Requested \cup {Idle}]
      /\ requests[q] \in Requested
      /\ requests[q].pair[2] \in Operator
      /\ ceremony \subseteq Pair
  BY DEF KeysInv, TypeOK, ReadDelegatee, Requested, Pair
<1>2. UNCHANGED <<kms, made, items, rekeys, proxyKey, deployedKey, restarts, ceremony>>
  BY DEF ReadDelegatee
<1>3. CASE HasKeys(requests[q].pair[2])
  <2>1. PICK e \in Operator : e = requests[q].pair[2]
    BY <1>1
  <2>2. PICK k \in Key : k = CurrentKey(e) /\ MadeBy(k, e)
    BY <1>3, <2>1, CurrentKeyIsMade
  <2>3. requests' = [requests EXCEPT ![q].at = "posted", ![q].to = k]
    BY <1>3, <2>1, <2>2 DEF ReadDelegatee
  <2>4. RequestMade(q) /\ requests[q] # Idle
    BY DEF KeysInv, ReadDelegatee
  <2>5. /\ requests'[q] = [requests[q] EXCEPT !.at = "posted", !.to = k]
        /\ requests'[q] \in Requested
        /\ requests' \in [Request -> Requested \cup {Idle}]
        /\ \A x \in Request \ {q} : requests'[x] = requests[x]
    BY <1>1, <2>3 DEF Requested
  <2>6. /\ requests'[q].pair = requests[q].pair
        /\ requests'[q].from = requests[q].from
        /\ requests'[q].to = k
    BY <1>1, <2>5 DEF Requested
  <2>7. RequestMade(q)'
    BY <1>2, <2>1, <2>2, <2>4, <2>6 DEF RequestMade, MadeBy
  <2>8. QED
    BY <1>1, <1>2, <2>5, <2>7, RequestKeepsKeys
<1>4. CASE ~HasKeys(requests[q].pair[2])
  BY <1>1, <1>2, <1>4, AnsweredKeepsKeys DEF ReadDelegatee
<1>5. QED
  BY <1>3, <1>4

LEMMA WitnessedType ==
    ASSUME KeysInv, NEW r \in Requested
    PROVE  Witnessed(r) \subseteq Pair
BY DEF KeysInv, TypeOK, Witnessed, Requested

LEMMA LookUpKeepsKeys ==
    ASSUME KeysInv, NEW q \in Request, LookUp(q)
    PROVE  KeysInv'
<1>1. /\ requests \in [Request -> Requested \cup {Idle}]
      /\ requests[q] \in Requested
      /\ ceremony \subseteq Pair
      /\ RequestMade(q) /\ requests[q] # Idle /\ requests[q].at = "posted"
  BY DEF KeysInv, TypeOK, LookUp
<1>2. UNCHANGED <<kms, made, items, rekeys, proxyKey, deployedKey, restarts>>
  BY DEF LookUp
<1>3. CASE requests' = [requests EXCEPT ![q].at = "checked"] /\ UNCHANGED ceremony
  <2>1. /\ requests'[q] = [requests[q] EXCEPT !.at = "checked"]
        /\ requests'[q] \in Requested
        /\ requests' \in [Request -> Requested \cup {Idle}]
        /\ \A x \in Request \ {q} : requests'[x] = requests[x]
    BY <1>1, <1>3 DEF Requested
  <2>2. /\ requests'[q].pair = requests[q].pair
        /\ requests'[q].from = requests[q].from
        /\ requests'[q].to = requests[q].to
    BY <1>1, <2>1 DEF Requested
  <2>3. RequestMade(q)'
    BY <1>1, <1>2, <2>2 DEF RequestMade, MadeBy
  <2>4. QED
    BY <1>1, <1>2, <1>3, <2>1, <2>3, RequestKeepsKeys
<1>4. CASE Answered(q) /\ ceremony' = Witnessed(requests[q])
  BY <1>1, <1>2, <1>4, WitnessedType, AnsweredKeepsKeys
<1>5. QED
  BY <1>3, <1>4 DEF LookUp

\* The documents of one pair change, the keys do not.
LEMMA DocumentsKeepKeys ==
    ASSUME KeysInv, NEW p \in Pair, NEW s \in Seq(ReKey),
           \A j \in 1..Len(s) : ReKeyMade(s[j], p),
           rekeys' = [rekeys EXCEPT ![p] = s], ceremony' \subseteq Pair,
           requests' \in [Request -> Requested \cup {Idle}],
           \A q \in Request : requests'[q] = requests[q] \/ requests'[q] = Idle,
           UNCHANGED <<kms, made, items, proxyKey, deployedKey, restarts>>
    PROVE  KeysInv'
<1>1. TypeOK /\ TypeOK'
  BY DEF KeysInv, TypeOK
<1>2. \A op \in Operator : made[op] <= made'[op]
  BY BoundsAssumption DEF KeysInv, TypeOK, Generation
<1>3. RecordsMade'
  BY <1>1, <1>2, KeptParts DEF TypeOK
<1>4. \A q \in Request : RequestMade(q)'
  BY <1>1, <1>2, KeptParts DEF RequestMade
<1>5. ASSUME NEW x \in Pair, NEW j \in 1..Len(rekeys'[x])
      PROVE  ReKeyMade(rekeys[x][j], x)'
  <2>1. rekeys \in [Pair -> Seq(ReKey)]
    BY <1>1 DEF TypeOK
  <2>2. CASE x = p
    <3>1. rekeys'[x] = s
      BY <2>1, <2>2
    <3>2. ReKeyMade(s[j], p)
      BY <3>1
    <3>3. QED
      BY <2>2, <3>1, <3>2 DEF ReKeyMade, MadeBy
  <2>3. CASE x # p
    <3>1. rekeys'[x] = rekeys[x]
      BY <2>1, <2>3
    <3>2. ReKeyMade(rekeys[x][j], x)
      BY <3>1 DEF KeysInv
    <3>3. QED
      BY <3>1, <3>2 DEF ReKeyMade, MadeBy
  <2>4. QED
    BY <2>2, <2>3
<1>6. QED
  BY <1>1, <1>3, <1>4, <1>5 DEF KeysInv

LEMMA SaveKeepsKeys ==
    ASSUME KeysInv, NEW q \in Request, Save(q)
    PROVE  KeysInv'
<1>1. /\ requests \in [Request -> Requested \cup {Idle}]
      /\ requests[q] \in Requested
      /\ rekeys \in [Pair -> Seq(ReKey)]
      /\ RequestMade(q) /\ requests[q] # Idle /\ requests[q].at = "checked"
  BY DEF KeysInv, TypeOK, Save
<1>2. PICK p \in Pair : p = requests[q].pair
  BY <1>1 DEF Requested
<1>3. PICK rk \in ReKey : rk = [from |-> requests[q].from, to |-> requests[q].to]
  BY <1>1 DEF Requested, ReKey
<1>4. PICK s \in Seq(ReKey) : s = Append(rekeys[p], rk)
  <2>1. rekeys[p] \in Seq(ReKey)
    BY <1>1
  <2>2. Append(rekeys[p], rk) \in Seq(ReKey)
    BY <2>1
  <2>3. QED
    BY <2>2
<1>5. ReKeyMade(rk, p)
  BY <1>1, <1>2, <1>3 DEF RequestMade, ReKeyMade
<1>6. \A j \in 1..Len(s) : ReKeyMade(s[j], p)
  BY <1>1, <1>4, <1>5 DEF KeysInv
<1>7. rekeys' = [rekeys EXCEPT ![p] = s]
  BY <1>2, <1>3, <1>4 DEF Save, Saved
<1>8. /\ requests' \in [Request -> Requested \cup {Idle}]
      /\ \A x \in Request : requests'[x] = requests[x] \/ requests'[x] = Idle
  BY <1>1 DEF Save, Answered
<1>9. ceremony' \subseteq Pair /\ UNCHANGED <<kms, made, items, proxyKey, deployedKey, restarts>>
  BY <1>1, WitnessedType DEF Save
<1>10. QED
  BY <1>6, <1>7, <1>8, <1>9, DocumentsKeepKeys

LEMMA DeleteKeepsKeys ==
    ASSUME KeysInv, NEW p \in Pair, DeleteRekey(p)
    PROVE  KeysInv'
<1>1. /\ requests \in [Request -> Requested \cup {Idle}]
      /\ rekeys \in [Pair -> Seq(ReKey)] /\ rekeys[p] # <<>>
      /\ ceremony \subseteq Pair
  BY DEF KeysInv, TypeOK, DeleteRekey
<1>2. PICK s \in Seq(ReKey) : s = Tail(rekeys[p])
  <2>1. rekeys[p] \in Seq(ReKey)
    BY <1>1
  <2>2. Tail(rekeys[p]) \in Seq(ReKey)
    BY <1>1, <2>1
  <2>3. QED
    BY <2>2
<1>3. \A j \in 1..Len(s) : j + 1 \in 1..Len(rekeys[p]) /\ s[j] = rekeys[p][j + 1]
  BY <1>1, <1>2
<1>4. \A j \in 1..Len(s) : ReKeyMade(s[j], p)
  BY <1>3 DEF KeysInv
<1>5. QED
  BY <1>1, <1>2, <1>4, DocumentsKeepKeys DEF DeleteRekey

\* One record is written, under a key of its writer.
LEMMA RecordKeepsKeys ==
    ASSUME KeysInv, NEW op \in Operator, NEW owner \in Operator, NEW i \in Item,
           HasKeys(op), items' = [items EXCEPT ![i] = Encrypt(op, owner)],
           UNCHANGED <<kms, made, rekeys, requests, proxyKey, deployedKey, restarts, ceremony>>
    PROVE  KeysInv'
<1>1. PICK r \in Encrypted : r = Encrypt(op, owner)
  BY CurrentKeyIsMade DEF Encrypt, Encrypted, KeysInv, TypeOK
<1>2. r.seal <= proxyKey /\ MadeBy(r.capsule, r.capsule[1])
  BY <1>1, CurrentKeyIsMade DEF Encrypt, KeysInv, TypeOK, CurrentKey
<1>3. TypeOK /\ TypeOK'
  BY <1>1 DEF KeysInv, TypeOK
<1>4. RecordsMade'
  BY <1>1, <1>2, <1>3 DEF KeysInv, TypeOK, RecordsMade, MadeBy
<1>5. \A op1 \in Operator : made[op1] <= made'[op1]
  BY BoundsAssumption DEF KeysInv, TypeOK, Generation
<1>6. \A q \in Request : RequestMade(q)'
  BY <1>3, <1>5, KeptParts
<1>7. (\A p \in Pair : \A j \in 1..Len(rekeys[p]) : ReKeyMade(rekeys[p][j], p))'
  BY <1>3, <1>5, KeptParts
<1>8. QED
  BY <1>3, <1>4, <1>6, <1>7 DEF KeysInv

\* The proxy's or the chaincodes' RSA key moves on.
LEMMA SealsKeepKeys ==
    ASSUME KeysInv, CreateProxyKeys \/ Redeploy
    PROVE  KeysInv'
<1>1. /\ proxyKey <= proxyKey' /\ deployedKey' <= proxyKey'
      /\ TypeOK /\ TypeOK'
  BY BoundsAssumption DEF KeysInv, TypeOK, CreateProxyKeys, Redeploy
<1>2. UNCHANGED <<kms, made, items, rekeys, requests, restarts, ceremony>>
  BY DEF CreateProxyKeys, Redeploy
<1>3. \A op \in Operator : made[op] <= made'[op]
  BY <1>2, BoundsAssumption DEF KeysInv, TypeOK, Generation
<1>4. RecordsMade' /\ (\A q \in Request : RequestMade(q)')
  BY <1>1, <1>2, <1>3, KeptParts
<1>5. (\A p \in Pair : \A j \in 1..Len(rekeys[p]) : ReKeyMade(rekeys[p][j], p))'
  BY <1>1, <1>2, <1>3, KeptParts
<1>6. QED
  BY <1>1, <1>2, <1>4, <1>5 DEF KeysInv

LEMMA RestartKeepsKeys ==
    ASSUME KeysInv, RestartLedger
    PROVE  KeysInv'
<1>1. restarts \in 0..MaxRestarts /\ MaxRestarts \in Nat /\ restarts < MaxRestarts
  BY BoundsAssumption DEF KeysInv, TypeOK, RestartLedger
<1>2. \A op \in Operator : made[op] \in Nat /\ made[op] <= MaxKeys * (restarts + 1)
  BY BoundsAssumption DEF KeysInv, TypeOK, Generation
<1>3. restarts' = restarts + 1 /\ MaxKeys * (restarts + 1) \in Nat
      /\ MaxKeys * (restarts' + 1) \in Nat
      /\ MaxKeys * (restarts + 1) <= MaxKeys * (restarts' + 1)
  BY <1>1, BoundGrows DEF RestartLedger
<1>4. \A op \in Operator : kms'[op] <= made'[op] /\ made'[op] <= MaxKeys * (restarts' + 1)
  BY <1>2, <1>3 DEF RestartLedger
<1>5. 0 \in Generation
  BY BoundsAssumption DEF Generation
<1>6. TypeOK /\ TypeOK'
  BY <1>1, <1>5 DEF KeysInv, TypeOK, RestartLedger
<1>7. RecordsMade' /\ \A q \in Request : RequestMade(q)'
  BY DEF RecordsMade, RequestMade, RestartLedger
<1>8. (\A p \in Pair : \A j \in 1..Len(rekeys[p]) : ReKeyMade(rekeys[p][j], p))'
  BY <1>2, <1>6, KeptParts DEF RestartLedger
<1>9. QED
  BY <1>4, <1>6, <1>7, <1>8 DEF KeysInv, RestartLedger

LEMMA NextKeys == KeysInv /\ [Next]_vars => KeysInv'
<1> SUFFICES ASSUME KeysInv, [Next]_vars PROVE KeysInv'
  OBVIOUS
<1>1. CASE \E op \in Operator : CreateKeys(op)
  BY <1>1, CreateKeysKeepsKeys
<1>2. CASE \E q \in Request : Rekeying(q)
  BY <1>2, ReadDelegatorKeepsKeys, ReadDelegateeKeepsKeys, LookUpKeepsKeys, SaveKeepsKeys
     DEF Rekeying
<1>3. CASE \E p \in Pair : DeleteRekey(p)
  BY <1>3, DeleteKeepsKeys
<1>4. CASE \E op \in Operator, i \in Item : PushTransaction(op, i) \/ Upgrade(op, i)
  <2>1. PICK op \in Operator, i \in Item : PushTransaction(op, i) \/ Upgrade(op, i)
    BY <1>4
  <2>2. CASE PushTransaction(op, i)
    BY <2>2, RecordKeepsKeys DEF PushTransaction
  <2>3. CASE Upgrade(op, i)
    <3>1. items[i].owner \in Operator /\ HasKeys(op)
      BY <2>3 DEF KeysInv, TypeOK, Encrypted, Upgrade, Opens
    <3>2. QED
      BY <2>3, <3>1, RecordKeepsKeys DEF Upgrade
  <2>4. QED
    BY <2>1, <2>2, <2>3
<1>5. CASE \E op, owner \in Operator, i \in Item : Create(op, owner, i)
  BY <1>5, RecordKeepsKeys DEF Create
<1>6. CASE CreateProxyKeys \/ Redeploy
  BY <1>6, SealsKeepKeys
<1>7. CASE RestartLedger
  BY <1>7, RestartKeepsKeys
<1>8. CASE UNCHANGED vars
  BY <1>8 DEF vars, KeysInv, TypeOK, RecordsMade, RequestMade, ReKeyMade, MadeBy
<1>9. QED
  BY <1>1, <1>2, <1>3, <1>4, <1>5, <1>6, <1>7, <1>8 DEF Next

\* KeysInv holds in every reachable state: what is stored in the proxy, on the
\* ledger or on its way names keys that the right operator did make.
THEOREM Invariance == Spec => []KeysInv
BY InitKeys, NextKeys, PTL DEF Spec

\* Types: no generation beyond the key pairs made, no ReKey document or record
\* that names anything but keys.
THEOREM TypeCorrect == Spec => []TypeOK
<1>1. KeysInv => TypeOK
  BY DEF KeysInv
<1>2. QED
  BY <1>1, Invariance, PTL

-----------------------------------------------------------------------------
\* The sequence a Save leaves has the head of the one it found.
LEMMA HeadStays ==
    ASSUME NEW s \in Seq(ReKey), s # <<>>, NEW rk \in ReKey
    PROVE  Append(s, rk) # <<>> /\ Head(Append(s, rk)) = Head(s)
OBVIOUS

\* Who reads a record depends on the keys, the proxy's RSA key and the first
\* document of the pair, and on nothing else.
LEMMA SameReading ==
    ASSUME NEW r, NEW op,
           Opens(op, r), kms' = kms, proxyKey' = proxyKey,
           LET p == <<r.owner, op>> IN
               rekeys[p] # <<>> => rekeys'[p] # <<>> /\ Head(rekeys'[p]) = Head(rekeys[p])
    PROVE  Opens(op, r)'
BY DEF Opens, HasKeys, Unsealable, LeftOut, Delivered, ReEncrypted, CurrentKey

LEMMA SaveKeepsAccess ==
    ASSUME KeysInv, NEW q \in Request, Save(q), NEW p \in Pair, rekeys[p] # <<>>
    PROVE  rekeys'[p] # <<>> /\ Head(rekeys'[p]) = Head(rekeys[p])
<1>1. /\ requests[q] \in Requested
      /\ rekeys \in [Pair -> Seq(ReKey)]
  BY DEF KeysInv, TypeOK, Save
<1>2. PICK rk \in ReKey : rk = [from |-> requests[q].from, to |-> requests[q].to]
  BY <1>1 DEF Requested, ReKey
<1>3. rekeys' = [rekeys EXCEPT ![requests[q].pair] = Append(rekeys[requests[q].pair], rk)]
  BY <1>2 DEF Save, Saved
<1>4. rekeys'[p] = rekeys[p] \/ rekeys'[p] = Append(rekeys[p], rk)
  BY <1>1, <1>3 DEF Requested
<1>5. QED
  BY <1>1, <1>4, HeadStays

\* Access is lost only by a replaced key or a deletion, for any number of operators,
\* records and requests under way.
THEOREM AccessKept == Spec => AccessIsKept
<1>1. ASSUME KeysInv, Next, NEW i \in Item, NEW op \in Operator,
             items[i] # Absent, items'[i] = items[i], Opens(op, items[i]),
             kms' = kms, proxyKey' = proxyKey, ~(\E p \in Pair : DeleteRekey(p))
      PROVE  Opens(op, items[i])'
  <2>1. PICK r \in Encrypted : r = items[i]
    BY <1>1 DEF KeysInv, TypeOK
  <2>2. <<r.owner, op>> \in Pair
    BY DEF Encrypted, Pair
  <2>3. rekeys' = rekeys \/ \E q \in Request : Save(q)
    BY <1>1 DEF Next, CreateKeys, Rekeying, ReadDelegator, ReadDelegatee, LookUp,
                PushTransaction, Upgrade, Create, CreateProxyKeys, Redeploy, RestartLedger
  <2>4. LET p == <<r.owner, op>> IN
          rekeys[p] # <<>> => rekeys'[p] # <<>> /\ Head(rekeys'[p]) = Head(rekeys[p])
    BY <1>1, <2>2, <2>3, SaveKeepsAccess
  <2>5. Opens(op, r)'
    BY <1>1, <2>1, <2>4, SameReading
  <2>6. QED
    BY <1>1, <2>1, <2>5 DEF Opens, HasKeys, Unsealable, LeftOut, Delivered, ReEncrypted,
                            CurrentKey
<1>2. KeysInv /\ [Next]_vars =>
        [\A i \in Item, op \in Operator :
           /\ items[i] # Absent
           /\ items'[i] = items[i]
           /\ Opens(op, items[i])
           /\ ~(Opens(op, items[i]))'
           => \/ kms' # kms
              \/ proxyKey' # proxyKey
              \/ \E p \in Pair : DeleteRekey(p)]_vars
  BY <1>1
<1>3. QED
  BY <1>2, Invariance, PTL DEF Spec, AccessIsKept

-----------------------------------------------------------------------------
\* While every key was made once, a made key is its operator's current one, or
\* nobody has keys any more.
LEMMA OnlyKey ==
    ASSUME KeysInv, Launched, NEW op \in Operator, NEW k \in Key, MadeBy(k, op)
    PROVE  k = <<op, 1>> /\ (HasKeys(op) => CurrentKey(op) = <<op, 1>>)
<1>1. made[op] \in Nat /\ made[op] <= 1 /\ kms[op] \in Nat /\ kms[op] <= made[op]
  BY BoundsAssumption DEF KeysInv, TypeOK, Generation, Launched
<1>2. k[2] \in 1..made[op] /\ k = <<k[1], k[2]>> /\ k[1] = op
  BY DEF Key, MadeBy
<1>3. QED
  BY <1>1, <1>2 DEF HasKeys, CurrentKey

LEMMA LaunchedReads ==
    ASSUME KeysInv, Launched, NEW op \in Operator, HasKeys(op), NEW i \in UnderOwnersKey
    PROVE  /\ ~Unsealable(items[i])
           /\ ~LeftOut(op, items[i]) => Delivered(op, items[i]) = CurrentKey(op)
<1>1. PICK r \in Encrypted : r = items[i]
  BY DEF UnderOwnersKey, KeysInv, TypeOK
<1>2. r.seal \in Nat /\ r.seal > 0 /\ r.seal <= proxyKey /\ proxyKey = 1
      /\ r.owner \in Operator /\ r.capsule \in Key /\ MadeBy(r.capsule, r.owner)
  BY <1>1, BoundsAssumption DEF UnderOwnersKey, KeysInv, RecordsMade, Launched, Encrypted
<1>3. ~Unsealable(items[i])
  BY <1>1, <1>2 DEF Unsealable
<1>4. r.capsule = <<r.owner, 1>>
  BY <1>2, OnlyKey
<1>5. CurrentKey(op) = <<op, 1>>
  BY CurrentKeyIsMade, OnlyKey
<1>6. CASE r.owner = op
  BY <1>1, <1>3, <1>4, <1>5, <1>6 DEF Delivered
<1>7. ASSUME r.owner # op, rekeys[<<r.owner, op>>] # <<>>
      PROVE  ReEncrypted(op, r) = CurrentKey(op)
  <2> DEFINE t == <<r.owner, op>>
  <2>0. t \in Pair /\ t[1] = r.owner /\ t[2] = op
    BY <1>2 DEF Pair
  <2> HIDE DEF t
  <2>1. PICK p \in Pair : p = <<r.owner, op>> /\ p[1] = r.owner /\ p[2] = op
    <3>1. t = <<r.owner, op>>
      BY DEF t
    <3>2. QED
      BY <2>0, <3>1
  <2>2. rekeys[p] \in Seq(ReKey) /\ rekeys[p] # <<>>
    BY <1>7, <2>1 DEF KeysInv, TypeOK
  <2>3. PICK rk \in ReKey : rk = rekeys[p][1]
    BY <2>2
  <2>4. ReKeyMade(rk, p) /\ 1 \in 1..Len(rekeys[p]) /\ Head(rekeys[p]) = rk
    BY <2>2, <2>3 DEF KeysInv
  <2>5. rk.from = <<r.owner, 1>> /\ rk.to = <<op, 1>>
    BY <1>2, <2>1, <2>3, <2>4, OnlyKey DEF ReKeyMade, ReKey
  <2>6. QED
    BY <1>4, <1>5, <2>1, <2>4, <2>5 DEF ReEncrypted
<1>8. QED
  BY <1>1, <1>3, <1>6, <1>7 DEF LeftOut, Delivered

\* While keys are generated only once, delegation works: no search over records under
\* their owners' keys fails, and each operator opens its own.
THEOREM DelegationHolds == Spec => []DelegationWorks
<1>1. KeysInv => DelegationWorks
  <2> SUFFICES ASSUME KeysInv, Launched, NEW op \in Operator, HasKeys(op)
               PROVE  /\ AnswerTo(op, UnderOwnersKey) # "error"
                      /\ \A i \in UnderOwnersKey :
                            items[i].owner = op => AnswerById(op, i) = "ok"
    BY DEF DelegationWorks
  <2>1. ~QueryFails(op, UnderOwnersKey)
    BY LaunchedReads DEF QueryFails, Returned
  <2>2. AnswerTo(op, UnderOwnersKey) # "error"
    BY <2>1 DEF AnswerTo
  <2>3. \A i \in UnderOwnersKey : items[i].owner = op => items[i] # Absent /\ Opens(op, items[i])
    BY LaunchedReads DEF Opens, LeftOut, UnderOwnersKey
  <2>4. QED
    BY <2>2, <2>3 DEF AnswerById
<1>2. QED
  BY <1>1, Invariance, PTL

-----------------------------------------------------------------------------
\* Both operators of an answered pair have keys, and the pair has a document.
Equipped(p) == rekeys[p] # <<>> /\ HasKeys(p[1]) /\ HasKeys(p[2])

CeremonyInv == \A p \in ceremony : Equipped(p)

\* A posted request made of the keys of now is one of operators that have keys.
LEMMA UpToDateHaveKeys ==
    ASSUME KeysInv, NEW q \in Request, requests[q] # Idle,
           requests[q].at \in {"posted", "checked"}, UpToDate(requests[q])
    PROVE  HasKeys(requests[q].pair[1]) /\ HasKeys(requests[q].pair[2])
<1>1. PICK r \in Requested : r = requests[q]
  BY DEF KeysInv, TypeOK
<1>2. MadeBy(r.from, r.pair[1]) /\ MadeBy(r.to, r.pair[2])
  BY <1>1 DEF KeysInv, RequestMade
<1>3. r.pair[1] \in Operator /\ r.pair[2] \in Operator
  BY DEF Requested, Pair
<1>4. r.from[2] = kms[r.pair[1]] /\ r.to[2] = kms[r.pair[2]]
  BY <1>1 DEF UpToDate, CurrentKey
<1>5. r.from[2] > 0 /\ r.to[2] > 0
  BY <1>2, <1>3, BoundsAssumption DEF MadeBy, KeysInv, TypeOK, Generation
<1>6. QED
  BY <1>1, <1>4, <1>5 DEF HasKeys

LEMMA NextCeremony == KeysInv /\ CeremonyInv /\ [Next]_vars => CeremonyInv'
<1> SUFFICES ASSUME KeysInv, CeremonyInv, [Next]_vars, NEW p \in ceremony'
             PROVE  Equipped(p)'
  BY DEF CeremonyInv
<1>1. rekeys \in [Pair -> Seq(ReKey)] /\ ceremony \subseteq Pair
      /\ kms \in [Operator -> Generation] /\ made \in [Operator -> Generation]
  BY DEF KeysInv, TypeOK
<1>2. ASSUME NEW op \in Operator, CreateKeys(op)
      PROVE  Equipped(p)'
  <2>1. p \in Pair /\ Equipped(p) /\ op \notin {p[1], p[2]}
    BY <1>1, <1>2 DEF CreateKeys, CeremonyInv
  <2>2. kms'[p[1]] = kms[p[1]] /\ kms'[p[2]] = kms[p[2]] /\ rekeys' = rekeys
    BY <1>1, <1>2, <2>1 DEF CreateKeys, Pair
  <2>3. QED
    BY <2>1, <2>2 DEF Equipped, HasKeys
<1>3. ASSUME NEW q \in Request, LookUp(q)
      PROVE  Equipped(p)'
  <2>1. \/ p \in ceremony
        \/ p = requests[q].pair /\ UpToDate(requests[q]) /\ rekeys[p] # <<>>
    BY <1>3 DEF LookUp, Witnessed
  <2>2. Equipped(p)
    BY <1>3, <2>1, UpToDateHaveKeys DEF CeremonyInv, Equipped, LookUp
  <2>3. QED
    BY <1>3, <2>2 DEF Equipped, HasKeys, LookUp
<1>4. ASSUME NEW q \in Request, Save(q)
      PROVE  Equipped(p)'
  <2>1. p \in ceremony \/ (p = requests[q].pair /\ UpToDate(requests[q]))
    BY <1>4 DEF Save, Witnessed
  <2>2. requests[q] # Idle /\ requests[q].at = "checked" /\ requests[q].pair \in Pair
    BY <1>4 DEF Save, KeysInv, TypeOK, Requested
  <2>3. p \in Pair /\ HasKeys(p[1]) /\ HasKeys(p[2])
    BY <1>1, <2>1, <2>2, UpToDateHaveKeys DEF CeremonyInv, Equipped
  <2>4. rekeys'[p] # <<>>
    <3>1. CASE rekeys[p] # <<>>
      BY <1>4, <2>3, <3>1, SaveKeepsAccess
    <3>2. CASE rekeys[p] = <<>>
      <4>1. p = requests[q].pair
        BY <2>1, <3>2 DEF CeremonyInv, Equipped
      <4>2. rekeys'[p] = Saved(requests[q])
        BY <1>1, <1>4, <2>3, <4>1 DEF Save
      <4>3. PICK rk \in ReKey : rk = [from |-> requests[q].from, to |-> requests[q].to]
        <5>1. PICK r \in Requested : r = requests[q]
          BY <2>2 DEF KeysInv, TypeOK
        <5>2. QED
          BY <5>1 DEF Requested, ReKey
      <4>4. rekeys'[p] = Append(rekeys[p], rk) /\ rekeys[p] \in Seq(ReKey)
        BY <1>1, <2>3, <4>1, <4>2, <4>3 DEF Saved
      <4>5. QED
        BY <4>4
    <3>3. QED
      BY <3>1, <3>2
  <2>5. QED
    BY <1>4, <2>3, <2>4 DEF Equipped, HasKeys, Save
<1>5. ASSUME NEW d \in Pair, DeleteRekey(d)
      PROVE  Equipped(p)'
  <2>1. p \in ceremony /\ p # d /\ p \in Pair /\ Equipped(p)
    BY <1>1, <1>5 DEF DeleteRekey, CeremonyInv
  <2>2. rekeys'[p] = rekeys[p] /\ kms' = kms
    BY <1>1, <1>5, <2>1 DEF DeleteRekey
  <2>3. QED
    BY <2>1, <2>2 DEF Equipped, HasKeys
<1>6. CASE RestartLedger
  BY <1>6 DEF RestartLedger
<1>7. CASE UNCHANGED <<kms, rekeys, ceremony>>
  BY <1>7 DEF CeremonyInv, Equipped, HasKeys
<1>8. QED
  BY <1>2, <1>3, <1>4, <1>5, <1>6, <1>7
     DEF Next, Rekeying, ReadDelegator, ReadDelegatee, PushTransaction, Upgrade, Create,
         CreateProxyKeys, Redeploy, vars

\* A pair that was answered is served with the keys of now until it is deleted, while
\* keys are generated only once: neither a second request nor one that is refused
\* changes that.
THEOREM CeremonyHolds == Spec => []CeremonyCompletes
<1>1. Init => CeremonyInv
  BY DEF Init, CeremonyInv
<1>2. ASSUME KeysInv, CeremonyInv, Launched, NEW p \in ceremony
      PROVE  /\ rekeys[p] # <<>>
             /\ Head(rekeys[p]) = [from |-> CurrentKey(p[1]), to |-> CurrentKey(p[2])]
  <2>1. Equipped(p) /\ p \in Pair /\ p[1] \in Operator /\ p[2] \in Operator
    BY <1>2 DEF CeremonyInv, KeysInv, TypeOK, Pair
  <2>2. rekeys[p] \in Seq(ReKey) /\ rekeys[p] # <<>>
    BY <1>2, <2>1 DEF KeysInv, TypeOK, Equipped
  <2>3. PICK rk \in ReKey : rk = rekeys[p][1]
    BY <2>2
  <2>4. ReKeyMade(rk, p) /\ Head(rekeys[p]) = rk
    BY <1>2, <2>1, <2>2, <2>3 DEF KeysInv
  <2>5. rk.from = CurrentKey(p[1]) /\ rk.to = CurrentKey(p[2])
    BY <1>2, <2>1, <2>3, <2>4, OnlyKey DEF ReKeyMade, ReKey, Equipped
  <2>6. QED
    BY <2>2, <2>4, <2>5 DEF ReKey
<1>3. KeysInv /\ CeremonyInv => CeremonyCompletes
  BY <1>2 DEF CeremonyCompletes
<1>4. QED
  BY <1>1, <1>3, NextCeremony, Invariance, PTL DEF Spec
=============================================================================
