---------------------------- MODULE SharedAccess ----------------------------
(***************************************************************************)
(* Who can read what: the key records of the kms chaincode, the re-        *)
(* encryption keys the proxy keeps in Mongo, the proxy's own RSA pair and  *)
(* the records the offers, transactions and proofs chaincodes encrypt.     *)
(*                                                                         *)
(* A record is encrypted under the current key of the operator that        *)
(* invokes the chaincode, and its metadata, sealed for the proxy, names    *)
(* the operator whose re-encryption keys the proxy uses for it.  Reading   *)
(* goes through the proxy: own records pass, the others are re-encrypted   *)
(* with the first key found for (owner, reader), or dropped when there is  *)
(* none.                                                                   *)
(*                                                                         *)
(* Writes to the ledger are atomic here; that a write uses the key current *)
(* at its commit is proved in SeatLedgerProofs (KeysAreCurrent).  Creating *)
(* a re-encryption key is not: the API reads both operators' keys, then    *)
(* the chaincode posts to the proxy, which looks the pair up and saves.    *)
(* A key is named by its operator and a generation; a re-encryption key    *)
(* turns capsules of one key into capsules of another and nothing else.    *)
(***************************************************************************)
EXTENDS Integers, Sequences, FiniteSets

CONSTANTS
    Operator,     \* carpool operators
    Delegation,   \* bound: the pairs <<delegator, delegatee>> rekeys are asked for
    Item,         \* names of encrypted records
    Request,      \* slots for POST kms/rekey requests in flight
    MaxKeys,      \* bound: key pairs an operator makes, times the starts so far
    MaxProxyKeys, \* bound: RSA pairs the proxy makes
    MaxRestarts,  \* bound: times the ledger is started afresh
    Absent,       \* a record nobody wrote
    Garbage,      \* a capsule re-encrypted with a key that does not match it
    Idle          \* a slot with no request

ASSUME DelegationAssumption == Delegation \subseteq Operator \X Operator

ASSUME BoundsAssumption ==
    MaxKeys \in Nat /\ MaxProxyKeys \in Nat \ {0} /\ MaxRestarts \in Nat

VARIABLES
    kms,        \* generation of the key pair each operator has on the ledger, 0 for none
    made,       \* key pairs each operator ever made
    items,      \* the encrypted records on the ledger
    rekeys,     \* the proxy's ReKey collection, oldest first for each pair
    requests,   \* createRekey requests in flight
    proxyKey,   \* generation of the RSA pair in the proxy's key folder
    deployedKey,\* generation of the RSA public key in the chaincodes' environment
    restarts,   \* times the ledger was started afresh
    ceremony    \* history: pairs whose createRekey was answered with the keys of now

vars == <<kms, made, items, rekeys, requests, proxyKey, deployedKey, restarts, ceremony>>

-----------------------------------------------------------------------------
Pair == Operator \X Operator

Generation == 0..MaxKeys * (MaxRestarts + 1)

Key == Operator \X Generation

\* What is stored for an entity: metadata (owner, sealed for proxy generation
\* `seal`) and the key that opens its capsule.
Encrypted == [owner : Operator, seal : 1..MaxProxyKeys, capsule : Key]

ReKey == [from : Key, to : Key]

CurrentKey(op) == <<op, kms[op]>>

HasKeys(op) == kms[op] > 0

\* A chaincode's encrypt(): the invoker's key, the metadata of `owner`.
Encrypt(op, owner) ==
    [owner |-> owner, seal |-> deployedKey, capsule |-> CurrentKey(op)]

-----------------------------------------------------------------------------
(* Reading: the proxy's reEncrypt and the chaincode's decrypt after it.    *)

\* The proxy cannot open the metadata: reEncrypt throws, whatever else is asked.
Unsealable(r) == r.seal # proxyKey

\* No re-encryption key for the reader: the proxy leaves the record out.
LeftOut(op, r) == r.owner # op /\ rekeys[<<r.owner, op>>] = <<>>

\* Faulty variant of ReEncrypted: the newest document of the pair is taken.
ReEncryptedWithLast(op, r) ==
    LET found == rekeys[<<r.owner, op>>] IN
    IF found[Len(found)].from = r.capsule THEN found[Len(found)].to ELSE Garbage

\* The capsule once re-encrypted with the first key found for the pair.
ReEncrypted(op, r) ==
    LET rk == Head(rekeys[<<r.owner, op>>]) IN
    IF rk.from = r.capsule THEN rk.to ELSE Garbage

Delivered(op, r) == IF r.owner = op THEN r.capsule ELSE ReEncrypted(op, r)

\* A query by op for r alone returns it decrypted.
Opens(op, r) ==
    /\ HasKeys(op)
    /\ ~Unsealable(r)
    /\ ~LeftOut(op, r)
    /\ Delivered(op, r) = CurrentKey(op)

\* What the proxy returns to op of the records S.
Returned(op, S) == {i \in S : ~LeftOut(op, items[i])}

\* A query by op that selects the records S fails as a whole: on one whose metadata
\* the proxy cannot read, or one that does not open although it is returned.
QueryFails(op, S) ==
    \/ ~HasKeys(op)
    \/ \E i \in S : Unsealable(items[i])
    \/ \E i \in Returned(op, S) : Delivered(op, items[i]) # CurrentKey(op)

\* What the API answers: its queries take the failure of one record for an error.
AnswerTo(op, S) ==
    CASE QueryFails(op, S) -> "error"
      [] ~QueryFails(op, S) /\ Returned(op, S) = {} -> "not found"
      [] OTHER -> "ok"

\* ... and what it answers to a query for one record: the chaincode finds none, or
\* opens what the proxy returns.  A record left out is an error, too.
AnswerById(op, i) ==
    CASE HasKeys(op) /\ items[i] = Absent -> "not found"
      [] items[i] # Absent /\ Opens(op, items[i]) -> "ok"
      [] OTHER -> "error"

-----------------------------------------------------------------------------
Init ==
    /\ kms = [op \in Operator |-> 0]
    /\ made = [op \in Operator |-> 0]
    /\ items = [i \in Item |-> Absent]
    /\ rekeys = [p \in Pair |-> <<>>]
    /\ requests = [q \in Request |-> Idle]
    /\ proxyKey = 1
    /\ deployedKey = 1
    /\ restarts = 0
    /\ ceremony = {}

Answered(q) == requests' = [requests EXCEPT ![q] = Idle]

(* POST kms: a key pair is made and written over the one on the ledger.    *)
CreateKeys(op) ==
    /\ made[op] < MaxKeys * (restarts + 1)
    /\ made' = [made EXCEPT ![op] = @ + 1]
    /\ kms' = [kms EXCEPT ![op] = made[op] + 1]
    /\ ceremony' = {p \in ceremony : op \notin {p[1], p[2]}}
    /\ UNCHANGED <<items, rekeys, requests, proxyKey, deployedKey, restarts>>

(* POST kms/rekey, first query: the delegator's own keys.                  *)
ReadDelegator(q, p) ==
    /\ requests[q] = Idle
    /\ HasKeys(p[1])
    /\ requests' = [requests EXCEPT ![q] =
                     [at |-> "delegator", pair |-> p, from |-> CurrentKey(p[1]),
                      to |-> CurrentKey(p[1])]]
    /\ UNCHANGED <<kms, made, items, rekeys, proxyKey, deployedKey, restarts, ceremony>>

\* Second query: the delegatee's public key.  Without it the answer is an error.
ReadDelegatee(q) ==
    /\ requests[q] # Idle
    /\ requests[q].at = "delegator"
    /\ LET e == requests[q].pair[2] IN
       IF HasKeys(e)
       THEN requests' = [requests EXCEPT ![q].at = "posted", ![q].to = CurrentKey(e)]
       ELSE Answered(q)
    /\ UNCHANGED <<kms, made, items, rekeys, proxyKey, deployedKey, restarts, ceremony>>

\* The re-encryption key in the request is made of the keys the ledger has now.
UpToDate(r) == r.from = CurrentKey(r.pair[1]) /\ r.to = CurrentKey(r.pair[2])

Witnessed(r) == IF UpToDate(r) THEN ceremony \cup {r.pair} ELSE ceremony

\* The proxy looks the pair up; a pair it knows already is refused.
LookUp(q) ==
    /\ requests[q] # Idle
    /\ requests[q].at = "posted"
    /\ IF rekeys[requests[q].pair] = <<>>
       THEN /\ requests' = [requests EXCEPT ![q].at = "checked"]
            /\ UNCHANGED ceremony
       ELSE /\ Answered(q)
            /\ ceremony' = Witnessed(requests[q])
    /\ UNCHANGED <<kms, made, items, rekeys, proxyKey, deployedKey, restarts>>

\* Faulty variants of Saved: delegator and delegatee are swapped, ...
SavedSwapped(r) == Append(rekeys[r.pair], [from |-> r.to, to |-> r.from])

\* ... or the delegatee's name is saved for its key.
SavedName(r) == Append(rekeys[r.pair], [from |-> r.from, to |-> r.pair[2]])

\* What the collection holds for the pair once the request is saved.
Saved(r) == Append(rekeys[r.pair], [from |-> r.from, to |-> r.to])

\* The proxy saves what it did not find a moment ago.
Save(q) ==
    /\ requests[q] # Idle
    /\ requests[q].at = "checked"
    /\ rekeys' = [rekeys EXCEPT ![requests[q].pair] = Saved(requests[q])]
    /\ ceremony' = Witnessed(requests[q])
    /\ Answered(q)
    /\ UNCHANGED <<kms, made, items, proxyKey, deployedKey, restarts>>

(* DELETE rekey on the proxy: the first document of the pair goes.         *)
DeleteRekey(p) ==
    /\ rekeys[p] # <<>>
    /\ rekeys' = [rekeys EXCEPT ![p] = Tail(@)]
    /\ ceremony' = ceremony \ {p}
    /\ UNCHANGED <<kms, made, items, requests, proxyKey, deployedKey, restarts>>

(* pushTransaction: the metadata name the invoker, and a record that is    *)
(* there is written over.                                                  *)
PushTransaction(op, i) ==
    /\ HasKeys(op)
    /\ items' = [items EXCEPT ![i] = Encrypt(op, op)]
    /\ UNCHANGED <<kms, made, rekeys, requests, proxyKey, deployedKey, restarts, ceremony>>

(* createOffers and createProof: the metadata name the idOperator of the   *)
(* offer, whoever invokes; a record that is there already is refused.      *)
Create(op, owner, i) ==
    /\ HasKeys(op)
    /\ items[i] = Absent
    /\ items' = [items EXCEPT ![i] = Encrypt(op, owner)]
    /\ UNCHANGED <<kms, made, rekeys, requests, proxyKey, deployedKey, restarts, ceremony>>

(* upgradeProof: read through the proxy, then encrypted again under the    *)
(* invoker's key while the metadata keeps naming the proof's idOperator.   *)
Upgrade(op, i) ==
    /\ items[i] # Absent
    /\ Opens(op, items[i])
    /\ items' = [items EXCEPT ![i] = Encrypt(op, items[i].owner)]
    /\ UNCHANGED <<kms, made, rekeys, requests, proxyKey, deployedKey, restarts, ceremony>>

(* POST api/proxy/keys: the RSA pair in the folder is written over.        *)
CreateProxyKeys ==
    /\ proxyKey < MaxProxyKeys
    /\ proxyKey' = proxyKey + 1
    /\ UNCHANGED <<kms, made, items, rekeys, requests, deployedKey, restarts, ceremony>>

\* The chaincodes are deployed again with the proxy's public key of the day.
Redeploy ==
    /\ deployedKey # proxyKey
    /\ deployedKey' = proxyKey
    /\ UNCHANGED <<kms, made, items, rekeys, requests, proxyKey, restarts, ceremony>>

\* The network is started afresh: the ledger is empty, the proxy's data stay.
RestartLedger ==
    /\ restarts < MaxRestarts
    /\ restarts' = restarts + 1
    /\ kms' = [op \in Operator |-> 0]
    /\ items' = [i \in Item |-> Absent]
    /\ requests' = [q \in Request |-> Idle]
    /\ ceremony' = {}
    /\ UNCHANGED <<made, rekeys, proxyKey, deployedKey>>

\* A rekey request: the handler reads both keys; the kms chaincode, which wants the
\* delegator for its invoker, passes the new key on to the proxy; the proxy saves it.
Rekeying(q) ==
    \/ \E p \in Delegation : ReadDelegator(q, p)
    \/ ReadDelegatee(q)
    \/ LookUp(q)
    \/ Save(q)

Next ==
    \/ \E op \in Operator : CreateKeys(op)
    \/ \E q \in Request : Rekeying(q)
    \/ \E p \in Pair : DeleteRekey(p)
    \/ \E op \in Operator, i \in Item : PushTransaction(op, i) \/ Upgrade(op, i)
    \/ \E op, owner \in Operator, i \in Item : Create(op, owner, i)
    \/ CreateProxyKeys
    \/ Redeploy
    \/ RestartLedger

Spec == Init /\ [][Next]_vars

-----------------------------------------------------------------------------
(* Properties.                                                             *)

Requested == [at : {"delegator", "posted", "checked"}, pair : Pair, from : Key, to : Key]

\* Types.
TypeOK ==
    /\ kms \in [Operator -> Generation]
    /\ made \in [Operator -> Generation]
    /\ items \in [Item -> Encrypted \cup {Absent}]
    /\ rekeys \in [Pair -> Seq(ReKey)]
    /\ requests \in [Request -> Requested \cup {Idle}]
    /\ proxyKey \in 1..MaxProxyKeys
    /\ deployedKey \in 1..MaxProxyKeys
    /\ restarts \in 0..MaxRestarts
    /\ ceremony \subseteq Pair

\* The platform was launched and every key generated once.
Launched == proxyKey = 1 /\ \A op \in Operator : made[op] <= 1

\* The records under the key of the operator their metadata name.
UnderOwnersKey == {i \in Item : items[i] # Absent /\ items[i].capsule[1] = items[i].owner}

\* While keys are generated only once, as the tutorial assumes, delegation works
\* under any interleaving of concurrent rekey requests, deletions and writes: a
\* search over all the records under their owners' keys is an error for nobody who
\* has keys, and returns to each what is its own.
DelegationWorks ==
    Launched =>
        \A op \in Operator : HasKeys(op) =>
            /\ AnswerTo(op, UnderOwnersKey) # "error"
            /\ \A i \in UnderOwnersKey : items[i].owner = op => AnswerById(op, i) = "ok"

\* An operator stops reading a record that stays as it is only when a key it
\* depends on is replaced or a re-encryption key is deleted: no rekey request
\* that arrives late, twice or with outdated keys takes access away.
AccessIsKept ==
    [][\A i \in Item, op \in Operator :
         /\ items[i] # Absent
         /\ items'[i] = items[i]
         /\ Opens(op, items[i])
         /\ ~(Opens(op, items[i]))'
         => \/ kms' # kms
            \/ proxyKey' # proxyKey
            \/ \E p \in Pair : DeleteRekey(p)]_vars

\* A pair whose request was answered, by the proxy's refusal of a pair it knows as
\* well, has a re-encryption key made of the keys of now until it is deleted, as
\* long as keys are generated only once.  After a restart, when "they have to be
\* generated again" (scenario_test.md 87), the key that is there already is not.
CeremonyCompletes ==
    Launched => \A p \in ceremony :
        /\ rekeys[p] # <<>>
        /\ Head(rekeys[p]) = [from |-> CurrentKey(p[1]), to |-> CurrentKey(p[2])]
=============================================================================
