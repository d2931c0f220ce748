# Ledger Carpool Exchange: specifications

TLA+ modules for the Ledger Carpool Exchange (LCE): carpool operators publish
their drivers' offers on a Hyperledger Fabric ledger, let their passengers book
seats of each other's offers, and share the encrypted records through a
re-encryption proxy. The modules model the chaincodes, the proxy and the API
services; TLC checks them on small instances, and TLAPS proves the main
properties for every size.

Run, in this directory:

    tlc -workers 2 -config SeatLedger.cfg MCSeatLedger
    tlapm SeatLedgerProofs.tla

`PROJECT.json` lists the runs with their configurations, the source lines every
definition stands for (`map`), the faulty variants each property was seen to
reject (`mutants`), the hazards of the code and the theorems.


## 1. The system

### Components, their state and operations

| component | state | operations |
|---|---|---|
| offers chaincode (`hlf-chaincodes/offers`) | one record per offer, named by a hash of (idOffer, idOperator): encrypted entity, sealed metadata, and in clear the free seats, dates and geohashes | `createOffers`, `updateOffer`, `updateOfferFromTransaction`, three queries |
| transactions chaincode (`hlf-chaincodes/transactions`) | one record per booking, named by a hash of (offer, operator, passenger, passenger's operator) | `pushTransaction` (calls the offers chaincode for a CONFIRMATION), queries |
| proofs chaincode (`hlf-chaincodes/proofs`) | one record per person and trip | `createProof`, `upgradeProof`, queries |
| kms chaincode (`hlf-chaincodes/kms`) | key pair of every operator, the private key in the operator's own collection | `createKeys`, `getKeysById`, `createRekey` (posts to the proxy) |
| re-encryption proxy (`pre-services/src/proxy`) | ReKey documents in Mongo, an RSA pair in a folder | `createKeys`, `createRekey`, `deleteRekeyById`, `reEncrypt` |
| Fabric client of the API (`api-services/src/api/utils/chain`) | one client object with one user context, an event hub and a timer per call | `invoke`, `query` |
| API identities (`jwt.auth.js`, `hlfcaclient.js`) | certificates in the wallet folder, registrations at the certificate authority | POST auth/login, start of the process |
| API controllers (`api-services/src/api/controllers`) | none but the awaits they are suspended at; messages in Mongo | offers, bookings (`createTransaction`), proofs, keys, messages |
| notifications | none | a POST to the other operator's webhook |

| re-encryption primitives (`proxy.js`, five copies) | none | key pairs, `encapsulate`, `decapsulate`, `re_encryption_key`, `re_encrypt_capsule`, and the conversions of each value to and from bytes |

Peripheral: login and profiles of the proxy service, request validation, routes,
configuration, deployment scripts. The five copies of `proxy.js`, a re-encryption
scheme on secp256k1, differ in comments and in an unused helper; each runs in
another process, and the processes exchange its bytes.

### How they interact

    client -> API handler -> Fabric client -> peer (endorse) -> orderer -> every peer (validate, commit)
                                                |
                                                +-> chaincode -> other chaincode (same proposal)
                                                +-> chaincode -> proxy (HTTP, reEncrypt or createRekey)
    API handler -> webhook of the other operator

A chaincode call is simulated on the committed state. Its queries do not see its
own writes. What it read is validated, record by record, when the block arrives;
a rich query adds the records it returned to the read set, and nothing when it
returned none. The policies let each operator's own peer endorse.

### What is hard here

* **Concurrency over optimistic validation.** Confirmations, seat updates, new
  postings and key changes are endorsed on the same versions and committed in any
  order. Reads that find nothing are not protected.
* **Concurrency of handlers.** A handler awaits up to five calls; handlers of one
  process interleave at every await.
* **Outcomes learnt late or never.** A call ends for its handler with an event or
  with a timer of 5 s, and may be committed after the timer.
* **Swallowed errors.** `createProof` and `sendProof` catch everything.
* **Keys and records drift apart.** The key of a record, the key of its operator,
  the re-encryption key of the proxy and the seal on the metadata are replaced
  independently, at different places.
* **One signer for everybody.** Each look-up and enrolment of a login sets the user
  context that the calls of all requests are created and signed with.
* **Restarts.** The ledger and the proxy keep their data in different stores; jobs
  and handlers live in memory only.
* **Bytes.** Keys, re-encryption keys and capsules are cut out of byte strings at
  fixed offsets, after their leading zeros were dropped.

The list with lines is `hazards` in `PROJECT.json`.

### What makes each component correct

* offers and transactions: seats are conserved between the two, never
  overbooked; concurrent calls look atomic.
* kms: nothing is encrypted under a key already replaced.
* proxy: who has a re-encryption key can read, and keeps reading until something
  it depends on is replaced.
* API identities: a username has one operator for ever; a call carries the operator
  of the user who asks for it (it does not: section 5).
* API bookings: answers tell the truth about the ledger, proofs stand only behind
  committed confirmations, handlers end.
* proofs chaincode: concurrent upgrades keep each other's positions, in that neither
  takes a recorded one back to none. (An upgrade does replace the phone, by
  "0000000000" when the request has none, and a second TRIP_STARTED the position of the
  first, even by "undefined,undefined".) Reports are lost to a late creation, and a trip
  that started cannot always be ended: section 5.
* API offers: an operator writes only its own offers, and a success is one.
* API messages: nobody is told of what is not recorded, the other side is told of
  every success.
* primitives: whoever is entitled to a record gets its key, and never another one.


## 2. Modules

| module | what it models |
|---|---|
| `FabricLedger` | read sets, write sets, versions and their validation (operators only) |
| `SeatBook` | the abstract specification: a book of free seats and booking statuses, every operation atomic |
| `SeatLedger` | offers, transactions and kms chaincodes over endorse, order, validate, commit |
| `MCSeatLedger` | its instances |
| `SeatLedgerProofs` | its theorems |
| `SharedAccess` | keys, re-encryption keys, the proxy's RSA pair, and who can open which record |
| `MCSharedAccess` | its instances |
| `BookingService` | the handler of POST /transaction with createProof, over `invoke()` and its timer |
| `MCBookingService` | its instances |
| `BookingServiceProofs` | its theorems |
| `Identity` | logins, the certificate authority, the wallet and the user context all calls are signed with |
| `MCIdentity` | its instance |
| `IdentityProofs` | its theorems |
| `ProofLife` | the proofs of a trip: creation by racing handlers, upgrades on the ledger, the job at the end of the trip, the class for the registry |
| `MCProofLife`, `ProofLifeProofs` | its instance, its theorems |
| `OfferService` | the four handlers of the offers controller, over `SeatLedger` |
| `MCOfferService`, `OfferServiceProofs` | its instance, its theorems |
| `MessageService` | messages, notices behind transactions, statuses, and the webhooks they end in |
| `MCMessageService`, `MessageServiceProofs` | its instance, its theorems |
| `ProxyReEncryption` | the re-encryption scheme over a group that is a parameter, and its byte formats |
| `MCProxyReEncryption`, `ProxyReEncryptionProofs` | a small curve, its theorems |

How they fit: `SeatLedger` implements `SeatBook`, `OfferService` EXTENDS
`SeatLedger` and implements it, and `BookingService` has a booking take effect as the
book says, as a whole at its commit.
`SharedAccess` and `ProofLife` take keys for pairs of an operator and a
generation: what `ProxyReEncryption` shows of the bytes behind them. `SharedAccess`
also relies on what `SeatLedgerProofs` proves of keys. All take the operator of a
call as given: whose that is, `Identity` says. `ProofLife` and `OfferService` have
a service per operator, which calls with that operator's certificate.

### SeatLedger

State: `ver` (a version per record, 0 for a record nobody wrote), `offers`,
`bookings`, and `inflight`, a slot per call on its way to a block, holding its
read set and its writes. `base` and `granted` are history variables, used by
properties only.

Actions: `CreateKeys`, `CreateOffers`, `UpdateOffer`, `PushTransaction` run a
whole handler on the committed state and put the proposal in a slot (`Endorse`);
a handler that throws is no step, since it leaves nothing behind. `Commit`
validates and applies; `Discard` drops a stale proposal; `Lose` drops one that
never reaches a block. `PushTransaction` contains the `updateOfferFromTransaction`
it invokes: one proposal, one read set. `checkIsOwner` in the transactions
chaincode returns `true` for everybody, so a confirmation has no owner guard in
the model. The rest of an entity than its seats, its operator and the version of
its key is left out, and so are the exact statuses: the chaincode tells only a
CONFIRMATION from the others.

`SeatLedger` implements `SeatBook`: an offer's free seats are the clear count of
its record (or nothing when it is not posted), a booking's status the type of
its record. `Commit` of a call maps to one step of the book, every other action
to a stutter.

### SharedAccess

State: `kms` (the generation of each operator's keys), `items` (encrypted
records: owner in the metadata, generation of the seal, key of the capsule),
`rekeys` (the ReKey collection as a sequence for each pair, `findOne` takes the
first), `requests` (POST kms/rekey in flight), `proxyKey` and `deployedKey` (the
RSA pair in the proxy's folder, and the public key in the chaincodes'
environment). A key is a pair of an operator and a generation; a re-encryption
key turns capsules of one key into capsules of another, and anything else gives
garbage, on which the chaincode's decryption fails. `made` and `restarts` bound
what is generated (a restart empties the ledger, not the proxy), and `ceremony` is a
history of the pairs whose request was answered with the keys of now.

A rekey request is four steps, as in the code: the delegator's keys are read,
then the delegatee's, then the proxy looks the pair up, then it saves. Writes to
the ledger are atomic here: that a write uses the key current at its commit is
what `SeatLedgerProofs` proves (`KeysAreCurrent`). `createOffers` and
`createProof` put the offer's idOperator in the metadata, whoever invokes,
`pushTransaction` the invoker; `Create` and `PushTransaction` keep the two apart.

### BookingService

One offer. `handler` holds where each request is suspended (`at`) and for which
of its three calls (`stage`: the booking, the driver's proof, the passenger's
proof); `call` how far each call got on the ledger, behind the handler's back.
The ledger's side of a booking is a step of `SeatBook`, which `SeatLedger` is
proved to implement. `OnFailure` is where an exception leads: to the error
answer, or, inside `createProof`, to the webhook, since it catches everything.
`Fault` selects the failures that happen; the passing run allows all. Whose booking a
request is about is a parameter (`PassengerOf`), its type is chosen on receipt.

### Identity

State: `ca` (the registrations), `wallet` (the certificates of the container's
folder), `context` (the identity of the Fabric client), `login` and `call` slots,
and `tokens`, all those issued. A login is up to three steps: `Look`, then
`Register`, `Enroll`, `Save` for a username not found, or `Check` and, for another
operator, `Refuse`. The look-ups among them find a name in the context or the
wallet, and make what they find the context; `Enroll` does so before the
certificate is stored, so another login may find it first. A call takes the
context at `Propose` and again at `Send`, where the orderer wants the two equal.
`Restart` drops logins and calls and makes the administrator the context; it
keeps the wallet or, in a new container (`docker-compose-org1.yaml` has the volume
commented out), does not. `Fail` ends a login anywhere.

### ProofLife

State: `proofs` and `ver` (one proof per user of one trip: its record's name leaves
the role out), `calls` (creations and upgrades on their way to a block), `handlers`
(createProof behind a booking, up to `TimeOut`), `jobs` (the scheduled `sendProof`s).

`FindProofs` asks what the trip has, and an error ends the handler silently;
`CreateProof` is refused when a proof of the user stands, and reads nothing that
validation could compare; `UpgradeProof` reads the proof it rewrites, encrypts it
for its invoker and leaves the operator in the metadata as it was. A record whose
key is not that operator's is re-encrypted into garbage: `Opens` is false for
everybody, `QueryFails` for the whole trip. Restarts take a service's handlers and
jobs; its calls go on. `Rnpc` is the class `createProofRnpcUser` would report.

### OfferService

`handlers` adds to each slot of `SeatLedger` the handler behind its call and the
offers that handler answers for. `PostOffers` keeps the operator's own offers of a
list (and their order), posts them in one call, and answers when it is committed;
the others are named in a success. `PatchSeats` refuses offers of others before it
calls. `Search` and `Fetch` change nothing; which of the offers of others the proxy
delivers is left open here (`SharedAccess` has it). `OtherCall` lets bookings and
key requests share the ledger.

### MessageService

State: `messages` (the database), `ledger`, `told` and `statuses` (what webhooks
received), `handlers`. A slot names a request and the message or transaction it
records. `Calls` is the HTTP call to a webhook: delivered or not, answered or not.
`updateOne({ id })` matches no document (mongoose has `_id`), so `Updated` leaves
the messages as they are; `Message.get` does find them. Webhooks are enabled, and
the endorsement of a transaction and its ordering are one step.

### ProxyReEncryption

State: `keys`, `rekeys`, `records`, each as the bytes stored, with the secrets they
were made from beside them for the properties. Every action reads its inputs back
from bytes, as the process does: a reader operator (`PointFromBytes`,
`CapsuleFromBytes`, ...) gives the set of its results, empty when the code throws.
`ToBytes` drops leading zeros, keeps at most `Size` bytes; the length alone tells a
re-encrypted capsule from an original one. `S` of a capsule is carried along
although the signature it stands for is never verified.

Bytes are digits in a base, `Size` of them per number, and both are parameters.
`ToArray` takes them out of a number by division by powers of the base, `Number` puts
them together again: recursive functions, as the proofs need them.


## 3. Runs

| run | instance | shows |
|---|---|---|
| `seats` | 1 operator, 1 offer, 2 bookings, 2 calls in flight, 4 writes of the offer, 2 of every other record | `TypeOK`, `SeatsConserved`, `NoOverbooking`, `CurrentKeyOnWrite`, `BookSpec`, and the inductive invariant |
| `batch` | 2 operators with an offer each, lists of up to 3, 2 handlers, 2 writes of one offer and one key, 1 of the others | `AnswersHold`, `OffersByTheirOperator`, and `CurrentKeyOnWrite`, `BookSpec` behind the handlers, with lists; the inductive invariant |
| `access` | 2 operators, one delegating, 2 records, 2 rekey requests, 2 proxy keys, 1 restart | `TypeOK`, `DelegationWorks`, `CeremonyCompletes`, `AccessIsKept` |
| `booking` | 3 requests (a retry among them), 2 passengers, 2 seats, all failures, fairness | `TypeOK`, `AnswersAreTrue`, `ProofsFollowBookings`, `DriverProvedFirst`, `SeatsTaken`, `HandlersEnd` |
| `identity` | 3 logins at once, 2 users and the administrator, 2 operators, 1 call | `TypeOK`, `NameKeepsOperator`, `OperatorIsRegistered` |
| `proofs` | 2 operators, a driver and a rider, either of whom books; 2 handlers, 2 upgrades, 3 writes of a proof | `TypeOK`, `PositionsAccumulate`, `JobsFollowProofs`, `ClassCountsUsers`, and the inductive invariant |
| `messages` | 3 requests, 2 pairs of operators (two operators, one alone), 3 transaction types, 2 states | `TypeOK`, `RecordedBeforeTold`, `OtherSideTold`, `StatusFollowsMessage` |
| `capsules` | a curve of 31 points, bytes of 7 values, 2 bytes per number, 3 secrets, 2 operators, 1 record | `TypeOK`, `NeverAnotherKey`, `ReadBackIsExact`, `OnlyZerosLost` |
| `unproved` | 2 requests, no failures | `EveryConfirmationProved` violated |
| `signed` | as `identity`, nobody logging in as the administrator | `SignedByRequester` violated |
| `proof_end` | as `proofs` | `StartedTripsCanEnd` violated |
| `updates` | as `messages`, 2 requests | `UpdatesAreStored` violated |

The runs that end in a violation state what a document, a comment or a test of the
repository says; section 5 has them one by one.

Bounds, and why they are enough:

* `MaxVersion` bounds how often each record is written, through a guard of
  `Commit` (`SeatLedger`) or of `UpgradeProof` (`ProofLife`). Four writes of an
  offer are a post, an update and two confirmations, or a post and more
  confirmations than it has seats; two writes of a key are a replacement; three of
  a proof are its creation, its start and its end, or a creation, an upgrade and a
  second creation over it. The proofs need no bound.
* `MaxBatch` is 3: one list can repeat an offer on both sides of another one.
* Two calls in flight: every conflict of the protocol is between a call and one
  that is committed while it waits. A third only adds a second such commit, which
  can happen in a free slot.
* `MaxKeys` is the number of key pairs an operator makes per start of the ledger.
  It is 1 in `access`: with the restart an operator has two generations, enough
  for every mismatch between a re-encryption key, a capsule and a key.
  `MaxProxyKeys` is 2: the pair the chaincodes were deployed with and its successor.
* Two records in `access`: a query fails as soon as one record of its result does,
  so one that opens and one that does not are all the cases.
* Three requests in `booking`, two for one passenger: a race of two confirmations and a
  retry of one.
  Three in `messages`: a message, a PATCH about it, and a transaction.
* Three logins: two that race for a username and one that takes the context away
  from both. One call, since calls change nothing that another reads.
* `Report` is one pair in `proofs`, a position and a phone number; proofs that
  were not upgraded have neither, so both are there. The theorems have every
  report, the unknown ones included.
* `capsules`: the curve is y^2 = x^3 + 7 modulo 43, of the shape of secp256k1 and of
  prime order, so TLC can tabulate it. Seven values per byte and two bytes per
  number make leading zeros, and sums of scalars that need a third byte, common.
  Of the secrets one has a leading zero, one a public point with one, one neither.

`CHECK_DEADLOCK FALSE` is said for `BookingService`, `MessageService`, `ProofLife`
and `OfferService`: their requests are finite sets (in the last, versions are
bounded and a handler's slot may wait for a commit beyond the bound), and they stop
when all are over.

Fairness: only `booking` assumes any, weak fairness of `Handle(r)`, the
steps the service takes by itself. The code justifies it: the event loop runs
every handler whose await is settled, and `_registerTxEvent` arms a timer for
every call. Nothing is assumed of the orderer (a call may stay unordered: then
the timer fires) nor of the webhook, which has no time limit (`HandlersEnd`
excludes handlers that wait for it). No other module has anything that must
happen: jobs and messages that are lost are not made up for by any code.


## 4. Proofs

For any sets of operators, offers, users, records, requests and calls in flight,
and without the bounds of the runs unless a guard of the model has one:

| module | theorems |
|---|---|
| `SeatLedgerProofs` | `Invariance`, `TypeCorrect`, `Conservation`, `NeverOverbooked`, `KeysAreCurrent`, `ImplementsBook` (`Spec => BookSpec`) |
| `OfferServiceProofs` | `ImplementsLedger` (`OfferSpec => Spec`), `BookBehindHandlers`, `KeysBehindHandlers`, `OwnersKept`, `AnswersTrue`, `OffersStayOwn` |
| `BookingServiceProofs` | `Invariance`, `TypeCorrect`, `TrueAnswers`, `ProvedByBookings`, `DriverFirst`, `ASeatEach` |
| `SharedAccessProofs` | `Invariance`, `TypeCorrect`, `AccessKept`, `DelegationHolds`, `CeremonyHolds` |
| `ProofLifeProofs` | `Invariance`, `TypeCorrect`, `JobsHaveProofs`, `ClassCounts`, `PositionsKept` |
| `MessageServiceProofs` | `Invariance`, `TypeCorrect`, `RecordedFirst`, `OtherSideHears`, `StatusesFollow` |
| `IdentityProofs` | `Inductive`, `IdentityTypes`, `OneOperatorPerName`, `SignersAreRegistered` |
| `ProxyReEncryptionProofs` | `OwnerOpens`, `DelegateeOpens`, `Invariance`, `TypeCorrect`, `ReadBackExact`, `OnlyTheRightKey`, `NothingElseLost` |

Assumptions: those the modules state of their constants, and no others. They are
the ranges the validation schemas allow, disjointness of names and of the values
that stand for nothing (`Absent`, `Idle`), and in `ProxyReEncryption` what it takes the
curve library for: the laws of a group of prime order and of the inverse modulo it,
coordinates that fit `Size` bytes, an order that does, and a base above 4, since 4
marks a full point (a byte has 256 values). One is a matter of odds: no digest is -1
modulo the order (one in 2^256 is). TLC evaluates them all in the runs.

The inductive invariants were checked by TLC before they were proved; those of
`seats`, `batch` and `proofs` are still checked by their runs.

The arguments:

* `SeatLedger`. `SeatsConserved` is not inductive: a call in flight carries the
  seats it will write. `IInv` adds what each call in flight knows (`Plan`): its
  reads are not newer than the versions, and for as long as the offer it read has
  the version it read, the seats it writes are one less than those on the ledger (a
  confirmation) or replace them alone (an update), and its encryption key is the one
  it read. `Commit` only happens while the versions are equal, so the plan applies;
  another call's commit changes the version of what it writes, so the plans it would
  break are exactly those that can no longer commit.
* `OfferService`. Every step of a handler is a step of the ledger or leaves it
  alone, so all that is proved of `SeatLedger` holds behind the handlers.
  `OwnersInv` adds what a call in flight writes, by whom, and which offers the
  handler behind it answers for; the filter of `PostOffers` is what makes it hold.
* `BookingService`. `IInv` says what is committed at each point of a handler
  (`HandlerInv`) and behind each call (`CallInv`): a handler is at a proof only
  behind a committed confirmation, and at the passenger's only when the driver's
  stands. With it, what is committed for a request changes in `CommitBooking` alone, and
  its handler keeps the type it was asked for; so the set of confirmed requests grows by
  one with every seat taken (`ASeatEach`).
* `SharedAccess`. `KeysInv`: every key named by a record, a request in flight or a
  document of the proxy was made by the operator it is taken for, and no generation
  is ahead of `made`. While keys are made once, a pair then has one possible
  re-encryption key, whatever the order of requests; `CeremonyInv` adds what an
  answered pair has. `AccessIsKept` follows step by step: a request only appends,
  and the first document is the one used.
* `ProofLife`. `IInv` says of each upgrade in flight that, while the version it
  read is current, it rewrites the proof that stands, and that the operator of the
  offer encrypted that one (`UpgradePlan`); and of each creation that it reads
  nothing and writes a fresh proof (`CreationPlan`).
  `ClassCountsUsers` needs no invariant: by what one user adds to a class
  (`AddedCounts`), it holds for whatever proofs are on the ledger.
* `MessageService`. `MessagesInv` says of each slot what is recorded and told at the
  point its handler has reached (`MessageInv`, `StepInv`, `ChangeInv`).
* `Identity`. `NameKeepsOperator` speaks of tokens only; `IInv` adds that everything
  a token is issued from, the certificates stored, signed with or about to be
  stored, agrees with the one registration the authority has for the username.
* `ProxyReEncryption`, the scheme. The owner's `sk (E + V)` is `(r1 + r2) pk`, and the
  number of a re-encryption key cancels against the digest both ends can compute: by
  the group laws alone (`OwnerOpens`, `DelegateeOpens`).
* `ProxyReEncryption`, the bytes. What a recursive function computes for every input is
  an induction, and the library's induction theorems take operators, which the provers
  cannot instantiate. `Induction` and `BoundedInduction` are therefore about sets of
  naturals, from the least number left out (`WFMin`); `Recursion` shows that a bounded
  recursion has a solution. With them: the digits of a number stand for it
  (`NumberOfArray`), so a value of whole length is read back as it was
  (`WordInBytes`, `PointInBytes`). No part is longer than its place; so when the whole
  of several parts is as long as its layout every part is, and the cuts fall between
  them (`ReKeyInBytes`, `CapsuleInBytes`): bytes that lost zeros are refused.
* `ProxyReEncryption`, the exchange. `NeverAnotherKey` compares what a reader computes
  with what is kept beside the bytes, which is not inductive. `IInv` adds that what is
  stored was made by the scheme from the secrets it is kept with: by an action that
  read its inputs from bytes, which by the lemmas above are those that were written.
  What a reader makes of it is then `OwnerOpens` or `DelegateeOpens`.

All invariants and all action properties that hold in the runs are proved. Only
model-checked: `HandlersEnd`, since liveness is beyond the prover, and the
counterexamples of section 5.


## 5. Findings

Each is a run that TLC ends with a counterexample; `PROJECT.json` quotes the line it
contradicts.

* `unproved`: two confirmations racing for the driver's proof leave a passenger
  without proof, answered 201.
* `signed`: a call is made in the name of the last login, or of the administrator
  after a restart, not of the user whose token the request carries.
* `proof_end`: `upgradeProof` encrypts a proof for its invoker, while its metadata name
  the offer's operator for good. After a report by the passenger's operator neither
  operator can report the end of the trip, although POST /proof takes both reports from
  both. For the same reason a proof created by another operator than the offer's opens for
  nobody, and either makes every later `queryProofByTrip` of the trip fail. (The run is
  about the chaincode: POST /proof itself does not get as far, see below.)
* `updates`: PATCH /message filters on a field `id` that no document has, updates
  nothing, tells the status and answers success. The test of the route
  (`message.test.js:68`) expects the answer and has its check of the store commented out.

Seen in the code, and in the models, without a run of their own:

* `queryOfferById` returns the decrypted entity, which keeps the seats of the creation:
  an offer read by its id never shows a confirmation. `tests/transaction.test.js:150`
  expects one seat less, `tests/offer.test.js:224` the updated count.
* Two concurrent posts of one offer can both be committed. The lookup of `createOffers`
  finds nothing and is not validated, so the second replaces entity, key and seats that
  line 86 would have refused to touch. In the same way `createProof` can write a second
  proof over what was reported since the first.
* A list that names an offer twice is accepted on a peer; the unit test of the
  refusal (`offers/tests/tests.spec.ts:100`) runs on a stub whose queries see the call's
  own writes. The seat properties hold all the same: the last entry is the posting.
* After a restart of the ledger keys "have to be generated again"
  (`scenario_test.md:87`), but the proxy keeps the old re-encryption key and refuses the
  new one until the old one is deleted. `CeremonyCompletes` therefore speaks of keys
  generated once.
* `to_bytes` drops leading zeros and `from_bytes` refuses what is short: about one
  key pair, re-encryption key or capsule coordinate in 256 cannot be used.
  `OnlyZerosLost` says that nothing else loses a record.
* The length alone tells a re-encrypted capsule from an original one, so one that lost
  exactly as many leading zeros as a point has bytes (65) would be read as an original
  one and give another key. `NeverAnotherKey` excepts it (`LooksOriginal`): a proof for
  every base and size needs the exception. The instance of `capsules` has no such
  capsule (at most 4 zeros of the 5 it takes), secp256k1 one in 2^500 or so.
* Jobs of `sendProof` live in memory; a driver's proof that is committed after the
  timer never schedules one; and every job asks for its proofs by an `idTrip`, which
  the schema of `queryProofByTrip` does not have. For the same reason POST /proof
  and GET /proof/:idTrip always end in an error; `tests/proof.test.js:89-95` expects 200
  and three proofs from the latter. Nothing changes in these calls, so there is nothing
  to explore.
* `queryOffersByGeohashList` and `queryOfferById` reject empty results, so the
  branches of the API for them (204, 404) are dead. A query by id of a record the
  proxy leaves out decrypts `undefined` and is an error.
* The API lets in 1 to 4 seats, the chaincode up to 5.
* `updateTransactionAvailableSeats` is always rejected (arguments passed as separate
  strings); the guard that keeps `updateOfferFromTransaction` internal tests a
  promise and never rejects.
* A message's status goes to the operator of the offer, whoever wrote the message.
* A username registered but not stored (a failure between the two, a new container)
  can never log in again; a refused login moves the user context all the same; and a
  login between a proposal and its envelope makes the orderer refuse the envelope.


## 6. What is left

Not modelled, and why:

* geohash cells and date conversions: data the handlers pass through; a search of
  `OfferService` matches any of the sets of offers it is given.
* routes, error middleware, shapes of answers, configuration: no state. What the
  request schemas let in are assumptions on constants.
* record names as strings: their parts are joined with `-`, which the parts may hold,
  so two bookings can share a name. The models take names as given.
* expiry of tokens, login and profiles of the proxy service: independent of the
  exchange.
* deployment scripts: what they do to the running system (a fresh ledger, another
  proxy key in the chaincodes' environment) are actions of `SharedAccess`.

Next, if the code grows: a composition of `ProofLife` with `SharedAccess` for keys
that are replaced during a trip, and record names as a check of their own.
