----------------------------- MODULE SeatLedger -----------------------------
(***************************************************************************)
(* The seat-bearing part of the ledger: the offers and transactions        *)
(* chaincodes, with the key record of the kms chaincode they read, over    *)
(* Fabric's endorse-order-validate life cycle.                             *)
(*                                                                         *)
(* Every call a client submits is one proposal.  Its endorsement runs the  *)
(* whole handler on the committed state (its writes are not visible to its *)
(* own queries), a rejected call leaves nothing behind, and the proposal   *)
(* then waits, for as long as the ordering takes, until it is committed,   *)
(* discarded by validation, or never arrives.  Endorsement on a peer that  *)
(* lags behind is an endorsement that happened earlier.                    *)
(*                                                                         *)
(* Abstracted: an offer's entity is the seat count it was posted with, the *)
(* operator that encrypted it and the version of that operator's key.      *)
(***************************************************************************)
EXTENDS FabricLedger, Integers, FiniteSets

CONSTANTS
    Operator,   \* carpool operators, each with a key record in kms
    Offer,      \* offers, named by generateUUID(idOffer, idOperator)
    Booking,    \* transaction records, named by generateIdTransaction(...)
    OfferOf,    \* the offer each booking is about
    Client,     \* slots for calls in flight, over both operators' services
    PostSeats,  \* seat counts tried by createOffers
    SetSeats,   \* seat counts tried by updateOffer
    Status,     \* transaction types tried by pushTransaction
    MaxBatch,   \* longest list tried by createOffers
    MaxVersion, \* bound: how often each record is written
    Absent,     \* a record nobody wrote
    Idle        \* a slot with no call in flight

ASSUME OfferOfAssumption == OfferOf \in [Booking -> Offer]
ASSUME SeatsAssumption == PostSeats \subseteq 1..5 /\ SetSeats \subseteq 0..4
ASSUME BoundsAssumption == MaxBatch \in Nat /\ MaxVersion \in [Operator \cup Offer \cup Booking -> Nat]
ASSUME StatusAssumption == Absent \notin Status
ASSUME KeysAssumption ==
    /\ Operator \cap Offer = {}
    /\ Operator \cap Booking = {}
    /\ Offer \cap Booking = {}

VARIABLES
    ver,        \* world state: version of every record
    offers,     \* world state: the encrypted offers and their clear seat counts
    bookings,   \* world state: the encrypted transactions
    inflight,   \* the call in flight in each slot
    base,       \* history: seats an offer was last given by a post or an update
    granted     \* history: confirmations committed for the offer since

world == <<ver, offers, bookings>>
vars == <<ver, offers, bookings, inflight, base, granted>>

-----------------------------------------------------------------------------
(* Records and calls.                                                      *)

Record == Operator \cup Offer \cup Booking

OfferDoc == [seats : 0..5, posted : 1..5, by : Operator, key : Nat]

BookingDoc == [type : Status, by : Operator, key : Nat]

ASSUME AbsentAssumption ==
    Absent \notin OfferDoc /\ Absent \notin BookingDoc /\ Absent \notin 0..5

Calls == {"createKeys", "createOffers", "updateOffer", "pushTransaction"}

\* What a proposal carries: who signed it, what it read, and what it writes.
IsProposal(p) ==
    /\ p = [call |-> p.call, by |-> p.by, reads |-> p.reads, keys |-> p.keys,
            offers |-> p.offers, bookings |-> p.bookings]
    /\ p.call \in Calls /\ p.by \in Operator /\ p.keys \subseteq Operator
    /\ DOMAIN p.reads \subseteq Record
    /\ \A k \in DOMAIN p.reads : p.reads[k] \in Nat
    /\ DOMAIN p.offers \subseteq Offer
    /\ \A o \in DOMAIN p.offers : p.offers[o] \in OfferDoc
    /\ DOMAIN p.bookings \subseteq Booking
    /\ \A b \in DOMAIN p.bookings : p.bookings[b] \in BookingDoc

Written(p) == p.keys \cup DOMAIN p.offers \cup DOMAIN p.bookings

InFlight(c) == inflight[c] # Idle

\* The read set of a handler that read the records K of the committed state.
ReadSet(K) == [k \in K |-> ver[k]]

\* A chaincode that asks the kms chaincode for the invoker's keys gets them.
HasKeys(op) == ver[op] > 0

Posted(o) == offers[o] # Absent

-----------------------------------------------------------------------------
Init ==
    /\ ver = [k \in Record |-> 0]
    /\ offers = [o \in Offer |-> Absent]
    /\ bookings = [b \in Booking |-> Absent]
    /\ inflight = [c \in Client |-> Idle]
    /\ base = [o \in Offer |-> 0]
    /\ granted = [o \in Offer |-> 0]

\* A handler ran to its end on the committed state: its proposal is on its way.
Endorse(c, p) ==
    /\ inflight[c] = Idle
    /\ inflight' = [inflight EXCEPT ![c] = p]
    /\ UNCHANGED <<ver, offers, bookings, base, granted>>

(* kms.createKeys: the keys of the invoking operator are written blindly.  *)
CreateKeys(c, op) ==
    Endorse(c, [call |-> "createKeys", by |-> op, reads |-> Nothing,
                keys |-> {op}, offers |-> Nothing, bookings |-> Nothing])

OffersIn(batch) == {batch[i].offer : i \in DOMAIN batch}

\* Every offer of the list must be missing from the committed state: one that
\* exists makes the whole call fail.
Creatable(batch) == \A o \in OffersIn(batch) : ~Posted(o)

\* `last` holds, for every offer named in the list, the seats of its last entry.
LastEntries(batch, last) ==
    \A o \in OffersIn(batch) : \E i \in DOMAIN batch :
        /\ batch[i].offer = o
        /\ batch[i].seats = last[o]
        /\ \A j \in DOMAIN batch : batch[j].offer = o => j <= i

\* Faulty variant: the key comes from a cache and is not read from the ledger.
ReadByCreateNoKey(op) == {}

\* The lookups by idTrip came back empty and left no trace.
ReadByCreate(op) == {op}

(* offers.createOffers, for the operator's key and a list of offers.       *)
CreateOffers(c, op, batch) ==
    /\ HasKeys(op)
    /\ Creatable(batch)
    /\ \E last \in [OffersIn(batch) -> PostSeats] :
        /\ LastEntries(batch, last)
        /\ Endorse(c, [call |-> "createOffers", by |-> op,
                       reads |-> ReadSet(ReadByCreate(op)), keys |-> {},
                       offers |-> [o \in OffersIn(batch) |->
                                    [seats |-> last[o], posted |-> last[o],
                                     by |-> op, key |-> ver[op]]],
                       bookings |-> Nothing])

(* offers.updateOffer: the record is rewritten with the seats asked for.   *)
UpdateOffer(c, op, o, n) ==
    /\ Posted(o)
    /\ Endorse(c, [call |-> "updateOffer", by |-> op, reads |-> ReadSet({o}),
                   keys |-> {}, bookings |-> Nothing,
                   offers |-> [x \in {o} |-> [offers[o] EXCEPT !.seats = n]]])

\* Faulty variant: an enrolment already takes a seat.
TakesSeatTwice(s) == s \in {"INSCRIPTION", "CONFIRMATION"}

\* The types for which pushTransaction calls the offers chaincode.
TakesSeat(s) == s = "CONFIRMATION"

\* Faulty variant: an off-by-one in the test for a free seat.
HasSeatOrZero(o) == Posted(o) /\ offers[o].seats >= 0

\* updateOfferFromTransaction goes through: the offer exists and has a seat left.
HasSeat(o) == Posted(o) /\ offers[o].seats > 0

\* The call into the offers chaincode: an error of it is an error of the whole.
OffersAgree(o, s) == TakesSeat(s) => HasSeat(o)

\* Faulty variant: the count is put back as it was read.
SeatTakenLost(o) == [x \in {o} |-> offers[o]]

\* What updateOfferFromTransaction writes.
SeatTaken(o) == [x \in {o} |-> [offers[o] EXCEPT !.seats = @ - 1]]

\* Faulty variant: the seat count is taken from elsewhere than the ledger.
ReadByPushNoOffer(op, b, s) == {op} \cup {x \in {b} : bookings[x] # Absent}

\* Faulty variant: the key comes from a cache.
ReadByPushNoKey(op, b, s) ==
    {x \in {b} : bookings[x] # Absent} \cup {o \in {OfferOf[b]} : TakesSeat(s)}

\* The key, the booking when it is found, and the offer whose seat is taken.
ReadByPush(op, b, s) ==
    {op} \cup {x \in {b} : bookings[x] # Absent}
         \cup {o \in {OfferOf[b]} : TakesSeat(s)}

(* transactions.pushTransaction with the updateOfferFromTransaction it     *)
(* invokes: one proposal over both chaincodes.  The type is not compared   *)
(* with the one on record.                                                 *)
PushTransaction(c, op, b, s) ==
    /\ HasKeys(op)
    /\ OffersAgree(OfferOf[b], s)
    /\ Endorse(c, [call |-> "pushTransaction", by |-> op,
                   reads |-> ReadSet(ReadByPush(op, b, s)), keys |-> {},
                   offers |-> IF TakesSeat(s) THEN SeatTaken(OfferOf[b]) ELSE Nothing,
                   bookings |-> [x \in {b} |->
                                  [type |-> s, by |-> op, key |-> ver[op]]]])

-----------------------------------------------------------------------------
\* The history of an offer's seats, from what a committed call asked for.
SetsSeats(p, o) == o \in DOMAIN p.offers /\ p.call # "pushTransaction"

Confirms(p, o) ==
    \E b \in DOMAIN p.bookings :
        OfferOf[b] = o /\ p.bookings[b].type = "CONFIRMATION"

\* Ordered and valid: the whole write set is applied.
Commit(c) ==
    LET p == inflight[c] IN
    /\ InFlight(c)
    /\ ReadsCurrent(p.reads, ver)
    /\ \A k \in Written(p) : ver[k] < MaxVersion[k]
    /\ ver' = Bump(ver, Written(p))
    /\ offers' = Overlay(offers, p.offers)
    /\ bookings' = Overlay(bookings, p.bookings)
    /\ base' = [o \in Offer |-> IF SetsSeats(p, o) THEN p.offers[o].seats ELSE base[o]]
    /\ granted' = [o \in Offer |-> IF SetsSeats(p, o) THEN 0
                                   ELSE IF Confirms(p, o) THEN granted[o] + 1
                                   ELSE granted[o]]
    /\ inflight' = [inflight EXCEPT ![c] = Idle]

\* Ordered and stale: nothing is applied.
Discard(c) ==
    /\ InFlight(c)
    /\ ~ReadsCurrent(inflight[c].reads, ver)
    /\ inflight' = [inflight EXCEPT ![c] = Idle]
    /\ UNCHANGED <<ver, offers, bookings, base, granted>>

\* The service stops, or the orderer refuses, before the proposal is ordered.
Lose(c) ==
    /\ InFlight(c)
    /\ inflight' = [inflight EXCEPT ![c] = Idle]
    /\ UNCHANGED <<ver, offers, bookings, base, granted>>

Batches == UNION {[1..n -> [offer : Offer, seats : PostSeats]] : n \in 1..MaxBatch}

Submit(c) ==
    \E op \in Operator :
        \/ CreateKeys(c, op)
        \/ \E batch \in Batches : CreateOffers(c, op, batch)
        \/ \E o \in Offer, n \in SetSeats : UpdateOffer(c, op, o, n)
        \/ \E b \in Booking, s \in Status : PushTransaction(c, op, b, s)

Next == \E c \in Client : Submit(c) \/ Commit(c) \/ Discard(c) \/ Lose(c)

Spec == Init /\ [][Next]_vars

-----------------------------------------------------------------------------
\* What a search shows as the seats of an offer: queryOffersByGeohash and its list
\* variant put the clear count over that of the decrypted entity.
SeatsByGeohash(o) == offers[o].seats

-----------------------------------------------------------------------------
(* Properties.                                                             *)

\* Types: records are absent exactly when their version is 0, seats stay in 0..5.
TypeOK ==
    /\ ver \in [Record -> Nat]
    /\ offers \in [Offer -> OfferDoc \cup {Absent}]
    /\ bookings \in [Booking -> BookingDoc \cup {Absent}]
    /\ DOMAIN inflight = Client
    /\ \A c \in Client : inflight[c] = Idle \/ IsProposal(inflight[c])
    /\ base \in [Offer -> 0..5]
    /\ granted \in [Offer -> Nat]

\* The seats an offer shows are those it was last given, less one for every
\* CONFIRMATION committed in the transactions chaincode since: no decrement is
\* lost to a concurrent one, none happens without its booking record.
SeatsConserved ==
    \A o \in Offer : Posted(o) => SeatsByGeohash(o) = base[o] - granted[o]

\* Never more confirmations than seats, however many drivers' services confirm
\* at once on the last one.
NoOverbooking == \A o \in Offer : granted[o] <= base[o]

\* Whatever is encrypted into the ledger is encrypted under the key its operator
\* has at that moment, although key records are rewritten concurrently: a call
\* that raced with createKeys never leaves a record under the superseded key.
CurrentKeyOnWrite ==
    [][/\ \A b \in Booking : bookings'[b] # bookings[b] =>
            bookings'[b].key = ver[bookings'[b].by]
       /\ \A o \in Offer : offers'[o] # offers[o] =>
            \/ offers'[o].key = ver[offers'[o].by]
            \/ Posted(o) /\ offers'[o] = [offers[o] EXCEPT !.seats = offers'[o].seats]]_vars

\* The optimistic protocol is the atomic book: every commit is one whole
\* posting, adjustment, confirmation or record of it.
Book == INSTANCE SeatBook WITH
    free <- [o \in Offer |-> IF Posted(o) THEN offers[o].seats ELSE Absent],
    status <- [b \in Booking |-> IF bookings[b] = Absent THEN Absent ELSE bookings[b].type]

BookSpec == Book!Spec

-----------------------------------------------------------------------------
(* The inductive invariant: what a call in flight knows of the records it  *)
(* read, for as long as they are the versions it read.                     *)

\* What was read is not newer than the versions v.
ReadsInThePast(p, v) == \A k \in DOMAIN p.reads : p.reads[k] <= v[k]

\* A record the call writes over a version it read differs in its seats only.
Rewrites(p, o, v, docs) ==
    /\ o \in DOMAIN p.reads
    /\ p.reads[o] = v[o] =>
        docs[o] # Absent /\ p.offers[o] = [docs[o] EXCEPT !.seats = p.offers[o].seats]

\* The seat a confirmation takes is still there, and it takes no other.
TakesLiveSeat(p, o, v, docs) ==
    p.reads[o] = v[o] => /\ docs[o].seats > 0
                         /\ p.offers[o].seats = docs[o].seats - 1

\* The encrypted records of the call are under the key it read.
UnderReadKey(p, doc) ==
    /\ p.by \in DOMAIN p.reads
    /\ doc.by = p.by
    /\ doc.key = p.reads[p.by]

PlanOfCreateKeys(p) ==
    DOMAIN p.offers = {} /\ DOMAIN p.bookings = {}

PlanOfCreateOffers(p) ==
    /\ DOMAIN p.bookings = {}
    /\ \A o \in DOMAIN p.offers :
          p.offers[o].seats \in PostSeats /\ UnderReadKey(p, p.offers[o])

PlanOfUpdateOffer(p, v, docs) ==
    /\ DOMAIN p.bookings = {}
    /\ \E o \in Offer : DOMAIN p.offers = {o}
    /\ \A o \in DOMAIN p.offers : p.offers[o].seats \in SetSeats /\ Rewrites(p, o, v, docs)

PlanOfPushTransaction(p, v, docs) ==
    \E b \in Booking :
        /\ DOMAIN p.bookings = {b}
        /\ UnderReadKey(p, p.bookings[b])
        /\ DOMAIN p.offers = {o \in {OfferOf[b]} : TakesSeat(p.bookings[b].type)}
        /\ \A o \in DOMAIN p.offers :
              Rewrites(p, o, v, docs) /\ TakesLiveSeat(p, o, v, docs)

\* The call p is a faithful plan on the records it read, as of the versions v
\* and the offers docs.
Plan(p, v, docs) ==
    /\ ReadsInThePast(p, v)
    /\ p.call = "createKeys" => PlanOfCreateKeys(p)
    /\ p.call = "createOffers" => PlanOfCreateOffers(p)
    /\ p.call = "updateOffer" => PlanOfUpdateOffer(p, v, docs)
    /\ p.call = "pushTransaction" => PlanOfPushTransaction(p, v, docs)

\* Only a posted offer has a seat history.
HistoryOfPosted == \A o \in Offer : ~Posted(o) => base[o] = 0 /\ granted[o] = 0

PlansHold == \A c \in Client : InFlight(c) => Plan(inflight[c], ver, offers)

\* The invariant TLAPS proves inductive: every call in flight is a faithful plan
\* on the records it read, and the seats on the ledger match their history.
IInv == TypeOK /\ SeatsConserved /\ HistoryOfPosted /\ PlansHold
=============================================================================
