-------------------------- MODULE SeatLedgerProofs --------------------------
(***************************************************************************)
(* Proofs about SeatLedger, for any number of operators, offers, bookings  *)
(* and concurrent calls: the inductive invariant, the seat properties that *)
(* follow from it, and the implementation of SeatBook.                     *)
(***************************************************************************)
EXTENDS SeatLedger, TLAPS

\* Applying a write set bumps the versions of the written records only.
LEMMA BumpIsTyped ==
    ASSUME NEW v \in [Record -> Nat], NEW K
    PROVE  /\ Bump(v, K) \in [Record -> Nat]
           /\ \A k \in Record : v[k] <= Bump(v, K)[k]
           /\ \A k \in Record : k \in K => Bump(v, K)[k] = v[k] + 1
           /\ \A k \in Record : k \notin K => Bump(v, K)[k] = v[k]
BY DEF Bump

\* The plan of a call in flight outlives every commit of another call: a record
\* that was written since has a version the call did not read.
LEMMA PlanSurvives ==
    ASSUME NEW v \in [Record -> Nat], NEW w \in [Record -> Nat], NEW docs, NEW docs2,
           NEW p, IsProposal(p), Plan(p, v, docs),
           \A k \in Record : v[k] <= w[k],
           \A o \in Offer : w[o] = v[o] => docs2[o] = docs[o]
    PROVE  Plan(p, w, docs2)
<1>1. ReadsInThePast(p, w)
  BY DEF Plan, ReadsInThePast, IsProposal
<1>2. ASSUME NEW o \in Offer, o \in DOMAIN p.reads, p.reads[o] = w[o]
      PROVE  p.reads[o] = v[o] /\ docs2[o] = docs[o]
  <2>1. p.reads[o] <= v[o] /\ v[o] <= w[o] /\ o \in Record
    BY <1>2 DEF Plan, ReadsInThePast, Record
  <2>2. p.reads[o] \in Nat /\ v[o] \in Nat /\ w[o] \in Nat
    BY <2>1, <1>2 DEF IsProposal
  <2>3. QED
    BY <2>1, <2>2, <1>2
<1>3. ASSUME NEW o \in Offer, Rewrites(p, o, v, docs)
      PROVE  Rewrites(p, o, w, docs2)
  BY <1>2, <1>3 DEF Rewrites
<1>4. ASSUME NEW o \in Offer, o \in DOMAIN p.reads, TakesLiveSeat(p, o, v, docs)
      PROVE  TakesLiveSeat(p, o, w, docs2)
  BY <1>2, <1>4 DEF TakesLiveSeat
<1>5. DOMAIN p.offers \subseteq Offer
  BY DEF IsProposal
<1>6. PlanOfUpdateOffer(p, v, docs) => PlanOfUpdateOffer(p, w, docs2)
  BY <1>3, <1>5 DEF PlanOfUpdateOffer
<1>7. PlanOfPushTransaction(p, v, docs) => PlanOfPushTransaction(p, w, docs2)
  BY <1>3, <1>4, <1>5 DEF PlanOfPushTransaction, Rewrites
<1>8. QED
  BY <1>1, <1>6, <1>7 DEF Plan

\* An endorsed call changes nothing but its own slot.
LEMMA EndorsePreserves ==
    ASSUME IInv, NEW c \in Client, NEW p, Endorse(c, p),
           IsProposal(p), Plan(p, ver, offers)
    PROVE  IInv'
<1>1. inflight' = [inflight EXCEPT ![c] = p] /\ UNCHANGED <<ver, offers, bookings, base, granted>>
  BY DEF Endorse
<1>2. TypeOK'
  BY <1>1 DEF IInv, TypeOK, IsProposal
<1>3. SeatsConserved' /\ HistoryOfPosted'
  BY <1>1 DEF IInv, SeatsConserved, SeatsByGeohash, HistoryOfPosted, Posted
<1>4. PlansHold'
  BY <1>1 DEF IInv, TypeOK, PlansHold, InFlight
<1>5. QED
  BY <1>2, <1>3, <1>4 DEF IInv

\* Emptying a slot without committing preserves the invariant.
LEMMA ForgetPreserves ==
    ASSUME IInv, NEW c \in Client, inflight' = [inflight EXCEPT ![c] = Idle],
           UNCHANGED <<ver, offers, bookings, base, granted>>
    PROVE  IInv'
<1>1. TypeOK'
  BY DEF IInv, TypeOK, IsProposal
<1>2. SeatsConserved' /\ HistoryOfPosted'
  BY DEF IInv, SeatsConserved, SeatsByGeohash, HistoryOfPosted, Posted
<1>3. PlansHold'
  BY DEF IInv, TypeOK, PlansHold, InFlight
<1>4. QED
  BY <1>1, <1>2, <1>3 DEF IInv

\* The four handlers submit typed proposals that are faithful plans.
LEMMA CreateKeysPlan ==
    ASSUME IInv, NEW c \in Client, NEW op \in Operator, CreateKeys(c, op)
    PROVE  IInv'
<1> DEFINE p == [call |-> "createKeys", by |-> op, reads |-> Nothing,
                 keys |-> {op}, offers |-> Nothing, bookings |-> Nothing]
<1>1. Endorse(c, p)
  BY DEF CreateKeys
<1>2. IsProposal(p)
  BY DEF IsProposal, Calls, Nothing
<1>3. Plan(p, ver, offers)
  BY DEF Plan, ReadsInThePast, PlanOfCreateKeys, Nothing
<1>4. QED
  BY <1>1, <1>2, <1>3, EndorsePreserves

\* What a handler reads of the committed state is typed and current.
LEMMA ReadSetIsTyped ==
    ASSUME TypeOK, NEW K \in SUBSET Record
    PROVE  /\ DOMAIN ReadSet(K) = K
           /\ \A k \in K : ReadSet(K)[k] = ver[k] /\ ReadSet(K)[k] \in Nat
BY DEF ReadSet, TypeOK

LEMMA CreateOffersPlan ==
    ASSUME IInv, NEW c \in Client, NEW op \in Operator, NEW batch \in Batches,
           CreateOffers(c, op, batch)
    PROVE  IInv'
<1>1. TypeOK
  BY DEF IInv
<1>2. OffersIn(batch) \subseteq Offer
  BY DEF OffersIn, Batches
<1>3. PICK last \in [OffersIn(batch) -> PostSeats] :
        Endorse(c, [call |-> "createOffers", by |-> op,
                    reads |-> ReadSet(ReadByCreate(op)), keys |-> {},
                    offers |-> [o \in OffersIn(batch) |->
                                 [seats |-> last[o], posted |-> last[o],
                                  by |-> op, key |-> ver[op]]],
                    bookings |-> Nothing])
  BY DEF CreateOffers
<1> DEFINE p == [call |-> "createOffers", by |-> op,
                 reads |-> ReadSet(ReadByCreate(op)), keys |-> {},
                 offers |-> [o \in OffersIn(batch) |->
                              [seats |-> last[o], posted |-> last[o],
                               by |-> op, key |-> ver[op]]],
                 bookings |-> Nothing]
<1>4. /\ DOMAIN p.reads = {op}
      /\ \A k \in {op} : p.reads[k] = ver[k] /\ p.reads[k] \in Nat
  BY <1>1, ReadSetIsTyped DEF ReadByCreate, Record
<1>5. IsProposal(p)
  <2>1. \A o \in OffersIn(batch) : p.offers[o] \in OfferDoc
    <3> SUFFICES ASSUME NEW o \in OffersIn(batch) PROVE p.offers[o] \in OfferDoc
      OBVIOUS
    <3>1. last[o] \in 1..5 /\ last[o] \in 0..5
      BY <1>3, SeatsAssumption, 1..5 \subseteq 0..5
    <3>2. ver[op] \in Nat
      BY <1>1 DEF TypeOK, Record
    <3>3. QED
      BY <3>1, <3>2 DEF OfferDoc
  <2>2. QED
    BY <1>2, <1>4, <2>1 DEF IsProposal, Calls, Nothing, Record
<1>6. Plan(p, ver, offers)
  BY <1>4 DEF Plan, ReadsInThePast, PlanOfCreateOffers, UnderReadKey, Nothing
<1>7. QED
  BY <1>3, <1>5, <1>6, EndorsePreserves

\* Rewriting the seats of a typed offer record keeps it typed.
LEMMA ReseatIsTyped ==
    ASSUME NEW doc \in OfferDoc, NEW n \in 0..5
    PROVE  LET new == [doc EXCEPT !.seats = n]
           IN  new \in OfferDoc /\ new.seats = n /\ new = [doc EXCEPT !.seats = new.seats]
BY DEF OfferDoc

LEMMA UpdateOfferPlan ==
    ASSUME IInv, NEW c \in Client, NEW op \in Operator, NEW o \in Offer, NEW n \in SetSeats,
           UpdateOffer(c, op, o, n)
    PROVE  IInv'
<1> DEFINE new == [offers[o] EXCEPT !.seats = n]
<1> DEFINE p == [call |-> "updateOffer", by |-> op, reads |-> ReadSet({o}),
                 keys |-> {}, bookings |-> Nothing, offers |-> [x \in {o} |-> new]]
<1>1. TypeOK /\ offers[o] # Absent /\ Endorse(c, p)
  BY DEF UpdateOffer, Posted, IInv
<1>2. new \in OfferDoc /\ new.seats = n /\ new = [offers[o] EXCEPT !.seats = new.seats]
  <2>1. offers[o] \in OfferDoc /\ n \in 0..5
    BY <1>1, SeatsAssumption DEF TypeOK
  <2>2. QED
    BY <2>1, ReseatIsTyped
<1>3. /\ DOMAIN p.reads = {o}
      /\ p.reads[o] = ver[o] /\ p.reads[o] \in Nat
  BY <1>1, ReadSetIsTyped DEF Record
<1> HIDE DEF new
<1>4. IsProposal(p)
  BY <1>2, <1>3 DEF IsProposal, Calls, Nothing, Record
<1>5. Plan(p, ver, offers)
  <2>1. ReadsInThePast(p, ver)
    BY <1>3 DEF ReadsInThePast
  <2>2. \A x \in DOMAIN p.offers : p.offers[x].seats \in SetSeats /\ Rewrites(p, x, ver, offers)
    BY <1>1, <1>2, <1>3 DEF Rewrites, new
  <2>3. PlanOfUpdateOffer(p, ver, offers)
    BY <2>2 DEF PlanOfUpdateOffer, Nothing
  <2>4. QED
    BY <2>1, <2>3 DEF Plan
<1>6. QED
  BY <1>1, <1>4, <1>5, EndorsePreserves

LEMMA PushTransactionPlan ==
    ASSUME IInv, NEW c \in Client, NEW op \in Operator, NEW b \in Booking, NEW s \in Status,
           PushTransaction(c, op, b, s)
    PROVE  IInv'
<1> DEFINE o == OfferOf[b]
<1> DEFINE doc == [type |-> s, by |-> op, key |-> ver[op]]
<1> DEFINE new == [offers[o] EXCEPT !.seats = @ - 1]
<1> DEFINE p == [call |-> "pushTransaction", by |-> op,
                 reads |-> ReadSet(ReadByPush(op, b, s)), keys |-> {},
                 offers |-> IF TakesSeat(s) THEN SeatTaken(o) ELSE Nothing,
                 bookings |-> [x \in {b} |-> doc]]
<1>1. TypeOK /\ Endorse(c, p) /\ o \in Offer
  BY OfferOfAssumption DEF PushTransaction, OffersAgree, IInv
<1>2. TakesSeat(s) => /\ offers[o] \in OfferDoc /\ offers[o].seats > 0
                      /\ new \in OfferDoc /\ new.seats = offers[o].seats - 1
                      /\ new = [offers[o] EXCEPT !.seats = new.seats]
                      /\ offers[o] # Absent
  <2> SUFFICES ASSUME TakesSeat(s)
               PROVE  /\ offers[o] \in OfferDoc /\ offers[o].seats > 0
                      /\ new \in OfferDoc /\ new.seats = offers[o].seats - 1
                      /\ new = [offers[o] EXCEPT !.seats = new.seats]
                      /\ offers[o] # Absent
    OBVIOUS
  <2>1. offers[o] # Absent /\ offers[o].seats > 0
    BY DEF PushTransaction, OffersAgree, HasSeat, Posted
  <2>2. offers[o] \in OfferDoc
    BY <1>1, <2>1 DEF TypeOK
  <2>3. offers[o].seats - 1 \in 0..5
    BY <2>1, <2>2 DEF OfferDoc
  <2>4. QED
    BY <2>1, <2>2, <2>3, ReseatIsTyped
<1>3. ReadByPush(op, b, s) \subseteq Record
  BY <1>1 DEF ReadByPush, Record
<1>4. /\ DOMAIN p.reads \subseteq Record
      /\ op \in DOMAIN p.reads
      /\ TakesSeat(s) => o \in DOMAIN p.reads
      /\ \A k \in DOMAIN p.reads : p.reads[k] = ver[k] /\ p.reads[k] \in Nat
  BY <1>1, <1>3, ReadSetIsTyped DEF ReadByPush
<1>5. /\ DOMAIN p.offers = {x \in {o} : TakesSeat(s)}
      /\ \A x \in DOMAIN p.offers : TakesSeat(s) /\ x = o /\ p.offers[x] = new
  BY DEF SeatTaken, Nothing
<1>6. doc \in BookingDoc /\ doc.type = s /\ doc.by = op /\ doc.key = ver[op]
  BY <1>1 DEF BookingDoc, TypeOK, Record
<1> HIDE DEF new, doc, o
<1>7. IsProposal(p)
  BY <1>1, <1>2, <1>4, <1>5, <1>6 DEF IsProposal, Calls
<1>8. Plan(p, ver, offers)
  <2>1. ReadsInThePast(p, ver)
    BY <1>1, <1>4 DEF ReadsInThePast, TypeOK
  <2>2. DOMAIN p.bookings = {b} /\ UnderReadKey(p, p.bookings[b]) /\ p.bookings[b].type = s
    BY <1>4, <1>6 DEF UnderReadKey
  <2>3. \A x \in DOMAIN p.offers : Rewrites(p, x, ver, offers) /\ TakesLiveSeat(p, x, ver, offers)
    BY <1>2, <1>4, <1>5 DEF Rewrites, TakesLiveSeat
  <2>4. PlanOfPushTransaction(p, ver, offers)
    BY <1>5, <2>2, <2>3 DEF PlanOfPushTransaction, o
  <2>5. QED
    BY <2>1, <2>4 DEF Plan
<1>9. QED
  BY <1>1, <1>7, <1>8, EndorsePreserves DEF o, doc

-----------------------------------------------------------------------------
(* Commits.                                                                *)

\* The call a commit applies is typed and a faithful plan, and its writes land
\* whole on the records it names.
LEMMA CommitApplies ==
    ASSUME IInv, NEW c \in Client, Commit(c)
    PROVE  LET p == inflight[c] IN
           /\ IsProposal(p) /\ Plan(p, ver, offers)
           /\ \A k \in DOMAIN p.reads : p.reads[k] = ver[k]
           /\ ver' \in [Record -> Nat]
           /\ \A k \in Record : ver[k] <= ver'[k]
           /\ \A k \in Written(p) : ver'[k] = ver[k] + 1
           /\ offers' = [o \in Offer |-> IF o \in DOMAIN p.offers THEN p.offers[o]
                                         ELSE offers[o]]
           /\ bookings' = [b \in Booking |-> IF b \in DOMAIN p.bookings THEN p.bookings[b]
                                             ELSE bookings[b]]
<1> DEFINE p == inflight[c]
<1>1. IsProposal(p) /\ Plan(p, ver, offers)
  BY DEF IInv, TypeOK, PlansHold, Commit, InFlight
<1>2. Written(p) \subseteq Record
  BY <1>1 DEF IsProposal, Written, Record
<1>3. ver \in [Record -> Nat] /\ ver' = Bump(ver, Written(p))
  BY DEF IInv, TypeOK, Commit
<1>4. \A k \in DOMAIN p.reads : p.reads[k] = ver[k]
  BY DEF Commit, ReadsCurrent
<1>5. DOMAIN offers = Offer /\ DOMAIN bookings = Booking
  BY DEF IInv, TypeOK
<1>6. offers' = Overlay(offers, p.offers) /\ bookings' = Overlay(bookings, p.bookings)
  BY DEF Commit
<1> HIDE DEF p
<1>7. /\ ver' \in [Record -> Nat]
      /\ \A k \in Record : ver[k] <= ver'[k]
      /\ \A k \in Written(p) : ver'[k] = ver[k] + 1
  BY <1>2, <1>3, BumpIsTyped
<1>8. QED
  BY <1>1, <1>4, <1>5, <1>6, <1>7 DEF Overlay, p

\* A commit does one of three things to an offer: gives it new seats, takes one
\* seat for a confirmation that is recorded with it, or leaves it alone.
LEMMA CommitOnOffer ==
    ASSUME IInv, NEW c \in Client, Commit(c), NEW o \in Offer
    PROVE  LET p == inflight[c] IN
           \/ /\ SetsSeats(p, o)
              /\ offers'[o] = p.offers[o] /\ p.offers[o] \in OfferDoc
           \/ /\ ~SetsSeats(p, o) /\ Confirms(p, o) /\ Posted(o)
              /\ offers[o] \in OfferDoc /\ offers'[o] \in OfferDoc
              /\ offers[o].seats > 0
              /\ offers'[o] = [offers[o] EXCEPT !.seats = offers[o].seats - 1]
              /\ offers'[o].seats = offers[o].seats - 1
           \/ /\ ~SetsSeats(p, o) /\ ~Confirms(p, o)
              /\ offers'[o] = offers[o]
<1> DEFINE p == inflight[c]
<1>1. /\ IsProposal(p) /\ Plan(p, ver, offers)
      /\ \A k \in DOMAIN p.reads : p.reads[k] = ver[k]
      /\ offers' = [x \in Offer |-> IF x \in DOMAIN p.offers THEN p.offers[x]
                                    ELSE offers[x]]
  BY CommitApplies
<1>2. TypeOK
  BY DEF IInv
<1> HIDE DEF p
<1>3. CASE o \in DOMAIN p.offers /\ p.call # "pushTransaction"
  <2>1. SetsSeats(p, o) /\ offers'[o] = p.offers[o] /\ p.offers[o] \in OfferDoc
    BY <1>1, <1>3 DEF SetsSeats, IsProposal
  <2>2. QED
    BY <2>1 DEF p
<1>4. CASE o \in DOMAIN p.offers /\ p.call = "pushTransaction"
  <2>1. PICK b \in Booking :
          /\ DOMAIN p.bookings = {b}
          /\ DOMAIN p.offers = {x \in {OfferOf[b]} : TakesSeat(p.bookings[b].type)}
          /\ Rewrites(p, o, ver, offers) /\ TakesLiveSeat(p, o, ver, offers)
    BY <1>1, <1>4 DEF Plan, PlanOfPushTransaction
  <2>2. Confirms(p, o) /\ ~SetsSeats(p, o)
    BY <1>4, <2>1 DEF Confirms, SetsSeats, TakesSeat
  <2>3. /\ Posted(o) /\ offers[o].seats > 0
        /\ p.offers[o] = [offers[o] EXCEPT !.seats = p.offers[o].seats]
        /\ p.offers[o].seats = offers[o].seats - 1
    BY <1>1, <2>1 DEF Rewrites, TakesLiveSeat, Posted
  <2>4. offers[o] \in OfferDoc /\ offers'[o] = p.offers[o] /\ p.offers[o] \in OfferDoc
    BY <1>1, <1>2, <1>4, <2>3 DEF TypeOK, Posted, IsProposal
  <2>5. QED
    BY <2>2, <2>3, <2>4 DEF p
<1>5. CASE o \notin DOMAIN p.offers
  <2>1. ~Confirms(p, o)
    <3> SUFFICES ASSUME NEW b \in DOMAIN p.bookings, OfferOf[b] = o,
                        p.bookings[b].type = "CONFIRMATION"
                 PROVE  FALSE
      BY DEF Confirms
    <3>1. p.call = "pushTransaction"
      BY <1>1 DEF Plan, IsProposal, Calls, PlanOfCreateKeys, PlanOfCreateOffers,
                  PlanOfUpdateOffer
    <3>2. DOMAIN p.offers = {x \in {OfferOf[b]} : TakesSeat(p.bookings[b].type)}
      BY <1>1, <3>1 DEF Plan, PlanOfPushTransaction
    <3>3. QED
      BY <1>5, <3>2 DEF TakesSeat
  <2>2. ~SetsSeats(p, o) /\ offers'[o] = offers[o]
    BY <1>1, <1>5 DEF SetsSeats
  <2>3. QED
    BY <2>1, <2>2 DEF p
<1>6. QED
  BY <1>3, <1>4, <1>5

\* A commit preserves the invariant.
LEMMA CommitPreserves ==
    ASSUME IInv, NEW c \in Client, Commit(c)
    PROVE  IInv'
<1> DEFINE p == inflight[c]
<1>1. /\ IsProposal(p)
      /\ ver' \in [Record -> Nat]
      /\ \A k \in Record : ver[k] <= ver'[k]
      /\ \A k \in Written(p) : ver'[k] = ver[k] + 1
      /\ offers' = [o \in Offer |-> IF o \in DOMAIN p.offers THEN p.offers[o]
                                    ELSE offers[o]]
      /\ bookings' = [b \in Booking |-> IF b \in DOMAIN p.bookings THEN p.bookings[b]
                                        ELSE bookings[b]]
  BY CommitApplies
<1>2. /\ base' = [o \in Offer |-> IF SetsSeats(p, o) THEN p.offers[o].seats ELSE base[o]]
      /\ granted' = [o \in Offer |-> IF SetsSeats(p, o) THEN 0
                                     ELSE IF Confirms(p, o) THEN granted[o] + 1
                                     ELSE granted[o]]
      /\ inflight' = [inflight EXCEPT ![c] = Idle]
  BY DEF Commit
<1>3. TypeOK /\ SeatsConserved /\ HistoryOfPosted /\ PlansHold
  BY DEF IInv
<1>4. \A o \in Offer :
           \/ /\ SetsSeats(p, o)
              /\ offers'[o] = p.offers[o] /\ p.offers[o] \in OfferDoc
           \/ /\ ~SetsSeats(p, o) /\ Confirms(p, o) /\ Posted(o)
              /\ offers[o] \in OfferDoc /\ offers'[o] \in OfferDoc
              /\ offers[o].seats > 0
              /\ offers'[o] = [offers[o] EXCEPT !.seats = offers[o].seats - 1]
              /\ offers'[o].seats = offers[o].seats - 1
           \/ /\ ~SetsSeats(p, o) /\ ~Confirms(p, o)
              /\ offers'[o] = offers[o]
  BY CommitOnOffer
<1> HIDE DEF p
<1>5. TypeOK'
  <2>1. offers' \in [Offer -> OfferDoc \cup {Absent}]
    BY <1>1, <1>3 DEF TypeOK, IsProposal
  <2>2. bookings' \in [Booking -> BookingDoc \cup {Absent}]
    BY <1>1, <1>3 DEF TypeOK, IsProposal
  <2>3. base' \in [Offer -> 0..5]
    BY <1>2, <1>3, <1>4 DEF TypeOK, OfferDoc
  <2>4. granted' \in [Offer -> Nat]
    BY <1>2, <1>3 DEF TypeOK
  <2>5. DOMAIN inflight' = Client /\ \A d \in Client : inflight'[d] = Idle \/ IsProposal(inflight'[d])
    BY <1>2, <1>3 DEF TypeOK
  <2>6. QED
    BY <1>1, <2>1, <2>2, <2>3, <2>4, <2>5 DEF TypeOK, IsProposal
<1>6. SeatsConserved'
  <2> SUFFICES ASSUME NEW o \in Offer, Posted(o)'
               PROVE  offers'[o].seats = base'[o] - granted'[o]
    BY DEF SeatsConserved, SeatsByGeohash
  <2>1. base[o] \in Int /\ granted[o] \in Int
    BY <1>3 DEF TypeOK
  <2>2. CASE SetsSeats(p, o)
    <3>1. offers'[o] = p.offers[o] /\ p.offers[o] \in OfferDoc
      BY <1>4, <2>2
    <3>2. base'[o] = p.offers[o].seats /\ granted'[o] = 0
      BY <1>2, <2>2
    <3>3. p.offers[o].seats \in Int
      BY <3>1 DEF OfferDoc
    <3>4. QED
      BY <3>1, <3>2, <3>3
  <2>3. CASE ~SetsSeats(p, o) /\ Confirms(p, o)
    <3>1. offers[o].seats = base[o] - granted[o] /\ offers'[o].seats = offers[o].seats - 1
      BY <1>3, <1>4, <2>3 DEF SeatsConserved, SeatsByGeohash
    <3>2. base'[o] = base[o] /\ granted'[o] = granted[o] + 1
      BY <1>2, <2>3
    <3>3. QED
      BY <2>1, <3>1, <3>2
  <2>4. CASE ~SetsSeats(p, o) /\ ~Confirms(p, o)
    BY <1>2, <1>3, <1>4, <2>4 DEF SeatsConserved, SeatsByGeohash, Posted
  <2>5. QED
    BY <2>2, <2>3, <2>4
<1>7. HistoryOfPosted'
  <2> SUFFICES ASSUME NEW o \in Offer, ~Posted(o)'
               PROVE  base'[o] = 0 /\ granted'[o] = 0
    BY DEF HistoryOfPosted
  <2>1. offers'[o] \notin OfferDoc
    BY AbsentAssumption DEF Posted
  <2>2. ~SetsSeats(p, o) /\ ~Confirms(p, o) /\ ~Posted(o)
    BY <1>4, <2>1 DEF Posted
  <2>3. QED
    BY <1>2, <1>3, <2>2 DEF HistoryOfPosted
<1>8. PlansHold'
  <2> SUFFICES ASSUME NEW d \in Client, InFlight(d)'
               PROVE  Plan(inflight'[d], ver', offers')
    BY DEF PlansHold
  <2>1. inflight'[d] = inflight[d] /\ InFlight(d)
    BY <1>2, <1>3 DEF TypeOK, InFlight
  <2>2. IsProposal(inflight[d]) /\ Plan(inflight[d], ver, offers)
    BY <1>3, <2>1 DEF TypeOK, PlansHold, InFlight
  <2>3. \A o \in Offer : ver'[o] = ver[o] => offers'[o] = offers[o]
    BY <1>1, <1>3 DEF TypeOK, Written, Record
  <2>4. ver \in [Record -> Nat]
    BY <1>3 DEF TypeOK
  <2>5. QED
    BY <1>1, <2>1, <2>2, <2>3, <2>4, PlanSurvives
<1>9. QED
  BY <1>5, <1>6, <1>7, <1>8 DEF IInv

\* The seat invariant, with all it rests on, holds in every reachable state.
THEOREM Invariance == Spec => []IInv
<1>1. Init => IInv
  BY DEF Init, IInv, TypeOK, SeatsConserved, SeatsByGeohash, HistoryOfPosted, PlansHold, Posted, InFlight
<1>2. IInv /\ [Next]_vars => IInv'
  <2> SUFFICES ASSUME IInv, [Next]_vars
               PROVE  IInv'
    OBVIOUS
  <2>1. ASSUME NEW c \in Client, Submit(c)
        PROVE  IInv'
    BY <2>1, CreateKeysPlan, CreateOffersPlan, UpdateOfferPlan, PushTransactionPlan DEF Submit
  <2>2. ASSUME NEW c \in Client, Commit(c)
        PROVE  IInv'
    BY <2>2, CommitPreserves
  <2>3. ASSUME NEW c \in Client, Discard(c) \/ Lose(c)
        PROVE  IInv'
    BY <2>3, ForgetPreserves DEF Discard, Lose
  <2>4. CASE UNCHANGED vars
    BY <2>4 DEF vars, IInv, TypeOK, SeatsConserved, SeatsByGeohash, HistoryOfPosted, PlansHold, Posted,
                InFlight, IsProposal
  <2>5. QED
    BY <2>1, <2>2, <2>3, <2>4 DEF Next
<1>3. QED
  BY <1>1, <1>2, PTL DEF Spec

\* Types: every record, call in flight and seat history stays in its type.
THEOREM TypeCorrect == Spec => []TypeOK
<1>1. IInv => TypeOK
  BY DEF IInv
<1>2. QED
  BY <1>1, Invariance, PTL

\* Seats are conserved between the two chaincodes under any concurrency.
THEOREM Conservation == Spec => []SeatsConserved
<1>1. IInv => SeatsConserved
  BY DEF IInv
<1>2. QED
  BY <1>1, Invariance, PTL

\* No offer is ever confirmed more often than it has seats.
THEOREM NeverOverbooked == Spec => []NoOverbooking
<1>1. IInv => NoOverbooking
  <2> SUFFICES ASSUME IInv, NEW o \in Offer
               PROVE  granted[o] <= base[o]
    BY DEF NoOverbooking
  <2>1. base[o] \in Nat /\ granted[o] \in Nat
    BY DEF IInv, TypeOK
  <2>2. CASE Posted(o)
    <3>1. offers[o].seats \in Nat
      BY <2>2 DEF IInv, TypeOK, Posted, OfferDoc
    <3>2. offers[o].seats = base[o] - granted[o]
      BY <2>2 DEF IInv, SeatsConserved, SeatsByGeohash
    <3>3. QED
      BY <2>1, <3>1, <3>2
  <2>3. CASE ~Posted(o)
    BY <2>3 DEF IInv, HistoryOfPosted
  <2>4. QED
    BY <2>2, <2>3
<1>2. QED
  BY <1>1, Invariance, PTL

-----------------------------------------------------------------------------
(* The optimistic protocol implements the atomic book.                     *)

\* The committed free seats and statuses, as the book shows them.
FreeSeats == [o \in Offer |-> IF Posted(o) THEN offers[o].seats ELSE Absent]

LastStatus == [b \in Booking |-> IF bookings[b] = Absent THEN Absent ELSE bookings[b].type]

\* A committed createOffers is a posting of the book.
LEMMA CreateOffersPosts ==
    ASSUME IInv, NEW c \in Client, Commit(c), inflight[c].call = "createOffers"
    PROVE  Book!Post
<1> DEFINE p == inflight[c]
<1>1. /\ IsProposal(p) /\ Plan(p, ver, offers)
      /\ offers' = [o \in Offer |-> IF o \in DOMAIN p.offers THEN p.offers[o] ELSE offers[o]]
      /\ bookings' = [b \in Booking |-> IF b \in DOMAIN p.bookings THEN p.bookings[b]
                                        ELSE bookings[b]]
  BY CommitApplies
<1> DEFINE S == DOMAIN p.offers
<1> DEFINE seats == [o \in S |-> p.offers[o].seats]
<1>2. S \in SUBSET Offer /\ seats \in [S -> PostSeats] /\ DOMAIN p.bookings = {}
  BY <1>1 DEF Plan, PlanOfCreateOffers, IsProposal
<1>3. \A o \in S : p.offers[o] # Absent
  BY <1>1, AbsentAssumption DEF IsProposal
<1>4. FreeSeats' = [o \in Offer |-> IF o \in S THEN seats[o] ELSE FreeSeats[o]]
  BY <1>1, <1>2, <1>3 DEF FreeSeats, Posted
<1>5. LastStatus' = LastStatus
  BY <1>1, <1>2 DEF LastStatus, IInv, TypeOK
<1>6. QED
  BY <1>2, <1>4, <1>5 DEF Book!Post, FreeSeats, LastStatus

\* A committed updateOffer is an adjustment of a posted offer.
LEMMA UpdateOfferAdjusts ==
    ASSUME IInv, NEW c \in Client, Commit(c), inflight[c].call = "updateOffer"
    PROVE  \E o \in Offer : Book!Adjust(o)
<1> DEFINE p == inflight[c]
<1>1. /\ IsProposal(p) /\ Plan(p, ver, offers)
      /\ \A k \in DOMAIN p.reads : p.reads[k] = ver[k]
      /\ offers' = [o \in Offer |-> IF o \in DOMAIN p.offers THEN p.offers[o] ELSE offers[o]]
      /\ bookings' = [b \in Booking |-> IF b \in DOMAIN p.bookings THEN p.bookings[b]
                                        ELSE bookings[b]]
  BY CommitApplies
<1>2. PICK o \in Offer : DOMAIN p.offers = {o}
  BY <1>1 DEF Plan, PlanOfUpdateOffer
<1>3. /\ DOMAIN p.bookings = {} /\ p.offers[o].seats \in SetSeats
      /\ Posted(o) /\ p.offers[o] \in OfferDoc /\ p.offers[o] # Absent
  BY <1>1, <1>2, AbsentAssumption DEF Plan, PlanOfUpdateOffer, Rewrites, Posted, IsProposal
<1>4. FreeSeats' = [FreeSeats EXCEPT ![o] = p.offers[o].seats]
  BY <1>1, <1>2, <1>3 DEF FreeSeats, Posted
<1>5. FreeSeats[o] # Absent
  BY <1>3, AbsentAssumption DEF FreeSeats, Posted, IInv, TypeOK, OfferDoc
<1>6. LastStatus' = LastStatus
  BY <1>1, <1>3 DEF LastStatus, IInv, TypeOK
<1>7. QED
  BY <1>3, <1>4, <1>5, <1>6 DEF Book!Adjust, FreeSeats, LastStatus

\* A committed pushTransaction is a confirmation of the book when it takes a
\* seat, and the record of another status otherwise.
LEMMA PushTransactionConfirmsOrRecords ==
    ASSUME IInv, NEW c \in Client, Commit(c), inflight[c].call = "pushTransaction"
    PROVE  \E b \in Booking : Book!Confirm(b) \/ Book!Record(b)
<1> DEFINE p == inflight[c]
<1>1. /\ IsProposal(p) /\ Plan(p, ver, offers)
      /\ \A k \in DOMAIN p.reads : p.reads[k] = ver[k]
      /\ offers' = [o \in Offer |-> IF o \in DOMAIN p.offers THEN p.offers[o] ELSE offers[o]]
      /\ bookings' = [b \in Booking |-> IF b \in DOMAIN p.bookings THEN p.bookings[b]
                                        ELSE bookings[b]]
  BY CommitApplies
<1>2. TypeOK
  BY DEF IInv
<1> HIDE DEF p
<1>3. PICK b \in Booking :
        /\ DOMAIN p.bookings = {b}
        /\ DOMAIN p.offers = {o \in {OfferOf[b]} : TakesSeat(p.bookings[b].type)}
        /\ \A o \in DOMAIN p.offers :
              Rewrites(p, o, ver, offers) /\ TakesLiveSeat(p, o, ver, offers)
  BY <1>1 DEF Plan, PlanOfPushTransaction, p
<1> DEFINE o == OfferOf[b]
<1> DEFINE s == p.bookings[b].type
<1>4. o \in Offer /\ s \in Status /\ p.bookings[b] # Absent
  BY <1>1, <1>3, OfferOfAssumption, AbsentAssumption DEF IsProposal, BookingDoc
<1>5. LastStatus' = [LastStatus EXCEPT ![b] = s]
  BY <1>1, <1>3, <1>4 DEF LastStatus
<1> HIDE DEF o, s
<1>6. CASE s = "CONFIRMATION"
  <2>1. DOMAIN p.offers = {o}
    BY <1>3, <1>6 DEF TakesSeat, o, s
  <2>2. /\ Posted(o) /\ offers[o].seats > 0
        /\ p.offers[o].seats = offers[o].seats - 1
        /\ p.offers[o] # Absent
    <3>1. Rewrites(p, o, ver, offers) /\ TakesLiveSeat(p, o, ver, offers)
      BY <1>3, <2>1
    <3>2. p.offers[o] # Absent
      BY <1>1, <2>1, AbsentAssumption DEF IsProposal
    <3>3. QED
      BY <1>1, <3>1, <3>2 DEF Rewrites, TakesLiveSeat, Posted
  <2>3. offers[o].seats \in 0..5
    BY <1>2, <1>4, <2>2 DEF TypeOK, Posted, OfferDoc
  <2>4. FreeSeats[o] # Absent /\ FreeSeats[o] > 0 /\ FreeSeats[o] = offers[o].seats
    BY <1>4, <2>2, <2>3, AbsentAssumption DEF FreeSeats
  <2>5. FreeSeats' = [FreeSeats EXCEPT ![o] = FreeSeats[o] - 1]
    BY <1>1, <1>4, <2>1, <2>2, <2>4 DEF FreeSeats, Posted
  <2>6. Book!Confirm(b)
    BY <1>5, <1>6, <2>4, <2>5 DEF Book!Confirm, FreeSeats, LastStatus, o
  <2>7. QED
    BY <2>6
<1>7. CASE s # "CONFIRMATION"
  <2>1. DOMAIN p.offers = {}
    BY <1>3, <1>7 DEF TakesSeat, s
  <2>2. FreeSeats' = FreeSeats
    BY <1>1, <1>2, <2>1 DEF FreeSeats, Posted, TypeOK
  <2>3. Book!Record(b)
    BY <1>4, <1>5, <1>7, <2>2 DEF Book!Record, FreeSeats, LastStatus
  <2>4. QED
    BY <2>3
<1>8. QED
  BY <1>6, <1>7

\* A committed createKeys leaves the book alone, and so does every step that
\* commits nothing.
LEMMA CreateKeysStutters ==
    ASSUME IInv, NEW c \in Client, Commit(c), inflight[c].call = "createKeys"
    PROVE  UNCHANGED Book!book
<1> DEFINE p == inflight[c]
<1>1. /\ IsProposal(p) /\ Plan(p, ver, offers)
      /\ offers' = [o \in Offer |-> IF o \in DOMAIN p.offers THEN p.offers[o] ELSE offers[o]]
      /\ bookings' = [b \in Booking |-> IF b \in DOMAIN p.bookings THEN p.bookings[b]
                                        ELSE bookings[b]]
  BY CommitApplies
<1>2. DOMAIN p.offers = {} /\ DOMAIN p.bookings = {}
  BY <1>1 DEF Plan, PlanOfCreateKeys
<1>3. offers' = offers /\ bookings' = bookings
  BY <1>1, <1>2 DEF IInv, TypeOK
<1>4. QED
  BY <1>3 DEF Book!book, Posted

\* Every behaviour of the two chaincodes over Fabric is a behaviour of the book:
\* concurrent calls take effect one at a time and whole, or not at all.
THEOREM ImplementsBook == Spec => BookSpec
<1>1. Init => Book!Init
  BY DEF Init, Book!Init, Posted
<1>2. IInv /\ [Next]_vars => [Book!Next]_Book!book
  <2> SUFFICES ASSUME IInv, [Next]_vars
               PROVE  [Book!Next]_Book!book
    OBVIOUS
  <2>1. ASSUME NEW c \in Client, Commit(c)
        PROVE  [Book!Next]_Book!book
    <3>1. inflight[c].call \in Calls
      BY <2>1, CommitApplies DEF IsProposal
    <3>2. QED
      BY <2>1, <3>1, CreateKeysStutters, CreateOffersPosts, UpdateOfferAdjusts,
         PushTransactionConfirmsOrRecords DEF Calls, Book!Next
  <2>2. ASSUME NEW c \in Client, Submit(c) \/ Discard(c) \/ Lose(c)
        PROVE  UNCHANGED Book!book
    <3>1. offers' = offers /\ bookings' = bookings
      BY <2>2 DEF Submit, CreateKeys, CreateOffers, UpdateOffer, PushTransaction, Endorse,
                  Discard, Lose
    <3>2. QED
      BY <3>1 DEF Book!book, Posted
  <2>3. CASE UNCHANGED vars
    BY <2>3 DEF vars, Book!book, Posted
  <2>4. QED
    BY <2>1, <2>2, <2>3 DEF Next
<1>3. QED
  BY <1>1, <1>2, Invariance, PTL DEF Spec, BookSpec, Book!Spec

\* What is encrypted into the ledger is under the current key of its operator.
THEOREM KeysAreCurrent == Spec => CurrentKeyOnWrite
<1> DEFINE Step ==
      /\ \A b \in Booking : bookings'[b] # bookings[b] =>
            bookings'[b].key = ver[bookings'[b].by]
      /\ \A o \in Offer : offers'[o] # offers[o] =>
            \/ offers'[o].key = ver[offers'[o].by]
            \/ Posted(o) /\ offers'[o] = [offers[o] EXCEPT !.seats = offers'[o].seats]
<1>1. IInv /\ [Next]_vars => [Step]_vars
  <2> SUFFICES ASSUME IInv, Next
               PROVE  Step
    OBVIOUS
  <2>1. ASSUME NEW c \in Client, Commit(c)
        PROVE  Step
    <3> DEFINE p == inflight[c]
    <3>1. /\ IsProposal(p) /\ Plan(p, ver, offers)
          /\ \A k \in DOMAIN p.reads : p.reads[k] = ver[k]
          /\ offers' = [o \in Offer |-> IF o \in DOMAIN p.offers THEN p.offers[o]
                                        ELSE offers[o]]
          /\ bookings' = [b \in Booking |-> IF b \in DOMAIN p.bookings THEN p.bookings[b]
                                            ELSE bookings[b]]
      BY <2>1, CommitApplies
    <3> HIDE DEF p
    <3>2. ASSUME NEW b \in Booking, bookings'[b] # bookings[b]
          PROVE  bookings'[b].key = ver[bookings'[b].by]
      <4>1. b \in DOMAIN p.bookings /\ bookings'[b] = p.bookings[b]
        BY <3>1, <3>2
      <4>2. UnderReadKey(p, p.bookings[b])
        BY <3>1, <4>1 DEF Plan, IsProposal, Calls, PlanOfCreateKeys, PlanOfCreateOffers,
                          PlanOfUpdateOffer, PlanOfPushTransaction
      <4>3. QED
        BY <3>1, <4>1, <4>2 DEF UnderReadKey
    <3>3. ASSUME NEW o \in Offer, offers'[o] # offers[o]
          PROVE  \/ offers'[o].key = ver[offers'[o].by]
                 \/ Posted(o) /\ offers'[o] = [offers[o] EXCEPT !.seats = offers'[o].seats]
      <4>1. o \in DOMAIN p.offers /\ offers'[o] = p.offers[o]
        BY <3>1, <3>3
      <4>2. CASE p.call = "createOffers"
        BY <3>1, <4>1, <4>2 DEF Plan, PlanOfCreateOffers, UnderReadKey
      <4>3. CASE p.call \in {"updateOffer", "pushTransaction"}
        <5>1. Rewrites(p, o, ver, offers)
          BY <3>1, <4>1, <4>3 DEF Plan, PlanOfUpdateOffer, PlanOfPushTransaction
        <5>2. QED
          BY <3>1, <4>1, <5>1 DEF Rewrites, Posted
      <4>4. QED
        BY <3>1, <4>1, <4>2, <4>3 DEF Plan, PlanOfCreateKeys, IsProposal, Calls
    <3>4. QED
      BY <3>2, <3>3
  <2>2. ASSUME NEW c \in Client, Submit(c) \/ Discard(c) \/ Lose(c)
        PROVE  Step
    BY <2>2 DEF Submit, CreateKeys, CreateOffers, UpdateOffer, PushTransaction, Endorse,
                Discard, Lose
  <2>3. QED
    BY <2>1, <2>2 DEF Next
<1>2. QED
  BY <1>1, Invariance, PTL DEF Spec, CurrentKeyOnWrite
=============================================================================
