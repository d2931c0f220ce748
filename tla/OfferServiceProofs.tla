------------------------- MODULE OfferServiceProofs -------------------------
(***************************************************************************)
(* Proofs about OfferService: its handlers add nothing to what the ledger  *)
(* may do, so that what is proved of SeatLedger holds behind them, and     *)
(* they keep every offer with the operator it names.                       *)
(***************************************************************************)
EXTENDS OfferService, SeatLedgerProofs

LEMMA RequestIsLedgerStep ==
    ASSUME NEW c \in Client, NEW op \in Operator, Request(c, op)
    PROVE  [Next]_vars
<1>1. ASSUME NEW list \in Accepted, PostOffers(c, op, list)
      PROVE  [Next]_vars
  <2>1. CASE UNCHANGED vars
    BY <2>1
  <2>2. ASSUME NEW own \in Batches, CreateOffers(c, op, own)
        PROVE  [Next]_vars
    BY <2>2 DEF Next, Submit
  <2>3. QED
    BY <1>1, <2>1, <2>2 DEF PostOffers
<1>2. ASSUME NEW o \in Offer, NEW n \in SetSeats, PatchSeats(c, op, o, n)
      PROVE  [Next]_vars
  <2>1. CASE UNCHANGED vars
    BY <2>1
  <2>2. CASE UpdateOffer(c, op, o, n)
    BY <2>2 DEF Next, Submit
  <2>3. QED
    BY <1>2, <2>1, <2>2 DEF PatchSeats
<1>3. ASSUME NEW S \in Area, Search(c, op, S)
      PROVE  [Next]_vars
  BY <1>3 DEF Search
<1>4. ASSUME NEW o \in Offer, Fetch(c, op, o)
      PROVE  [Next]_vars
  BY <1>4 DEF Fetch
<1>5. QED
  BY <1>1, <1>2, <1>3, <1>4 DEF Request

LEMMA OfferStepIsLedgerStep == [OfferNext]_offerVars => [Next]_vars
<1> SUFFICES ASSUME [OfferNext]_offerVars
             PROVE  [Next]_vars
  OBVIOUS
<1>1. CASE UNCHANGED offerVars
  BY <1>1 DEF offerVars
<1>2. ASSUME NEW c \in Client, NEW op \in Operator, Request(c, op)
      PROVE  [Next]_vars
  BY <1>2, RequestIsLedgerStep
<1>3. ASSUME NEW c \in Client, OtherCall(c)
      PROVE  [Next]_vars
  BY <1>3 DEF OtherCall, Next, Submit
<1>4. ASSUME NEW c \in Client, Lands(c) \/ Drops(c)
      PROVE  [Next]_vars
  BY <1>4 DEF Lands, Drops, Next
<1>5. ASSUME NEW c \in Client, TimeOut(c) \/ Answer(c)
      PROVE  [Next]_vars
  BY <1>5 DEF TimeOut, Answer
<1>6. QED
  BY <1>1, <1>2, <1>3, <1>4, <1>5 DEF OfferNext

\* Behind the handlers of the API the ledger does what SeatLedger lets it do.
THEOREM ImplementsLedger == OfferSpec => Spec
<1>1. OfferInit => Init
  BY DEF OfferInit
<1>2. QED
  BY <1>1, OfferStepIsLedgerStep, PTL DEF OfferSpec, Spec

\* So the offer handlers run over an atomic book of seats and bookings.
THEOREM BookBehindHandlers == OfferSpec => BookSpec
BY ImplementsLedger, ImplementsBook, PTL

\* What the handlers have encrypted is under the key its operator has when it is
\* committed, lists included (proves CurrentKeyOnWrite behind the handlers).
THEOREM KeysBehindHandlers == OfferSpec => CurrentKeyOnWrite
BY ImplementsLedger, KeysAreCurrent, PTL

-----------------------------------------------------------------------------
\* What a slot has and says does not depend on the others, as offers stay.
LEMMA SlotStays ==
    ASSUME OwnersInv, NEW d \in Client, inflight'[d] = inflight[d], handlers'[d] = handlers[d],
           \A o \in Offer : Posted(o) => Posted(o)'
    PROVE  CallIsOwn(d)' /\ HandlerIsTrue(d)'
BY DEF OwnersInv, CallIsOwn, HandlerIsTrue, InFlight, At, Handler

\* The part of a list that is left is the operator's own.
LEMMA PartIsOwn ==
    ASSUME NEW op, NEW list, NEW own \in Parts(op, list), NEW o \in OffersIn(own)
    PROVE  OperatorOf[o] = op
<1> DEFINE n == Cardinality(OwnOf(op, list))
<1>1. PICK f \in [1..n -> OwnOf(op, list)] : own = [i \in 1..n |-> list[f[i]]]
  BY DEF Parts
<1> HIDE DEF n
<1>2. PICK i \in 1..n : o = list[f[i]].offer
  BY <1>1 DEF OffersIn
<1>3. QED
  BY <1>1, <1>2 DEF OwnOf

LEMMA PostKeepsOwners ==
    ASSUME IInv, OwnersInv, NEW c \in Client, NEW op \in Operator, NEW list \in Accepted,
           PostOffers(c, op, list)
    PROVE  OwnersInv'
<1> USE DEF At
<1>0. DOMAIN inflight = Client /\ DOMAIN handlers = Client
  BY DEF IInv, TypeOK, OwnersInv
<1>1. CASE UNCHANGED vars /\ (Handles(c, "posted", op, {}) \/ Refuses(c))
  <2>1. \A d \in Client \ {c} : handlers'[d] = handlers[d]
    BY <1>0, <1>1 DEF Handles, Refuses
  <2>2. \A d \in Client \ {c} : CallIsOwn(d)' /\ HandlerIsTrue(d)'
    BY <1>1, <2>1, SlotStays DEF vars, Posted
  <2>3. CallIsOwn(c)'
    BY <1>1 DEF vars, OwnersInv, CallIsOwn, InFlight
  <2>4. HandlerIsTrue(c)'
    BY <1>0, <1>1 DEF HandlerIsTrue, Handles, Refuses
  <2>5. handlers'[c] # Idle => handlers'[c] \in Handler
    BY <1>0, <1>1 DEF Handles, Refuses, Handler
  <2>6. QED
    BY <1>0, <1>1, <2>1, <2>2, <2>3, <2>4, <2>5 DEF OwnersInv, Handles, Refuses, vars, Posted
<1>2. ASSUME NEW own \in Parts(op, list), own \in Batches, CreateOffers(c, op, own),
             Handles(c, "await", op, OffersIn(own))
      PROVE  OwnersInv'
  <2>1. OffersIn(own) \subseteq Offer
    <3>1. PICK m \in 1..MaxBatch : own \in [1..m -> [offer : Offer, seats : PostSeats]]
      BY <1>2 DEF Batches
    <3>2. \A i \in DOMAIN own : own[i].offer \in Offer
      BY <3>1
    <3>3. QED
      BY <3>2 DEF OffersIn
  <2>2. PICK p : /\ Endorse(c, p) /\ p.call = "createOffers" /\ p.by = op
                 /\ DOMAIN p.offers = OffersIn(own)
                 /\ \A o \in OffersIn(own) : p.offers[o].by = op
    <3> DEFINE Sent(last) == [call |-> "createOffers", by |-> op,
                              reads |-> ReadSet(ReadByCreate(op)), keys |-> {},
                              offers |-> [o \in OffersIn(own) |->
                                           [seats |-> last[o], posted |-> last[o],
                                            by |-> op, key |-> ver[op]]],
                              bookings |-> Nothing]
    <3>1. PICK last : Endorse(c, Sent(last))
      BY <1>2 DEF CreateOffers
    <3>2. /\ Sent(last).call = "createOffers" /\ Sent(last).by = op
          /\ DOMAIN Sent(last).offers = OffersIn(own)
          /\ \A o \in OffersIn(own) : Sent(last).offers[o].by = op
      OBVIOUS
    <3>3. QED
      BY <3>1, <3>2
  <2>3. /\ inflight'[c] = p /\ UNCHANGED offers
        /\ \A d \in Client \ {c} : inflight'[d] = inflight[d]
    BY <1>0, <2>2 DEF Endorse
  <2>4. /\ handlers'[c] = [at |-> "await", by |-> op, offers |-> OffersIn(own)]
        /\ \A d \in Client \ {c} : handlers'[d] = handlers[d]
        /\ DOMAIN handlers' = Client
    BY <1>0, <1>2 DEF Handles
  <2>5. \A d \in Client \ {c} : CallIsOwn(d)' /\ HandlerIsTrue(d)'
    BY <2>3, <2>4, SlotStays DEF Posted
  <2>6. \A o \in OffersIn(own) : OperatorOf[o] = op
    BY <1>2, PartIsOwn
  <2>7. CallIsOwn(c)'
    BY <2>2, <2>3, <2>6 DEF CallIsOwn
  <2>8. HandlerIsTrue(c)'
    BY <2>2, <2>3, <2>4, <2>6 DEF HandlerIsTrue
  <2>9. handlers'[c] \in Handler
    BY <2>1, <2>4 DEF Handler
  <2>10. QED
    BY <2>3, <2>4, <2>5, <2>7, <2>8, <2>9 DEF OwnersInv, Posted
<1>3. QED
  BY <1>1, <1>2 DEF PostOffers

\* A handler moves without the ledger: only what it says can change.
LEMMA AnswerKeepsOwners ==
    ASSUME IInv, OwnersInv, NEW c \in Client, UNCHANGED vars,
           DOMAIN handlers' = Client,
           \A d \in Client \ {c} : handlers'[d] = handlers[d],
           handlers'[c] # Idle => handlers'[c] \in Handler,
           HandlerIsTrue(c)'
    PROVE  OwnersInv'
<1>1. \A d \in Client \ {c} : CallIsOwn(d)' /\ HandlerIsTrue(d)'
  BY SlotStays DEF vars, Posted
<1>2. CallIsOwn(c)'
  BY DEF vars, OwnersInv, CallIsOwn, InFlight
<1>3. QED
  BY <1>1, <1>2 DEF OwnersInv, vars, Posted

\* A call is sent that writes offers under the operator they name.
LEMMA SendKeepsOwners ==
    ASSUME IInv, OwnersInv, NEW c \in Client, NEW p, Endorse(c, p),
           \A o \in DOMAIN p.offers :
              /\ p.offers[o].by = OperatorOf[o]
              /\ p.call # "pushTransaction" => p.by = OperatorOf[o],
           DOMAIN handlers' = Client,
           \A d \in Client \ {c} : handlers'[d] = handlers[d],
           handlers'[c] # Idle => handlers'[c] \in Handler,
           HandlerIsTrue(c)'
    PROVE  OwnersInv'
<1>1. /\ inflight'[c] = p /\ UNCHANGED offers
      /\ \A d \in Client \ {c} : inflight'[d] = inflight[d]
  BY DEF Endorse, IInv, TypeOK
<1>2. \A d \in Client \ {c} : CallIsOwn(d)' /\ HandlerIsTrue(d)'
  BY <1>1, SlotStays DEF Posted
<1>3. CallIsOwn(c)'
  BY <1>1 DEF CallIsOwn
<1>4. QED
  BY <1>1, <1>2, <1>3 DEF OwnersInv, Posted

\* An offer whose seats are changed goes on naming its operator.
LEMMA ReseatKeepsOwner ==
    ASSUME IInv, OwnersInv, NEW o \in Offer, Posted(o), NEW n
    PROVE  [offers[o] EXCEPT !.seats = n].by = OperatorOf[o]
<1>1. offers[o] \in OfferDoc /\ offers[o].by = OperatorOf[o]
  BY DEF IInv, TypeOK, Posted, OwnersInv
<1>2. QED
  BY <1>1 DEF OfferDoc

LEMMA PatchKeepsOwners ==
    ASSUME IInv, OwnersInv, NEW c \in Client, NEW op \in Operator, NEW o \in Offer,
           NEW n \in SetSeats, PatchSeats(c, op, o, n)
    PROVE  OwnersInv'
<1>0. DOMAIN handlers = Client
  BY DEF OwnersInv
<1>1. CASE Refuses(c) /\ UNCHANGED vars
  <2>1. handlers'[c] = Idle /\ DOMAIN handlers' = Client
        /\ \A d \in Client \ {c} : handlers'[d] = handlers[d]
    BY <1>0, <1>1 DEF Refuses
  <2>2. HandlerIsTrue(c)'
    BY <2>1 DEF HandlerIsTrue
  <2>3. QED
    BY <1>1, <2>1, <2>2, AnswerKeepsOwners
<1>2. CASE OperatorOf[o] = op /\ UpdateOffer(c, op, o, n) /\ Handles(c, "await", op, {o})
  <2> DEFINE p == [call |-> "updateOffer", by |-> op, reads |-> ReadSet({o}),
                   keys |-> {}, bookings |-> Nothing,
                   offers |-> [x \in {o} |-> [offers[o] EXCEPT !.seats = n]]]
  <2>1. Endorse(c, p) /\ Posted(o)
    BY <1>2 DEF UpdateOffer
  <2>2. p.call = "updateOffer" /\ p.by = op /\ DOMAIN p.offers = {o}
        /\ p.offers[o] = [offers[o] EXCEPT !.seats = n]
    OBVIOUS
  <2> HIDE DEF p
  <2>3. p.offers[o].by = OperatorOf[o]
    BY <2>1, <2>2, ReseatKeepsOwner
  <2>4. /\ handlers'[c] = [at |-> "await", by |-> op, offers |-> {o}]
        /\ DOMAIN handlers' = Client
        /\ \A d \in Client \ {c} : handlers'[d] = handlers[d]
    BY <1>0, <1>2 DEF Handles
  <2>5. inflight'[c] = p
    BY <2>1 DEF Endorse, IInv, TypeOK
  <2>6. HandlerIsTrue(c)'
    BY <1>2, <2>2, <2>4, <2>5 DEF HandlerIsTrue, At
  <2>7. /\ \A x \in DOMAIN p.offers :
              /\ p.offers[x].by = OperatorOf[x]
              /\ p.call # "pushTransaction" => p.by = OperatorOf[x]
        /\ handlers'[c] \in Handler
    <3>1. handlers'[c] \in Handler
      BY <2>4 DEF Handler
    <3>2. QED
      BY <1>2, <2>2, <2>3, <3>1
  <2>8. QED
    BY <2>1, <2>4, <2>6, <2>7, SendKeepsOwners
<1>3. QED
  BY <1>1, <1>2 DEF PatchSeats

LEMMA SearchKeepsOwners ==
    ASSUME IInv, OwnersInv, NEW c \in Client, NEW op \in Operator, NEW S \in Area,
           Search(c, op, S)
    PROVE  OwnersInv'
<1>0. DOMAIN handlers = Client /\ S \subseteq Offer
  BY AreaAssumption DEF OwnersInv
<1>1. DOMAIN handlers' = Client /\ \A d \in Client \ {c} : handlers'[d] = handlers[d]
  BY <1>0 DEF Search, Handles, Refuses
<1>2. CASE Refuses(c)
  <2>1. handlers'[c] = Idle
    BY <1>0, <1>2 DEF Refuses
  <2>2. HandlerIsTrue(c)'
    BY <2>1 DEF HandlerIsTrue
  <2>3. QED
    BY <1>1, <2>1, <2>2, AnswerKeepsOwners DEF Search
<1>3. ASSUME NEW seen \in Returned(S),
             Handles(c, "found", op, {o \in seen : OperatorOf[o] # op})
      PROVE  OwnersInv'
  <2> DEFINE shown == {o \in seen : OperatorOf[o] # op}
  <2>1. handlers'[c] = [at |-> "found", by |-> op, offers |-> shown]
    BY <1>0, <1>3 DEF Handles
  <2>2. \A o \in shown : o \in Offer /\ Posted(o) /\ OperatorOf[o] # op
    BY <1>0, <1>3 DEF Returned
  <2> HIDE DEF shown
  <2>3. UNCHANGED vars
    BY DEF Search
  <2>4. HandlerIsTrue(c)'
    BY <2>1, <2>2, <2>3 DEF HandlerIsTrue, At, vars, Posted
  <2>5. handlers'[c] \in Handler
    BY <2>1, <2>2 DEF Handler
  <2>6. QED
    BY <1>1, <2>3, <2>4, <2>5, AnswerKeepsOwners
<1>4. QED
  BY <1>2, <1>3 DEF Search

LEMMA FetchKeepsOwners ==
    ASSUME IInv, OwnersInv, NEW c \in Client, NEW op \in Operator, NEW o \in Offer,
           Fetch(c, op, o)
    PROVE  OwnersInv'
<1>0. DOMAIN handlers = Client /\ UNCHANGED vars
  BY DEF OwnersInv, Fetch
<1>1. DOMAIN handlers' = Client /\ \A d \in Client \ {c} : handlers'[d] = handlers[d]
  BY <1>0 DEF Fetch, Handles, Refuses
<1>2. CASE Refuses(c)
  <2>1. handlers'[c] = Idle
    BY <1>0, <1>2 DEF Refuses
  <2>2. HandlerIsTrue(c)'
    BY <2>1 DEF HandlerIsTrue
  <2>3. QED
    BY <1>0, <1>1, <2>1, <2>2, AnswerKeepsOwners
<1>3. CASE Posted(o) /\ Handles(c, "read", op, {o})
  <2>1. handlers'[c] = [at |-> "read", by |-> op, offers |-> {o}]
    BY <1>0, <1>3 DEF Handles
  <2>2. HandlerIsTrue(c)'
    BY <1>0, <1>3, <2>1 DEF HandlerIsTrue, At, vars, Posted
  <2>3. handlers'[c] \in Handler
    BY <2>1 DEF Handler
  <2>4. QED
    BY <1>0, <1>1, <2>2, <2>3, AnswerKeepsOwners
<1>4. QED
  BY <1>2, <1>3 DEF Fetch

LEMMA OtherCallKeepsOwners ==
    ASSUME IInv, OwnersInv, NEW c \in Client, OtherCall(c)
    PROVE  OwnersInv'
<1>0. UNCHANGED handlers /\ DOMAIN handlers = Client
  BY DEF OtherCall, OwnersInv
<1>1. HandlerIsTrue(c)' /\ (handlers[c] # Idle => handlers[c] \in Handler)
  <2>1. UNCHANGED offers
    BY DEF OtherCall, CreateKeys, PushTransaction, Endorse
  <2>2. HandlerIsTrue(c) /\ ~At(c, "await")
        /\ (handlers[c] # Idle => handlers[c] \in Handler)
    BY DEF OwnersInv, OtherCall, Free
  <2>3. QED
    BY <1>0, <2>1, <2>2 DEF HandlerIsTrue, At, Posted
<1>2. ASSUME NEW op \in Operator, CreateKeys(c, op)
      PROVE  OwnersInv'
  <2> DEFINE p == [call |-> "createKeys", by |-> op, reads |-> Nothing, keys |-> {op},
                   offers |-> Nothing, bookings |-> Nothing]
  <2>1. Endorse(c, p) /\ DOMAIN p.offers = {}
    BY <1>2 DEF CreateKeys, Nothing
  <2> HIDE DEF p
  <2>2. QED
    BY <1>0, <1>1, <2>1, SendKeepsOwners
<1>3. ASSUME NEW op \in Operator, NEW b \in Booking, NEW s \in Status,
             PushTransaction(c, op, b, s)
      PROVE  OwnersInv'
  <2> DEFINE o == OfferOf[b]
             p == [call |-> "pushTransaction", by |-> op,
                   reads |-> ReadSet(ReadByPush(op, b, s)), keys |-> {},
                   offers |-> IF TakesSeat(s) THEN SeatTaken(o) ELSE Nothing,
                   bookings |-> [x \in {b} |-> [type |-> s, by |-> op, key |-> ver[op]]]]
  <2>1. Endorse(c, p) /\ (TakesSeat(s) => HasSeat(o)) /\ o \in Offer
    BY <1>3, OfferOfAssumption DEF PushTransaction, OffersAgree
  <2>2. /\ p.call = "pushTransaction"
        /\ p.offers = IF TakesSeat(s) THEN SeatTaken(o) ELSE Nothing
    OBVIOUS
  <2> HIDE DEF p
  <2>3. ASSUME NEW x \in DOMAIN p.offers
        PROVE  p.offers[x].by = OperatorOf[x]
    <3>1. TakesSeat(s) /\ x = o /\ p.offers[x] = [offers[o] EXCEPT !.seats = offers[o].seats - 1]
      BY <2>2, <2>3 DEF SeatTaken, Nothing
    <3>2. QED
      BY <2>1, <3>1, ReseatKeepsOwner DEF HasSeat
  <2>4. QED
    BY <1>0, <1>1, <2>1, <2>2, <2>3, SendKeepsOwners
<1>4. QED
  BY <1>2, <1>3 DEF OtherCall

\* A commit adds to the offers, and changes no other record than it names.
LEMMA CommitOnOffers ==
    ASSUME IInv, OwnersInv, NEW c \in Client, Commit(c)
    PROVE  /\ \A o \in Offer : Posted(o) => Posted(o)'
           /\ \A o \in DOMAIN inflight[c].offers : o \in Offer /\ Posted(o)'
           /\ \A o \in Offer : Posted(o)' => offers'[o].by = OperatorOf[o]
           /\ inflight'[c] = Idle
           /\ \A d \in Client \ {c} : inflight'[d] = inflight[d]
<1> DEFINE p == inflight[c]
<1>1. /\ IsProposal(p) /\ InFlight(c) /\ CallIsOwn(c)
      /\ offers' = [o \in Offer |-> IF o \in DOMAIN p.offers THEN p.offers[o] ELSE offers[o]]
  BY CommitApplies DEF Commit, OwnersInv
<1>2. \A o \in DOMAIN p.offers : o \in Offer /\ p.offers[o] # Absent
                                 /\ p.offers[o].by = OperatorOf[o]
  BY <1>1, AbsentAssumption DEF IsProposal, CallIsOwn
<1>3. inflight' = [inflight EXCEPT ![c] = Idle] /\ DOMAIN inflight = Client
  BY DEF Commit, IInv, TypeOK
<1> HIDE DEF p
<1>4. \A o \in Offer : Posted(o) => Posted(o)'
  BY <1>1, <1>2 DEF Posted
<1>5. \A o \in DOMAIN p.offers : Posted(o)'
  BY <1>1, <1>2 DEF Posted
<1>6. ASSUME NEW o \in Offer, Posted(o)'
      PROVE  offers'[o].by = OperatorOf[o]
  BY <1>1, <1>2, <1>6 DEF Posted, OwnersInv
<1>7. QED
  BY <1>2, <1>3, <1>4, <1>5, <1>6 DEF p

LEMMA LandsKeepsOwners ==
    ASSUME IInv, OwnersInv, NEW c \in Client, Lands(c)
    PROVE  OwnersInv'
<1>1. Commit(c) /\ InFlight(c) /\ HandlerIsTrue(c) /\ DOMAIN handlers = Client
  BY DEF Lands, Commit, OwnersInv
<1>2. /\ DOMAIN handlers' = Client
      /\ \A d \in Client \ {c} : handlers'[d] = handlers[d]
      /\ handlers'[c] = handlers[c] \/ At(c, "await")
      /\ At(c, "await") => handlers' = [handlers EXCEPT ![c].at = "valid"]
  BY <1>1 DEF Lands
<1>3. \A d \in Client \ {c} : CallIsOwn(d)' /\ HandlerIsTrue(d)'
  BY <1>1, <1>2, CommitOnOffers, SlotStays
<1>4. CallIsOwn(c)'
  BY <1>1, CommitOnOffers DEF CallIsOwn, InFlight
<1>5. handlers'[c] # Idle => handlers'[c] \in Handler
  BY <1>1, <1>2 DEF Handler, OwnersInv, At
<1>6. HandlerIsTrue(c)'
  <2>1. CASE At(c, "await")
    <3>1. /\ handlers'[c].at = "valid" /\ handlers'[c].by = handlers[c].by
          /\ handlers'[c].offers = handlers[c].offers
      BY <1>1, <1>2, <2>1 DEF Handler, OwnersInv, At
    <3>2. \A o \in handlers[c].offers : Posted(o)' /\ OperatorOf[o] = handlers[c].by
      BY <1>1, <2>1, CommitOnOffers DEF HandlerIsTrue, At
    <3>3. QED
      BY <3>1, <3>2 DEF HandlerIsTrue, At
  <2>2. CASE ~At(c, "await")
    <3>1. handlers'[c] = handlers[c]
      BY <1>2, <2>2
    <3>2. handlers[c] # Idle => handlers[c].offers \subseteq Offer
      BY DEF OwnersInv, Handler
    <3>3. \A o \in Offer : Posted(o) => Posted(o)'
      BY <1>1, CommitOnOffers
    <3>4. CASE At(c, "found")
      <4>1. \A o \in handlers[c].offers : Posted(o)' /\ OperatorOf[o] # handlers[c].by
        BY <1>1, <3>2, <3>3, <3>4 DEF HandlerIsTrue, At
      <4>2. QED
        BY <3>1, <3>4, <4>1 DEF HandlerIsTrue, At
    <3>5. CASE ~At(c, "found")
      BY <1>1, <2>2, <3>1, <3>2, <3>3, <3>5 DEF HandlerIsTrue, At
    <3>6. QED
      BY <3>4, <3>5
  <2>3. QED
    BY <2>1, <2>2
<1>7. QED
  BY <1>1, <1>2, <1>3, <1>4, <1>5, <1>6, CommitOnOffers DEF OwnersInv

\* A call is over and nothing of it is applied.
LEMMA DropKeepsCalls ==
    ASSUME IInv, OwnersInv, NEW c \in Client, Discard(c) \/ Lose(c)
    PROVE  /\ UNCHANGED offers /\ InFlight(c) /\ inflight'[c] = Idle
           /\ \A d \in Client \ {c} : inflight'[d] = inflight[d]
BY DEF Discard, Lose, IInv, TypeOK

LEMMA DropsKeepsOwners ==
    ASSUME IInv, OwnersInv, NEW c \in Client, Drops(c)
    PROVE  OwnersInv'
<1>1. /\ UNCHANGED offers /\ InFlight(c) /\ inflight'[c] = Idle
      /\ \A d \in Client \ {c} : inflight'[d] = inflight[d]
  BY DropKeepsCalls DEF Drops
<1>2. /\ DOMAIN handlers' = Client
      /\ \A d \in Client \ {c} : handlers'[d] = handlers[d]
      /\ \/ handlers'[c] = Idle
         \/ ~At(c, "await") /\ handlers'[c] = handlers[c]
  <2>1. DOMAIN handlers = Client
    BY DEF OwnersInv
  <2>2. CASE At(c, "await")
    BY <2>1, <2>2 DEF Drops, Refuses
  <2>3. CASE ~At(c, "await")
    BY <2>1, <2>3 DEF Drops
  <2>4. QED
    BY <2>2, <2>3
<1>3. \A d \in Client \ {c} : CallIsOwn(d)' /\ HandlerIsTrue(d)'
  BY <1>1, <1>2, SlotStays DEF Posted
<1>4. CallIsOwn(c)'
  BY <1>1 DEF CallIsOwn, InFlight
<1>5. HandlerIsTrue(c)'
  <2>1. HandlerIsTrue(c)
    BY DEF OwnersInv
  <2>2. QED
    BY <1>1, <1>2, <2>1 DEF HandlerIsTrue, At, Posted
<1>6. QED
  BY <1>1, <1>2, <1>3, <1>4, <1>5 DEF OwnersInv, Posted

LEMMA HandlerMovesKeepsOwners ==
    ASSUME IInv, OwnersInv, NEW c \in Client, TimeOut(c) \/ Answer(c)
    PROVE  OwnersInv'
<1>1. CASE TimeOut(c)
  <2>1. /\ UNCHANGED vars /\ DOMAIN handlers' = Client /\ handlers'[c] = Idle
        /\ \A d \in Client \ {c} : handlers'[d] = handlers[d]
    BY <1>1 DEF TimeOut, Refuses, OwnersInv
  <2>2. HandlerIsTrue(c)'
    BY <2>1 DEF HandlerIsTrue
  <2>3. QED
    BY <2>1, <2>2, AnswerKeepsOwners
<1>2. CASE Answer(c)
  <2>1. /\ UNCHANGED vars /\ At(c, "valid") /\ DOMAIN handlers' = Client
        /\ \A d \in Client \ {c} : handlers'[d] = handlers[d]
        /\ handlers'[c] = [handlers[c] EXCEPT !.at = "posted"]
        /\ handlers[c] \in Handler /\ HandlerIsTrue(c)
    BY <1>2 DEF Answer, Heard, At, OwnersInv
  <2>2. /\ handlers'[c] \in Handler /\ handlers'[c].at = "posted"
        /\ handlers'[c].by = handlers[c].by /\ handlers'[c].offers = handlers[c].offers
    BY <2>1 DEF Handler
  <2>3. \A o \in handlers[c].offers : Posted(o)' /\ OperatorOf[o] = handlers[c].by
    BY <2>1 DEF HandlerIsTrue, At, Posted, vars
  <2>4. HandlerIsTrue(c)'
    BY <2>2, <2>3 DEF HandlerIsTrue, At
  <2>5. QED
    BY <2>1, <2>2, <2>4, AnswerKeepsOwners
<1>3. QED
  BY <1>1, <1>2

LEMMA StepKeepsOwners ==
    ASSUME IInv, OwnersInv, [OfferNext]_offerVars
    PROVE  OwnersInv'
<1>1. CASE UNCHANGED offerVars
  BY <1>1 DEF offerVars, vars, OwnersInv, CallIsOwn, HandlerIsTrue, InFlight, At, Posted
<1>2. ASSUME NEW c \in Client, NEW op \in Operator, Request(c, op)
      PROVE  OwnersInv'
  BY <1>2, PostKeepsOwners, PatchKeepsOwners, SearchKeepsOwners, FetchKeepsOwners DEF Request
<1>3. ASSUME NEW c \in Client, OtherCall(c) \/ Lands(c) \/ Drops(c) \/ TimeOut(c) \/ Answer(c)
      PROVE  OwnersInv'
  BY <1>3, OtherCallKeepsOwners, LandsKeepsOwners, DropsKeepsOwners, HandlerMovesKeepsOwners
<1>4. QED
  BY <1>1, <1>2, <1>3 DEF OfferNext

-----------------------------------------------------------------------------
\* Every offer on the ledger is its operator's, and so is every call that writes one.
THEOREM OwnersKept == OfferSpec => []OwnersInv
<1>1. OfferInit => OwnersInv
  BY DEF OfferInit, Init, OwnersInv, CallIsOwn, HandlerIsTrue, InFlight, Posted
<1>2. QED
  BY <1>1, StepKeepsOwners, ImplementsLedger, Invariance, PTL DEF OfferSpec

\* A success of createOffer or updateAvailableSeats and the result of a search are true
\* of the ledger, then and ever after.
THEOREM AnswersTrue == OfferSpec => []AnswersHold
<1>1. OwnersInv => AnswersHold
  BY DEF OwnersInv, AnswersHold, HandlerIsTrue, At
<1>2. QED
  BY <1>1, OwnersKept, PTL

\* The ledger takes an offer, and new seats for it, from the operator it names only.
THEOREM OffersStayOwn == OfferSpec => OffersByTheirOperator
<1> DEFINE Step ==
      \A o \in Offer : offers'[o] # offers[o] =>
        /\ offers'[o].by = OperatorOf[o]
        /\ \A c \in Client :
             InFlight(c) /\ inflight'[c] = Idle /\ inflight[c].call # "pushTransaction" =>
                inflight[c].by = OperatorOf[o]
<1>1. IInv /\ OwnersInv /\ [OfferNext]_offerVars => [Step]_offerVars
  <2> SUFFICES ASSUME IInv, OwnersInv, OfferNext, NEW o \in Offer, offers'[o] # offers[o]
               PROVE  /\ offers'[o].by = OperatorOf[o]
                      /\ \A c \in Client :
                           InFlight(c) /\ inflight'[c] = Idle
                             /\ inflight[c].call # "pushTransaction" =>
                              inflight[c].by = OperatorOf[o]
    OBVIOUS
  <2>1. PICK c \in Client : Lands(c)
    <3>1. ASSUME NEW c \in Client, NEW op \in Operator, Request(c, op)
          PROVE  UNCHANGED offers
      BY <3>1 DEF Request, PostOffers, PatchSeats, Search, Fetch, CreateOffers, UpdateOffer, Endorse,
                  vars
    <3>2. ASSUME NEW c \in Client, OtherCall(c) \/ Drops(c) \/ TimeOut(c) \/ Answer(c)
          PROVE  UNCHANGED offers
      BY <3>2 DEF OtherCall, CreateKeys, PushTransaction, Endorse, Drops, Discard, Lose,
                  TimeOut, Answer, vars
    <3>3. QED
      BY <3>1, <3>2 DEF OfferNext
  <2>2. Commit(c) /\ CallIsOwn(c) /\ InFlight(c)
    BY <2>1 DEF Lands, OwnersInv, Commit
  <2>3. o \in DOMAIN inflight[c].offers /\ offers'[o] = inflight[c].offers[o]
    BY <2>2, CommitApplies
  <2>4. \A d \in Client \ {c} : inflight'[d] = inflight[d]
    BY <2>2, CommitOnOffers
  <2>5. QED
    BY <2>2, <2>3, <2>4 DEF CallIsOwn, InFlight
<1>2. QED
  BY <1>1, OwnersKept, ImplementsLedger, Invariance, PTL DEF OfferSpec, OffersByTheirOperator
=============================================================================
