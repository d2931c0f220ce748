---------------------------- MODULE OfferService ----------------------------
(***************************************************************************)
(* The offer handlers of the API over the seat ledger: POST /offer with a  *)
(* list of offers, PATCH /offer/:idOperator/:idOffer, the search GET       *)
(* /offer, GET /offer/:idOperator/:idOffer, and what each of them answers. *)
(* Which offers of others a reader gets is up to the proxy (SharedAccess): *)
(* here it may return any of them or fail.                                 *)
(*                                                                         *)
(* An offer names its operator, and that name is part of its record's key. *)
(* The chaincode does not compare it with the operator that calls: the     *)
(* handlers do.  Each operator runs a service for its own users, which     *)
(* calls with its certificate.  Key changes and bookings go on beside.     *)
(***************************************************************************)
EXTENDS SeatLedger

CONSTANTS
    OperatorOf, \* the operator an offer names
    Area        \* the sets of offers that searches may match, by place and time

ASSUME OperatorOfAssumption == OperatorOf \in [Offer -> Operator]
ASSUME AreaAssumption == Area \subseteq SUBSET Offer

VARIABLES handlers   \* the handler behind each call and its last success; Idle: none

offerVars == <<vars, handlers>>

-----------------------------------------------------------------------------
At(c, where) == handlers[c] # Idle /\ handlers[c].at = where

\* A slot whose handler has answered and whose call is over takes another request.
Free(c) == ~At(c, "await") /\ ~At(c, "valid") /\ ~InFlight(c)

Handler == [at : {"await", "valid", "posted", "found", "read"}, by : Operator, offers : SUBSET Offer]

Handles(c, where, op, S) == handlers' = [handlers EXCEPT ![c] = [at |-> where, by |-> op, offers |-> S]]

Refuses(c) == handlers' = [handlers EXCEPT ![c] = Idle]

\* The lists the route lets in: four seats at most, where the chaincode takes five.
Accepted == {list \in Batches : \A i \in DOMAIN list : list[i].seats \in 1..4}

OwnOf(op, list) == {i \in DOMAIN list : OperatorOf[list[i].offer] = op}

\* Faulty variant: the list goes to the ledger as it is.
PartsWhole(op, list) == {list}

\* What is left of the list without the offers that name other operators.
Parts(op, list) ==
    LET S == OwnOf(op, list)
        Picks == {f \in [1..Cardinality(S) -> S] :
                    \A i, j \in 1..Cardinality(S) : i < j => f[i] < f[j]}
    IN  {[i \in 1..Cardinality(S) |-> list[f[i]]] : f \in Picks}

OfferInit == Init /\ handlers = [c \in Client |-> Idle]

(* createOffer: offers of others are left out and named in the answer, which is *)
(* a success even when nothing is left to post.                                 *)
PostOffers(c, op, list) ==
    /\ Free(c)
    /\ \/ /\ OwnOf(op, list) = {}
          /\ Handles(c, "posted", op, {})
          /\ UNCHANGED vars
       \/ \E own \in Parts(op, list) :
            /\ own \in Batches
            /\ \/ CreateOffers(c, op, own) /\ Handles(c, "await", op, OffersIn(own))
               \/ /\ ~HasKeys(op) \/ ~Creatable(own)
                  /\ Refuses(c)
                  /\ UNCHANGED vars

(* updateAvailableSeats.                                                   *)
PatchSeats(c, op, o, n) ==
    /\ Free(c)
    /\ \/ OperatorOf[o] = op /\ UpdateOffer(c, op, o, n) /\ Handles(c, "await", op, {o})
       \/ /\ OperatorOf[o] # op \/ ~Posted(o)
          /\ Refuses(c)
          /\ UNCHANGED vars

\* What queryOffersByGeohashList may return of the offers S that a search matches:
\* the proxy leaves some out, and an empty list is an error.
Returned(S) == SUBSET {o \in S : Posted(o)} \ {{}}

(* getOfferByGeoHash: the operator's own offers are taken out of the answer, *)
(* which may end up empty.                                                  *)
Search(c, op, S) ==
    /\ Free(c)
    /\ \/ \E seen \in Returned(S) : Handles(c, "found", op, {o \in seen : OperatorOf[o] # op})
       \/ Refuses(c)
    /\ UNCHANGED vars

(* getOfferById: an offer that is missing, or that the proxy leaves out, is *)
(* an error of queryOfferById.                                              *)
Fetch(c, op, o) ==
    /\ Free(c)
    /\ \/ Posted(o) /\ Handles(c, "read", op, {o})
       \/ Refuses(c)
    /\ UNCHANGED vars

-----------------------------------------------------------------------------
\* What becomes of the call, for a handler that still waits.
Lands(c) ==
    /\ Commit(c)
    /\ handlers' = IF At(c, "await") THEN [handlers EXCEPT ![c].at = "valid"] ELSE handlers

Drops(c) ==
    /\ Discard(c) \/ Lose(c)
    /\ IF At(c, "await") THEN Refuses(c) ELSE UNCHANGED handlers

\* The timer of invoke(): the call may land all the same.
TimeOut(c) == InFlight(c) /\ At(c, "await") /\ Refuses(c) /\ UNCHANGED vars

\* Faulty variant: any answer of the ordering service is taken for a commit.
HeardOrSent(c) == At(c, "valid") \/ At(c, "await")

Heard(c) == At(c, "valid")

Answer(c) ==
    /\ Heard(c)
    /\ handlers' = [handlers EXCEPT ![c].at = "posted"]
    /\ UNCHANGED vars

\* Key requests and bookings, handled elsewhere.
OtherCall(c) ==
    /\ Free(c)
    /\ \E op \in Operator :
        \/ CreateKeys(c, op)
        \/ \E b \in Booking, s \in Status : PushTransaction(c, op, b, s)
    /\ UNCHANGED handlers

Request(c, op) ==
    \/ \E list \in Accepted : PostOffers(c, op, list)
    \/ \E o \in Offer : Fetch(c, op, o) \/ \E n \in SetSeats : PatchSeats(c, op, o, n)
    \/ \E S \in Area : Search(c, op, S)

OfferNext ==
    \E c \in Client :
        \/ \E op \in Operator : Request(c, op)
        \/ OtherCall(c) \/ Lands(c) \/ Drops(c) \/ TimeOut(c) \/ Answer(c)

OfferSpec == OfferInit /\ [][OfferNext]_offerVars

-----------------------------------------------------------------------------
(* Properties.                                                             *)

\* An offer on the ledger was encrypted by the operator it names, whose key the
\* proxy takes it for, and only that operator sets its seats: neither a list that
\* mixes operators nor a race of two posts gets past the handlers.
OffersByTheirOperator ==
    [][\A o \in Offer : offers'[o] # offers[o] =>
        /\ offers'[o].by = OperatorOf[o]
        /\ \A c \in Client :
             InFlight(c) /\ inflight'[c] = Idle /\ inflight[c].call # "pushTransaction" =>
                inflight[c].by = OperatorOf[o]]_offerVars

\* What a success says is so: every offer of the list that was the operator's own
\* is on the ledger, a search shows offers that are there, of others only, and what
\* was read once is there ever after.
AnswersHold ==
    \A c \in Client :
        /\ At(c, "posted") => \A o \in handlers[c].offers : Posted(o) /\ OperatorOf[o] = handlers[c].by
        /\ At(c, "found") => \A o \in handlers[c].offers : Posted(o) /\ OperatorOf[o] # handlers[c].by
        /\ At(c, "read") => \A o \in handlers[c].offers : Posted(o)

-----------------------------------------------------------------------------
(* The inductive invariant.                                                *)

\* What a call in flight writes names the operator it encrypts for; what does not
\* come from a booking is sent by that operator.
CallIsOwn(c) ==
    InFlight(c) => \A o \in DOMAIN inflight[c].offers :
        /\ inflight[c].offers[o].by = OperatorOf[o]
        /\ inflight[c].call # "pushTransaction" => inflight[c].by = OperatorOf[o]

\* The offers a handler answers for, on their way or there.
HandlerIsTrue(c) ==
    handlers[c] # Idle =>
        \/ At(c, "await") /\ (InFlight(c) => \A o \in handlers[c].offers :
                o \in DOMAIN inflight[c].offers /\ OperatorOf[o] = handlers[c].by)
        \/ (At(c, "valid") \/ At(c, "posted")) /\ \A o \in handlers[c].offers :
                Posted(o) /\ OperatorOf[o] = handlers[c].by
        \/ At(c, "found") /\ \A o \in handlers[c].offers :
                Posted(o) /\ OperatorOf[o] # handlers[c].by
        \/ At(c, "read") /\ \A o \in handlers[c].offers : Posted(o)

\* The invariant TLAPS proves inductive, next to that of the ledger.
OwnersInv ==
    /\ DOMAIN handlers = Client
    /\ \A c \in Client : handlers[c] # Idle => handlers[c] \in Handler
    /\ \A o \in Offer : Posted(o) => offers[o].by = OperatorOf[o]
    /\ \A c \in Client : CallIsOwn(c) /\ HandlerIsTrue(c)
=============================================================================
