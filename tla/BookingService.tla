--------------------------- MODULE BookingService ---------------------------
(***************************************************************************)
(* The booking workflow of the API services, for one offer: the handler of *)
(* POST /transaction, the invoke() of the Fabric client it awaits, and the *)
(* carpooling proofs that createProof leaves behind a confirmation.        *)
(*                                                                         *)
(* A handler awaits up to three calls to the ledger, one after the other.  *)
(* Each is endorsed, ordered and validated behind its back, while the      *)
(* handler waits for the event or for the timer: a call may be committed   *)
(* after the handler gave up on it.  Handlers of the same service run      *)
(* concurrently, interleaved at every await.                               *)
(*                                                                         *)
(* The seats and the booking records are used through what SeatLedger is   *)
(* proved to implement (SeatBook): a pushTransaction takes effect as a     *)
(* whole, at its commit, or not at all.                                    *)
(***************************************************************************)
EXTENDS Integers, FiniteSets

CONSTANTS
    Passenger,  \* passengers
    Driver,     \* the driver of the offer
    Foreign,    \* the passengers of the other operator
    Request,    \* POST /transaction requests, retries included
    PassengerOf,    \* whose booking each request is about
    Type,       \* transaction types tried
    Seats,      \* seats the offer was posted with
    Fault,      \* kinds of failure that happen: see Faults
    Absent      \* no booking record

Faults == {"query",   \* a query or a proposal fails: peer or proxy out of order
           "keys",    \* the operator's keys are replaced while a call is in flight
           "webhook", \* the other operator's webhook fails
           "late",    \* the event of a call takes longer than transactionTimeout
           "lost",    \* an endorsed call never reaches a block
           "crash"}   \* the service stops, its handlers with it

ASSUME RidersAssumption == Driver \notin Passenger /\ Foreign \subseteq Passenger
ASSUME RequestAssumption == PassengerOf \in [Request -> Passenger]
ASSUME SeatsAssumption == Seats \in 1..5
ASSUME FaultAssumption == Fault \subseteq Faults
ASSUME TypeAssumption == Absent \notin Type

VARIABLES
    free,       \* ledger: seats left
    status,     \* ledger: type of each passenger's booking record
    proofs,     \* ledger: the people who have a proof for the trip
    handler,    \* each request's handler: where it is and what it was asked
    call        \* each request's calls to the ledger, and how far they got

ledger == <<free, status, proofs>>
vars == <<free, status, proofs, handler, call>>

-----------------------------------------------------------------------------
Stage == {"book", "driver", "passenger"}

Progress == {"none",    \* not endorsed
             "sent",    \* endorsed, on its way to a block
             "valid",   \* committed
             "invalid", \* in a block, discarded by validation
             "lost"}    \* never in a block

Answers == {"created", "error"}

Ended == Answers \cup {"dropped"}

At == {"idle", "find offer", "submit", "await", "find proofs", "notify"} \cup Ended

At0 == [at |-> "idle", stage |-> "book", passenger |-> Absent, type |-> Absent]

Moves(r, to) == handler' = [handler EXCEPT ![r].at = to]

MovesTo(r, to, s) == handler' = [handler EXCEPT ![r].at = to, ![r].stage = s]

TakesSeat(t) == t = "CONFIRMATION"

\* Faulty variant: the passenger is taken from a field the request does not have.
HolderUnknown(r, s) == IF s = "driver" THEN Driver ELSE Absent

\* Whose proof a stage of the handler creates.
Holder(r, s) == IF s = "driver" THEN Driver ELSE handler[r].passenger

Init ==
    /\ free = Seats
    /\ status = [p \in Passenger |-> Absent]
    /\ proofs = {}
    /\ handler = [r \in Request |-> At0]
    /\ call = [r \in Request |-> [s \in Stage |-> "none"]]

-----------------------------------------------------------------------------
(* The handler.                                                            *)

Receive(r, t) ==
    /\ handler[r] = At0
    /\ handler' = [handler EXCEPT ![r] =
                    [at |-> "find offer", stage |-> "book",
                     passenger |-> PassengerOf[r], type |-> t]]
    /\ UNCHANGED <<ledger, call>>

\* A peer does not answer, or answers with an error.
QueryFails == "query" \in Fault

\* queryOfferById: the offer is there.
FindOffer(r) ==
    /\ handler[r].at = "find offer"
    /\ \/ MovesTo(r, "submit", "book")
       \/ QueryFails /\ Moves(r, "error")
    /\ UNCHANGED <<ledger, call>>

\* Where a failed call leaves the handler: createProof catches what is thrown.
OnFailure(r) == IF handler[r].stage = "book" THEN "error" ELSE "notify"

\* The chaincode accepts the call: a confirmation needs a seat, a proof must
\* not exist yet.
Endorsed(r) ==
    IF handler[r].stage = "book"
    THEN TakesSeat(handler[r].type) => free > 0
    ELSE Holder(r, handler[r].stage) \notin proofs

\* invoke(): the proposal, then, if it is endorsed, the wait for its event.
Submit(r) ==
    /\ handler[r].at = "submit"
    /\ \/ /\ Endorsed(r)
          /\ call' = [call EXCEPT ![r][handler[r].stage] = "sent"]
          /\ Moves(r, "await")
       \/ /\ ~Endorsed(r) \/ "query" \in Fault
          /\ Moves(r, OnFailure(r))
          /\ UNCHANGED call
    /\ UNCHANGED ledger

\* Faulty variant: every committed booking gets proofs.
AfterBookAlways(r) == "find proofs"

\* What follows a committed booking: the proofs of a confirmation, or the notice.
AfterBook(r) == IF TakesSeat(handler[r].type) THEN "find proofs" ELSE "notify"

\* Faulty variant: the validation code that comes with the event is not looked at.
HeardAnyCode(r) ==
    call[r][handler[r].stage] \in {"valid", "invalid"}

\* The event of the awaited call came in time and says VALID.
HeardValid(r) == call[r][handler[r].stage] = "valid"

Hear(r) ==
    /\ handler[r].at = "await"
    /\ HeardValid(r)
    /\ CASE handler[r].stage = "book" -> Moves(r, AfterBook(r))
         [] handler[r].stage = "driver" -> MovesTo(r, "submit", "passenger")
         [] handler[r].stage = "passenger" -> Moves(r, "notify")
    /\ UNCHANGED <<ledger, call>>

\* It says anything else: invoke() rejects.
HearInvalid(r) ==
    /\ handler[r].at = "await"
    /\ call[r][handler[r].stage] = "invalid"
    /\ Moves(r, OnFailure(r))
    /\ UNCHANGED <<ledger, call>>

\* Faulty variant: no timer runs for a call that is not on its way to a block.
OutOfTimeIfSent(r) == "late" \in Fault /\ call[r][handler[r].stage] = "sent"

\* No event within transactionTimeout.
OutOfTime(r) == "late" \in Fault \/ call[r][handler[r].stage] = "lost"

TimeOut(r) ==
    /\ handler[r].at = "await"
    /\ OutOfTime(r)
    /\ Moves(r, OnFailure(r))
    /\ UNCHANGED <<ledger, call>>

\* Faulty variant: the test for existing proofs is the wrong way round.
FirstMissingSwapped == IF proofs = {} THEN "passenger" ELSE "driver"

\* The first confirmation makes the driver's proof, too.
FirstMissing == IF proofs = {} THEN "driver" ELSE "passenger"

\* createProof: queryProofByTrip decides which proofs are made.
FindProofs(r) ==
    /\ handler[r].at = "find proofs"
    /\ \/ MovesTo(r, "submit", FirstMissing)
       \/ QueryFails /\ Moves(r, "notify")
    /\ UNCHANGED <<ledger, call>>

\* The last step: nobody to notify, or the other operator's webhook.
Answer(r) ==
    /\ handler[r].at = "notify"
    /\ handler[r].passenger \notin Foreign
    /\ Moves(r, "created")
    /\ UNCHANGED <<ledger, call>>

Notify(r) ==
    /\ handler[r].at = "notify"
    /\ handler[r].passenger \in Foreign
    /\ \/ Moves(r, "created")
       \/ "webhook" \in Fault /\ Moves(r, "error")
    /\ UNCHANGED <<ledger, call>>

-----------------------------------------------------------------------------
(* The ledger, behind the handlers.                                        *)

Lands(r, s, how) ==
    /\ call[r][s] = "sent"
    /\ call' = [call EXCEPT ![r][s] = how]

\* Faulty variant: a passenger who is confirmed again takes no second seat.
CommitBookingOnce(r) ==
    LET p == handler[r].passenger
    IN  /\ Lands(r, "book", "valid")
        /\ TakesSeat(handler[r].type) => free > 0
        /\ free' = IF TakesSeat(handler[r].type) /\ status[p] # handler[r].type
                   THEN free - 1 ELSE free
        /\ status' = [status EXCEPT ![p] = handler[r].type]
        /\ UNCHANGED <<proofs, handler>>

\* A booking is committed: the step of SeatBook, Confirm or Record.
CommitBooking(r) ==
    /\ Lands(r, "book", "valid")
    /\ TakesSeat(handler[r].type) => free > 0
    /\ free' = IF TakesSeat(handler[r].type) THEN free - 1 ELSE free
    /\ status' = [status EXCEPT ![handler[r].passenger] = handler[r].type]
    /\ UNCHANGED <<proofs, handler>>

\* A proof is committed: its lookup found nothing to read, so nothing is checked.
CommitProof(r, s) ==
    /\ s # "book"
    /\ Lands(r, s, "valid")
    /\ proofs' = proofs \cup {Holder(r, s)}
    /\ UNCHANGED <<free, status, handler>>

\* Validation discards what read a record that changed: for a booking the offer,
\* the record itself or the key, for a proof the key.
Discard(r, s) ==
    /\ s = "book" \/ "keys" \in Fault
    /\ Lands(r, s, "invalid")
    /\ UNCHANGED <<ledger, handler>>

Lose(r, s) ==
    /\ "lost" \in Fault
    /\ Lands(r, s, "lost")
    /\ UNCHANGED <<ledger, handler>>

\* The service stops: no handler survives, the calls it sent do.
Crash ==
    /\ "crash" \in Fault
    /\ \E r \in Request : handler[r].at \notin Ended \cup {"idle"}
    /\ handler' = [r \in Request |->
                    IF handler[r].at \in Ended \cup {"idle"} THEN handler[r]
                    ELSE [handler[r] EXCEPT !.at = "dropped"]]
    /\ UNCHANGED <<ledger, call>>

-----------------------------------------------------------------------------
\* What the service does on its own; the webhook's answer is not part of it.
Handle(r) ==
    FindOffer(r) \/ Submit(r) \/ Hear(r) \/ HearInvalid(r) \/ TimeOut(r)
        \/ FindProofs(r) \/ Answer(r)

Ledger(r) ==
    \/ CommitBooking(r)
    \/ \E s \in Stage : CommitProof(r, s) \/ Discard(r, s) \/ Lose(r, s)

Next ==
    \/ \E r \in Request, t \in Type : Receive(r, t)
    \/ \E r \in Request : Handle(r) \/ Notify(r) \/ Ledger(r)
    \/ Crash

Spec == Init /\ [][Next]_vars

\* The event loop runs a handler that can go on, the timer of invoke() fires, and
\* a call that was sent does not stay in limbo: it lands, or its timer fires.
Fairness == \A r \in Request : WF_vars(Handle(r))

FairSpec == Spec /\ Fairness

-----------------------------------------------------------------------------
(* Properties.                                                             *)

Handler == [at : At, stage : Stage, passenger : Passenger \cup {Absent},
            type : Type \cup {Absent}]

\* Types.
TypeOK ==
    /\ free \in 0..Seats
    /\ status \in [Passenger -> Type \cup {Absent}]
    /\ proofs \subseteq Passenger \cup {Driver}
    /\ handler \in [Request -> Handler]
    /\ call \in [Request -> [Stage -> Progress]]

Booked(r) == call[r]["book"] = "valid"

Confirmed(r) == Booked(r) /\ TakesSeat(handler[r].type)

\* A request that is answered 201 was committed, whatever raced with it: neither
\* an endorsement nor an acknowledgement by the orderer is taken for a commit.
AnswersAreTrue == \A r \in Request : handler[r].at = "created" => Booked(r)

\* Nobody gets a proof of a trip without a committed confirmation: not by a call
\* that was discarded, late or lost, and not by a retry of one.
ProofsFollowBookings ==
    /\ \A p \in proofs \cap Passenger : \E r \in Request : Confirmed(r) /\ handler[r].passenger = p
    /\ Driver \in proofs => \E r \in Request : Confirmed(r)

\* Whatever fails or races, a passenger's proof never stands without the driver's.
DriverProvedFirst == proofs # {} => Driver \in proofs

\* Every confirmation that was committed has taken a seat of its own, a retry of one that
\* was answered with an error included: no seat is taken by a request that was discarded,
\* lost or dropped, and none is taken twice for one request.
SeatsTaken == Cardinality({r \in Request : Confirmed(r)}) + free = Seats

\* Every request the service works on ends, or waits for the other operator's
\* webhook: a call that never reaches a block keeps no handler waiting.
HandlersEnd ==
    \A r \in Request : handler[r].at = "find offer" ~>
        \/ handler[r].at \in Ended
        \/ handler[r].at = "notify" /\ handler[r].passenger \in Foreign

\* Every confirmation answered 201 has its proof, or one on its way: the API test
\* confirms passengers and expects to get their proofs.
EveryConfirmationProved ==
    \A r \in Request :
        handler[r].at = "created" /\ TakesSeat(handler[r].type) =>
            handler[r].passenger \in proofs \/ call[r]["passenger"] = "sent"

-----------------------------------------------------------------------------
(* The inductive invariant: how far a handler has come says what is        *)
(* committed.                                                              *)

HandlerInv(r) ==
    /\ handler[r].at = "idle" => handler[r] = At0
    /\ handler[r].at # "idle" => handler[r].passenger \in Passenger /\ handler[r].type \in Type
    /\ handler[r].at \in {"idle", "find offer"} =>
            handler[r].stage = "book" /\ \A s \in Stage : call[r][s] = "none"
    /\ handler[r].at = "submit" /\ handler[r].stage = "book" => call[r]["book"] = "none"
    /\ handler[r].at = "find proofs" => Confirmed(r)
    /\ handler[r].at \in {"notify", "created"} => Booked(r)
    /\ handler[r].stage # "book" => Confirmed(r)
    /\ handler[r].stage = "passenger" => Driver \in proofs

CallInv(r) ==
    /\ \A s \in Stage \ {"book"} : call[r][s] # "none" => Confirmed(r)
    /\ call[r]["driver"] = "valid" => Driver \in proofs
    /\ call[r]["passenger"] # "none" => Driver \in proofs

\* The invariant TLAPS proves inductive: a handler asks for a proof only behind a
\* committed confirmation, and for the passenger's only behind the driver's.
IInv ==
    /\ TypeOK
    /\ ProofsFollowBookings
    /\ DriverProvedFirst
    /\ \A r \in Request : HandlerInv(r) /\ CallInv(r)
=============================================================================
