------------------------ MODULE BookingServiceProofs ------------------------
(***************************************************************************)
(* Proofs about BookingService, for every number of passengers, requests   *)
(* and seats, and whatever fails.                                          *)
(***************************************************************************)
EXTENDS BookingService, FiniteSetTheorems, TLAPS

\* A handler that does not move, and whose calls do not, stands where it stood.
LEMMA OthersStand ==
    ASSUME NEW q, HandlerInv(q), CallInv(q), proofs \subseteq proofs',
           handler'[q] = handler[q], call'[q] = call[q]
    PROVE  HandlerInv(q)' /\ CallInv(q)'
<1>1. (Confirmed(q) => Confirmed(q)') /\ (Booked(q) => Booked(q)')
  BY DEF Confirmed, Booked
<1>2. HandlerInv(q)'
  BY <1>1 DEF HandlerInv
<1>3. CallInv(q)'
  BY <1>1 DEF CallInv
<1> QED
  BY <1>2, <1>3

\* What a committed confirmation is stays so while its handler does.
LEMMA OneHandlerMoves ==
    ASSUME IInv, NEW r \in Request, UNCHANGED <<ledger, call>>,
           handler' \in [Request -> Handler],
           \A q \in Request \ {r} : handler'[q] = handler[q],
           handler'[r].passenger = handler[r].passenger,
           handler'[r].type = handler[r].type,
           HandlerInv(r)'
    PROVE  IInv'
<1>1. \A q \in Request : Confirmed(q)' = Confirmed(q) /\ Booked(q)' = Booked(q)
                         /\ handler'[q].passenger = handler[q].passenger
  BY DEF Confirmed, Booked, ledger
<1>2. TypeOK'
  BY DEF IInv, TypeOK, ledger
<1>3. ProofsFollowBookings' /\ DriverProvedFirst'
  BY <1>1 DEF IInv, ProofsFollowBookings, DriverProvedFirst, ledger
<1>4. ASSUME NEW q \in Request PROVE HandlerInv(q)' /\ CallInv(q)'
  <2>1. CallInv(q)'
    BY <1>1 DEF IInv, CallInv, ledger
  <2>2. ASSUME q # r PROVE HandlerInv(q)'
    <3>1. handler'[q] = handler[q] /\ call' = call /\ proofs' = proofs
      BY <2>2 DEF ledger
    <3> QED
      BY <3>1, OthersStand DEF IInv
  <2> QED
    BY <2>1, <2>2
<1> QED
  BY <1>2, <1>3, <1>4 DEF IInv

LEMMA MovesIsTyped ==
    ASSUME TypeOK, NEW r \in Request, NEW a \in At, Moves(r, a)
    PROVE  /\ handler' \in [Request -> Handler]
           /\ \A q \in Request \ {r} : handler'[q] = handler[q]
           /\ handler'[r] = [handler[r] EXCEPT !.at = a]
BY DEF TypeOK, Moves, Handler

\* A handler goes on to a where it may be.
LEMMA AdvanceTo ==
    ASSUME IInv, NEW r \in Request, NEW a \in At, Moves(r, a), UNCHANGED <<ledger, call>>,
           handler[r].at # "idle",
           a \notin {"idle", "find offer", "submit"},
           a = "find proofs" => Confirmed(r),
           a \in {"notify", "created"} => Booked(r)
    PROVE  IInv'
<1>1. TypeOK /\ HandlerInv(r) /\ handler[r] \in Handler
  BY DEF IInv, TypeOK
<1>2. /\ handler' \in [Request -> Handler]
      /\ \A q \in Request \ {r} : handler'[q] = handler[q]
      /\ handler'[r] = [handler[r] EXCEPT !.at = a]
  BY <1>1, MovesIsTyped
<1>3. HandlerInv(r)'
  BY <1>1, <1>2 DEF HandlerInv, Confirmed, Booked, ledger, Handler
<1> QED
  BY <1>1, <1>2, <1>3, OneHandlerMoves DEF Handler

\* A handler goes on to submit the call of stage s.
LEMMA AdvanceToSubmit ==
    ASSUME IInv, NEW r \in Request, NEW s \in Stage, MovesTo(r, "submit", s),
           UNCHANGED <<ledger, call>>,
           handler[r].at # "idle",
           s = "book" => call[r]["book"] = "none",
           s # "book" => Confirmed(r),
           s = "passenger" => Driver \in proofs
    PROVE  IInv'
<1>1. TypeOK /\ HandlerInv(r) /\ handler[r] \in Handler /\ "submit" \in At
  BY DEF IInv, TypeOK, At
<1>2. /\ handler' \in [Request -> Handler]
      /\ \A q \in Request \ {r} : handler'[q] = handler[q]
      /\ handler'[r] = [handler[r] EXCEPT !.at = "submit", !.stage = s]
  BY <1>1 DEF TypeOK, MovesTo, Handler
<1>3. HandlerInv(r)'
  BY <1>1, <1>2 DEF HandlerInv, Confirmed, Booked, ledger, Handler
<1> QED
  BY <1>1, <1>2, <1>3, OneHandlerMoves DEF Handler

\* Where a handler goes when a call fails behind a committed booking.
LEMMA FailurePreserves ==
    ASSUME IInv, NEW r \in Request, Moves(r, OnFailure(r)), UNCHANGED <<ledger, call>>,
           handler[r].at # "idle"
    PROVE  IInv'
<1>1. OnFailure(r) \in {"error", "notify"} /\ OnFailure(r) \in At
  BY DEF OnFailure, At, Ended, Answers
<1>2. OnFailure(r) = "notify" => Booked(r)
  BY DEF OnFailure, IInv, HandlerInv, Confirmed
<1> QED
  BY <1>1, <1>2, AdvanceTo

\* The steps that only a handler takes.
LEMMA HandlerSteps ==
    ASSUME IInv, NEW r \in Request,
           FindOffer(r) \/ Hear(r) \/ HearInvalid(r) \/ TimeOut(r) \/ FindProofs(r)
              \/ Answer(r) \/ Notify(r)
    PROVE  IInv'
<1>t. HandlerInv(r) /\ CallInv(r) /\ DriverProvedFirst /\ handler[r].stage \in Stage
  BY DEF IInv, TypeOK, Handler
<1>a. {"error", "notify", "created", "find proofs"} \subseteq At
  BY DEF At, Ended, Answers
<1>1. CASE FindOffer(r)
  <2>1. handler[r].at = "find offer" /\ call[r]["book"] = "none" /\ "book" \in Stage
    BY <1>t, <1>1 DEF FindOffer, HandlerInv, Stage
  <2>2. CASE MovesTo(r, "submit", "book")
    BY <1>1, <2>1, <2>2, AdvanceToSubmit DEF FindOffer
  <2>3. CASE Moves(r, "error")
    BY <1>a, <1>1, <2>1, <2>3, AdvanceTo DEF FindOffer
  <2> QED
    BY <1>1, <2>2, <2>3 DEF FindOffer
<1>2. CASE Hear(r)
  <2>1. handler[r].at = "await" /\ call[r][handler[r].stage] = "valid" /\ UNCHANGED <<ledger, call>>
    BY <1>2 DEF Hear, HeardValid
  <2>2. CASE handler[r].stage = "book"
    <3>1. Booked(r) /\ Moves(r, AfterBook(r)) /\ AfterBook(r) \in {"find proofs", "notify"}
      BY <1>2, <2>1, <2>2 DEF Hear, Booked, AfterBook
    <3>2. AfterBook(r) = "find proofs" => Confirmed(r)
      BY <3>1 DEF AfterBook, Confirmed
    <3> QED
      BY <1>a, <2>1, <3>1, <3>2, AdvanceTo
  <2>3. CASE handler[r].stage = "driver"
    <3>1. MovesTo(r, "submit", "passenger") /\ Confirmed(r) /\ Driver \in proofs
      BY <1>t, <1>2, <2>1, <2>3 DEF Hear, HandlerInv, CallInv
    <3> QED
      BY <2>1, <3>1, AdvanceToSubmit DEF Stage
  <2>4. CASE handler[r].stage = "passenger"
    <3>1. Moves(r, "notify") /\ Booked(r)
      BY <1>t, <1>2, <2>1, <2>4 DEF Hear, HandlerInv, Confirmed
    <3> QED
      BY <1>a, <2>1, <3>1, AdvanceTo
  <2> QED
    BY <1>t, <2>2, <2>3, <2>4 DEF Stage
<1>3. CASE HearInvalid(r) \/ TimeOut(r)
  BY <1>3, FailurePreserves DEF HearInvalid, TimeOut
<1>4. CASE FindProofs(r)
  <2>1. handler[r].at = "find proofs" /\ Confirmed(r) /\ Booked(r)
    BY <1>t, <1>4 DEF FindProofs, HandlerInv, Confirmed
  <2>2. CASE MovesTo(r, "submit", FirstMissing)
    <3>1. FirstMissing \in {"driver", "passenger"} /\ FirstMissing \in Stage
      BY DEF FirstMissing, Stage
    <3>2. FirstMissing = "passenger" => Driver \in proofs
      BY <1>t DEF FirstMissing, DriverProvedFirst
    <3> QED
      BY <1>4, <2>1, <2>2, <3>1, <3>2, AdvanceToSubmit DEF FindProofs
  <2>3. CASE Moves(r, "notify")
    BY <1>a, <1>4, <2>1, <2>3, AdvanceTo DEF FindProofs
  <2> QED
    BY <1>4, <2>2, <2>3 DEF FindProofs
<1>5. CASE Answer(r) \/ Notify(r)
  <2>1. Booked(r) /\ handler[r].at = "notify"
    BY <1>t, <1>5 DEF Answer, Notify, HandlerInv
  <2> QED
    BY <1>a, <1>5, <2>1, AdvanceTo DEF Answer, Notify
<1> QED
  BY <1>1, <1>2, <1>3, <1>4, <1>5

-----------------------------------------------------------------------------
\* A new request enters.
LEMMA ReceivePreserves ==
    ASSUME IInv, NEW r \in Request, NEW t \in Type, Receive(r, t)
    PROVE  IInv'
<1>1. /\ handler[r] = At0
      /\ handler' = [handler EXCEPT ![r] =
                      [at |-> "find offer", stage |-> "book",
                       passenger |-> PassengerOf[r], type |-> t]]
      /\ UNCHANGED <<free, status, proofs, call>>
  BY DEF Receive, ledger
<1>2. \A s \in Stage : call[r][s] = "none"
  <2>a. At0.at = "idle"
    BY DEF At0
  <2>1. handler[r].at = "idle"
    BY <1>1, <2>a
  <2>2. HandlerInv(r)
    BY DEF IInv
  <2> QED
    BY <2>1, <2>2 DEF HandlerInv
<1>3. ~Booked(r) /\ ~Booked(r)'
  BY <1>1, <1>2 DEF Booked, Stage
<1>4. TypeOK'
  BY <1>1, RequestAssumption DEF IInv, TypeOK, Handler, At, Stage
<1>5. \A q \in Request \ {r} : handler'[q] = handler[q]
  BY <1>1 DEF IInv, TypeOK
<1>6. ProofsFollowBookings'
  <2>1. \A q \in Request : Confirmed(q) =>
            Confirmed(q)' /\ handler'[q].passenger = handler[q].passenger
    <3>1. ASSUME NEW q \in Request, Confirmed(q)
          PROVE  Confirmed(q)' /\ handler'[q].passenger = handler[q].passenger
      <4>1. q # r
        BY <1>3, <3>1 DEF Confirmed
      <4>2. handler'[q] = handler[q] /\ call' = call
        BY <1>1, <1>5, <4>1
      <4> QED
        BY <3>1, <4>2 DEF Confirmed, Booked
    <3> QED
      BY <3>1
  <2> QED
    BY <1>1, <2>1 DEF IInv, ProofsFollowBookings
<1>7. DriverProvedFirst'
  BY <1>1 DEF IInv, DriverProvedFirst
<1>8. HandlerInv(r)' /\ CallInv(r)'
  <2>1. handler'[r] = [at |-> "find offer", stage |-> "book", passenger |-> PassengerOf[r],
                        type |-> t]
    BY <1>1 DEF IInv, TypeOK
  <2> QED
    <3>1. \A s \in Stage : call'[r][s] = "none"
      BY <1>1, <1>2
    <3> DEFINE h == [at |-> "find offer", stage |-> "book", passenger |-> PassengerOf[r],
                    type |-> t]
    <3>b. /\ h.at = "find offer" /\ h.stage = "book"
          /\ h.passenger \in Passenger /\ h.type \in Type
      BY RequestAssumption
    <3>c. handler'[r] = h
      BY <2>1
    <3> HIDE DEF h
    <3>a. /\ handler'[r].at = "find offer" /\ handler'[r].stage = "book"
          /\ handler'[r].passenger \in Passenger /\ handler'[r].type \in Type
      BY <3>b, <3>c
    <3>2. HandlerInv(r)'
      BY <3>a, <3>1 DEF HandlerInv
    <3>3. CallInv(r)'
      BY <3>1 DEF CallInv, Stage
    <3> QED
      BY <3>2, <3>3
<1>9. ASSUME NEW q \in Request \ {r} PROVE HandlerInv(q)' /\ CallInv(q)'
  BY <1>1, <1>5, <1>9, OthersStand DEF IInv
<1> QED
  BY <1>4, <1>6, <1>7, <1>8, <1>9 DEF IInv

\* A call is sent, and its handler waits; or it is not accepted.
LEMMA SubmitPreserves ==
    ASSUME IInv, NEW r \in Request, Submit(r)
    PROVE  IInv'
<1>t. /\ TypeOK /\ HandlerInv(r) /\ CallInv(r) /\ handler[r] \in Handler
      /\ handler[r].at = "submit" /\ handler[r].stage \in Stage
      /\ UNCHANGED <<free, status, proofs>>
  BY DEF IInv, TypeOK, Handler, Submit, ledger
<1>1. CASE /\ call' = [call EXCEPT ![r][handler[r].stage] = "sent"]
           /\ Moves(r, "await")
  <2>1. /\ handler' \in [Request -> Handler]
        /\ \A q \in Request \ {r} : handler'[q] = handler[q]
        /\ handler'[r] = [handler[r] EXCEPT !.at = "await"]
    BY <1>t, <1>1, MovesIsTyped DEF At
  <2>2. /\ call' \in [Request -> [Stage -> Progress]]
        /\ \A q \in Request \ {r} : call'[q] = call[q]
        /\ call'[r] = [call[r] EXCEPT ![handler[r].stage] = "sent"]
    BY <1>t, <1>1 DEF TypeOK, Progress
  <2>3. \A q \in Request : Confirmed(q) => Confirmed(q)'
    <3>1. ASSUME Confirmed(r) PROVE Confirmed(r)'
      <4>1. handler[r].stage # "book"
        BY <1>t, <3>1 DEF HandlerInv, Confirmed, Booked
      <4> QED
        BY <1>t, <2>1, <2>2, <3>1, <4>1 DEF Confirmed, Booked, TypeOK, Handler, Stage
    <3>2. ASSUME NEW q \in Request \ {r}, Confirmed(q) PROVE Confirmed(q)'
      BY <2>1, <2>2, <3>2 DEF Confirmed, Booked
    <3> QED
      BY <3>1, <3>2
  <2>4. \A q \in Request : handler'[q].passenger = handler[q].passenger
    BY <1>t, <2>1 DEF Handler
  <2>5. TypeOK' /\ DriverProvedFirst'
    BY <1>t, <2>1, <2>2 DEF IInv, TypeOK, DriverProvedFirst
  <2>6. ProofsFollowBookings'
    BY <1>t, <2>3, <2>4 DEF IInv, ProofsFollowBookings
  <2>7. HandlerInv(r)'
    <3>1. handler'[r].at = "await" /\ handler'[r].stage = handler[r].stage
          /\ handler'[r].passenger = handler[r].passenger /\ handler'[r].type = handler[r].type
      BY <1>t, <2>1 DEF Handler
    <3> QED
      BY <1>t, <2>3, <3>1 DEF HandlerInv
  <2>8. CallInv(r)'
    <3>1. handler[r].stage # "book" => Confirmed(r)'
      BY <1>t, <2>3 DEF HandlerInv
    <3>2. \A s \in Stage \ {handler[r].stage} : call'[r][s] = call[r][s]
      BY <1>t, <2>2 DEF TypeOK
    <3>3. call'[r][handler[r].stage] = "sent"
      BY <1>t, <2>2 DEF TypeOK
    <3> QED
      BY <1>t, <2>3, <3>1, <3>2, <3>3 DEF CallInv, HandlerInv, Stage
  <2>9. ASSUME NEW q \in Request \ {r} PROVE HandlerInv(q)' /\ CallInv(q)'
    BY <1>t, <2>1, <2>2, <2>9, OthersStand DEF IInv
  <2> QED
    BY <2>5, <2>6, <2>7, <2>8, <2>9 DEF IInv
<1>2. CASE Moves(r, OnFailure(r)) /\ UNCHANGED call
  BY <1>t, <1>2, FailurePreserves DEF ledger
<1> QED
  BY <1>1, <1>2 DEF Submit

\* A call lands, with nothing else changed than what it writes.
LEMMA LandingPreserves ==
    ASSUME IInv, NEW r \in Request, NEW s \in Stage, NEW how \in {"valid", "invalid", "lost"},
           Lands(r, s, how), UNCHANGED handler,
           free' \in 0..Seats, status' \in [Passenger -> Type \cup {Absent}],
           proofs' = IF how = "valid" /\ s # "book" THEN proofs \cup {Holder(r, s)} ELSE proofs
    PROVE  IInv'
<1>t. TypeOK /\ HandlerInv(r) /\ CallInv(r) /\ handler[r] \in Handler /\ call[r][s] = "sent"
  BY DEF IInv, TypeOK, Lands
<1>1. /\ call' \in [Request -> [Stage -> Progress]]
      /\ \A q \in Request \ {r} : call'[q] = call[q]
      /\ call'[r] = [call[r] EXCEPT ![s] = how]
  BY <1>t DEF Lands, TypeOK, Progress
<1>2. handler[r].at # "idle" /\ handler[r].at # "find offer" /\ handler[r].passenger \in Passenger
  BY <1>t DEF HandlerInv
<1>3. \A q \in Request : Booked(q) => Booked(q)'
  BY <1>t, <1>1 DEF Booked, TypeOK, Stage
<1>4. \A q \in Request : Confirmed(q) => Confirmed(q)'
  BY <1>3 DEF Confirmed
<1>5. s # "book" => Confirmed(r)
  BY <1>t DEF CallInv
<1>6. Holder(r, s) \in Passenger \cup {Driver} /\ (Holder(r, s) \in Passenger => Holder(r, s) = handler[r].passenger)
  BY <1>2, RidersAssumption DEF Holder
<1>7. TypeOK'
  BY <1>t, <1>1, <1>6 DEF TypeOK
<1>8. ProofsFollowBookings'
  BY <1>4, <1>5, <1>6 DEF IInv, ProofsFollowBookings
<1>9. proofs \subseteq proofs' /\ DriverProvedFirst'
  <2>1. s = "passenger" => Driver \in proofs
    BY <1>t DEF CallInv
  <2> QED
    BY <2>1 DEF IInv, DriverProvedFirst, Holder, Stage
<1>10. ASSUME NEW q \in Request PROVE HandlerInv(q)' /\ CallInv(q)'
  <2>1. HandlerInv(q) /\ CallInv(q)
    BY DEF IInv
  <2>2. CASE q # r
    BY <1>1, <1>9, <2>1, <2>2, OthersStand
  <2>3. CASE q = r
    <3>1. HandlerInv(r)'
      <4>1. call[r]["book"] # "none" \/ s # "book"
        BY <1>t
      <4>2. s # "book" => ~(handler[r].at = "submit" /\ handler[r].stage = "book")
        BY <1>t, <1>5 DEF HandlerInv, Confirmed, Booked
      <4>3. ~(handler[r].at = "submit" /\ handler[r].stage = "book")
        BY <1>t, <4>2 DEF HandlerInv
      <4> QED
        BY <1>t, <1>2, <1>3, <1>4, <1>9, <4>3 DEF HandlerInv
    <3>2. CallInv(r)'
      <4>1. \A x \in Stage \ {s} : call'[r][x] = call[r][x]
        BY <1>t, <1>1 DEF TypeOK
      <4>2. call'[r][s] = how
        BY <1>t, <1>1 DEF TypeOK
      <4>3. s = "driver" /\ how = "valid" => Driver \in proofs'
        BY DEF Holder
      <4> QED
        BY <1>t, <1>4, <1>5, <1>9, <4>1, <4>2, <4>3 DEF CallInv, Stage
    <3> QED
      BY <2>3, <3>1, <3>2
  <2> QED
    BY <2>2, <2>3
<1> QED
  BY <1>7, <1>8, <1>9, <1>10 DEF IInv

\* What happens behind the handlers.
LEMMA LedgerSteps ==
    ASSUME IInv, NEW r \in Request, Ledger(r)
    PROVE  IInv'
<1>t. /\ TypeOK /\ HandlerInv(r) /\ CallInv(r) /\ handler[r] \in Handler
      /\ free \in 0..Seats /\ status \in [Passenger -> Type \cup {Absent}]
  BY DEF IInv, TypeOK
<1>1. CASE CommitBooking(r)
  <2>1. handler[r].passenger \in Passenger /\ handler[r].type \in Type
    BY <1>t, <1>1 DEF CommitBooking, Lands, HandlerInv, Stage
  <2>2. free' \in 0..Seats
    BY <1>t, <1>1, SeatsAssumption DEF CommitBooking
  <2>3. status' \in [Passenger -> Type \cup {Absent}]
    BY <1>t, <1>1, <2>1 DEF CommitBooking
  <2> QED
    BY <1>1, <2>2, <2>3, LandingPreserves DEF CommitBooking, Stage
<1>2. ASSUME NEW s \in Stage, CommitProof(r, s) \/ Discard(r, s) \/ Lose(r, s)
      PROVE  IInv'
  BY <1>t, <1>2, LandingPreserves DEF CommitProof, Discard, Lose, ledger
<1> QED
  BY <1>1, <1>2 DEF Ledger

\* A crash takes handlers away and nothing else.
LEMMA CrashPreserves ==
    ASSUME IInv, Crash
    PROVE  IInv'
<1>1. /\ UNCHANGED <<free, status, proofs, call>>
      /\ handler' = [r \in Request |->
                    IF handler[r].at \in Ended \cup {"idle"} THEN handler[r]
                    ELSE [handler[r] EXCEPT !.at = "dropped"]]
  BY DEF Crash, ledger
<1>2. \A r \in Request : /\ handler'[r].passenger = handler[r].passenger
                         /\ handler'[r].type = handler[r].type
                         /\ handler'[r].stage = handler[r].stage
                         /\ handler'[r].at \in {handler[r].at, "dropped"}
                         /\ handler'[r] # handler[r] => handler'[r].at = "dropped"
  BY <1>1 DEF IInv, TypeOK, Handler
<1>3. TypeOK'
  BY <1>1 DEF IInv, TypeOK, Handler, At, Ended
<1>4. \A r \in Request : Confirmed(r)' <=> Confirmed(r)
  BY <1>1, <1>2 DEF Confirmed, Booked
<1>5. ProofsFollowBookings' /\ DriverProvedFirst'
  BY <1>1, <1>2, <1>4 DEF IInv, ProofsFollowBookings, DriverProvedFirst
<1>6. ASSUME NEW r \in Request PROVE HandlerInv(r)' /\ CallInv(r)'
  <2>1. HandlerInv(r) /\ CallInv(r)
    BY <1>6 DEF IInv
  <2>2. CASE handler'[r] = handler[r]
    BY <1>1, <2>1, <2>2, OthersStand
  <2>3. CASE handler'[r].at = "dropped" /\ handler[r].at # "idle"
    <3>1. handler'[r].passenger = handler[r].passenger /\ handler'[r].type = handler[r].type
          /\ handler'[r].stage = handler[r].stage /\ call' = call /\ proofs' = proofs
      BY <1>1, <1>2
    <3>2. Confirmed(r) => Confirmed(r)'
      BY <1>4
    <3>3. HandlerInv(r)'
      BY <2>1, <2>3, <3>1, <3>2 DEF HandlerInv
    <3>4. CallInv(r)'
      BY <2>1, <3>1, <3>2 DEF CallInv
    <3> QED
      BY <3>3, <3>4
  <2>4. handler[r].at = "idle" => handler'[r] = handler[r]
    BY <1>1
  <2> QED
    BY <1>2, <2>2, <2>3, <2>4
<1> QED
  BY <1>3, <1>5, <1>6 DEF IInv

-----------------------------------------------------------------------------
\* The invariant is inductive: a handler asks for a proof only behind a committed
\* confirmation, and for the passenger's only behind the driver's, whichever of
\* its calls are late, lost or discarded and whatever the other handlers do.
THEOREM Invariance == Spec => []IInv
<1>1. Init => IInv
  <2> SUFFICES ASSUME Init PROVE IInv
    OBVIOUS
  <2>1. TypeOK
    BY SeatsAssumption DEF Init, TypeOK, At0, Handler, At, Stage, Progress
  <2>2. ProofsFollowBookings /\ DriverProvedFirst
    BY DEF Init, ProofsFollowBookings, DriverProvedFirst
  <2>3. ASSUME NEW r \in Request PROVE HandlerInv(r) /\ CallInv(r)
    <3>1. handler[r] = At0 /\ \A s \in Stage : call[r][s] = "none"
      BY DEF Init
    <3> QED
      BY <3>1 DEF HandlerInv, CallInv, At0, Stage
  <2> QED
    BY <2>1, <2>2, <2>3 DEF IInv
<1>2. IInv /\ [Next]_vars => IInv'
  <2> SUFFICES ASSUME IInv, [Next]_vars PROVE IInv'
    OBVIOUS
  <2>1. ASSUME NEW r \in Request, NEW t \in Type, Receive(r, t)
        PROVE  IInv'
    BY <2>1, ReceivePreserves
  <2>2. ASSUME NEW r \in Request, Handle(r) \/ Notify(r)
        PROVE  IInv'
    BY <2>2, SubmitPreserves, HandlerSteps DEF Handle
  <2>3. ASSUME NEW r \in Request, Ledger(r)
        PROVE  IInv'
    BY <2>3, LedgerSteps
  <2>4. CASE Crash
    BY <2>4, CrashPreserves
  <2>5. CASE UNCHANGED vars
    <3>1. handler' = handler /\ call' = call /\ UNCHANGED <<free, status, proofs>>
      BY <2>5 DEF vars, ledger
    <3>2. \A r \in Request : HandlerInv(r)' /\ CallInv(r)'
      BY <3>1, OthersStand DEF IInv
    <3>3. TypeOK' /\ ProofsFollowBookings' /\ DriverProvedFirst'
      BY <3>1 DEF IInv, TypeOK, ProofsFollowBookings, DriverProvedFirst, Confirmed, Booked
    <3> QED
      BY <3>2, <3>3 DEF IInv
  <2> QED
    BY <2>1, <2>2, <2>3, <2>4, <2>5 DEF Next
<1> QED
  BY <1>1, <1>2, PTL DEF Spec

\* A request answered 201 was committed (proves AnswersAreTrue).
THEOREM TrueAnswers == Spec => []AnswersAreTrue
<1>1. IInv => AnswersAreTrue
  BY DEF IInv, HandlerInv, AnswersAreTrue
<1> QED
  BY <1>1, Invariance, PTL

\* A handler stays in the states of the controllers, and the offer's seats in 0..Seats
\* (proves TypeOK).
THEOREM TypeCorrect == Spec => []TypeOK
<1>1. IInv => TypeOK
  BY DEF IInv
<1> QED
  BY <1>1, Invariance, PTL

\* No proof of a trip without a committed confirmation (proves ProofsFollowBookings).
THEOREM ProvedByBookings == Spec => []ProofsFollowBookings
<1>1. IInv => ProofsFollowBookings
  BY DEF IInv
<1> QED
  BY <1>1, Invariance, PTL

\* A passenger's proof never stands without the driver's (proves DriverProvedFirst).
THEOREM DriverFirst == Spec => []DriverProvedFirst
<1>1. IInv => DriverProvedFirst
  BY DEF IInv
<1> QED
  BY <1>1, Invariance, PTL

\* Nothing but a commit of a booking touches the seats and the booking records.
LEMMA OthersLeaveSeats ==
    ASSUME Next, \A r \in Request : ~CommitBooking(r)
    PROVE  UNCHANGED <<free, status>>
<1>1. ASSUME NEW r \in Request, Handle(r) \/ Notify(r) PROVE UNCHANGED <<free, status>>
  BY <1>1 DEF Handle, FindOffer, Submit, Hear, HearInvalid, TimeOut, FindProofs, Answer,
              Notify, ledger
<1>2. ASSUME NEW r \in Request, Ledger(r) PROVE UNCHANGED <<free, status>>
  BY <1>2 DEF Ledger, CommitProof, Discard, Lose, ledger
<1> QED
  BY <1>1, <1>2 DEF Next, Receive, Crash, ledger

\* Who is confirmed changes only with a commit.
LEMMA ConfirmedStays ==
    ASSUME IInv, Next, \A r \in Request : ~CommitBooking(r), NEW q \in Request
    PROVE  Confirmed(q)' = Confirmed(q)
<1>t. /\ handler \in [Request -> Handler] /\ call \in [Request -> [Stage -> Progress]]
      /\ \A r \in Request : HandlerInv(r)
  BY DEF IInv, TypeOK
<1>1. ASSUME NEW r \in Request, NEW t \in Type, Receive(r, t)
      PROVE  Confirmed(q)' = Confirmed(q)
  <2>1. call' = call /\ (q # r => handler'[q] = handler[q])
    BY <1>t, <1>1 DEF Receive
  <2>2. q = r => call[q]["book"] = "none"
    <3>1. At0.at = "idle" /\ handler[r] = At0
      BY <1>1 DEF At0, Receive
    <3>2. handler[r].at = "idle" /\ HandlerInv(r)
      BY <1>t, <3>1
    <3> QED
      BY <3>2 DEF HandlerInv, Stage
  <2> QED
    BY <2>1, <2>2 DEF Confirmed, Booked
<1>2. ASSUME NEW r \in Request, UNCHANGED call, \E a \in At, s \in Stage : MovesTo(r, a, s)
      PROVE  Confirmed(q)' = Confirmed(q)
  BY <1>t, <1>2 DEF MovesTo, Handler, Confirmed, Booked
<1>3. ASSUME NEW r \in Request, UNCHANGED call, \E a \in At : Moves(r, a)
      PROVE  Confirmed(q)' = Confirmed(q)
  BY <1>t, <1>3 DEF Moves, Handler, Confirmed, Booked
<1>4. ASSUME NEW r \in Request, Handle(r) \/ Notify(r) PROVE Confirmed(q)' = Confirmed(q)
  <2>1. CASE Submit(r) /\ call' # call
    <3>1. /\ call' = [call EXCEPT ![r][handler[r].stage] = "sent"]
          /\ handler' = [handler EXCEPT ![r].at = "await"]
          /\ handler[r].stage = "book" => call[r]["book"] = "none"
      BY <1>t, <2>1 DEF Submit, Moves, HandlerInv
    <3>2. handler'[q].type = handler[q].type
      BY <1>t, <3>1 DEF Handler
    <3>3. Booked(q)' = Booked(q)
      BY <1>t, <3>1 DEF Booked, Stage
    <3> QED
      BY <3>2, <3>3 DEF Confirmed
  <2>2. CASE ~(Submit(r) /\ call' # call)
    <3>1. UNCHANGED call
      BY <1>4, <2>2 DEF Handle, FindOffer, Submit, Hear, HearInvalid, TimeOut, FindProofs,
                        Answer, Notify
    <3>2. (\E a \in At : Moves(r, a)) \/ (\E a \in At, s \in Stage : MovesTo(r, a, s))
      BY <1>t, <1>4 DEF Handle, FindOffer, Submit, Hear, HearInvalid, TimeOut, FindProofs,
                   Answer, Notify, OnFailure, AfterBook, FirstMissing, At, Ended, Answers,
                   Stage, Handler
    <3> QED
      BY <1>2, <1>3, <3>1, <3>2
  <2> QED
    BY <2>1, <2>2
<1>5. ASSUME NEW r \in Request, Ledger(r) PROVE Confirmed(q)' = Confirmed(q)
  <2>1. ~CommitBooking(r)
    OBVIOUS
  <2>2. PICK s \in Stage : CommitProof(r, s) \/ Discard(r, s) \/ Lose(r, s)
    BY <1>5, <2>1 DEF Ledger
  <2>3. /\ handler' = handler /\ call[r][s] = "sent"
        /\ \/ s # "book" /\ call' = [call EXCEPT ![r][s] = "valid"]
           \/ call' = [call EXCEPT ![r][s] = "invalid"]
           \/ call' = [call EXCEPT ![r][s] = "lost"]
    BY <2>2 DEF CommitProof, Discard, Lose, Lands
  <2>4. Booked(q)' = Booked(q)
    BY <1>t, <2>3 DEF Booked, Stage
  <2> QED
    BY <2>3, <2>4 DEF Confirmed
<1>6. CASE Crash
  <2>1. call' = call /\ handler'[q].type = handler[q].type
    BY <1>t, <1>6 DEF Crash, Handler
  <2> QED
    BY <2>1 DEF Confirmed, Booked
<1> QED
  BY <1>1, <1>4, <1>5, <1>6 DEF Next

\* A commit of a confirmation adds its request to those confirmed.
LEMMA CommitConfirms ==
    ASSUME IInv, NEW r \in Request, CommitBooking(r)
    PROVE  /\ ~Confirmed(r)
           /\ Confirmed(r)' <=> TakesSeat(handler[r].type)
           /\ \A q \in Request \ {r} : Confirmed(q)' = Confirmed(q)
<1>1. /\ call \in [Request -> [Stage -> Progress]] /\ "book" \in Stage
      /\ call[r]["book"] = "sent" /\ call' = [call EXCEPT ![r]["book"] = "valid"]
      /\ handler' = handler
  BY DEF IInv, TypeOK, CommitBooking, Lands, Stage
<1>2. ~Booked(r) /\ Booked(r)'
  BY <1>1 DEF Booked
<1>3. \A q \in Request \ {r} : Booked(q)' = Booked(q)
  BY <1>1 DEF Booked
<1>4. ~Confirmed(r) /\ (Confirmed(r)' <=> TakesSeat(handler[r].type))
  BY <1>1, <1>2 DEF Confirmed, TakesSeat
<1>5. \A q \in Request \ {r} : Confirmed(q)' = Confirmed(q)
  BY <1>1, <1>3 DEF Confirmed
<1> QED
  BY <1>4, <1>5

\* Those confirmed are finitely many, and each has its seat (proves SeatsTaken).
THEOREM ASeatEach == Spec => []SeatsTaken
<1> DEFINE taken == {r \in Request : Confirmed(r)}
           Inv == IsFiniteSet(taken) /\ Cardinality(taken) + free = Seats
<1>1. Init => Inv
  <2> SUFFICES ASSUME Init PROVE Inv
    OBVIOUS
  <2>1. taken = {} /\ free = Seats
    BY DEF Init, Confirmed, Booked, Stage
  <2> QED
    BY <2>1, FS_EmptySet, SeatsAssumption
<1>2. ASSUME IInv, Inv, [Next]_vars PROVE Inv'
  <2>1. CASE UNCHANGED vars
    <3>1. taken' = taken /\ free' = free
      BY <2>1 DEF vars, Confirmed, Booked
    <3> QED
      BY <1>2, <3>1
  <2>2. CASE Next /\ \A r \in Request : ~CommitBooking(r)
    <3>1. \A q \in Request : Confirmed(q)' = Confirmed(q)
      BY <1>2, <2>2, ConfirmedStays
    <3>2. taken' = taken /\ free' = free
      BY <2>2, <3>1, OthersLeaveSeats
    <3> QED
      BY <1>2, <3>2
  <2>3. ASSUME NEW r \in Request, CommitBooking(r) PROVE Inv'
    <3>1. /\ ~Confirmed(r) /\ (Confirmed(r)' <=> TakesSeat(handler[r].type))
          /\ \A q \in Request \ {r} : Confirmed(q)' = Confirmed(q)
      BY <1>2, <2>3, CommitConfirms
    <3>2. free \in Int /\ free' = IF TakesSeat(handler[r].type) THEN free - 1 ELSE free
      BY <1>2, <2>3, SeatsAssumption DEF CommitBooking, IInv, TypeOK
    <3>3. CASE TakesSeat(handler[r].type)
      <4>1. taken' = taken \cup {r} /\ r \notin taken
        BY <3>1, <3>3
      <4>2. IsFiniteSet(taken') /\ Cardinality(taken') = Cardinality(taken) + 1
        BY <1>2, <4>1, FS_AddElement
      <4>3. Cardinality(taken) \in Nat
        BY <1>2, FS_CardinalityType
      <4> QED
        BY <1>2, <3>2, <3>3, <4>2, <4>3, SeatsAssumption
    <3>4. CASE ~TakesSeat(handler[r].type)
      <4>1. taken' = taken /\ free' = free
        BY <3>1, <3>2, <3>4
      <4> QED
        BY <1>2, <4>1
    <3> QED
      BY <3>3, <3>4
  <2> QED
    BY <1>2, <2>1, <2>2, <2>3
<1>3. Inv => SeatsTaken
  BY DEF SeatsTaken
<1> HIDE DEF Inv
<1> QED
  BY <1>1, <1>2, <1>3, Invariance, PTL DEF Spec
=============================================================================
