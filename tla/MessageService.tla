--------------------------- MODULE MessageService ---------------------------
(***************************************************************************)
(* How the operator of a driver and the operator of a passenger hear of    *)
(* each other: the messages between them, kept in the database of a        *)
(* service, and the notices behind transactions, which go out once the     *)
(* transaction is on the ledger.  Both end in one HTTP call to the webhook *)
(* of an operator; whatever comes of it is the answer to the request.      *)
(*                                                                         *)
(* A request is named by its slot, and so is the message or the            *)
(* transaction it records: a retry is a request of its own.  Webhooks are  *)
(* enabled.  Endorsement and ordering are one step here: BookingService    *)
(* and SeatLedger have their details.                                      *)
(***************************************************************************)
CONSTANTS
    Operator,  \* operators, each with a webhook
    Pair,      \* pairs <<operator of the offer, operator of the passenger>> tried
    Request,   \* requests, the messages and the transactions they record
    Step,      \* transaction types tried
    State,     \* message states a PATCH may ask for
    NoMessage, \* an id no message has
    Absent, Idle

VARIABLES
    messages,  \* database: the state of each message
    ledger,    \* the transactions committed
    told,      \* webhooks: the operators that heard of each message or transaction
    statuses,  \* webhooks: the statuses of messages delivered, and to whom
    handlers   \* where the handler of each request is

store == <<messages, ledger>>
webhooks == <<told, statuses>>
vars == <<messages, ledger, told, statuses, handlers>>

-----------------------------------------------------------------------------
Transaction ==
    {"INSCRIPTION", "CONFIRMATION", "REJECTION", "PAYMENT", "TRIP_STARTED",
     "TRIP_ENDED", "BOOKING_CANCELLATION"}

ASSUME PairAssumption == Pair \subseteq Operator \X Operator
ASSUME StepAssumption == Step \subseteq Transaction
Status == {"none", "created", "sent", "seen", "deleted"}

ASSUME StateAssumption == State \subseteq Status
ASSUME NoneAssumption == NoMessage \notin Request /\ Absent \notin Status

\* Faulty variant: who sends a message or cancels is told of it.
ReceiverSelf(kind, from, pair) ==
    CASE kind \in {"LINKAGE", "BOOKING_CANCELLATION"} -> from
      [] kind \in {"CONFIRMATION", "REJECTION"} -> pair[2]
      [] OTHER -> pair[1]

\* Faulty variant: an enrolment has no receiver.
ReceiverNone(kind, from, pair) ==
    CASE kind = "INSCRIPTION" -> Absent
      [] kind \in {"LINKAGE", "BOOKING_CANCELLATION"} -> IF from = pair[1] THEN pair[2] ELSE pair[1]
      [] OTHER -> pair[2]

\* Who is told: of a message or a cancellation the other side, of what the driver
\* decides the passenger's operator, of the rest the offer's.
Receiver(kind, from, pair) ==
    CASE kind \in {"LINKAGE", "BOOKING_CANCELLATION"} -> IF from = pair[1] THEN pair[2] ELSE pair[1]
      [] kind \in {"CONFIRMATION", "REJECTION"} -> pair[2]
      [] OTHER -> pair[1]

\* updateOne filters on a field `id` that no document has: nothing matches.
Updated(id, s) == messages

Init ==
    /\ messages = [r \in Request |-> Absent]
    /\ ledger = {}
    /\ told = [r \in Request |-> {}]
    /\ statuses = {}
    /\ handlers = [r \in Request |-> Idle]

-----------------------------------------------------------------------------
At(r, where) == handlers[r] # Idle /\ handlers[r].at = where

Moves(r, to) == handlers' = [handlers EXCEPT ![r].at = to]

\* The webhook of an operator gets the call and answers, or only one of the two, or none.
Calls(r, delivered) ==
    \/ delivered /\ Moves(r, "answered")
    \/ delivered /\ Moves(r, "error")
    \/ UNCHANGED webhooks /\ Moves(r, "error")

(* POST /message.                                                          *)

Write(r, from, pair) ==
    /\ handlers[r] = Idle
    /\ handlers' = [handlers EXCEPT ![r] =
                     [at |-> "save", kind |-> "LINKAGE", from |-> from, pair |-> pair]]
    /\ UNCHANGED <<store, webhooks>>

Save(r) ==
    /\ At(r, "save")
    /\ \/ messages' = [messages EXCEPT ![r] = "created"] /\ Moves(r, "notify")
       \/ UNCHANGED messages /\ Moves(r, "error")
    /\ UNCHANGED <<ledger, webhooks>>

\* After the answer the message is to become "sent".
MarkSent(r) ==
    /\ At(r, "answered") /\ handlers[r].kind = "LINKAGE"
    /\ messages' = Updated(r, "sent")
    /\ Moves(r, "done")
    /\ UNCHANGED <<ledger, webhooks>>

(* POST /transaction.                                                      *)

Submit(r, kind, from, pair) ==
    /\ handlers[r] = Idle
    /\ handlers' = [handlers EXCEPT ![r] =
                     [at |-> "await", kind |-> kind, from |-> from, pair |-> pair]]
    /\ UNCHANGED <<store, webhooks>>

\* The transaction lands, whether anybody still waits for it or not.
Commit(r) ==
    /\ At(r, "await") \/ At(r, "late") \/ At(r, "dropped")
    /\ handlers[r].kind \in Step
    /\ r \notin ledger
    /\ ledger' = ledger \cup {r}
    /\ UNCHANGED <<messages, webhooks, handlers>>

\* It is rejected or discarded, or the timer of invoke() runs out first.
Fail(r) ==
    /\ At(r, "await")
    /\ \/ r \notin ledger /\ Moves(r, "error")
       \/ Moves(r, "late")
    /\ UNCHANGED <<store, webhooks>>

\* Faulty variant: the call is acknowledged as soon as it is ordered.
LandedOrSent(r) == TRUE

Landed(r) == r \in ledger

\* Notices only cross between operators.
Crosses(r) == handlers[r].pair[1] # handlers[r].pair[2]

Hear(r) ==
    /\ At(r, "await")
    /\ Landed(r)
    /\ Moves(r, IF Crosses(r) THEN "notify" ELSE "answered")
    /\ UNCHANGED <<store, webhooks>>

\* sendNotification, behind a message or a transaction.
Notify(r) ==
    /\ At(r, "notify")
    /\ LET h == handlers[r] IN
       Calls(r, told' = [told EXCEPT ![r] = @ \cup {Receiver(h.kind, h.from, h.pair)}]
                    /\ UNCHANGED statuses)
    /\ UNCHANGED store

(* PATCH /message/:idMessage.                                              *)

\* The ids of messages there are to know: from an answer or from a webhook.
Known == {r \in Request : handlers[r] # Idle /\ handlers[r].kind = "LINKAGE"
                            /\ (told[r] # {} \/ At(r, "done"))}

Patch(r, id, s) ==
    /\ handlers[r] = Idle
    /\ handlers' = [handlers EXCEPT ![r] = [at |-> "update", kind |-> "PATCH",
                                            about |-> id, state |-> s]]
    /\ UNCHANGED <<store, webhooks>>

\* updateOne goes through, or the database fails it: the inner catch answers 400.
Update(r) ==
    /\ At(r, "update")
    /\ \/ messages' = Updated(handlers[r].about, handlers[r].state) /\ Moves(r, "get")
       \/ UNCHANGED messages /\ Moves(r, "error")
    /\ UNCHANGED <<ledger, webhooks>>

\* Faulty variant of Exists: every id is taken for a message.
ExistsAny(id) == TRUE

Exists(id) == id \in Request /\ messages[id] # Absent

\* Message.get finds it, or throws: there is none, or the database fails.
Get(r) ==
    /\ At(r, "get")
    /\ \/ Exists(handlers[r].about) /\ Moves(r, "send status")
       \/ Moves(r, "error")
    /\ UNCHANGED <<store, webhooks>>

\* sendStatus: to the operator of the offer, whoever wrote the message.
SendStatus(r) ==
    /\ At(r, "send status")
    /\ LET h == handlers[r] IN
       Calls(r, statuses' = statuses \cup {[about |-> h.about, state |-> h.state]}
                    /\ UNCHANGED told)
    /\ UNCHANGED store

Over(r) == handlers[r] = Idle \/ handlers[r].at \in {"done", "error", "late", "dropped"}

\* The service stops: what its handlers had left to do is not done later.
Crash ==
    /\ \E r \in Request : ~Over(r)
    /\ handlers' = [r \in Request |->
                     IF Over(r) THEN handlers[r]
                     ELSE [handlers[r] EXCEPT !.at = IF @ = "answered" THEN "done" ELSE "dropped"]]
    /\ UNCHANGED <<store, webhooks>>

-----------------------------------------------------------------------------
\* The routes under /message.
Routed(r) ==
    \/ \E from \in Operator, pair \in Pair : Write(r, from, pair)
    \/ \E id \in Known \cup {NoMessage}, s \in State : Patch(r, id, s)

Next ==
    \/ \E r \in Request : Routed(r)
    \/ \E r \in Request, from \in Operator, pair \in Pair, kind \in Step :
        Submit(r, kind, from, pair)
    \/ \E r \in Request :
        \/ Save(r) \/ MarkSent(r) \/ Commit(r) \/ Fail(r) \/ Hear(r) \/ Notify(r)
        \/ Update(r) \/ Get(r) \/ SendStatus(r)
    \/ Crash

Spec == Init /\ [][Next]_vars

-----------------------------------------------------------------------------
(* Properties.                                                             *)

Post == [at : {"save", "await", "notify", "answered", "done", "error", "late", "dropped"},
         kind : Step \cup {"LINKAGE"}, from : Operator, pair : Pair]

Change == [at : {"update", "get", "send status", "answered", "done", "error", "dropped"},
           kind : {"PATCH"}, about : Request \cup {NoMessage}, state : State]

ASSUME SlotAssumption == Idle \notin Post \cup Change

\* Types.
TypeOK ==
    /\ messages \in [Request -> Status \cup {Absent}]
    /\ ledger \subseteq Request
    /\ told \in [Request -> SUBSET Operator]
    /\ statuses \subseteq [about : Request \cup {NoMessage}, state : State]
    /\ handlers \in [Request -> Post \cup Change \cup {Idle}]

Answered(r) == At(r, "answered") \/ At(r, "done")

\* No operator hears of a message that is not in the database, nor of a transaction
\* that is not on the ledger, whatever is late, lost or refused.
RecordedBeforeTold ==
    \A r \in Request : told[r] # {} => r \in ledger \/ messages[r] # Absent

\* The side whose move it is: bookings are asked for and paid on the passenger's,
\* decided on the driver's; both write messages and cancel.
ItsMove(kind, from, pair) ==
    CASE kind \in {"LINKAGE", "BOOKING_CANCELLATION"} -> from \in {pair[1], pair[2]}
      [] kind \in {"CONFIRMATION", "REJECTION"} -> from = pair[1]
      [] OTHER -> from = pair[2]

\* A move between two operators that is answered with success was told to the other
\* side, and to nobody else.
OtherSideTold ==
    \A r \in Request :
        Answered(r) /\ handlers[r].kind # "PATCH" =>
            LET h == handlers[r] IN
            Crosses(r) /\ ItsMove(h.kind, h.from, h.pair) =>
                told[r] = {h.pair[1], h.pair[2]} \ {h.from}

\* A status that reaches an operator is about a message that was forwarded before:
\* statuses do not overtake their message, and none is about an id that is not one.
StatusFollowsMessage ==
    \A s \in statuses : s.about \in Request /\ told[s.about] # {}

\* A PATCH that is answered with success has updated the message: its state is one that
\* a PATCH about it asked for, or the "sent" behind the answer of POST.
UpdatesAreStored ==
    \A r \in Request : Answered(r) /\ handlers[r].kind = "PATCH" =>
        LET id == handlers[r].about
            asked == {handlers[q].state : q \in {x \in Request : handlers[x] # Idle
                        /\ handlers[x].kind = "PATCH" /\ handlers[x].about = id}}
        IN  id \in Request /\ messages[id] \in asked \cup {"sent"}
=============================================================================
