------------------------ MODULE MessageServiceProofs ------------------------
(***************************************************************************)
(* Proofs about MessageService, for any operators and pairs of them, any   *)
(* number of requests and any of the transaction types and states.         *)
(***************************************************************************)
EXTENDS MessageService, TLAPS

-----------------------------------------------------------------------------
(* The inductive invariant.                                                *)

\* Who the request of a handler tells, when it tells anybody.
Told(h) == {Receiver(h.kind, h.from, h.pair)}

\* Nothing was done yet in the name of a slot that is free or that changes a state.
Blank(r) == r \notin ledger /\ messages[r] = Absent /\ told[r] = {}

\* The slot of a message: when it is in the database, and who heard of it.
MessageInv(r) ==
    LET h == handlers[r] IN
    /\ h.at \notin {"await", "late"}
    /\ r \notin ledger
    /\ told[r] \in {{}, Told(h)}
    /\ h.at = "save" => messages[r] = Absent
    /\ h.at \in {"notify", "answered", "done"} => messages[r] # Absent
    /\ h.at \in {"save", "notify"} => told[r] = {}
    /\ h.at \in {"answered", "done"} => told[r] = Told(h)

\* The slot of a transaction: when it is on the ledger, and who heard of it.
StepInv(r) ==
    LET h == handlers[r] IN
    /\ h.at # "save"
    /\ messages[r] = Absent
    /\ told[r] \in {{}, Told(h)}
    /\ h.at \in {"notify", "answered", "done"} => r \in ledger
    /\ h.at \in {"await", "notify", "late", "dropped"} => told[r] = {}
    /\ h.at \in {"answered", "done"} /\ Crosses(r) => told[r] = Told(h)

\* The slot of a PATCH: it is about a message somebody heard of, or about none.
ChangeInv(r) ==
    LET h == handlers[r] IN
    /\ Blank(r)
    /\ h.about \in Request => told[h.about] # {}
    /\ h.at = "send status" => h.about \in Request

\* What is recorded and told in the name of a slot, at each point of its handler.
SlotInv(r) ==
    /\ handlers[r] = Idle => Blank(r)
    /\ handlers[r] # Idle =>
        /\ handlers[r].kind = "LINKAGE" => MessageInv(r)
        /\ handlers[r].kind \in Step => StepInv(r)
        /\ handlers[r].kind = "PATCH" => ChangeInv(r)

MessagesInv ==
    /\ TypeOK
    /\ RecordedBeforeTold
    /\ StatusFollowsMessage
    /\ \A r \in Request : SlotInv(r)

-----------------------------------------------------------------------------
(* Steps.                                                                  *)

\* A slot stays as it was when its own handler, message, transaction and webhook do,
\* and nothing told elsewhere is taken back.
LEMMA SlotStands ==
    ASSUME NEW q \in Request, SlotInv(q),
           handlers'[q] = handlers[q], messages'[q] = messages[q], told'[q] = told[q],
           q \in ledger' <=> q \in ledger,
           \A m \in Request : told[m] # {} => told'[m] # {}
    PROVE  SlotInv(q)'
  BY DEF SlotInv, Blank, MessageInv, StepInv, ChangeInv, Told, Crosses

\* A step of one handler keeps the invariant when it keeps the part of its own slot.
LEMMA OneSlotMoves ==
    ASSUME MessagesInv, NEW r \in Request,
           TypeOK',
           \A q \in Request \ {r} : /\ handlers'[q] = handlers[q]
                                    /\ messages'[q] = messages[q]
                                    /\ told'[q] = told[q]
                                    /\ q \in ledger' <=> q \in ledger,
           told[r] \subseteq told'[r],
           SlotInv(r)',
           told'[r] # {} => r \in ledger' \/ messages'[r] # Absent,
           statuses' # statuses => StatusFollowsMessage'
    PROVE  MessagesInv'
<1>1. \A m \in Request : told[m] # {} => told'[m] # {}
  OBVIOUS
<1>2. ASSUME NEW q \in Request PROVE SlotInv(q)'
  <2>1. CASE q # r
    BY <1>1, <2>1, SlotStands DEF MessagesInv
  <2> QED
    BY <2>1
<1>3. RecordedBeforeTold'
  BY DEF MessagesInv, RecordedBeforeTold
<1>4. StatusFollowsMessage'
  BY <1>1 DEF MessagesInv, StatusFollowsMessage
<1> QED
  BY <1>2, <1>3, <1>4 DEF MessagesInv

\* The handler of a slot in progress is one of those of the three routes.
LEMMA Kinds ==
    ASSUME TypeOK, NEW r \in Request, handlers[r] # Idle
    PROVE  /\ handlers[r].kind = "PATCH" => handlers[r] \in Change
           /\ handlers[r].kind # "PATCH" => handlers[r] \in Post
           /\ handlers[r].kind \in {"LINKAGE", "PATCH"} \cup Step
           /\ "LINKAGE" \notin Step /\ "PATCH" \notin Step
  BY StepAssumption DEF TypeOK, Post, Change, Transaction

\* Who is told of a message or a transaction is one of its two operators.
LEMMA ReceiverIsOperator ==
    ASSUME NEW h \in Post
    PROVE  Receiver(h.kind, h.from, h.pair) \in Operator
  BY PairAssumption DEF Post, Receiver

\* What the webhook of a post leaves: the receiver told and an answer or an error, or
\* only an error.
LEMMA NotifyPreserves ==
    ASSUME MessagesInv, NEW r \in Request, Notify(r)
    PROVE  MessagesInv'
<1> DEFINE h == handlers[r]
<1>1. /\ h # Idle /\ h.at = "notify" /\ UNCHANGED <<messages, ledger, statuses>>
      /\ \/ told' = [told EXCEPT ![r] = @ \cup Told(h)]
            /\ \E to \in {"answered", "error"} : handlers' = [handlers EXCEPT ![r].at = to]
         \/ told' = told /\ handlers' = [handlers EXCEPT ![r].at = "error"]
  BY DEF Notify, At, Calls, Moves, store, webhooks, Told
<1>2. TypeOK /\ SlotInv(r) /\ told[r] \in SUBSET Operator
  BY DEF MessagesInv, TypeOK
<1>3. h \in Post /\ h.kind \in {"LINKAGE"} \cup Step /\ "LINKAGE" \notin Step
  <2>1. h \in Change \/ h \in Post
    BY <1>1, <1>2 DEF TypeOK
  <2>2. h \notin Change
    BY <1>1 DEF Change
  <2> QED
    BY <2>1, <2>2, StepAssumption DEF Post, Transaction
<1>4. /\ handlers'[r].at \in {"answered", "error"}
      /\ handlers'[r] \in Post /\ handlers'[r] # Idle
      /\ handlers'[r].kind = h.kind /\ Told(handlers'[r]) = Told(h)
      /\ Crosses(r)' <=> Crosses(r)
  BY <1>1, <1>2, <1>3, SlotAssumption DEF TypeOK, Post, Told, Crosses
<1>5. told[r] = {} /\ (r \in ledger \/ messages[r] # Absent)
  BY <1>1, <1>2, <1>3 DEF SlotInv, MessageInv, StepInv
<1>6. told'[r] \in {{}, Told(h)} /\ (handlers'[r].at = "answered" => told'[r] = Told(h))
  <2>1. CASE told' = [told EXCEPT ![r] = @ \cup Told(h)]
    <3>1. told'[r] = told[r] \cup Told(h)
      BY <1>2, <2>1 DEF TypeOK
    <3> QED
      BY <1>5, <3>1
  <2>2. CASE told' = told /\ handlers' = [handlers EXCEPT ![r].at = "error"]
    <3>1. handlers'[r].at = "error"
      BY <1>2, <1>3, <2>2 DEF TypeOK, Post
    <3> QED
      BY <1>5, <2>2, <3>1
  <2> QED
    BY <1>1, <2>1, <2>2
<1>7. \A q \in Request \ {r} : handlers'[q] = handlers[q] /\ told'[q] = told[q]
  BY <1>1, <1>2 DEF TypeOK
<1>8. TypeOK'
  <2>1. Told(h) \subseteq Operator
    BY <1>3, ReceiverIsOperator DEF Told
  <2>2. told' \in [Request -> SUBSET Operator]
    BY <1>1, <1>2, <2>1 DEF TypeOK
  <2>3. handlers' \in [Request -> Post \cup Change \cup {Idle}]
    BY <1>1, <1>2, <1>4 DEF TypeOK
  <2> QED
    BY <1>1, <1>2, <2>2, <2>3 DEF TypeOK
<1>9. SlotInv(r)'
  <2>1. CASE h.kind = "LINKAGE"
    <3>1. r \notin ledger /\ messages[r] # Absent
      BY <1>1, <1>2, <2>1 DEF SlotInv, MessageInv
    <3> QED
      BY <1>1, <1>3, <1>4, <1>6, <2>1, <3>1 DEF SlotInv, MessageInv
  <2>2. CASE h.kind \in Step
    <3>1. r \in ledger /\ messages[r] = Absent
      BY <1>1, <1>2, <2>2 DEF SlotInv, StepInv
    <3>2. h.kind # "PATCH"
      BY <2>2, StepAssumption DEF Transaction
    <3> QED
      BY <1>1, <1>3, <1>4, <1>6, <2>2, <3>1, <3>2, StepAssumption
         DEF SlotInv, StepInv, Transaction
  <2> QED
    BY <1>3, <2>1, <2>2
<1> QED
  BY <1>1, <1>5, <1>7, <1>8, <1>9, OneSlotMoves

\* A free slot takes a request: nothing is recorded or told yet.
LEMMA ReceivePreserves ==
    ASSUME MessagesInv, NEW r \in Request, handlers[r] = Idle,
           NEW h \in Post \cup Change,
           handlers' = [handlers EXCEPT ![r] = h],
           h.kind = "LINKAGE" => h.at = "save",
           h.kind \in Step => h.at = "await",
           h \in Change => h.at = "update" /\ (h.about \in Request => told[h.about] # {}),
           UNCHANGED <<store, webhooks>>
    PROVE  MessagesInv'
<1>1. UNCHANGED <<messages, ledger, told, statuses>>
  BY DEF store, webhooks
<1>2. TypeOK /\ Blank(r)
  BY DEF MessagesInv, SlotInv
<1>3. handlers'[r] = h /\ h # Idle
  BY <1>2, SlotAssumption DEF TypeOK
<1>4. TypeOK'
  BY <1>1, <1>2 DEF TypeOK
<1>5. SlotInv(r)'
  <2>1. CASE h \in Change
    BY <1>1, <1>2, <1>3, <2>1, StepAssumption
       DEF SlotInv, ChangeInv, Blank, Change, Transaction
  <2>2. CASE h \in Post
    BY <1>1, <1>2, <1>3, <2>2, StepAssumption
       DEF SlotInv, MessageInv, StepInv, Blank, Post, Transaction
  <2> QED
    BY <2>1, <2>2
<1>6. \A q \in Request \ {r} : handlers'[q] = handlers[q]
  BY <1>2 DEF TypeOK
<1> QED
  BY <1>1, <1>2, <1>4, <1>5, <1>6, OneSlotMoves DEF Blank

LEMMA RequestPreserves ==
    ASSUME MessagesInv, NEW r \in Request,
           \/ Routed(r)
           \/ \E from \in Operator, pair \in Pair, kind \in Step : Submit(r, kind, from, pair)
    PROVE  MessagesInv'
<1>1. ASSUME NEW from \in Operator, NEW pair \in Pair, Write(r, from, pair)
      PROVE  MessagesInv'
  <2> DEFINE h == [at |-> "save", kind |-> "LINKAGE", from |-> from, pair |-> pair]
  <2>1. h \in Post /\ h \notin Change
    BY StepAssumption DEF Post, Change
  <2>2. "LINKAGE" \notin Step
    BY StepAssumption DEF Transaction
  <2> QED
    BY <1>1, <2>1, <2>2, ReceivePreserves DEF Write
<1>2. ASSUME NEW from \in Operator, NEW pair \in Pair, NEW kind \in Step,
             Submit(r, kind, from, pair)
      PROVE  MessagesInv'
  <2> DEFINE h == [at |-> "await", kind |-> kind, from |-> from, pair |-> pair]
  <2>1. h \in Post /\ h \notin Change /\ kind # "LINKAGE"
    BY StepAssumption DEF Post, Change, Transaction
  <2> QED
    BY <1>2, <2>1, ReceivePreserves DEF Submit
<1>3. ASSUME NEW id \in Known \cup {NoMessage}, NEW s \in State, Patch(r, id, s)
      PROVE  MessagesInv'
  <2> DEFINE h == [at |-> "update", kind |-> "PATCH", about |-> id, state |-> s]
  <2>1. h \in Change /\ h \notin Post
    BY StepAssumption DEF Post, Change, Known, Transaction
  <2>2. ASSUME id \in Request PROVE told[id] # {}
    <3>1. id \in Known
      BY <2>2, NoneAssumption
    <3>2. handlers[id] # Idle /\ handlers[id].kind = "LINKAGE" /\ SlotInv(id)
      BY <2>2, <3>1 DEF Known, MessagesInv
    <3>3. handlers[id].at = "done" => told[id] # {}
      BY <3>2 DEF SlotInv, MessageInv, Told
    <3> QED
      BY <3>1, <3>3 DEF Known, At
  <2>3. "PATCH" \notin Step
    BY StepAssumption DEF Transaction
  <2> QED
    BY <1>3, <2>1, <2>2, <2>3, ReceivePreserves DEF Patch
<1> QED
  BY <1>1, <1>2, <1>3 DEF Routed

\* A handler that moves on keeps its request.
LEMMA MovesOn ==
    ASSUME MessagesInv, NEW r \in Request, handlers[r] # Idle, NEW to,
           \/ /\ handlers[r].kind # "PATCH"
              /\ to \in {"notify", "answered", "done", "error", "late", "dropped"}
           \/ /\ handlers[r].kind = "PATCH"
              /\ to \in {"get", "send status", "answered", "done", "error", "dropped"},
           Moves(r, to)
    PROVE  /\ handlers'[r] \in Post \cup Change /\ handlers'[r] # Idle
           /\ handlers'[r].at = to /\ handlers'[r].kind = handlers[r].kind
           /\ handlers[r].kind # "PATCH" =>
                Told(handlers'[r]) = Told(handlers[r]) /\ (Crosses(r)' <=> Crosses(r))
           /\ handlers[r].kind = "PATCH" => handlers'[r].about = handlers[r].about
           /\ \A q \in Request \ {r} : handlers'[q] = handlers[q]
           /\ handlers' \in [Request -> Post \cup Change \cup {Idle}]
<1>1. handlers'[r] = [handlers[r] EXCEPT !.at = to]
      /\ \A q \in Request \ {r} : handlers'[q] = handlers[q]
  BY DEF MessagesInv, TypeOK, Moves
<1>2. CASE handlers[r].kind = "PATCH"
  <2>1. handlers[r] \in Change
    BY <1>2, Kinds DEF MessagesInv
  <2>2. handlers'[r] \in Change
    BY <1>1, <1>2, <2>1 DEF Change
  <2> QED
    BY <1>1, <1>2, <2>1, <2>2, SlotAssumption DEF MessagesInv, TypeOK, Moves, Change
<1>3. CASE handlers[r].kind # "PATCH"
  <2>1. handlers[r] \in Post
    BY <1>3, Kinds DEF MessagesInv
  <2>2. handlers'[r] \in Post
    BY <1>1, <1>3, <2>1 DEF Post
  <2> QED
    BY <1>1, <1>3, <2>1, <2>2, SlotAssumption
       DEF MessagesInv, TypeOK, Moves, Post, Told, Crosses
<1> QED
  BY <1>2, <1>3

\* A message is written once, by the handler whose slot names it.
LEMMA SavePreserves ==
    ASSUME MessagesInv, NEW r \in Request, Save(r)
    PROVE  MessagesInv'
<1>1. /\ TypeOK /\ SlotInv(r) /\ handlers[r] # Idle /\ handlers[r].at = "save"
      /\ UNCHANGED <<ledger, told, statuses>>
  BY DEF MessagesInv, Save, At, webhooks
<1>2. handlers[r].kind = "LINKAGE"
  <2>1. handlers[r] \in Post
    BY <1>1 DEF TypeOK, Change
  <2>2. ASSUME handlers[r].kind \in Step PROVE FALSE
    BY <1>1, <2>2 DEF MessagesInv, SlotInv, StepInv
  <2> QED
    BY <2>1, <2>2 DEF Post
<1>3. MessageInv(r) /\ messages[r] = Absent /\ told[r] = {} /\ r \notin ledger
  BY <1>1, <1>2 DEF SlotInv, MessageInv
<1>4. \A q \in Request \ {r} : messages'[q] = messages[q]
  BY <1>1 DEF Save, TypeOK
<1>5. PICK to \in {"notify", "error"} :
        /\ Moves(r, to) /\ messages' \in [Request -> Status \cup {Absent}]
        /\ to = "notify" => messages'[r] = "created"
  BY <1>1, NoneAssumption DEF Save, TypeOK, Status
<1>6. /\ handlers'[r] # Idle /\ handlers'[r].at = to /\ handlers'[r].kind = "LINKAGE"
      /\ Told(handlers'[r]) = Told(handlers[r])
      /\ \A q \in Request \ {r} : handlers'[q] = handlers[q]
      /\ handlers' \in [Request -> Post \cup Change \cup {Idle}]
  BY <1>1, <1>2, <1>5, MovesOn
<1>7. TypeOK'
  BY <1>1, <1>5, <1>6 DEF TypeOK
<1>8. SlotInv(r)'
  BY <1>1, <1>3, <1>5, <1>6, StepAssumption, NoneAssumption
     DEF SlotInv, MessageInv, Transaction, Status
<1> QED
  BY <1>1, <1>3, <1>4, <1>6, <1>7, <1>8, OneSlotMoves

\* After an answer nothing is written: updateOne finds no document.
LEMMA MarkSentPreserves ==
    ASSUME MessagesInv, NEW r \in Request, MarkSent(r)
    PROVE  MessagesInv'
<1>1. /\ TypeOK /\ SlotInv(r) /\ handlers[r] # Idle /\ handlers[r].at = "answered"
      /\ handlers[r].kind = "LINKAGE" /\ Moves(r, "done")
      /\ UNCHANGED <<messages, ledger, told, statuses>>
  BY DEF MessagesInv, MarkSent, At, webhooks, Updated
<1>2. /\ handlers'[r] # Idle /\ handlers'[r].at = "done" /\ handlers'[r].kind = "LINKAGE"
      /\ Told(handlers'[r]) = Told(handlers[r])
      /\ \A q \in Request \ {r} : handlers'[q] = handlers[q]
      /\ handlers' \in [Request -> Post \cup Change \cup {Idle}]
  BY <1>1, MovesOn
<1>3. TypeOK'
  BY <1>1, <1>2 DEF TypeOK
<1>4. SlotInv(r)'
  BY <1>1, <1>2, StepAssumption DEF SlotInv, MessageInv, Transaction
<1> QED
  BY <1>1, <1>2, <1>3, <1>4, OneSlotMoves DEF MessagesInv, RecordedBeforeTold

\* A transaction may land after its handler gave up; it is recorded, and nobody told.
LEMMA CommitPreserves ==
    ASSUME MessagesInv, NEW r \in Request, Commit(r)
    PROVE  MessagesInv'
<1>1. /\ TypeOK /\ SlotInv(r) /\ handlers[r] # Idle /\ handlers[r].kind \in Step
      /\ ledger' = ledger \cup {r}
      /\ UNCHANGED <<messages, told, statuses, handlers>>
  BY DEF MessagesInv, Commit, At, webhooks
<1>2. TypeOK'
  BY <1>1 DEF TypeOK
<1>3. SlotInv(r)'
  BY <1>1, StepAssumption DEF SlotInv, StepInv, Transaction, Told, Crosses
<1> QED
  BY <1>1, <1>2, <1>3, OneSlotMoves

\* A handler behind a transaction goes on to tell the other operator only when the
\* transaction is on the ledger.
LEMMA AwaitPreserves ==
    ASSUME MessagesInv, NEW r \in Request, Fail(r) \/ Hear(r)
    PROVE  MessagesInv'
<1>1. /\ TypeOK /\ SlotInv(r) /\ handlers[r] # Idle /\ handlers[r].at = "await"
      /\ UNCHANGED <<messages, ledger, told, statuses>>
  BY DEF MessagesInv, Fail, Hear, At, store, webhooks
<1>2. handlers[r].kind \in Step /\ handlers[r].kind \notin {"LINKAGE", "PATCH"}
  <2>1. handlers[r] \in Post
    BY <1>1 DEF TypeOK, Change
  <2>2. handlers[r].kind # "LINKAGE"
    BY <1>1 DEF SlotInv, MessageInv
  <2> QED
    BY <2>1, <2>2, StepAssumption DEF Post, Transaction
<1>3. StepInv(r) /\ told[r] = {}
  BY <1>1, <1>2 DEF SlotInv, StepInv
<1>4. PICK to \in {"error", "late", "notify", "answered"} :
        /\ Moves(r, to)
        /\ to \in {"notify", "answered"} => r \in ledger
        /\ to = "answered" => ~Crosses(r)
  BY DEF Fail, Hear, Landed
<1>5. /\ handlers'[r] # Idle /\ handlers'[r].at = to
      /\ handlers'[r].kind = handlers[r].kind
      /\ Told(handlers'[r]) = Told(handlers[r]) /\ (Crosses(r)' <=> Crosses(r))
      /\ \A q \in Request \ {r} : handlers'[q] = handlers[q]
      /\ handlers' \in [Request -> Post \cup Change \cup {Idle}]
  BY <1>1, <1>2, <1>4, MovesOn
<1>6. TypeOK'
  BY <1>1, <1>5 DEF TypeOK
<1>7. SlotInv(r)'
  BY <1>1, <1>2, <1>3, <1>4, <1>5 DEF SlotInv, StepInv
<1> QED
  BY <1>1, <1>3, <1>5, <1>6, <1>7, OneSlotMoves

\* A PATCH tells a status only of a message that is in the database.
LEMMA ChangePreserves ==
    ASSUME MessagesInv, NEW r \in Request, Update(r) \/ Get(r) \/ SendStatus(r)
    PROVE  MessagesInv'
<1>1. /\ TypeOK /\ SlotInv(r) /\ handlers[r] # Idle
      /\ handlers[r].at \in {"update", "get", "send status"}
      /\ UNCHANGED <<messages, ledger, told>>
  BY DEF MessagesInv, Update, Get, SendStatus, Calls, At, store, webhooks, Updated
<1>2. handlers[r].kind = "PATCH" /\ handlers[r] \in Change
  BY <1>1, Kinds DEF Post
<1>3. ChangeInv(r) /\ Blank(r)
  BY <1>1, <1>2 DEF SlotInv, ChangeInv
<1>4. PICK to \in {"get", "send status", "error", "answered"} :
        /\ Moves(r, to)
        /\ to = "send status" => handlers[r].about \in Request
  BY DEF Update, Get, SendStatus, Calls, Exists
<1>5. /\ handlers'[r] # Idle /\ handlers'[r].at = to /\ handlers'[r].kind = "PATCH"
      /\ handlers'[r].about = handlers[r].about
      /\ \A q \in Request \ {r} : handlers'[q] = handlers[q]
      /\ handlers' \in [Request -> Post \cup Change \cup {Idle}]
  BY <1>1, <1>2, <1>4, MovesOn
<1>6. statuses' = statuses
      \/ /\ handlers[r].at = "send status"
         /\ statuses' = statuses \cup {[about |-> handlers[r].about, state |-> handlers[r].state]}
  BY DEF Update, Get, SendStatus, Calls, At, webhooks
<1>7. TypeOK'
  <2>1. handlers[r].about \in Request \cup {NoMessage} /\ handlers[r].state \in State
    BY <1>2 DEF Change
  <2>2. [about |-> handlers[r].about, state |-> handlers[r].state]
          \in [about : Request \cup {NoMessage}, state : State]
    BY <2>1
  <2>3. statuses' \subseteq [about : Request \cup {NoMessage}, state : State]
    BY <1>1, <1>6, <2>2 DEF TypeOK
  <2> QED
    BY <1>1, <1>5, <2>3 DEF TypeOK
<1>8. SlotInv(r)'
  BY <1>1, <1>3, <1>4, <1>5, StepAssumption DEF SlotInv, ChangeInv, Blank, Transaction
<1>9. statuses' # statuses => StatusFollowsMessage'
  <2>1. handlers[r].at = "send status" =>
          handlers[r].about \in Request /\ told[handlers[r].about] # {}
    BY <1>3 DEF ChangeInv
  <2>2. ASSUME NEW s \in statuses', statuses' # statuses
        PROVE  s.about \in Request /\ told'[s.about] # {}
    <3>1. CASE s \in statuses
      BY <1>1, <3>1 DEF MessagesInv, StatusFollowsMessage
    <3>2. CASE s \notin statuses
      <4>1. s = [about |-> handlers[r].about, state |-> handlers[r].state]
            /\ handlers[r].at = "send status"
        BY <1>6, <2>2, <3>2
      <4>2. s.about = handlers[r].about
        BY <4>1
      <4> QED
        BY <1>1, <2>1, <4>1, <4>2
    <3> QED
      BY <3>1, <3>2
  <2> QED
    BY <2>2 DEF StatusFollowsMessage
<1> QED
  BY <1>1, <1>3, <1>5, <1>7, <1>8, <1>9, OneSlotMoves DEF Blank

\* A stop of the service takes nothing back that was recorded or told.
LEMMA CrashPreserves ==
    ASSUME MessagesInv, Crash
    PROVE  MessagesInv'
<1>1. TypeOK /\ UNCHANGED <<messages, ledger, told, statuses>>
  BY DEF MessagesInv, Crash, store, webhooks
<1>2. ASSUME NEW r \in Request
      PROVE  SlotInv(r)' /\ handlers'[r] \in Post \cup Change \cup {Idle}
  <2>1. SlotInv(r)
    BY DEF MessagesInv
  <2>2. CASE Over(r)
    <3>1. handlers'[r] = handlers[r]
      BY <2>2 DEF Crash
    <3> QED
      BY <1>1, <2>1, <3>1, SlotStands DEF TypeOK
  <2>3. CASE ~Over(r)
    <3> DEFINE h == handlers[r]
    <3>1. h # Idle /\ h.at \notin {"done", "error", "late", "dropped"}
      BY <2>3 DEF Over
    <3>2. handlers'[r] = [h EXCEPT !.at = IF @ = "answered" THEN "done" ELSE "dropped"]
      BY <2>3 DEF Crash
    <3>3. CASE h \in Post
      <4>1. /\ handlers'[r] \in Post /\ handlers'[r].kind = h.kind
            /\ handlers'[r].at = IF h.at = "answered" THEN "done" ELSE "dropped"
            /\ Told(handlers'[r]) = Told(h) /\ (Crosses(r)' <=> Crosses(r))
        BY <3>2, <3>3 DEF Post, Told, Crosses
      <4>2. handlers'[r] # Idle /\ h.kind \in {"LINKAGE"} \cup Step /\ h.kind # "PATCH"
        BY <3>3, <4>1, SlotAssumption, StepAssumption DEF Post, Transaction
      <4>3. CASE h.kind = "LINKAGE"
        <5>1. MessageInv(r)
          BY <2>1, <3>1, <4>3 DEF SlotInv
        <5> QED
          BY <1>1, <4>1, <4>2, <4>3, <5>1, StepAssumption DEF SlotInv, MessageInv, Transaction
      <4>4. CASE h.kind \in Step
        <5>1. StepInv(r) /\ h.kind # "LINKAGE"
          BY <2>1, <3>1, <4>4, StepAssumption DEF SlotInv, Transaction
        <5>2. h.at \in {"await", "notify", "answered"}
          BY <3>1, <3>3, <5>1 DEF Post, StepInv
        <5> QED
          BY <1>1, <4>1, <4>2, <5>1, <5>2 DEF SlotInv, StepInv
      <4> QED
        BY <4>2, <4>3, <4>4
    <3>4. CASE h \in Change
      <4>1. /\ handlers'[r] \in Change /\ handlers'[r].kind = "PATCH"
            /\ handlers'[r].at \in {"done", "dropped"} /\ handlers'[r].about = h.about
        BY <3>2, <3>4 DEF Change
      <4>2. handlers'[r] # Idle /\ ChangeInv(r)
        BY <2>1, <3>1, <3>4, <4>1, SlotAssumption DEF SlotInv, Change
      <4> QED
        BY <1>1, <4>1, <4>2, StepAssumption DEF SlotInv, ChangeInv, Blank, Transaction
    <3> QED
      BY <1>1, <3>1, <3>3, <3>4 DEF TypeOK
  <2> QED
    BY <2>2, <2>3
<1>3. TypeOK'
  <2>1. DOMAIN handlers' = Request /\ handlers' = [r \in Request |-> handlers'[r]]
    BY DEF Crash
  <2> QED
    BY <1>1, <1>2, <2>1 DEF TypeOK
<1>4. RecordedBeforeTold' /\ StatusFollowsMessage'
  BY <1>1 DEF MessagesInv, RecordedBeforeTold, StatusFollowsMessage
<1> QED
  BY <1>2, <1>3, <1>4 DEF MessagesInv

-----------------------------------------------------------------------------
LEMMA NextPreserves == MessagesInv /\ [Next]_vars => MessagesInv'
<1> SUFFICES ASSUME MessagesInv, [Next]_vars PROVE MessagesInv'
  OBVIOUS
<1>1. ASSUME NEW r \in Request,
             \/ Routed(r)
             \/ \E from \in Operator, pair \in Pair, kind \in Step : Submit(r, kind, from, pair)
      PROVE  MessagesInv'
  BY <1>1, RequestPreserves
<1>2. ASSUME NEW r \in Request,
             Save(r) \/ MarkSent(r) \/ Commit(r) \/ Fail(r) \/ Hear(r) \/ Notify(r)
      PROVE  MessagesInv'
  BY <1>2, SavePreserves, MarkSentPreserves, CommitPreserves, AwaitPreserves, NotifyPreserves
<1>3. ASSUME NEW r \in Request, Update(r) \/ Get(r) \/ SendStatus(r)
      PROVE  MessagesInv'
  BY <1>3, ChangePreserves
<1>4. CASE Crash
  BY <1>4, CrashPreserves
<1>5. CASE UNCHANGED vars
  BY <1>5, SlotStands
     DEF vars, MessagesInv, TypeOK, RecordedBeforeTold, StatusFollowsMessage
<1> QED
  BY <1>1, <1>2, <1>3, <1>4, <1>5 DEF Next

\* The invariant is inductive: what a slot has recorded and told is determined by the
\* point its handler has reached, whatever the webhooks, the ledger and stops do.
THEOREM Invariance == Spec => []MessagesInv
<1>1. Init => MessagesInv
  BY DEF Init, MessagesInv, TypeOK, RecordedBeforeTold, StatusFollowsMessage, SlotInv, Blank
<1> QED
  BY <1>1, NextPreserves, PTL DEF Spec

\* Handlers stay in the states of the two controllers (proves TypeOK).
THEOREM TypeCorrect == Spec => []TypeOK
<1>1. MessagesInv => TypeOK
  BY DEF MessagesInv
<1> QED
  BY <1>1, Invariance, PTL

\* Nobody hears of what is not recorded (proves RecordedBeforeTold).
THEOREM RecordedFirst == Spec => []RecordedBeforeTold
<1>1. MessagesInv => RecordedBeforeTold
  BY DEF MessagesInv
<1> QED
  BY <1>1, Invariance, PTL

\* A move answered with success was told to the other side and nobody else
\* (proves OtherSideTold).
THEOREM OtherSideHears == Spec => []OtherSideTold
<1>1. MessagesInv => OtherSideTold
  <2> SUFFICES ASSUME MessagesInv, NEW r \in Request, Answered(r), handlers[r].kind # "PATCH",
                      Crosses(r),
                      ItsMove(handlers[r].kind, handlers[r].from, handlers[r].pair)
               PROVE  told[r] = {handlers[r].pair[1], handlers[r].pair[2]} \ {handlers[r].from}
    BY DEF OtherSideTold
  <2> DEFINE h == handlers[r]
  <2>1. h # Idle /\ h.at \in {"answered", "done"} /\ h \in Post /\ SlotInv(r)
    BY Kinds DEF MessagesInv, Answered, At
  <2>2. h.kind \in {"LINKAGE"} \cup Step
    BY <2>1 DEF Post
  <2>3. told[r] = Told(h)
    BY <2>1, <2>2 DEF SlotInv, MessageInv, StepInv
  <2>4. Told(h) = {h.pair[1], h.pair[2]} \ {h.from}
    BY DEF Told, Receiver, ItsMove, Crosses
  <2> QED
    BY <2>3, <2>4
<1> QED
  BY <1>1, Invariance, PTL

\* Statuses do not overtake their message (proves StatusFollowsMessage).
THEOREM StatusesFollow == Spec => []StatusFollowsMessage
<1>1. MessagesInv => StatusFollowsMessage
  BY DEF MessagesInv
<1> QED
  BY <1>1, Invariance, PTL

=============================================================================
