----------------------------- MODULE ProofLife -----------------------------
(***************************************************************************)
(* The carpooling proofs of one trip: how the handlers behind confirmed    *)
(* bookings create them, how the operators upgrade them on the ledger once *)
(* the trip starts and ends, and what the registry of proofs (RNPC) would  *)
(* be told of them.                                                        *)
(*                                                                         *)
(* A proof is named by its trip and its user, without the role.  It is     *)
(* encrypted for the operator that writes it, while its metadata name the  *)
(* operator of the offer for good: the proxy re-encrypts it as if it were  *)
(* that operator's.  Each operator runs a service of its own, and calls    *)
(* the chaincodes with its own certificate; the operators' keys stay.      *)
(*                                                                         *)
(* Calls are endorsed, ordered and validated as FabricLedger says: an      *)
(* upgrade has read the proof it rewrites, a creation has looked for one   *)
(* that was not there, which leaves nothing to validate.                   *)
(***************************************************************************)
EXTENDS FabricLedger

CONSTANTS
    Operator,    \* carpool operators
    Owner,       \* the operator of the offer
    Delegated,   \* the operators the proxy has a re-encryption key of Owner for
    Driver,      \* the driver of the offer, a user of Owner
    Rider,       \* people who book seats
    Certified,   \* operators whose users RNPC accepts proofs of
    Home(_),     \* the operator of a user
    Handler,     \* confirmed bookings being proved
    Caller,      \* upgradeProof calls in flight
    Report,      \* pairs <<gps, phone>> an upgrade may bring
    MaxVersion,  \* bound: times a proof is written
    Absent, Idle,
    Ended        \* a handler that has returned

User == Rider \cup {Driver}

Gps == {"none", "unknown", "fix"}       \* not recorded, "undefined,undefined", a position

Phone == {"none", "0000000000", "number"}

ASSUME OwnerAssumption == Owner \in Operator /\ Delegated \subseteq Operator \ {Owner}
ASSUME HomeAssumption == Home(Driver) = Owner /\ \A u \in User : Home(u) \in Operator
\* An upgrade has to bring both, known or not.
Reportable == (Gps \ {"none"}) \X (Phone \ {"none"})

ASSUME ReportAssumption == Report \subseteq Reportable
ASSUME SlotAssumption == Handler \cap Caller = {} /\ MaxVersion \in Nat

VARIABLES
    proofs,   \* ledger: the proof of each user
    ver,      \* ledger: the version of each proof
    calls,    \* the endorsed call of each handler and caller, and how far it got
    handlers, \* createProof of the API, behind a booking: where it is
    jobs      \* the scheduled sendProof of <<handler, its operator>>, in memory

vars == <<proofs, ver, calls, handlers, jobs>>

-----------------------------------------------------------------------------
Role == {"driver", "passenger"}

Type == {"CONFIRMATION", "TRIP_STARTED", "TRIP_ENDED"}

Proof == [key : Operator, role : Role, type : Type,
          departure : Gps, arrival : Gps, phone : Phone]

\* What createProof writes: no positions yet, encrypted for the invoker.
NewProof(op, role) ==
    [key |-> op, role |-> role, type |-> "CONFIRMATION",
     departure |-> "none", arrival |-> "none", phone |-> "none"]

\* Faulty variant: the phone and the position are mixed up.
UpgradedSwapped(p, op, type, report) ==
    [p EXCEPT !.key = op, !.type = type, !.phone = report[1],
              !.departure = IF type = "TRIP_STARTED" THEN report[2] ELSE @,
              !.arrival = IF type = "TRIP_STARTED" THEN @ ELSE report[2]]

\* What upgradeProof makes of a proof it has read.
Upgraded(p, op, type, report) ==
    [p EXCEPT !.key = op, !.type = type, !.phone = report[2],
              !.departure = IF type = "TRIP_STARTED" THEN report[1] ELSE @,
              !.arrival = IF type = "TRIP_STARTED" THEN @ ELSE report[1]]

\* Owner gets the record as it is; for the others the proxy turns a capsule of
\* Owner's key into one of theirs.  A capsule of any other key opens for nobody.
Opens(op, p) == p.key = Owner /\ (op = Owner \/ op \in Delegated)

\* The proofs that queryProofByTrip, invoked by op, gets back from the proxy.
Delivered(op) ==
    IF op = Owner \/ op \in Delegated THEN {u \in User : proofs[u] # Absent} ELSE {}

\* One of them that does not open makes the whole query fail.
QueryFails(op) == \E u \in Delivered(op) : ~Opens(op, proofs[u])

\* op reads the proof of u alone, as queryProofById does and upgradeProof first.
ReadsById(op, u) ==
    proofs[u] # Absent /\ u \in Delivered(op) /\ Opens(op, proofs[u])

Holder(h) == IF handlers[h].role = "driver" THEN Driver ELSE handlers[h].rider

Init ==
    /\ proofs = [u \in User |-> Absent]
    /\ ver = [u \in User |-> 0]
    /\ calls = [c \in Handler \cup Caller |-> Idle]
    /\ handlers = [h \in Handler |-> Idle]
    /\ jobs = {}

-----------------------------------------------------------------------------
(* createProof of the API.                                                 *)

Running(h) == handlers[h] \notin {Idle, Ended}

Waits(h) == Running(h) /\ handlers[h].at = "await"

Ends(h) == handlers' = [handlers EXCEPT ![h] = Ended]

\* A service of op has confirmed a booking and goes on to prove it.
Confirm(h, op, u) ==
    /\ handlers[h] = Idle
    /\ handlers' = [handlers EXCEPT ![h] =
                     [at |-> "find", op |-> op, rider |-> u, role |-> "driver"]]
    /\ UNCHANGED <<proofs, ver, calls, jobs>>

\* No proofs delivered: the driver's comes first.  What fails is swallowed.
FindProofs(h) ==
    /\ Running(h) /\ handlers[h].at = "find"
    /\ LET op == handlers[h].op IN
       IF QueryFails(op) THEN Ends(h)
       ELSE handlers' = [handlers EXCEPT ![h].at = "submit", ![h].role =
                            IF Delivered(op) = {} THEN "driver" ELSE "passenger"]
    /\ UNCHANGED <<proofs, ver, calls, jobs>>

\* The chaincode refuses a second proof of one user, whatever its role.
CreateProof(h) ==
    /\ Running(h) /\ handlers[h].at = "submit"
    /\ IF proofs[Holder(h)] # Absent
       THEN Ends(h) /\ UNCHANGED calls
       ELSE /\ calls' = [calls EXCEPT ![h] =
                          [at |-> "sent", user |-> Holder(h), reads |-> Nothing,
                           writes |-> NewProof(handlers[h].op, handlers[h].role)]]
            /\ handlers' = [handlers EXCEPT ![h].at = "await"]
    /\ UNCHANGED <<proofs, ver, jobs>>

\* Faulty variant: the job does not wait for the call to be valid.
CommittedOrSent(c) == calls[c].at \in {"sent", "valid"}

Committed(c) == calls[c].at = "valid"

\* The event of the driver's proof schedules sendProof, then the passenger's is made.
Hear(h) ==
    /\ Waits(h)
    /\ Committed(h)
    /\ IF handlers[h].role = "driver"
       THEN /\ handlers' = [handlers EXCEPT ![h].at = "submit", ![h].role = "passenger"]
            /\ jobs' = jobs \cup {<<h, handlers[h].op>>}
       ELSE Ends(h) /\ UNCHANGED jobs
    /\ calls' = [calls EXCEPT ![h] = Idle]
    /\ UNCHANGED <<proofs, ver>>

\* The timer of invoke() runs out; the call may be committed all the same.
TimeOut(h) ==
    /\ Waits(h)
    /\ Ends(h)
    /\ calls' = [calls EXCEPT ![h] = IF Committed(h) THEN Idle ELSE @]
    /\ UNCHANGED <<proofs, ver, jobs>>

\* The end of the trip.  sendProof asks for the proofs by an idTrip, which the
\* schema of queryProofByTrip does not have: nothing is sent, the job is over.
SendProof(h, op) ==
    /\ <<h, op>> \in jobs
    /\ jobs' = jobs \ {<<h, op>>}
    /\ UNCHANGED <<proofs, ver, calls, handlers>>

\* The service of op restarts: its jobs and handlers are gone, its calls are not.
Restart(op) ==
    LET its == {h \in Handler : Running(h) /\ handlers[h].op = op} IN
    /\ its # {} \/ \E j \in jobs : j[2] = op
    /\ handlers' = [h \in Handler |-> IF h \in its THEN Ended ELSE handlers[h]]
    /\ jobs' = {j \in jobs : j[2] # op}
    /\ calls' = [c \in Handler \cup Caller |->
                    IF c \in its /\ calls[c] # Idle /\ Committed(c) THEN Idle ELSE calls[c]]
    /\ UNCHANGED <<proofs, ver>>

-----------------------------------------------------------------------------
(* The proofs chaincode.                                                   *)

\* Faulty variant: the proof is rewritten without having been read.
ReadByUpgradeNothing(u) == Nothing

\* What an upgrade has read, to be validated at its commit.
ReadByUpgrade(u) == [k \in {u} |-> ver[u]]

UpgradeProof(c, op, u, type, report) ==
    /\ calls[c] = Idle
    /\ ver[u] < MaxVersion
    /\ ReadsById(op, u)
    /\ calls' = [calls EXCEPT ![c] =
                  [at |-> "sent", user |-> u, reads |-> ReadByUpgrade(u),
                   writes |-> Upgraded(proofs[u], op, type, report)]]
    /\ UNCHANGED <<proofs, ver, handlers, jobs>>

\* A handler that waits will hear of the outcome, nobody else does.
Landed(c) ==
    IF c \in Handler /\ Waits(c) THEN [calls[c] EXCEPT !.at = "valid"] ELSE Idle

Commit(c) ==
    /\ calls[c] # Idle /\ calls[c].at = "sent"
    /\ ReadsCurrent(calls[c].reads, ver)
    /\ proofs' = [proofs EXCEPT ![calls[c].user] = calls[c].writes]
    /\ ver' = Bump(ver, {calls[c].user})
    /\ calls' = [calls EXCEPT ![c] = Landed(c)]
    /\ UNCHANGED <<handlers, jobs>>

\* A creation has read nothing it could be discarded for.
Discard(c) ==
    /\ calls[c] # Idle /\ calls[c].at = "sent"
    /\ ~ReadsCurrent(calls[c].reads, ver)
    /\ calls' = [calls EXCEPT ![c] = Idle]
    /\ UNCHANGED <<proofs, ver, handlers, jobs>>

-----------------------------------------------------------------------------
Prove(h) ==
    FindProofs(h) \/ CreateProof(h) \/ Hear(h) \/ TimeOut(h)
        \/ \E op \in Operator : SendProof(h, op)

Upgrade(c) ==
    \E op \in Operator, u \in User, type \in Type \ {"CONFIRMATION"}, report \in Report :
        UpgradeProof(c, op, u, type, report)

Next ==
    \/ \E h \in Handler, op \in Operator, u \in User : Confirm(h, op, u)
    \/ \E h \in Handler : Prove(h)
    \/ \E op \in Operator : Restart(op)
    \/ \E c \in Caller : Upgrade(c) \/ Discard(c)
    \/ \E c \in Handler \cup Caller : Commit(c)

Spec == Init /\ [][Next]_vars

-----------------------------------------------------------------------------
(* What RNPC would be told of a driver's and a passenger's proof.          *)

Valid(p, u) == Home(u) \in Certified /\ p.phone = "number"

Located(p) == p.departure = "fix" /\ p.arrival = "fix"

\* Faulty variant: every user counts for the class.
AddedUnlocated(r, p, u) ==
    IF ~Valid(p, u) THEN r
    ELSE [class |-> IF r.class = "A" THEN "B" ELSE "C", users |-> r.users \cup {u}]

\* createProofRnpcUser: a user without operator or phone is left out.
Added(r, p, u) ==
    IF ~Valid(p, u) THEN r
    ELSE [class |-> IF ~Located(p) THEN r.class ELSE IF r.class = "A" THEN "B" ELSE "C",
          users |-> r.users \cup {u}]

Rnpc(u) ==
    Added(Added([class |-> "A", users |-> {}], proofs[Driver], Driver), proofs[u], u)

\* getSortedProofs: the passengers, when both roles are there.
Passengers ==
    IF proofs[Driver] # Absent /\ proofs[Driver].role = "driver"
    THEN {u \in User : proofs[u] # Absent /\ proofs[u].role = "passenger"} ELSE {}

-----------------------------------------------------------------------------
(* Properties.                                                             *)

Read == {Nothing} \cup UNION {[{u} -> 0..MaxVersion] : u \in User}

Call == [at : {"sent", "valid"}, user : User, writes : Proof, reads : Read]

Task == [at : {"find", "submit", "await"}, op : Operator, rider : User, role : Role]

ASSUME NoneAssumption ==
    Absent \notin Proof /\ Idle \notin Call \cup Task /\ Ended \notin Task \cup {Idle}

\* Types.
TypeOK ==
    /\ proofs \in [User -> Proof \cup {Absent}]
    /\ ver \in [User -> Nat]
    /\ calls \in [Handler \cup Caller -> Call \cup {Idle}]
    /\ handlers \in [Handler -> Task \cup {Idle, Ended}]
    /\ jobs \subseteq Handler \X Operator

\* A proof that was never upgraded since it was created.
Fresh(p) == p = NewProof(p.key, p.role)

\* Upgrades of one proof by two operators at once, or of its start and its end out
\* of order, never lose a position that was recorded: the only step that takes one
\* away is a creation endorsed before the proof was there and committed after.
PositionsAccumulate ==
    [][\A u \in User : proofs[u] # Absent /\ ~Fresh(proofs'[u]) =>
        /\ proofs[u].departure # "none" => proofs'[u].departure # "none"
        /\ proofs[u].arrival # "none" => proofs'[u].arrival # "none"
        /\ proofs[u].role = proofs'[u].role]_vars

\* A passenger's trip that was reported started can be reported ended by the operators
\* POST /proof takes reports from, that of the offer and the passenger's own: each of
\* them still reads the proof, as upgradeProof does first.
StartedTripsCanEnd ==
    \A u \in Rider : proofs[u] # Absent /\ proofs[u].type = "TRIP_STARTED" =>
        \A op \in {Owner, Home(u)} \cap (Delegated \cup {Owner}) : ReadsById(op, u)

\* sendProof is scheduled behind a driver's proof that is on the ledger, whatever
\* became of the call of a handler that gave up or went down.
JobsFollowProofs == jobs # {} => proofs[Driver] # Absent

\* The class RNPC is told counts the users it is told of: "B" takes one and "C" both,
\* each with a start and an end position of their own.
ClassCountsUsers ==
    \A u \in Passengers :
        /\ Rnpc(u).class = "B" => \E w \in Rnpc(u).users : Located(proofs[w])
        /\ Rnpc(u).class = "C" =>
            Rnpc(u).users = {Driver, u} /\ Located(proofs[Driver]) /\ Located(proofs[u])

-----------------------------------------------------------------------------
(* The inductive invariant.                                                *)

\* An upgrade whose read is still current rewrites the proof that stands, and the
\* operator of the offer encrypted that one.
UpgradePlan(c) ==
    LET u == calls[c].user IN
    calls[c] # Idle /\ DOMAIN calls[c].reads # {} =>
        /\ DOMAIN calls[c].reads = {u}
        /\ calls[c].reads[u] <= ver[u]
        /\ calls[c].reads[u] = ver[u] =>
            /\ proofs[u] # Absent /\ proofs[u].key = Owner
            /\ \E op \in Operator, type \in Type \ {"CONFIRMATION"}, report \in Report :
                calls[c].writes = Upgraded(proofs[u], op, type, report)

\* What reads nothing creates; what was found valid is on the ledger.
CreationPlan(c) ==
    calls[c] # Idle =>
        /\ DOMAIN calls[c].reads = {} => Fresh(calls[c].writes)
        /\ calls[c].at = "valid" => proofs[calls[c].user] # Absent

\* The handler waits for the proof of the role it is at.
Awaits(h) ==
    /\ handlers[h] = Idle => calls[h] = Idle
    /\ Waits(h) =>
        calls[h] # Idle /\ calls[h].user = Holder(h)

\* The invariant TLAPS proves inductive.
IInv ==
    /\ TypeOK
    /\ JobsFollowProofs
    /\ \A c \in Handler \cup Caller : UpgradePlan(c) /\ CreationPlan(c)
    /\ \A h \in Handler : Awaits(h)
=============================================================================
