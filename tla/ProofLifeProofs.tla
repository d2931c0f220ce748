--------------------------- MODULE ProofLifeProofs ---------------------------
(***************************************************************************)
(* Proofs about ProofLife, for any operators, riders, handlers and calls   *)
(* in flight: the inductive invariant, and what commits may do to a proof. *)
(***************************************************************************)
EXTENDS ProofLife, TLAPS

Slot == Handler \cup Caller

\* What the two kinds of writes write.
LEMMA NewProofIsProof ==
    ASSUME NEW op \in Operator, NEW role \in Role
    PROVE  NewProof(op, role) \in Proof /\ Fresh(NewProof(op, role))
BY DEF NewProof, Fresh, Proof, Type, Gps, Phone, Role

LEMMA UpgradedIsProof ==
    ASSUME NEW p \in Proof, NEW op \in Operator, NEW type \in Type, NEW report \in Report
    PROVE  Upgraded(p, op, type, report) \in Proof
<1>1. report[1] \in Gps /\ report[2] \in Phone
  BY ReportAssumption DEF Reportable
<1>2. QED
  BY <1>1 DEF Upgraded, Proof

LEMMA BumpIsTyped ==
    ASSUME NEW v \in [User -> Nat], NEW u \in User
    PROVE  /\ Bump(v, {u}) \in [User -> Nat]
           /\ Bump(v, {u})[u] = v[u] + 1
           /\ \A w \in User \ {u} : Bump(v, {u})[w] = v[w]
BY DEF Bump

LEMMA NothingIsEmpty == DOMAIN Nothing = {}
BY DEF Nothing

LEMMA ReadVersions ==
    ASSUME NEW r \in Read, NEW k \in DOMAIN r
    PROVE  r[k] \in Nat
<1>1. CASE r = Nothing
  BY <1>1, NothingIsEmpty
<1>2. ASSUME NEW u \in User, r \in [{u} -> 0..MaxVersion] PROVE r[k] \in Nat
  BY <1>2, SlotAssumption
<1>3. r = Nothing \/ \E u \in User : r \in [{u} -> 0..MaxVersion]
  BY DEF Read
<1>4. QED
  BY <1>1, <1>2, <1>3

LEMMA ReadOfUpgrade ==
    ASSUME TypeOK, NEW u \in User, ver[u] < MaxVersion
    PROVE  /\ ReadByUpgrade(u) \in Read
           /\ DOMAIN ReadByUpgrade(u) = {u}
           /\ ReadByUpgrade(u)[u] = ver[u]
<1>1. ver[u] \in 0..MaxVersion
  BY SlotAssumption DEF TypeOK
<1>2. ReadByUpgrade(u) \in [{u} -> 0..MaxVersion]
  BY <1>1 DEF ReadByUpgrade
<1>3. QED
  BY <1>2 DEF ReadByUpgrade, Read

\* A call in flight, as its type has it.
LEMMA CallFields ==
    ASSUME TypeOK, NEW c \in Slot, calls[c] # Idle
    PROVE  /\ calls[c] \in Call
           /\ calls[c].user \in User /\ calls[c].writes \in Proof
           /\ calls[c].at \in {"sent", "valid"}
BY DEF TypeOK, Call, Slot

LEMMA HolderIsUser ==
    ASSUME TypeOK, NEW h \in Handler, Running(h)
    PROVE  handlers[h] \in Task /\ Holder(h) \in User
<1>1. handlers[h] \in Task
  BY DEF TypeOK, Running
<1>2. QED
  BY <1>1 DEF Holder, Task, User

-----------------------------------------------------------------------------
\* A handler that moves on without a call of its own: nothing else changes.
LEMMA Moving ==
    ASSUME IInv, NEW h \in Handler, NEW t \in Task \cup {Ended},
           handlers' = [handlers EXCEPT ![h] = t],
           t \in Task => t.at # "await",
           handlers[h] = Idle => calls[h] = Idle,
           UNCHANGED <<proofs, ver, calls, jobs>>
    PROVE  IInv'
<1>1. TypeOK'
  BY DEF IInv, TypeOK
<1>2. JobsFollowProofs'
  BY DEF IInv, JobsFollowProofs
<1>3. \A c \in Slot : UpgradePlan(c)' /\ CreationPlan(c)'
  BY DEF IInv, UpgradePlan, CreationPlan, Slot
<1>4. ASSUME NEW g \in Handler PROVE Awaits(g)'
  <2>1. CASE g = h
    BY <2>1, NoneAssumption DEF IInv, TypeOK, Awaits, Waits, Running
  <2>2. CASE g # h
    <3>1. handlers'[g] = handlers[g]
      BY <2>2
    <3>2. Awaits(g)
      BY DEF IInv
    <3>3. QED
      BY <3>1, <3>2 DEF Awaits, Waits, Running, Holder
  <2>3. QED
    BY <2>1, <2>2
<1>5. QED
  BY <1>1, <1>2, <1>3, <1>4 DEF IInv, Slot

LEMMA ConfirmPreserves ==
    ASSUME IInv, NEW h \in Handler, NEW op \in Operator, NEW u \in User, Confirm(h, op, u)
    PROVE  IInv'
<1>1. [at |-> "find", op |-> op, rider |-> u, role |-> "driver"] \in Task
  BY DEF Task, Role
<1>2. handlers[h] = Idle => calls[h] = Idle
  BY DEF IInv, Awaits
<1>3. QED
  BY <1>1, <1>2, Moving DEF Confirm

LEMMA FindProofsPreserves ==
    ASSUME IInv, NEW h \in Handler, FindProofs(h)
    PROVE  IInv'
<1>1. Running(h) /\ handlers[h] \in Task
  BY HolderIsUser DEF FindProofs, IInv
<1>2. CASE QueryFails(handlers[h].op)
  <2>1. handlers' = [handlers EXCEPT ![h] = Ended] /\ handlers[h] # Idle /\ Ended \notin Task
    BY <1>1, <1>2, NoneAssumption DEF FindProofs, Ends, Running
  <2>2. QED
    BY <2>1, Moving DEF FindProofs
<1>3. CASE ~QueryFails(handlers[h].op)
  <2> DEFINE role == IF Delivered(handlers[h].op) = {} THEN "driver" ELSE "passenger"
             t == [handlers[h] EXCEPT !.at = "submit", !.role = role]
  <2>1. t \in Task /\ t.at # "await"
    BY <1>1 DEF Task, Role
  <2>2. handlers' = [handlers EXCEPT ![h] = t]
    BY <1>1, <1>3 DEF FindProofs, IInv, TypeOK
  <2>3. QED
    BY <1>1, <2>1, <2>2, Moving DEF FindProofs, Running
<1>4. QED
  BY <1>2, <1>3

LEMMA CreateProofPreserves ==
    ASSUME IInv, NEW h \in Handler, CreateProof(h)
    PROVE  IInv'
<1>1. Running(h) /\ handlers[h] \in Task /\ Holder(h) \in User
  BY HolderIsUser DEF CreateProof, IInv
<1>2. CASE proofs[Holder(h)] # Absent
  <2>1. handlers' = [handlers EXCEPT ![h] = Ended] /\ handlers[h] # Idle /\ Ended \notin Task
    BY <1>1, <1>2, NoneAssumption DEF CreateProof, Ends, Running
  <2>2. QED
    BY <1>2, <2>1, Moving DEF CreateProof
<1>3. CASE proofs[Holder(h)] = Absent
  <2> DEFINE new == NewProof(handlers[h].op, handlers[h].role)
             call == [at |-> "sent", user |-> Holder(h), reads |-> Nothing, writes |-> new]
             t == [handlers[h] EXCEPT !.at = "await"]
  <2>1. new \in Proof /\ Fresh(new)
    BY <1>1, NewProofIsProof DEF Task
  <2>2. call \in Call /\ call # Idle
    <3>1. Nothing \in Read
      BY DEF Read
    <3>2. call \in Call
      BY <1>1, <2>1, <3>1 DEF Call
    <3>3. QED
      BY <3>2, NoneAssumption
  <2>3. calls' = [calls EXCEPT ![h] = call] /\ handlers' = [handlers EXCEPT ![h] = t]
        /\ UNCHANGED <<proofs, ver, jobs>>
    BY <1>3 DEF CreateProof
  <2>4. t \in Task
    BY <1>1 DEF Task
  <2>5. TypeOK'
    BY <2>2, <2>3, <2>4 DEF IInv, TypeOK
  <2>6. JobsFollowProofs'
    BY <2>3 DEF IInv, JobsFollowProofs
  <2>7. ASSUME NEW c \in Slot PROVE UpgradePlan(c)' /\ CreationPlan(c)'
    <3>1. CASE c = h
      <4>1. calls'[c] = call
        BY <2>3, <3>1 DEF IInv, TypeOK
      <4>2. QED
        BY <4>1, <2>1, NothingIsEmpty DEF UpgradePlan, CreationPlan, Fresh
    <3>2. CASE c # h
      BY <2>3, <3>2 DEF IInv, TypeOK, UpgradePlan, CreationPlan, Slot
    <3>3. QED
      BY <3>1, <3>2
  <2>8. ASSUME NEW g \in Handler PROVE Awaits(g)'
    <3>1. CASE g = h
      <4>1. handlers'[g] = t /\ calls'[g] = call
        BY <2>3, <3>1 DEF IInv, TypeOK
      <4>2. t # Idle /\ t.role = handlers[h].role /\ t.rider = handlers[h].rider
        BY <1>1, <2>4, NoneAssumption
      <4>3. QED
        BY <4>1, <4>2, <3>1, <2>2 DEF Awaits, Waits, Running, Holder
    <3>2. CASE g # h
      <4>1. handlers'[g] = handlers[g] /\ calls'[g] = calls[g] /\ Awaits(g)
        BY <2>3, <3>2 DEF IInv, TypeOK
      <4>2. QED
        BY <4>1 DEF Awaits, Waits, Running, Holder
    <3>3. QED
      BY <3>1, <3>2
  <2>9. QED
    BY <2>5, <2>6, <2>7, <2>8 DEF IInv, Slot
<1>4. QED
  BY <1>2, <1>3

\* A handler leaves its slot, or its call, behind.
LEMMA Leaving ==
    ASSUME IInv, NEW h \in Handler, NEW t \in Task \cup {Ended},
           handlers' = [handlers EXCEPT ![h] = t],
           t \in Task => t.at # "await",
           NEW r, r \in {Idle, calls[h]}, calls' = [calls EXCEPT ![h] = r],
           handlers[h] # Idle,
           jobs' \subseteq Handler \X Operator, JobsFollowProofs',
           UNCHANGED <<proofs, ver>>
    PROVE  IInv'
<1>1. TypeOK'
  BY DEF IInv, TypeOK
<1>2. \A c \in Slot : calls'[c] \in {calls[c], Idle}
  BY DEF IInv, TypeOK, Slot
<1>3. \A c \in Slot : UpgradePlan(c)' /\ CreationPlan(c)'
  BY <1>2 DEF IInv, UpgradePlan, CreationPlan, Slot
<1>4. ASSUME NEW g \in Handler PROVE Awaits(g)'
  <2>1. CASE g = h
    BY <2>1, NoneAssumption DEF IInv, TypeOK, Awaits, Waits, Running
  <2>2. CASE g # h
    <3>1. handlers'[g] = handlers[g] /\ calls'[g] = calls[g] /\ Awaits(g)
      BY <2>2 DEF IInv, TypeOK
    <3>2. QED
      BY <3>1 DEF Awaits, Waits, Running, Holder
  <2>3. QED
    BY <2>1, <2>2
<1>5. QED
  BY <1>1, <1>3, <1>4 DEF IInv, Slot

LEMMA HearPreserves ==
    ASSUME IInv, NEW h \in Handler, Hear(h)
    PROVE  IInv'
<1>1. Running(h) /\ handlers[h] \in Task
  BY HolderIsUser DEF Hear, Waits, IInv
<1>2. calls[h] # Idle /\ calls[h].user = Holder(h) /\ proofs[Holder(h)] # Absent
  <2>1. Awaits(h) /\ CreationPlan(h)
    BY DEF IInv
  <2>2. QED
    BY <2>1 DEF Hear, Awaits, CreationPlan, Committed
<1>3. CASE handlers[h].role = "driver"
  <2> DEFINE t == [handlers[h] EXCEPT !.at = "submit", !.role = "passenger"]
  <2>1. t \in Task /\ t.at # "await"
    BY <1>1 DEF Task, Role
  <2>2. handlers' = [handlers EXCEPT ![h] = t]
    BY <1>1, <1>3 DEF Hear, IInv, TypeOK
  <2>3. proofs[Driver] # Absent
    BY <1>2, <1>3 DEF Holder
  <2>4. jobs' \subseteq Handler \X Operator /\ JobsFollowProofs'
    BY <1>1, <1>3, <2>3 DEF Hear, IInv, TypeOK, Task, JobsFollowProofs
  <2>5. calls' = [calls EXCEPT ![h] = Idle] /\ UNCHANGED <<proofs, ver>>
    BY DEF Hear
  <2>6. QED
    BY <1>1, <2>1, <2>2, <2>4, <2>5, Leaving DEF Running
<1>4. CASE handlers[h].role # "driver"
  <2>1. jobs' \subseteq Handler \X Operator /\ JobsFollowProofs'
    BY <1>4 DEF Hear, IInv, TypeOK, JobsFollowProofs
  <2>2. handlers' = [handlers EXCEPT ![h] = Ended]
    BY <1>4 DEF Hear, Ends
  <2>3. Ended \notin Task
    BY NoneAssumption
  <2>4. QED
    BY <1>1, <2>1, <2>2, <2>3, Leaving DEF Hear, Running
<1>5. QED
  BY <1>3, <1>4

LEMMA TimeOutPreserves ==
    ASSUME IInv, NEW h \in Handler, TimeOut(h)
    PROVE  IInv'
<1>1. jobs' \subseteq Handler \X Operator /\ JobsFollowProofs'
  BY DEF TimeOut, IInv, TypeOK, JobsFollowProofs
<1>2. handlers' = [handlers EXCEPT ![h] = Ended] /\ handlers[h] # Idle
  BY DEF TimeOut, Ends, Waits, Running
<1>3. Ended \notin Task
  BY NoneAssumption
<1>4. \E r \in {Idle, calls[h]} : calls' = [calls EXCEPT ![h] = r]
  BY DEF TimeOut
<1>5. QED
  BY <1>1, <1>2, <1>3, <1>4, Leaving DEF TimeOut

LEMMA SendProofPreserves ==
    ASSUME IInv, NEW h \in Handler, NEW op \in Operator, SendProof(h, op)
    PROVE  IInv'
BY DEF SendProof, IInv, TypeOK, JobsFollowProofs, UpgradePlan, CreationPlan, Awaits,
       Waits, Running, Holder

LEMMA RestartPreserves ==
    ASSUME IInv, NEW op \in Operator, Restart(op)
    PROVE  IInv'
<1> DEFINE its == {h \in Handler : Running(h) /\ handlers[h].op = op}
<1>1. TypeOK'
  BY DEF Restart, IInv, TypeOK
<1>2. JobsFollowProofs'
  BY DEF Restart, IInv, JobsFollowProofs
<1>3. \A c \in Slot : calls'[c] \in {calls[c], Idle}
  BY DEF Restart, Slot
<1>4. \A c \in Slot : UpgradePlan(c)' /\ CreationPlan(c)'
  BY <1>3 DEF Restart, IInv, UpgradePlan, CreationPlan, Slot
<1>5. ASSUME NEW g \in Handler PROVE Awaits(g)'
  <2>1. CASE g \in its
    <3>1. handlers'[g] = Ended
      BY <2>1 DEF Restart
    <3>2. QED
      BY <3>1, NoneAssumption DEF Awaits, Waits, Running
  <2>2. CASE g \notin its
    <3>1. handlers'[g] = handlers[g] /\ calls'[g] = calls[g] /\ Awaits(g)
      BY <2>2 DEF Restart, IInv
    <3>2. QED
      BY <3>1 DEF Awaits, Waits, Running, Holder
  <2>3. QED
    BY <2>1, <2>2
<1>6. QED
  BY <1>1, <1>2, <1>4, <1>5 DEF IInv, Slot

-----------------------------------------------------------------------------
LEMMA UpgradeProofPreserves ==
    ASSUME IInv, NEW c \in Caller, NEW op \in Operator, NEW u \in User,
           NEW type \in Type \ {"CONFIRMATION"}, NEW report \in Report,
           UpgradeProof(c, op, u, type, report)
    PROVE  IInv'
<1> DEFINE new == Upgraded(proofs[u], op, type, report)
           call == [at |-> "sent", user |-> u, reads |-> ReadByUpgrade(u), writes |-> new]
<1>1. proofs[u] # Absent /\ proofs[u].key = Owner /\ ver[u] < MaxVersion
  BY DEF UpgradeProof, ReadsById, Opens
<1>2. new \in Proof
  BY <1>1, UpgradedIsProof DEF IInv, TypeOK
<1>3. call \in Call /\ call # Idle
  <2>1. ReadByUpgrade(u) \in Read
    BY <1>1, ReadOfUpgrade DEF IInv
  <2>2. call \in Call
    BY <1>2, <2>1 DEF Call
  <2>3. QED
    BY <2>2, NoneAssumption
<1>4. calls' = [calls EXCEPT ![c] = call] /\ UNCHANGED <<proofs, ver, handlers, jobs>>
  BY DEF UpgradeProof, ReadsById
<1>5. TypeOK'
  BY <1>3, <1>4 DEF IInv, TypeOK
<1>6. JobsFollowProofs'
  BY <1>4 DEF IInv, JobsFollowProofs
<1>7. ASSUME NEW d \in Slot PROVE UpgradePlan(d)' /\ CreationPlan(d)'
  <2>1. CASE d = c
    <3>1. calls'[d] = call
      BY <1>4, <2>1 DEF IInv, TypeOK
    <3>2. ver[u] \in Nat /\ ReadByUpgrade(u)[u] = ver[u] /\ DOMAIN ReadByUpgrade(u) = {u}
      BY <1>1, ReadOfUpgrade DEF IInv, TypeOK
    <3>3. UpgradePlan(d)'
      BY <3>1, <3>2, <1>1, <1>4 DEF UpgradePlan
    <3>4. calls'[d].at = "sent" /\ DOMAIN calls'[d].reads # {}
      BY <3>1, <3>2
    <3>5. QED
      BY <3>3, <3>4 DEF CreationPlan
  <2>2. CASE d # c
    BY <1>4, <2>2 DEF IInv, TypeOK, UpgradePlan, CreationPlan, Slot
  <2>3. QED
    BY <2>1, <2>2
<1>8. ASSUME NEW g \in Handler PROVE Awaits(g)'
  <2>1. g # c
    BY SlotAssumption
  <2>2. calls'[g] = calls[g] /\ handlers'[g] = handlers[g] /\ Awaits(g)
    BY <2>1, <1>4 DEF IInv, TypeOK
  <2>3. QED
    BY <2>2 DEF Awaits, Waits, Running, Holder
<1>9. QED
  BY <1>5, <1>6, <1>7, <1>8 DEF IInv, Slot

\* What a commit does to the proofs: one is written, by its plan.
LEMMA CommitWrites ==
    ASSUME IInv, NEW c \in Slot, Commit(c)
    PROVE  /\ calls[c].user \in User /\ calls[c].writes \in Proof
           /\ proofs' = [proofs EXCEPT ![calls[c].user] = calls[c].writes]
           /\ ver' = Bump(ver, {calls[c].user})
           /\ \/ Fresh(calls[c].writes)
              \/ /\ proofs[calls[c].user].key = Owner
                 /\ \E op \in Operator, type \in Type \ {"CONFIRMATION"}, report \in Report :
                     calls[c].writes = Upgraded(proofs[calls[c].user], op, type, report)
<1> DEFINE u == calls[c].user
<1>1. u \in User /\ calls[c].writes \in Proof /\ calls[c] # Idle
  BY CallFields DEF IInv, Commit
<1>2. UpgradePlan(c) /\ CreationPlan(c)
  BY DEF IInv, Slot
<1>3. CASE DOMAIN calls[c].reads = {}
  BY <1>1, <1>2, <1>3 DEF Commit, CreationPlan
<1>4. CASE DOMAIN calls[c].reads # {}
  <2>1. DOMAIN calls[c].reads = {u}
    BY <1>1, <1>2, <1>4 DEF UpgradePlan
  <2>2. calls[c].reads[u] = ver[u]
    BY <2>1 DEF Commit, ReadsCurrent
  <2>3. QED
    BY <1>1, <1>2, <1>4, <2>2 DEF Commit, UpgradePlan
<1>5. QED
  BY <1>3, <1>4

\* The plan of a call stands while the proof it has read does.
LEMMA PlanStands ==
    ASSUME NEW d \in Slot, NEW u, calls'[d] = calls[d], calls[d].user = u,
           ver'[u] = ver[u], proofs'[u] = proofs[u], UpgradePlan(d)
    PROVE  UpgradePlan(d)'
BY DEF UpgradePlan

\* It is void once another version is there.
LEMMA PlanVoid ==
    ASSUME NEW d \in Slot, NEW u, calls'[d] = calls[d], calls[d].user = u,
           calls[d] # Idle => calls[d] \in Call,
           ver[u] \in Nat, ver'[u] = ver[u] + 1, UpgradePlan(d)
    PROVE  UpgradePlan(d)'
<1>1. CASE calls[d] = Idle \/ DOMAIN calls[d].reads = {}
  BY <1>1 DEF UpgradePlan
<1>2. CASE calls[d] # Idle /\ DOMAIN calls[d].reads # {}
  <2>1. DOMAIN calls[d].reads = {u} /\ calls[d].reads[u] <= ver[u]
    BY <1>2 DEF UpgradePlan
  <2>2. calls[d].reads \in Read
    BY <1>2 DEF Call
  <2>3. calls[d].reads[u] \in Nat
    BY <2>1, <2>2, ReadVersions
  <2>4. calls[d].reads[u] <= ver'[u] /\ calls[d].reads[u] # ver'[u]
    BY <2>1, <2>3
  <2>5. QED
    BY <2>1, <2>4 DEF UpgradePlan
<1>3. QED
  BY <1>1, <1>2

LEMMA CommitPreserves ==
    ASSUME IInv, NEW c \in Slot, Commit(c)
    PROVE  IInv'
<1> DEFINE u == calls[c].user
<1>1. /\ u \in User /\ calls[c].writes \in Proof /\ calls[c] # Idle
      /\ proofs' = [proofs EXCEPT ![u] = calls[c].writes]
      /\ ver' = Bump(ver, {u})
      /\ calls' = [calls EXCEPT ![c] = Landed(c)]
      /\ UNCHANGED <<handlers, jobs>>
  BY CommitWrites DEF Commit
<1>2. /\ ver \in [User -> Nat] /\ ver' \in [User -> Nat] /\ ver'[u] = ver[u] + 1
      /\ \A w \in User \ {u} : ver'[w] = ver[w]
  BY <1>1, BumpIsTyped DEF IInv, TypeOK
<1>3. \/ Landed(c) = Idle
      \/ Landed(c) = [calls[c] EXCEPT !.at = "valid"] /\ Landed(c) \in Call
  <2>1. calls[c] \in Call
    BY <1>1, CallFields DEF IInv
  <2>2. [calls[c] EXCEPT !.at = "valid"] \in Call
    BY <2>1 DEF Call
  <2>3. QED
    BY <2>2 DEF Landed
<1>4. proofs'[u] # Absent /\ \A w \in User : proofs[w] # Absent => proofs'[w] # Absent
  BY <1>1, NoneAssumption DEF IInv, TypeOK
<1>5. TypeOK'
  BY <1>1, <1>2, <1>3 DEF IInv, TypeOK
<1>6. JobsFollowProofs'
  BY <1>1, <1>4 DEF IInv, JobsFollowProofs, User
<1>7. ASSUME NEW d \in Slot PROVE UpgradePlan(d)' /\ CreationPlan(d)'
  <2>1. UpgradePlan(d) /\ CreationPlan(d)
    BY DEF IInv, Slot
  <2>2. CASE d = c
    <3>1. calls'[d] = Landed(c)
      BY <1>1, <2>2 DEF IInv, TypeOK, Slot
    <3>2. CASE Landed(c) = Idle
      BY <3>1, <3>2 DEF UpgradePlan, CreationPlan
    <3>3. CASE Landed(c) # Idle
      <4>1. /\ calls'[d].user = u /\ calls'[d].reads = calls[c].reads
            /\ calls'[d].writes = calls[c].writes
        BY <3>1, <3>3, <1>1, <1>3, CallFields DEF IInv, Call
      <4>2. CreationPlan(d)'
        BY <4>1, <2>1, <2>2, <1>1, <1>4 DEF CreationPlan
      <4>3. DOMAIN calls[c].reads # {} =>
                DOMAIN calls[c].reads = {u} /\ calls[c].reads[u] <= ver[u]
        BY <2>1, <2>2, <1>1 DEF UpgradePlan
      <4>4. calls[c].reads \in Read
        BY <1>1, CallFields DEF IInv, Call
      <4>5. DOMAIN calls[c].reads # {} => calls[c].reads[u] \in Nat
        BY <4>3, <4>4, ReadVersions
      <4>6. UpgradePlan(d)'
        BY <4>1, <4>3, <4>5, <1>1, <1>2 DEF UpgradePlan
      <4>7. QED
        BY <4>2, <4>6
    <3>4. QED
      BY <3>2, <3>3
  <2>3. CASE d # c
    <3>1. calls'[d] = calls[d]
      BY <1>1, <2>3 DEF IInv, TypeOK, Slot
    <3>2. CASE calls[d] = Idle
      BY <3>1, <3>2 DEF UpgradePlan, CreationPlan
    <3>3. CASE calls[d] # Idle
      <4>1. calls[d].user \in User /\ calls[d] \in Call
        BY <3>3, CallFields DEF IInv
      <4>2. CreationPlan(d)'
        BY <3>1, <2>1, <4>1, <1>4 DEF CreationPlan
      <4>3. CASE calls[d].user # u
        <5>1. proofs'[calls[d].user] = proofs[calls[d].user] /\ ver'[calls[d].user] = ver[calls[d].user]
          <6>1. proofs \in [User -> Proof \cup {Absent}]
            BY DEF IInv, TypeOK
          <6>2. calls[d].user \in User \ {u}
            BY <4>1, <4>3
          <6>3. QED
            BY <6>1, <6>2, <1>1, <1>2
        <5>2. UpgradePlan(d)'
          BY <5>1, <3>1, <2>1, PlanStands
        <5>3. QED
          BY <5>2, <4>2
      <4>4. CASE calls[d].user = u
        <5>1. ver[u] \in Nat /\ ver'[u] = ver[u] + 1
          BY <1>1, <1>2
        <5>2. UpgradePlan(d)'
          BY <5>1, <4>1, <4>4, <3>1, <2>1, PlanVoid
        <5>3. QED
          BY <5>2, <4>2
      <4>5. QED
        BY <4>2, <4>3, <4>4
    <3>4. QED
      BY <3>2, <3>3
  <2>4. QED
    BY <2>2, <2>3
<1>8. ASSUME NEW g \in Handler PROVE Awaits(g)'
  <2>1. Awaits(g) /\ handlers'[g] = handlers[g]
    BY <1>1 DEF IInv
  <2>2. CASE g # c
    <3>1. calls'[g] = calls[g]
      BY <2>2, <1>1 DEF IInv, TypeOK
    <3>2. QED
      BY <3>1, <2>1 DEF Awaits, Waits, Running, Holder
  <2>3. CASE g = c
    <3>1. calls'[g] = Landed(c)
      BY <2>3, <1>1 DEF IInv, TypeOK
    <3>2. handlers[g] # Idle
      BY <2>1, <2>3, <1>1 DEF Awaits
    <3>3. Waits(g) => Landed(c) = [calls[c] EXCEPT !.at = "valid"] /\ Landed(c) \in Call
      BY <2>3, <1>1, CallFields DEF Landed, IInv, Call
    <3>4. Waits(g) => Landed(c) # Idle /\ Landed(c).user = u
      BY <3>3, <1>1, CallFields, NoneAssumption DEF IInv, Call
    <3>5. QED
      BY <3>1, <3>2, <3>4, <2>1, <2>3, <1>1 DEF Awaits, Waits, Running, Holder
  <2>4. QED
    BY <2>2, <2>3
<1>9. QED
  BY <1>5, <1>6, <1>7, <1>8 DEF IInv, Slot

LEMMA DiscardPreserves ==
    ASSUME IInv, NEW c \in Caller, Discard(c)
    PROVE  IInv'
<1>1. calls' = [calls EXCEPT ![c] = Idle] /\ UNCHANGED <<proofs, ver, handlers, jobs>>
  BY DEF Discard
<1>2. TypeOK' /\ JobsFollowProofs'
  BY <1>1 DEF IInv, TypeOK, JobsFollowProofs
<1>3. \A d \in Slot : calls'[d] \in {calls[d], Idle}
  BY <1>1 DEF IInv, TypeOK, Slot
<1>4. \A d \in Slot : UpgradePlan(d)' /\ CreationPlan(d)'
  BY <1>1, <1>3 DEF IInv, UpgradePlan, CreationPlan, Slot
<1>5. ASSUME NEW g \in Handler PROVE Awaits(g)'
  <2>1. g # c
    BY SlotAssumption
  <2>2. calls'[g] = calls[g] /\ handlers'[g] = handlers[g] /\ Awaits(g)
    BY <2>1, <1>1 DEF IInv, TypeOK
  <2>3. QED
    BY <2>2 DEF Awaits, Waits, Running, Holder
<1>6. QED
  BY <1>2, <1>4, <1>5 DEF IInv, Slot

-----------------------------------------------------------------------------
LEMMA InitHolds == Init => IInv
BY NoneAssumption DEF Init, IInv, TypeOK, JobsFollowProofs, UpgradePlan, CreationPlan,
   Awaits, Waits, Running

LEMMA StepPreserves == IInv /\ [Next]_vars => IInv'
<1> SUFFICES ASSUME IInv, [Next]_vars PROVE IInv'
  OBVIOUS
<1>1. ASSUME NEW h \in Handler, NEW op \in Operator, NEW u \in User, Confirm(h, op, u)
      PROVE  IInv'
  BY <1>1, ConfirmPreserves
<1>2. ASSUME NEW h \in Handler, Prove(h) PROVE IInv'
  BY <1>2, FindProofsPreserves, CreateProofPreserves, HearPreserves, TimeOutPreserves,
     SendProofPreserves DEF Prove
<1>3. ASSUME NEW op \in Operator, Restart(op) PROVE IInv'
  BY <1>3, RestartPreserves
<1>4. ASSUME NEW c \in Caller, Upgrade(c) PROVE IInv'
  BY <1>4, UpgradeProofPreserves DEF Upgrade
<1>5. ASSUME NEW c \in Caller, Discard(c) PROVE IInv'
  BY <1>5, DiscardPreserves
<1>6. ASSUME NEW c \in Slot, Commit(c) PROVE IInv'
  BY <1>6, CommitPreserves
<1>7. CASE UNCHANGED vars
  BY <1>7 DEF vars, IInv, TypeOK, JobsFollowProofs, UpgradePlan, CreationPlan, Awaits,
     Waits, Running, Holder
<1>8. QED
  BY <1>1, <1>2, <1>3, <1>4, <1>5, <1>6, <1>7 DEF Next, Slot

\* The inductive invariant: every upgrade in flight is a rewrite of the proof it
\* has read, which its owner could read as well.
THEOREM Invariance == Spec => []IInv
BY InitHolds, StepPreserves, PTL DEF Spec

\* Every proof, call and handler keeps its type.
THEOREM TypeCorrect == Spec => []TypeOK
<1>1. IInv => TypeOK
  BY DEF IInv
<1>2. QED
  BY <1>1, Invariance, PTL

\* A job that will send the proofs of the trip stands behind a committed proof.
THEOREM JobsHaveProofs == Spec => []JobsFollowProofs
<1>1. IInv => JobsFollowProofs
  BY DEF IInv
<1>2. QED
  BY <1>1, Invariance, PTL

-----------------------------------------------------------------------------
\* Only a commit writes a proof.
LEMMA OnlyCommitsWrite ==
    ASSUME Next, proofs' # proofs
    PROVE  \E c \in Slot : Commit(c)
BY DEF Next, Prove, Upgrade, Confirm, FindProofs, CreateProof, Hear, TimeOut, SendProof,
   Restart, UpgradeProof, ReadsById, Discard, Slot

\* No upgrade, however late it is committed, loses a position or a role.
THEOREM PositionsKept == Spec => PositionsAccumulate
<1>1. ASSUME IInv, Next, NEW u \in User, proofs[u] # Absent, ~Fresh(proofs'[u])
      PROVE  /\ proofs[u].departure # "none" => proofs'[u].departure # "none"
             /\ proofs[u].arrival # "none" => proofs'[u].arrival # "none"
             /\ proofs[u].role = proofs'[u].role
  <2>1. CASE proofs'[u] = proofs[u]
    BY <2>1
  <2>2. CASE proofs'[u] # proofs[u]
    <3>1. PICK c \in Slot : Commit(c)
      BY <1>1, <2>2, OnlyCommitsWrite
    <3>2. calls[c].user = u /\ proofs'[u] = calls[c].writes
      BY <1>1, <2>2, <3>1, CommitWrites DEF IInv, TypeOK
    <3>3. PICK op \in Operator, type \in Type \ {"CONFIRMATION"}, report \in Report :
            proofs'[u] = Upgraded(proofs[u], op, type, report)
      <4>1. ~Fresh(calls[c].writes)
        BY <1>1, <3>2
      <4>2. \E op \in Operator, type \in Type \ {"CONFIRMATION"}, report \in Report :
                calls[c].writes = Upgraded(proofs[calls[c].user], op, type, report)
        BY <1>1, <3>1, <4>1, CommitWrites
      <4>3. QED
        BY <3>2, <4>2
    <3>4. report[1] # "none" /\ proofs[u] \in Proof
      BY <1>1, ReportAssumption DEF Reportable, IInv, TypeOK
    <3>5. QED
      BY <3>3, <3>4 DEF Upgraded, Proof
  <2>3. QED
    BY <2>1, <2>2
<1>2. ASSUME IInv, [Next]_vars
      PROVE  [\A u \in User : proofs[u] # Absent /\ ~Fresh(proofs'[u]) =>
                /\ proofs[u].departure # "none" => proofs'[u].departure # "none"
                /\ proofs[u].arrival # "none" => proofs'[u].arrival # "none"
                /\ proofs[u].role = proofs'[u].role]_vars
  BY <1>1, <1>2
<1>3. QED
  BY <1>2, Invariance, PTL DEF Spec, PositionsAccumulate

-----------------------------------------------------------------------------
\* One user counts for a class more exactly when RNPC is told of it, with both positions.
LEMMA AddedCounts ==
    ASSUME NEW r, NEW p, NEW u
    PROVE  \/ Added(r, p, u) = r
           \/ /\ Valid(p, u)
              /\ Added(r, p, u).users = r.users \cup {u}
              /\ Added(r, p, u).class =
                    IF ~Located(p) THEN r.class ELSE IF r.class = "A" THEN "B" ELSE "C"
BY DEF Added

\* The class RNPC is told of two users counts those of them it is told of and can
\* locate, whichever of the two is left out or has no position, in every state.
THEOREM ClassCounts == Spec => []ClassCountsUsers
<1>1. ClassCountsUsers
  <2> SUFFICES ASSUME NEW u \in Passengers
               PROVE  /\ Rnpc(u).class = "B" => \E w \in Rnpc(u).users : Located(proofs[w])
                      /\ Rnpc(u).class = "C" =>
                            /\ Rnpc(u).users = {Driver, u}
                            /\ Located(proofs[Driver]) /\ Located(proofs[u])
    BY DEF ClassCountsUsers
  <2> DEFINE none == [class |-> "A", users |-> {}]
             driver == Added(none, proofs[Driver], Driver)
  <2>1. Rnpc(u) = Added(driver, proofs[u], u)
    BY DEF Rnpc
  <2>2. CASE driver = none
    BY <2>1, <2>2, AddedCounts
  <2>3. CASE /\ driver.users = {Driver}
             /\ driver.class = IF Located(proofs[Driver]) THEN "B" ELSE "A"
    BY <2>1, <2>3, AddedCounts
  <2>4. QED
    BY <2>2, <2>3, AddedCounts
<1>2. QED
  BY <1>1, PTL
=============================================================================
