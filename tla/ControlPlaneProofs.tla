-------------------------- MODULE ControlPlaneProofs --------------------------
(* Theorems about ControlPlane: for all runs, drains, limits and durations.
   What WorkerQueueProofs proves of the queue holds of the queue in its control
   plane, which moves it by the queue's operations only. *)
EXTENDS ControlPlane, SequenceTheorems, WellFoundedInduction, TLAPS

QP == INSTANCE WorkerQueueProofs WITH Reenqueue <- TRUE

-----------------------------------------------------------------------------
(* The queue *)

LEMMA Assumed == QP!RetryPolicyAssumption /\ QP!DurationAssumption
BY ControlPlaneAssumption DEF QP!RetryPolicyAssumption, QP!DurationAssumption

(* The operations the control plane calls, as the queue's theorems name them. *)
LEMMA SameWork ==
  /\ Queue!Work = QP!Work /\ Queue!Swept = QP!Swept /\ Queue!Due = QP!Due
  /\ \A run : Queue!ActiveWork(run) = QP!ActiveWork(run)
  /\ \A l : Queue!LeasedWork(l) = QP!LeasedWork(l)
  /\ \A a, hash : Queue!Waiting(a, hash) = QP!Waiting(a, hash)
BY DEF Queue!Work, QP!Work, Queue!Swept, QP!Swept, Queue!Due, QP!Due, Queue!ActiveWork, QP!ActiveWork,
  Queue!LeasedWork, QP!LeasedWork, Queue!Waiting, QP!Waiting, Queue!IsActive, QP!IsActive,
  Queue!LeaseExpired, QP!LeaseExpired, Queue!ExpireClaimed, QP!ExpireClaimed, Queue!Move, QP!Move,
  Queue!NoLease, QP!NoLease

(* The calls of handlers and drains mean the same in the queue that is composed here and in the one its
   theorems are about. *)
LEMMA SameCalls ==
  /\ \A run : /\ Queue!Enqueue(run) => QP!Enqueue(run)
              /\ Queue!CancelRun(run) => QP!CancelRun(run)
  /\ \A d : Queue!RedriveDeadLetter(d) => QP!RedriveDeadLetter(d)
  /\ \A a, hash : Queue!ResumeApproved(a, hash) => QP!ResumeApproved(a, hash)
  /\ \A a, hash, status : Queue!ResumeRefused(a, hash, status) => QP!ResumeRefused(a, hash, status)
  /\ Queue!ClaimNext => QP!ClaimNext
  /\ Queue!Tick => QP!Tick
  /\ Queue!Init => QP!Init
<1> USE SameWork
<1>1. \A run : Queue!Enqueue(run) => QP!Enqueue(run)
  BY DEF Queue!Enqueue, QP!Enqueue, Queue!NewRecord, QP!NewRecord, Queue!NoLease, QP!NoLease, Queue!NoGate, QP!NoGate
<1>2. \A run : Queue!CancelRun(run) => QP!CancelRun(run)
  BY DEF Queue!CancelRun, QP!CancelRun, Queue!Cancelled, QP!Cancelled, Queue!Move, QP!Move, Queue!NoLease, QP!NoLease
<1>3. \A d : Queue!RedriveDeadLetter(d) => QP!RedriveDeadLetter(d)
  BY DEF Queue!RedriveDeadLetter, QP!RedriveDeadLetter, Queue!NewRecord, QP!NewRecord, Queue!NoLease, QP!NoLease,
     Queue!NoGate, QP!NoGate
<1>4. \A a, hash : Queue!ResumeApproved(a, hash) => QP!ResumeApproved(a, hash)
  BY DEF Queue!ResumeApproved, QP!ResumeApproved, Queue!Resumed, QP!Resumed, Queue!Move, QP!Move
<1>5. \A a, hash, status : Queue!ResumeRefused(a, hash, status) => QP!ResumeRefused(a, hash, status)
  BY DEF Queue!ResumeRefused, QP!ResumeRefused, Queue!CancelApprovalWait, QP!CancelApprovalWait, Queue!Move, QP!Move
<1>6. Queue!ClaimNext => QP!ClaimNext
  BY DEF Queue!ClaimNext, QP!ClaimNext, Queue!ClaimedBefore, QP!ClaimedBefore, Queue!Move, QP!Move
<1>7. (Queue!Tick => QP!Tick) /\ (Queue!Init => QP!Init)
  BY DEF Queue!Tick, QP!Tick, Queue!Init, QP!Init
<1>8. QED
  BY <1>1, <1>2, <1>3, <1>4, <1>5, <1>6, <1>7

(* The same for every outcome a drain settles with. *)
LEMMA SameSettlements ==
  \A l : /\ Queue!LoseLease(l) => QP!LoseLease(l)
         /\ Queue!SettleCancelled(l) => QP!SettleCancelled(l)
         /\ Queue!SettleCompleted(l) => QP!SettleCompleted(l)
         /\ \A hash : Queue!SettleAwaitingApproval(l, hash) => QP!SettleAwaitingApproval(l, hash)
         /\ Queue!SettleRetry(l) => QP!SettleRetry(l)
         /\ Queue!SettleDead(l) => QP!SettleDead(l)
<1> SUFFICES ASSUME NEW l
      PROVE /\ Queue!LoseLease(l) => QP!LoseLease(l)
            /\ Queue!SettleCancelled(l) => QP!SettleCancelled(l)
            /\ Queue!SettleCompleted(l) => QP!SettleCompleted(l)
            /\ \A hash : Queue!SettleAwaitingApproval(l, hash) => QP!SettleAwaitingApproval(l, hash)
            /\ Queue!SettleRetry(l) => QP!SettleRetry(l)
            /\ Queue!SettleDead(l) => QP!SettleDead(l)
  OBVIOUS
<1>1. Queue!LeasedWork(l) = QP!LeasedWork(l)
  BY SameWork
<1> USE DEF Queue!LeaseExpired, QP!LeaseExpired, Queue!MaySettle, QP!MaySettle, Queue!SettleInto, QP!SettleInto,
     Queue!Move, QP!Move, Queue!NoLease, QP!NoLease
<1>2. Queue!LoseLease(l) => QP!LoseLease(l)
  BY <1>1 DEF Queue!LoseLease, QP!LoseLease, Queue!ExpireOne, QP!ExpireOne, Queue!ExpireClaimed, QP!ExpireClaimed
<1>3. Queue!SettleCancelled(l) => QP!SettleCancelled(l)
  BY <1>1 DEF Queue!SettleCancelled, QP!SettleCancelled
<1>4. Queue!SettleCompleted(l) => QP!SettleCompleted(l)
  BY <1>1 DEF Queue!SettleCompleted, QP!SettleCompleted
<1>5. \A hash : Queue!SettleAwaitingApproval(l, hash) => QP!SettleAwaitingApproval(l, hash)
  BY <1>1 DEF Queue!SettleAwaitingApproval, QP!SettleAwaitingApproval
<1>6. Queue!SettleRetry(l) => QP!SettleRetry(l)
  BY <1>1 DEF Queue!SettleRetry, QP!SettleRetry, Queue!NewRecord, QP!NewRecord, Queue!NoGate, QP!NoGate,
     Queue!RetryDelay, QP!RetryDelay
<1>7. Queue!SettleDead(l) => QP!SettleDead(l)
  BY <1>1 DEF Queue!SettleDead, QP!SettleDead
<1>8. QED
  BY <1>2, <1>3, <1>4, <1>5, <1>6, <1>7

-----------------------------------------------------------------------------
(* Types, and the steps as steps of the queue *)

Points == {"idle", "looping", "carrying", "stopped"}
Settlements == [run : Runs, status : RunStatuses \ {"none"}, approval : 0..MaxApprovals]
Underway == [pc : Points, lease : Nat, settled : Seq(Settlements)]

Typed ==
  /\ runStatus \in [Runs -> RunStatuses]
  /\ policyApproval \in [Runs -> Decisions]
  /\ approvals \in [1..MaxApprovals -> Decisions]
  /\ drains \in [Drains -> Underway]
  /\ \A d \in Drains : /\ drains[d].lease < nextLease
                       /\ Len(drains[d].settled) <= MaxItems
                       /\ drains[d].pc = "carrying" => Len(drains[d].settled) < MaxItems

(* The approval a gate names is one whose work can be decided on. *)
LEMMA GateCall ==
  ASSUME QP!Coherent, Typed, NEW a \in 1..MaxApprovals, NEW i \in GatedWork(a)
  PROVE  /\ a \in 1..(nextApproval - 1) /\ records[i].gate.hash \in Hashes
         /\ i \in DOMAIN records /\ records[i].gate.approval = a /\ records[i].run \in Runs
         /\ \A j \in DOMAIN records : records[j].gate.approval = a => j = i
<1>1. i \in QP!Work /\ records[i].gate.approval = a /\ a # 0 /\ a \in Nat
  BY ControlPlaneAssumption DEF GatedWork, QP!Work
<1>2. records[i] \in QP!Record /\ nextApproval \in Nat
  BY <1>1 DEF QP!Coherent, QP!TypeOK, QP!Work
<1>3. a < nextApproval /\ records[i].gate.hash \in Hashes /\ \A j \in QP!Work : j # i => records[j].gate.approval # a
  BY <1>1 DEF QP!Coherent, QP!IdsUnique, QP!GatesDecide
<1>4. QED
  BY <1>1, <1>2, <1>3 DEF QP!Work, QP!Record

(* The drain's lease is one the queue handed out. *)
LEMMA LeaseCalled ==
  ASSUME QP!Coherent, Typed, NEW d \in Drains, Queue!LeasedWork(drains[d].lease) # {}
  PROVE  drains[d].lease \in 1..(nextLease - 1)
<1>1. drains[d].lease # 0
  BY DEF Queue!LeasedWork
<1>2. drains[d].lease \in Nat /\ drains[d].lease < nextLease /\ nextLease \in Nat
  BY DEF Typed, Underway, QP!Coherent, QP!TypeOK
<1>3. QED
  BY <1>1, <1>2

(* Every step of the control plane is a step of the queue, or leaves the queue alone. *)
LEMMA QueueStep == QP!Coherent /\ Typed /\ [Next]_vars => [QP!Next]_(QP!vars)
<1> SUFFICES ASSUME QP!Coherent, Typed, [Next]_vars PROVE [QP!Next]_(QP!vars)
  OBVIOUS
<1>0. ASSUME UNCHANGED queueVars PROVE [QP!Next]_(QP!vars)
  BY <1>0 DEF queueVars, QP!vars
<1>1. ASSUME NEW run \in Runs, CreateRun(run) \/ ApprovePolicy(run) \/ DenyPolicy(run) \/ CancelRun(run)
      PROVE  [QP!Next]_(QP!vars)
  <2>1. UNCHANGED queueVars \/ Queue!Enqueue(run) \/ Queue!CancelRun(run)
    BY <1>1 DEF CreateRun, ApprovePolicy, EnqueueApproved, DenyPolicy, CancelRun
  <2>2. QED
    BY <1>0, <2>1, SameCalls DEF QP!Next
<1>2. ASSUME NEW a \in 1..MaxApprovals, ApproveRequest(a) PROVE [QP!Next]_(QP!vars)
  <2>1. PICK i \in GatedWork(a) : Queue!ResumeApproved(a, records[i].gate.hash)
    BY <1>2 DEF ApproveRequest
  <2>2. QP!ResumeApproved(a, records[i].gate.hash)
    BY <2>1, SameCalls
  <2>3. QED
    BY <2>2, GateCall DEF QP!Next, QP!ApprovalCallback
<1>3. ASSUME NEW a \in 1..MaxApprovals, DenyRequest(a) PROVE [QP!Next]_(QP!vars)
  <2>1. PICK i \in GatedWork(a) : UNCHANGED queueVars \/ Queue!ResumeRefused(a, records[i].gate.hash, "denied")
    BY <1>3 DEF DenyRequest
  <2>2. CASE Queue!ResumeRefused(a, records[i].gate.hash, "denied")
    <3>1. QP!ResumeRefused(a, records[i].gate.hash, "denied")
      BY <2>2, SameCalls
    <3>2. QED
      BY <3>1, GateCall DEF QP!Next, QP!ApprovalCallback
  <2>3. QED
    BY <1>0, <2>1, <2>2
<1>4. CASE DecideTooLate
  BY <1>0, <1>4 DEF DecideTooLate
<1>5. ASSUME NEW d \in DOMAIN deadLetters, RedriveDeadLetter(d) PROVE [QP!Next]_(QP!vars)
  BY <1>5, SameCalls DEF RedriveDeadLetter, QP!Next
<1>6. ASSUME NEW d \in Drains, DrainClaims(d) PROVE [QP!Next]_(QP!vars)
  BY <1>6, SameCalls DEF DrainClaims, QP!Next
<1>7. ASSUME NEW d \in Drains, DrainSettles(d) PROVE [QP!Next]_(QP!vars)
  <2> DEFINE l == drains[d].lease
  <2>1. /\ Queue!LeasedWork(l) # {}
        /\ \/ Queue!SettleCancelled(l) \/ Queue!SettleCompleted(l)
           \/ \E hash \in Hashes : Queue!SettleAwaitingApproval(l, hash)
           \/ Queue!SettleRetry(l) \/ Queue!SettleDead(l)
    BY <1>7 DEF DrainSettles
  <2>2. l \in 1..(nextLease - 1)
    BY <2>1, LeaseCalled
  <2> HIDE DEF l
  <2>3. QP!LeaseCall(l)
    BY <2>1, SameSettlements DEF QP!LeaseCall
  <2>4. QED
    BY <2>2, <2>3 DEF QP!Next
<1>8. ASSUME NEW d \in Drains, DrainLosesLease(d) PROVE [QP!Next]_(QP!vars)
  <2> DEFINE l == drains[d].lease
  <2>1. UNCHANGED queueVars \/ (Queue!LeasedWork(l) # {} /\ Queue!LoseLease(l))
    BY <1>8 DEF DrainLosesLease
  <2>2. CASE Queue!LeasedWork(l) # {} /\ Queue!LoseLease(l)
    <3>1. l \in 1..(nextLease - 1)
      BY <2>2, LeaseCalled
    <3> HIDE DEF l
    <3>2. QP!LeaseCall(l)
      BY <2>2, SameSettlements DEF QP!LeaseCall
    <3>3. QED
      BY <3>1, <3>2 DEF QP!Next
  <2>3. QED
    BY <1>0, <2>1, <2>2
<1>9. ASSUME NEW d \in Drains, DrainEnds(d) PROVE [QP!Next]_(QP!vars)
  <2>1. records' = QP!Swept \/ UNCHANGED records
    BY <1>9, SameWork DEF DrainEnds
  <2>2. UNCHANGED <<deadLetters, nextLease, nextApproval, grants, now>>
    BY <1>9 DEF DrainEnds
  <2>3. CASE \E i \in QP!Work : QP!LeaseExpired(records[i])
    BY <1>0, <2>1, <2>2, <2>3 DEF QP!Next, QP!ExpireLeases, queueVars
  <2>4. CASE ~\E i \in QP!Work : QP!LeaseExpired(records[i])
    <3>1. QP!Swept = records
      BY <2>4 DEF QP!Swept, QP!Coherent, QP!TypeOK, QP!Work
    <3>2. QED
      BY <1>0, <2>1, <2>2, <3>1 DEF queueVars
  <2>5. QED
    BY <2>3, <2>4
<1>10. CASE Tick
  BY <1>10, SameCalls DEF Tick, QP!Next
<1>11. CASE UNCHANGED vars
  BY <1>0, <1>11 DEF vars
<1>12. QED
  BY <1>1, <1>2, <1>3, <1>4, <1>5, <1>6, <1>7, <1>8, <1>9, <1>10, <1>11 DEF Next, Drain

(* So the queue's own invariant holds under the control plane. *)
LEMMA CoherentKept == QP!Coherent /\ Typed /\ [Next]_vars => QP!Coherent'
BY QueueStep, QP!CoherentKept, Assumed

(* How a step changes the records that are there. *)
Active(i) == records[i].status \in {"queued", "claimed", "awaiting_approval"}

(* No step makes ended work active again, changes it, or gives it to another run. *)
LEMMA RecordsEvolve ==
  ASSUME QP!Coherent, Typed, [Next]_vars, NEW i \in DOMAIN records
  PROVE  /\ i \in DOMAIN records' /\ records'[i].run = records[i].run
         /\ Active(i)' => Active(i)
         /\ ~Active(i) => records'[i] = records[i]
<1>1. QP!Step /\ i \in QP!Work /\ QP!TypeOK
  BY QueueStep, QP!NextStep, Assumed DEF QP!Coherent, QP!Work
<1>2. i \in DOMAIN records'
  BY <1>1 DEF QP!Step
<1>3. /\ QP!SameIdentity(records[i], records'[i])
      /\ QP!IsActive(records'[i]) => QP!IsActive(records[i])
      /\ ~QP!IsActive(records[i]) => records'[i] = records[i]
  BY <1>1, QP!ActiveBefore, Assumed
<1>4. QED
  BY <1>2, <1>3 DEF QP!SameIdentity, QP!IsActive, Active

(* A lease is on one record. *)
LEMMA LeaseOnOne ==
  ASSUME QP!Coherent, NEW l, NEW i \in Queue!LeasedWork(l), NEW j \in Queue!LeasedWork(l)
  PROVE  i = j /\ i \in DOMAIN records /\ records[i] \in QP!Record
BY DEF Queue!LeasedWork, Queue!Work, QP!Coherent, QP!IdsUnique, QP!TypeOK, QP!Work

(* The settlement of a drain, with what it makes of the record it is for. *)
LEMMA Settles ==
  ASSUME QP!Coherent, Typed, NEW d \in Drains, DrainSettles(d)
  PROVE  \E i \in DOMAIN records, x \in Settlements :
           /\ drains' = [drains EXCEPT ![d] =
                           [pc |-> "looping", lease |-> 0, settled |-> Append(drains[d].settled, x)]]
           /\ x.run = records[i].run /\ records[i].status = "claimed"
           /\ UNCHANGED <<storeVars, grants, nextLease>>
           /\ \/ /\ x.status \in {"cancelled", "completed"} /\ records'[i].status = x.status
                 /\ x.approval = 0 /\ nextApproval' = nextApproval
              \/ /\ x.status = "awaiting_approval" /\ records'[i].status = "awaiting_approval"
                 /\ x.approval = nextApproval /\ nextApproval' = nextApproval + 1
                 /\ records'[i].gate.approval = nextApproval /\ records'[i].gate.status = "pending"
                 /\ \A j \in DOMAIN records : j # i => records'[j] = records[j]
                 /\ DOMAIN records' = DOMAIN records
              \/ /\ x.status = "queued" /\ records'[i].status = "failed"
                 /\ x.approval = 0 /\ nextApproval' = nextApproval
              \/ /\ x.status = "failed" /\ records'[i].status = "dead"
                 /\ x.approval = 0 /\ nextApproval' = nextApproval
                 /\ \E e \in DOMAIN deadLetters' : deadLetters'[e].run = records[i].run
<1> DEFINE l == drains[d].lease
           Ended(i, status, state) == [Queue!Move(records[i], status, state) EXCEPT !.lease = Queue!NoLease]
<1>1. drains[d] \in Underway /\ drains[d].pc = "carrying" /\ UNCHANGED storeVars /\ QP!TypeOK
      /\ drains \in [Drains -> Underway]
  BY DEF DrainSettles, Typed, QP!Coherent
<1>2. ASSUME NEW x, Settled(d, x)
      PROVE  drains' = [drains EXCEPT ![d] =
                           [pc |-> "looping", lease |-> 0, settled |-> Append(drains[d].settled, x)]]
  <2> DEFINE v == Append(drains[d].settled, x)
             u == [drains[d] EXCEPT !.pc = "looping", !.lease = 0, !.settled = v]
  <2>1. drains' = [drains EXCEPT ![d] = u]
    BY <1>1, <1>2 DEF Settled
  <2>2. u = [pc |-> "looping", lease |-> 0, settled |-> v]
    <3> DEFINE r == drains[d]
               t == [r EXCEPT !.pc = "looping"]
               q == [t EXCEPT !.lease = 0]
    <3>1. r \in Underway
      BY <1>1
    <3> HIDE DEF r, v
    <3>2. t = [pc |-> "looping", lease |-> r.lease, settled |-> r.settled]
      BY <3>1 DEF Underway
    <3> HIDE DEF t
    <3>3. q = [pc |-> "looping", lease |-> 0, settled |-> r.settled]
      BY <3>2
    <3> HIDE DEF q
    <3>4. [q EXCEPT !.settled = v] = [pc |-> "looping", lease |-> 0, settled |-> v]
      BY <3>3
    <3>5. QED
      BY <3>4 DEF q, t, r
  <2>3. QED
    BY <2>1, <2>2
<1>3. ASSUME NEW i \in Queue!LeasedWork(l), NEW status \in RunStatuses \ {"none"}, NEW a \in 0..MaxApprovals
      PROVE  /\ i \in DOMAIN records /\ records[i] \in QP!Record
             /\ Settlement(i, status, a) \in Settlements
             /\ Settlement(i, status, a).run = records[i].run /\ Settlement(i, status, a).status = status
             /\ Settlement(i, status, a).approval = a
  <2>1. i \in DOMAIN records /\ records[i] \in QP!Record
    BY <1>3, LeaseOnOne
  <2>2. records[i].run \in Runs
    BY <2>1 DEF QP!Record
  <2>3. QED
    BY <2>1, <2>2 DEF Settlement, Settlements
<1>4. \A i \in DOMAIN records : \A status, state :
        records[i] \in QP!Record => Ended(i, status, state).status = status
  BY DEF Queue!Move, QP!Record
<1>5. 0 \in 0..MaxApprovals /\ {"cancelled", "completed", "awaiting_approval", "queued", "failed"} \subseteq RunStatuses \ {"none"}
  BY ControlPlaneAssumption DEF RunStatuses
<1>6. ASSUME NEW i \in Queue!LeasedWork(l), Queue!SettleCancelled(l), Settled(d, Settlement(i, "cancelled", 0))
      PROVE  /\ records[i].status = "claimed" /\ records'[i].status = "cancelled"
             /\ UNCHANGED <<grants, nextLease, nextApproval>>
  <2>1. /\ records' = [records EXCEPT ![i] = Ended(i, "cancelled", "cancelled")]
        /\ records[i].status = "claimed" /\ UNCHANGED <<grants, nextLease, nextApproval>>
    <3>1. PICK j \in Queue!LeasedWork(l) :
            /\ records' = [records EXCEPT ![j] = Ended(j, "cancelled", "cancelled")]
            /\ records[j].status = "claimed"
      BY <1>6 DEF Queue!SettleCancelled, Queue!SettleInto, Queue!MaySettle
    <3>2. j = i
      BY LeaseOnOne
    <3>3. QED
      BY <1>6, <3>1, <3>2 DEF Queue!SettleCancelled, Queue!SettleInto, Queue!MaySettle
  <2> HIDE DEF Ended
  <2>2. QED
    BY <1>3, <1>4, <1>5, <2>1 DEF QP!TypeOK
<1>7. ASSUME NEW i \in Queue!LeasedWork(l), Queue!SettleCompleted(l)
      PROVE  /\ records[i].status = "claimed" /\ records'[i].status = "completed"
             /\ UNCHANGED <<grants, nextLease, nextApproval>>
  <2>1. /\ records' = [records EXCEPT ![i] = Ended(i, "completed", "completed")]
        /\ records[i].status = "claimed" /\ UNCHANGED <<grants, nextLease, nextApproval>>
    <3>1. PICK j \in Queue!LeasedWork(l) :
            /\ records' = [records EXCEPT ![j] = Ended(j, "completed", "completed")]
            /\ records[j].status = "claimed"
      BY <1>7 DEF Queue!SettleCompleted, Queue!SettleInto, Queue!MaySettle
    <3>2. j = i
      BY LeaseOnOne
    <3>3. QED
      BY <1>7, <3>1, <3>2 DEF Queue!SettleCompleted, Queue!SettleInto, Queue!MaySettle
  <2> HIDE DEF Ended
  <2>2. QED
    BY <1>3, <1>4, <1>5, <2>1 DEF QP!TypeOK
<1>8. ASSUME NEW i \in Queue!LeasedWork(l), NEW hash \in Hashes, Queue!SettleAwaitingApproval(l, hash)
      PROVE  /\ records[i].status = "claimed" /\ records'[i].status = "awaiting_approval"
             /\ UNCHANGED <<grants, nextLease>>
             /\ nextApproval' = nextApproval + 1 /\ nextApproval \in 0..MaxApprovals
             /\ records'[i].gate.approval = nextApproval /\ records'[i].gate.status = "pending"
             /\ \A j \in DOMAIN records : j # i => records'[j] = records[j]
             /\ DOMAIN records' = DOMAIN records
  <2> DEFINE gate == [approval |-> nextApproval, hash |-> hash, status |-> "pending", expiresAt |-> now + ApprovalTtl]
             m == Queue!Move(records[i], "awaiting_approval", "awaiting_approval")
             s == [[m EXCEPT !.gate = gate] EXCEPT !.lease = Queue!NoLease]
  <2>1. /\ records' = [records EXCEPT ![i] = s] /\ nextApproval' = nextApproval + 1 /\ nextApproval <= MaxApprovals
        /\ records[i].status = "claimed" /\ UNCHANGED <<grants, nextLease>>
    <3>1. PICK j \in Queue!LeasedWork(l) :
            /\ records' = [records EXCEPT ![j] =
                 [[Queue!Move(records[j], "awaiting_approval", "awaiting_approval") EXCEPT !.gate = gate]
                    EXCEPT !.lease = Queue!NoLease]]
            /\ records[j].status = "claimed"
      BY <1>8 DEF Queue!SettleAwaitingApproval, Queue!SettleInto, Queue!MaySettle
    <3>2. j = i
      BY LeaseOnOne
    <3>3. QED
      BY <1>8, <3>1, <3>2 DEF Queue!SettleAwaitingApproval, Queue!SettleInto, Queue!MaySettle
  <2>2. records[i] \in QP!Record /\ i \in DOMAIN records /\ nextApproval \in Nat
    BY <1>1, <1>3, <1>5 DEF QP!TypeOK
  <2>3. s.status = "awaiting_approval" /\ s.gate = gate
    BY <2>2 DEF Queue!Move, QP!Record
  <2>4. gate.approval = nextApproval /\ gate.status = "pending"
    OBVIOUS
  <2> HIDE DEF s, gate
  <2>5. QED
    BY <1>1, <2>1, <2>2, <2>3, <2>4, ControlPlaneAssumption DEF QP!TypeOK
<1>9. ASSUME NEW i \in Queue!LeasedWork(l), Queue!SettleRetry(l)
      PROVE  /\ records[i].status = "claimed" /\ records'[i].status = "failed"
             /\ UNCHANGED <<grants, nextLease, nextApproval>>
  <2>1. PICK n : /\ records' = Append([records EXCEPT ![i] = Ended(i, "failed", "retry_scheduled")], n)
                 /\ records[i].status = "claimed" /\ UNCHANGED <<grants, nextLease, nextApproval>>
    <3>1. PICK j \in Queue!LeasedWork(l) :
            /\ \E n : records' = Append([records EXCEPT ![j] = Ended(j, "failed", "retry_scheduled")], n)
            /\ records[j].status = "claimed"
      BY <1>9 DEF Queue!SettleRetry, Queue!MaySettle
    <3>2. j = i
      BY LeaseOnOne
    <3>3. QED
      BY <1>9, <3>1, <3>2 DEF Queue!SettleRetry, Queue!MaySettle
  <2>2. i \in DOMAIN records /\ Ended(i, "failed", "retry_scheduled").status = "failed"
    BY <1>3, <1>4, <1>5
  <2> HIDE DEF Ended
  <2>3. records'[i] = Ended(i, "failed", "retry_scheduled")
    BY <1>1, <2>1, <2>2 DEF QP!TypeOK
  <2>4. QED
    BY <2>1, <2>2, <2>3
<1>10. ASSUME NEW i \in Queue!LeasedWork(l), Queue!SettleDead(l)
       PROVE  /\ records[i].status = "claimed" /\ records'[i].status = "dead"
              /\ UNCHANGED <<grants, nextLease, nextApproval>>
              /\ \E e \in DOMAIN deadLetters' : deadLetters'[e].run = records[i].run
  <2>1. /\ records' = [records EXCEPT ![i] = Ended(i, "dead", "dead_lettered")]
        /\ deadLetters' = Append(deadLetters, [work |-> i, run |-> records[i].run, attempt |-> records[i].attempt])
        /\ records[i].status = "claimed" /\ UNCHANGED <<grants, nextLease, nextApproval>>
    <3>1. PICK j \in Queue!LeasedWork(l) :
            /\ records' = [records EXCEPT ![j] = Ended(j, "dead", "dead_lettered")]
            /\ deadLetters' = Append(deadLetters, [work |-> j, run |-> records[j].run, attempt |-> records[j].attempt])
            /\ records[j].status = "claimed"
      BY <1>10 DEF Queue!SettleDead, Queue!MaySettle
    <3>2. j = i
      BY LeaseOnOne
    <3>3. QED
      BY <1>10, <3>1, <3>2 DEF Queue!SettleDead, Queue!MaySettle
  <2>2. i \in DOMAIN records /\ Ended(i, "dead", "dead_lettered").status = "dead"
    BY <1>3, <1>4, <1>5
  <2>3. \E e \in DOMAIN deadLetters' : deadLetters'[e].run = records[i].run
    <3>1. Len(deadLetters) + 1 \in DOMAIN deadLetters' /\ deadLetters'[Len(deadLetters) + 1].run = records[i].run
      BY <1>1, <2>1 DEF QP!TypeOK
    <3>2. QED
      BY <3>1
  <2> HIDE DEF Ended
  <2>4. QED
    BY <1>1, <2>1, <2>2, <2>3 DEF QP!TypeOK
<1>11. PICK i \in Queue!LeasedWork(l) :
         \/ Queue!SettleCancelled(l) /\ Settled(d, Settlement(i, "cancelled", 0))
         \/ Queue!SettleCompleted(l) /\ Settled(d, Settlement(i, "completed", 0))
         \/ \E hash \in Hashes : Queue!SettleAwaitingApproval(l, hash)
                                 /\ Settled(d, Settlement(i, "awaiting_approval", nextApproval))
         \/ Queue!SettleRetry(l) /\ Settled(d, Settlement(i, "queued", 0))
         \/ Queue!SettleDead(l) /\ Settled(d, Settlement(i, "failed", 0))
  BY DEF DrainSettles
<1> HIDE DEF l
<1>12. CASE Queue!SettleCancelled(l) /\ Settled(d, Settlement(i, "cancelled", 0))
  <2> DEFINE x == Settlement(i, "cancelled", 0)
  <2>1. i \in DOMAIN records /\ x \in Settlements /\ x.run = records[i].run /\ x.status = "cancelled" /\ x.approval = 0
    BY <1>3, <1>5
  <2> HIDE DEF x
  <2>2. QED
    BY <1>1, <1>2, <1>6, <1>12, <2>1 DEF x
<1>13. CASE Queue!SettleCompleted(l) /\ Settled(d, Settlement(i, "completed", 0))
  BY <1>1, <1>2, <1>3, <1>5, <1>7, <1>13
<1>14. CASE \E hash \in Hashes : Queue!SettleAwaitingApproval(l, hash)
                                 /\ Settled(d, Settlement(i, "awaiting_approval", nextApproval))
  BY <1>1, <1>2, <1>3, <1>5, <1>8, <1>14
<1>15. CASE Queue!SettleRetry(l) /\ Settled(d, Settlement(i, "queued", 0))
  BY <1>1, <1>2, <1>3, <1>5, <1>9, <1>15
<1>16. CASE Queue!SettleDead(l) /\ Settled(d, Settlement(i, "failed", 0))
  BY <1>1, <1>2, <1>3, <1>5, <1>10, <1>16
<1>17. QED
  BY <1>11, <1>12, <1>13, <1>14, <1>15, <1>16

(* The store and the queue start empty. *)
LEMMA InitTyped == Init => QP!Coherent /\ Typed
<1> SUFFICES ASSUME Init PROVE QP!Coherent /\ Typed
  OBVIOUS
<1>1. QP!Coherent
  BY SameCalls, QP!CoherentInit, Assumed DEF Init
<1>2. nextLease = 1 /\ Unbegun \in Underway /\ Len(Unbegun.settled) = 0 /\ Unbegun.lease = 0 /\ Unbegun.pc # "carrying"
  BY SameCalls DEF Init, QP!Init, Unbegun, Underway, Points
<1>3. drains \in [Drains -> Underway] /\ \A d \in Drains : drains[d] = Unbegun
  BY <1>2 DEF Init
<1>4. Typed
  BY <1>2, <1>3, ControlPlaneAssumption DEF Init, Typed, RunStatuses, Decisions
<1>5. QED
  BY <1>1, <1>4

(* A drain that goes on to another point. *)
LEMMA MovesOn ==
  ASSUME NEW r \in Underway, NEW pc, NEW lease
  PROVE  [r EXCEPT !.pc = pc, !.lease = lease] = [pc |-> pc, lease |-> lease, settled |-> r.settled]
<1> DEFINE t == [r EXCEPT !.pc = pc]
<1>1. t = [pc |-> pc, lease |-> r.lease, settled |-> r.settled]
  BY DEF Underway
<1> HIDE DEF t
<1>2. [t EXCEPT !.lease = lease] = [pc |-> pc, lease |-> lease, settled |-> r.settled]
  BY <1>1
<1>3. QED
  BY <1>2 DEF t

(* A step of one drain, and one that is no drain's. *)
LEMMA DrainTyped ==
  ASSUME Typed, NEW d \in Drains, NEW u \in Underway, drains' = [drains EXCEPT ![d] = u],
         nextLease \in Nat, nextLease' \in {nextLease, nextLease + 1}, u.lease < nextLease',
         Len(u.settled) <= MaxItems, u.pc = "carrying" => Len(u.settled) < MaxItems,
         runStatus' \in [Runs -> RunStatuses], policyApproval' = policyApproval,
         approvals' \in [1..MaxApprovals -> Decisions]
  PROVE  Typed'
<1>1. drains' \in [Drains -> Underway] /\ drains'[d] = u /\ \A e \in Drains : e # d => drains'[e] = drains[e]
  BY DEF Typed
<1>2. \A e \in Drains : drains[e].lease \in Nat /\ drains[e].lease < nextLease
  BY DEF Typed, Underway
<1>3. \A e \in Drains : drains'[e].lease < nextLease'
  BY <1>1, <1>2
<1>4. \A e \in Drains : /\ Len(drains'[e].settled) <= MaxItems
                        /\ drains'[e].pc = "carrying" => Len(drains'[e].settled) < MaxItems
  BY <1>1 DEF Typed
<1>5. QED
  BY <1>1, <1>3, <1>4 DEF Typed

(* A step that leaves the drains alone keeps the types, if what it writes is of its type. *)
LEMMA AsideTyped ==
  ASSUME Typed, drains' = drains, nextLease \in Nat, nextLease' \in {nextLease, nextLease + 1},
         runStatus' \in [Runs -> RunStatuses], policyApproval' \in [Runs -> Decisions],
         approvals' \in [1..MaxApprovals -> Decisions]
  PROVE  Typed'
<1>1. \A e \in Drains : drains[e].lease \in Nat /\ drains[e].lease < nextLease
  BY DEF Typed, Underway
<1>2. \A e \in Drains : drains[e].lease < nextLease'
  BY <1>1
<1>3. QED
  BY <1>2 DEF Typed

(* A set of positions has a last one. *)
LEMMA GreatestOf ==
  ASSUME NEW n \in Nat, NEW T \in SUBSET (1..n), T # {}
  PROVE  \E k \in T : \A j \in T : j <= k
<1> DEFINE U == {m \in Nat : \E t \in T : m = n - t}
           R == OpToRel(<, Nat)
<1>1. \A t \in T : t \in Nat /\ n - t \in Nat
  OBVIOUS
<1>2. U \subseteq Nat /\ U # {}
  BY <1>1
<1>3. IsWellFoundedOn(R, Nat)
  BY NatLessThanWellFounded
<1>4. \A x, y \in Nat : x < y => <<x, y>> \in R
  BY DEF OpToRel
<1>5. /\ \A t \in T : n - t \in U
      /\ \A m \in U : \E t \in T : m = n - t
  BY <1>1
<1> HIDE DEF U, R
<1>6. PICK x \in U : \A y \in U : ~ (<<y, x>> \in R)
  BY <1>2, <1>3, WFMin
<1>7. PICK k \in T : x = n - k
  BY <1>5
<1>8. ASSUME NEW j \in T PROVE j <= k
  <2>1. ~ (n - j < n - k) /\ j \in Nat /\ k \in Nat
    BY <1>1, <1>2, <1>4, <1>5, <1>6, <1>7
  <2>2. QED
    BY <2>1
<1>9. QED
  BY <1>8

(* The status the store gets from a list of settlements is the last one's. *)
LEMMA AppliedTyped ==
  ASSUME Typed, NEW settled \in Seq(Settlements), Apply(settled)
  PROVE  /\ runStatus' \in [Runs -> RunStatuses] /\ approvals' \in [1..MaxApprovals -> Decisions]
         /\ policyApproval' = policyApproval
         /\ \A run \in Runs : \/ runStatus'[run] = runStatus[run]
                              \/ \E k \in DOMAIN settled : settled[k].run = run /\ settled[k].status = runStatus'[run]
         /\ \A a \in 1..MaxApprovals :
              approvals'[a] = IF \E k \in DOMAIN settled : settled[k].approval = a THEN "pending" ELSE approvals[a]
<1> DEFINE of(run) == {k \in DOMAIN settled : settled[k].run = run}
           last(run) == CHOOSE k \in of(run) : \A j \in of(run) : j <= k
<1>1. runStatus' = [run \in Runs |-> IF of(run) = {} THEN runStatus[run] ELSE settled[last(run)].status]
  BY DEF Apply
<1>2. ASSUME NEW run \in Runs, of(run) # {}
      PROVE  last(run) \in of(run)
  <2> DEFINE T == of(run)
  <2>1. T \in SUBSET (1..Len(settled)) /\ Len(settled) \in Nat /\ T # {}
    BY <1>2, LenProperties
  <2> HIDE DEF T
  <2>2. \E k \in T : \A j \in T : j <= k
    BY <2>1, GreatestOf
  <2>3. QED
    BY <2>2 DEF T
<1> HIDE DEF last
<1>3. ASSUME NEW run \in Runs
      PROVE  /\ runStatus'[run] \in RunStatuses
             /\ \/ runStatus'[run] = runStatus[run]
                \/ \E k \in DOMAIN settled : settled[k].run = run /\ settled[k].status = runStatus'[run]
  <2>1. CASE of(run) = {}
    BY <1>1, <2>1 DEF Typed
  <2>2. CASE of(run) # {}
    <3>1. last(run) \in DOMAIN settled /\ settled[last(run)].run = run /\ runStatus'[run] = settled[last(run)].status
      BY <1>1, <1>2, <2>2
    <3>2. settled[last(run)] \in Settlements
      BY <3>1
    <3>3. QED
      BY <3>1, <3>2 DEF Settlements
  <2>3. QED
    BY <2>1, <2>2
<1>4. runStatus' \in [Runs -> RunStatuses]
  BY <1>1, <1>3
<1>5. approvals \in [1..MaxApprovals -> Decisions] /\ "pending" \in Decisions
  BY DEF Typed, Decisions
<1>6. approvals' = [a \in 1..MaxApprovals |->
                      IF \E k \in DOMAIN settled : settled[k].approval = a THEN "pending" ELSE approvals[a]]
  BY <1>5 DEF Apply
<1>7. approvals' \in [1..MaxApprovals -> Decisions]
  BY <1>5, <1>6
<1>8. \A a \in 1..MaxApprovals :
        approvals'[a] = IF \E k \in DOMAIN settled : settled[k].approval = a THEN "pending" ELSE approvals[a]
  BY <1>6
<1>9. policyApproval' = policyApproval
  BY DEF Apply
<1>10. QED
  BY <1>3, <1>4, <1>7, <1>8, <1>9

(* Every handler and every step of a drain keeps the types of runs, approvals and drains. *)
LEMMA TypedKept == QP!Coherent /\ Typed /\ [Next]_vars => Typed'
<1> SUFFICES ASSUME QP!Coherent, Typed, [Next]_vars PROVE Typed'
  OBVIOUS
<1>1. nextLease \in Nat /\ nextLease' \in {nextLease, nextLease + 1} /\ drains \in [Drains -> Underway]
  BY QueueStep, QP!IdsDrawnOnce, Assumed DEF QP!Coherent, QP!TypeOK, Typed
<1>2. /\ runStatus \in [Runs -> RunStatuses] /\ policyApproval \in [Runs -> Decisions]
      /\ approvals \in [1..MaxApprovals -> Decisions]
  BY DEF Typed
<1>3. ASSUME NEW run \in Runs, NEW status \in RunStatuses, SetStatus(run, status)
      PROVE  runStatus' \in [Runs -> RunStatuses]
  BY <1>2, <1>3 DEF SetStatus
<1>4. {"failed", "awaiting_approval", "queued", "cancelled"} \subseteq RunStatuses
      /\ {"pending", "approved", "denied", "expired"} \subseteq Decisions
  BY DEF RunStatuses, Decisions
<1>5. ASSUME NEW run \in Runs, CreateRun(run) \/ ApprovePolicy(run) \/ DenyPolicy(run) \/ CancelRun(run)
      PROVE  Typed'
  <2>1. drains' = drains /\ approvals' = approvals
    BY <1>5 DEF CreateRun, ApprovePolicy, DenyPolicy, CancelRun
  <2>2. runStatus' \in [Runs -> RunStatuses]
    BY <1>2, <1>3, <1>4, <1>5 DEF CreateRun, ApprovePolicy, DenyPolicy, CancelRun
  <2>3. policyApproval' \in [Runs -> Decisions]
    BY <1>2, <1>4, <1>5 DEF CreateRun, ApprovePolicy, DenyPolicy, CancelRun
  <2>4. QED
    BY <1>1, <1>2, <2>1, <2>2, <2>3, AsideTyped
<1>6. ASSUME NEW a \in 1..MaxApprovals, ApproveRequest(a) \/ DenyRequest(a)
      PROVE  Typed'
  <2>1. drains' = drains /\ policyApproval' = policyApproval /\ approvals' \in [1..MaxApprovals -> Decisions]
    BY <1>2, <1>4, <1>6 DEF ApproveRequest, DenyRequest
  <2>2. PICK i \in GatedWork(a) : SetStatus(records[i].run, "queued") \/ SetStatus(records[i].run, "cancelled")
    BY <1>6 DEF ApproveRequest, DenyRequest
  <2>3. records[i].run \in Runs
    BY GateCall
  <2>4. runStatus' \in [Runs -> RunStatuses]
    BY <1>3, <1>4, <2>2, <2>3
  <2>5. QED
    BY <1>1, <1>2, <2>1, <2>4, AsideTyped
<1>7. CASE DecideTooLate
  <2>1. drains' = drains /\ runStatus' = runStatus /\ policyApproval' \in [Runs -> Decisions]
        /\ approvals' \in [1..MaxApprovals -> Decisions]
    BY <1>2, <1>4, <1>7 DEF DecideTooLate
  <2>2. QED
    BY <1>1, <1>2, <2>1, AsideTyped
<1>8. ASSUME NEW e \in DOMAIN deadLetters, RedriveDeadLetter(e)
      PROVE  Typed'
  <2>1. deadLetters[e] \in QP!DeadLetter
    BY DEF QP!Coherent, QP!TypeOK
  <2>2. drains' = drains /\ runStatus' \in [Runs -> RunStatuses] /\ UNCHANGED <<policyApproval, approvals>>
    BY <1>3, <1>4, <1>8, <2>1 DEF RedriveDeadLetter, QP!DeadLetter
  <2>3. QED
    BY <1>1, <1>2, <2>2, AsideTyped
<1>9. ASSUME NEW d \in Drains
      PROVE  drains[d] \in Underway /\ Len(drains[d].settled) \in Nat /\ Len(drains[d].settled) <= MaxItems
  BY <1>1, LenProperties DEF Typed, Underway
<1>10. ASSUME NEW d \in Drains, DrainClaims(d)
       PROVE  Typed'
  <2> DEFINE u == [drains[d] EXCEPT !.pc = "carrying", !.lease = nextLease]
  <2>1. drains' = [drains EXCEPT ![d] = u] /\ UNCHANGED storeVars /\ nextLease' = nextLease + 1
        /\ Len(drains[d].settled) < MaxItems
    BY <1>1, <1>10 DEF DrainClaims, Queue!ClaimNext
  <2>2. u = [pc |-> "carrying", lease |-> nextLease, settled |-> drains[d].settled]
    BY <1>9, MovesOn
  <2>3. u \in Underway /\ u.lease = nextLease /\ u.settled = drains[d].settled
    BY <1>1, <1>9, <2>2 DEF Underway, Points
  <2> HIDE DEF u
  <2>4. u.lease < nextLease'
    BY <1>1, <2>1, <2>3
  <2>5. QED
    BY <1>1, <1>2, <1>9, <2>1, <2>3, <2>4, DrainTyped DEF storeVars
<1>11. ASSUME NEW d \in Drains, DrainSettles(d)
       PROVE  Typed'
  <2>1. PICK x \in Settlements :
          /\ drains' = [drains EXCEPT ![d] =
                          [pc |-> "looping", lease |-> 0, settled |-> Append(drains[d].settled, x)]]
          /\ UNCHANGED storeVars
    BY <1>11, Settles
  <2> DEFINE u == [pc |-> "looping", lease |-> 0, settled |-> Append(drains[d].settled, x)]
  <2>2. drains[d].pc = "carrying" /\ Len(drains[d].settled) < MaxItems /\ drains[d].settled \in Seq(Settlements)
    BY <1>9, <1>11 DEF DrainSettles, Typed, Underway
  <2>3. u \in Underway /\ u.lease = 0 /\ u.pc = "looping" /\ Len(u.settled) = Len(drains[d].settled) + 1
    BY <2>2 DEF Underway, Points
  <2> HIDE DEF u
  <2>4. Len(u.settled) <= MaxItems
    BY <1>9, <2>2, <2>3, ControlPlaneAssumption
  <2>5. nextLease' > 0
    BY <1>1 DEF QP!Coherent, QP!TypeOK
  <2>6. QED
    BY <1>1, <1>2, <2>1, <2>3, <2>4, <2>5, DrainTyped DEF storeVars, u
<1>12. ASSUME NEW d \in Drains, DrainLosesLease(d)
       PROVE  Typed'
  <2> DEFINE u == [drains[d] EXCEPT !.pc = "stopped", !.lease = 0]
  <2>1. drains' = [drains EXCEPT ![d] = u] /\ UNCHANGED storeVars
    BY <1>1, <1>12 DEF DrainLosesLease
  <2>2. u = [pc |-> "stopped", lease |-> 0, settled |-> drains[d].settled]
    BY <1>9, MovesOn
  <2>3. u \in Underway /\ u.lease = 0 /\ u.settled = drains[d].settled /\ u.pc = "stopped"
    BY <1>9, <2>2 DEF Underway, Points
  <2> HIDE DEF u
  <2>4. nextLease' > 0
    BY <1>1 DEF QP!Coherent, QP!TypeOK
  <2>5. QED
    BY <1>1, <1>2, <1>9, <2>1, <2>3, <2>4, DrainTyped DEF storeVars
<1>13. ASSUME NEW d \in Drains, DrainEnds(d)
       PROVE  Typed'
  <2>1. drains' = [drains EXCEPT ![d] = Unbegun] /\ Apply(drains[d].settled)
    BY <1>13 DEF DrainEnds
  <2>2. Unbegun \in Underway /\ Unbegun.lease = 0 /\ Len(Unbegun.settled) = 0 /\ Unbegun.pc # "carrying"
    BY DEF Unbegun, Underway, Points
  <2>3. drains[d].settled \in Seq(Settlements)
    BY <1>9 DEF Underway
  <2>4. /\ runStatus' \in [Runs -> RunStatuses] /\ approvals' \in [1..MaxApprovals -> Decisions]
        /\ policyApproval' = policyApproval
    BY <2>1, <2>3, AppliedTyped
  <2>5. nextLease' > 0 /\ 0 <= MaxItems
    BY <1>1, ControlPlaneAssumption DEF QP!Coherent, QP!TypeOK
  <2>6. QED
    BY <1>1, <2>1, <2>2, <2>4, <2>5, DrainTyped
<1>14. CASE Tick \/ UNCHANGED vars
  BY <1>1, <1>2, <1>14, AsideTyped DEF Tick, vars, storeVars
<1>15. QED
  BY <1>5, <1>6, <1>7, <1>8, <1>10, <1>11, <1>12, <1>13, <1>14 DEF Next, Drain

(* The control plane moves the queue by the queue's operations only, so that
   every theorem of WorkerQueueProofs that assumes nothing of how often a run is
   enqueued holds of the queue behind the handlers and drains. *)
THEOREM DrivesTheQueue == Spec => QP!Spec
<1>1. Init => QP!Init
  BY SameCalls DEF Init
<1>2. QED
  BY <1>1, InitTyped, TypedKept, CoherentKept, QueueStep, PTL DEF Spec, QP!Spec

(* Such theorems, of the queue in its control plane. *)
THEOREM QueueKept ==
  Spec => [](QP!FieldsAgree /\ QP!IdsUnique /\ QP!CancelSticks /\ QP!RetryChain /\ QP!ApprovalFidelity
             /\ QP!FirstAttemptUnique)
BY DrivesTheQueue, Assumed, QP!FieldsAgreeHolds, QP!IdsUniqueHolds, QP!CancelSticksHolds, QP!RetryChainHolds,
   QP!ApprovalFidelityHolds, QP!FirstAttemptUniqueHolds, PTL

(* A sequence over a set is one over a larger set. *)
LEMMA SeqOfMore ==
  ASSUME NEW S, NEW T, S \subseteq T, NEW s \in Seq(S)
  PROVE  s \in Seq(T)
OBVIOUS

(* Type correctness of the store and the drains. *)
THEOREM TypeCorrect == Spec => []TypeOK
<1>1. QP!Coherent /\ Typed => TypeOK
  <2> SUFFICES ASSUME QP!Coherent, Typed PROVE TypeOK
    OBVIOUS
  <2>1. nextLease \in Nat
    BY DEF QP!Coherent, QP!TypeOK
  <2> DEFINE Reports == [run : Runs, status : RunStatuses, approval : 0..MaxApprovals]
  <2>2. Settlements \subseteq Reports
    BY DEF Settlements
  <2>3. ASSUME NEW d \in Drains
        PROVE  /\ drains[d].pc \in {"idle", "looping", "carrying", "stopped"}
               /\ drains[d].lease \in 0..(nextLease - 1)
               /\ drains[d].settled \in Seq([run : Runs, status : RunStatuses, approval : 0..MaxApprovals])
               /\ Len(drains[d].settled) <= MaxItems
    <3>1. /\ drains[d] \in Underway /\ drains[d].lease < nextLease /\ Len(drains[d].settled) <= MaxItems
      BY DEF Typed
    <3>2. drains[d].settled \in Seq(Settlements) /\ drains[d].pc \in Points /\ drains[d].lease \in Nat
      BY <3>1 DEF Underway
    <3> HIDE DEF Reports
    <3>3. drains[d].settled \in Seq(Reports)
      BY <2>2, <3>2, SeqOfMore
    <3>4. drains[d].lease \in 0..(nextLease - 1)
      BY <2>1, <3>1, <3>2
    <3>5. QED
      BY <3>1, <3>2, <3>3, <3>4 DEF Points, Reports
  <2>4. QED
    BY <2>3 DEF TypeOK, Typed
<1>2. QED
  BY <1>1, InitTyped, TypedKept, CoherentKept, PTL DEF Spec

-----------------------------------------------------------------------------
(* What a step adds to the queue *)

LEMMA DeadLettersStay ==
  ASSUME QP!Coherent, Typed, [Next]_vars, NEW d \in DOMAIN deadLetters
  PROVE  d \in DOMAIN deadLetters' /\ deadLetters'[d] = deadLetters[d]
<1>1. [QP!Next]_(QP!vars) /\ deadLetters \in Seq(QP!DeadLetter)
  BY QueueStep DEF QP!Coherent, QP!TypeOK
<1>2. ASSUME NEW l, QP!SettleDead(l) PROVE \E x : deadLetters' = Append(deadLetters, x)
  BY <1>2 DEF QP!SettleDead
<1>3. UNCHANGED deadLetters \/ \E l : QP!SettleDead(l)
  BY <1>1 DEF QP!Next, QP!vars, QP!Enqueue, QP!CancelRun, QP!ExpireLeases, QP!ClaimNext, QP!LeaseCall,
     QP!HeartbeatExtend, QP!LoseLease, QP!ExpireOne, QP!SettleCancelled, QP!SettleCompleted, QP!SettleInto,
     QP!SettleAwaitingApproval, QP!SettleRetry, QP!RedriveDeadLetter, QP!ApprovalCallback,
     QP!ResumeApproved, QP!ResumeRefused, QP!ResumePending, QP!CancelApprovalWait, QP!Tick
<1>4. QED
  BY <1>1, <1>2, <1>3

(* A record goes over to the next attempt, and nothing else changes. *)
RetriedFrom(i) ==
  /\ records[i].status = "claimed" /\ records'[i].status = "failed"
  /\ \A j \in DOMAIN records : j # i => records'[j] = records[j]

(* A run is set going: for the first time, or again after a dead letter. *)
SetGoing(run) ==
  /\ runStatus'[run] = "queued"
  /\ \/ runStatus[run] = "none" /\ policyApproval'[run] = policyApproval[run]
     \/ policyApproval[run] = "pending" /\ policyApproval'[run] = "approved"
     \/ \E d \in DOMAIN deadLetters : deadLetters[d].run = run

(* The one record that a step adds is the one it appends. *)
LEMMA Appended ==
  ASSUME QP!Coherent, NEW x, records' = Append(records, x), NEW n \in DOMAIN records' \ DOMAIN records
  PROVE  records'[n] = x
BY DEF QP!Coherent, QP!TypeOK

(* A new record is of the run it is made for. *)
LEMMA NewRecordRun == \A run, attempt, at, from : Queue!NewRecord(run, attempt, at, from).run = run
BY DEF Queue!NewRecord

(* Work begins queued and without a gate: as a retry or redrive of the same run, or because a handler sets
   the run going. *)
LEMMA Begins ==
  ASSUME QP!Coherent, Typed, [Next]_vars, NEW n \in DOMAIN records' \ DOMAIN records
  PROVE  /\ n = Len(records) + 1 /\ records'[n].status = "queued"
         /\ records'[n].gate.approval = 0 /\ records'[n].gate.status = "none"
         /\ \/ \E i \in DOMAIN records : RetriedFrom(i) /\ records[i].run = records'[n].run
            \/ SetGoing(records'[n].run)
<1>1. QP!Step /\ QP!TypeOK /\ DOMAIN records = QP!Work
  BY QueueStep, QP!NextStep, Assumed DEF QP!Coherent, QP!Work
<1>2. n = Len(records) + 1 /\ QP!Pushed(records'[n])
  BY <1>1 DEF QP!Step
<1>3. records'[n].status = "queued" /\ records'[n].gate.approval = 0 /\ records'[n].gate.status = "none"
  BY <1>2, QP!PushedFields, Assumed DEF QP!NoGate
<1> DEFINE Goal == (\E i \in DOMAIN records : RetriedFrom(i) /\ records[i].run = records'[n].run)
                   \/ SetGoing(records'[n].run)
<1>4. ASSUME NEW i \in DOMAIN records, records'[i] # records[i]
      PROVE  Goal
  <2>1. QP!PushedRetry(records'[n])
    BY <1>1, <1>2, <1>4 DEF QP!Pushed, QP!PushedFirst, QP!PushedRedrive, QP!OthersStay, QP!Work, QP!TypeOK
  <2>2. PICK j \in DOMAIN records :
          /\ records'[n] = QP!NewRecord(records[j].run, records[j].attempt + 1, records'[n].availableAt, j)
          /\ records[j].status = "claimed" /\ records'[j].status = "failed" /\ QP!OthersStay(j)
    BY <1>1, <2>1 DEF QP!PushedRetry
  <2>3. records'[n].run = records[j].run
    BY <2>2 DEF QP!NewRecord
  <2>4. RetriedFrom(j)
    BY <1>1, <2>2 DEF RetriedFrom, QP!OthersStay
  <2>5. QED
    BY <2>3, <2>4
<1> HIDE DEF Goal
<1>5. ASSUME UNCHANGED records PROVE FALSE
  BY <1>5
<1>6. runStatus \in [Runs -> RunStatuses] /\ policyApproval \in [Runs -> Decisions] /\ deadLetters \in Seq(QP!DeadLetter)
  BY <1>1 DEF Typed, QP!TypeOK
<1>7. ASSUME NEW run \in Runs, CreateRun(run) PROVE Goal
  <2>1. SetStatus(run, "queued") /\ Queue!Enqueue(run) /\ UNCHANGED policyApproval /\ runStatus[run] = "none"
    BY <1>5, <1>7 DEF CreateRun, queueVars
  <2>2. records'[n].run = run
    BY <2>1, Appended, NewRecordRun DEF Queue!Enqueue
  <2>3. QED
    BY <1>6, <2>1, <2>2 DEF Goal, SetGoing, SetStatus
<1>8. ASSUME NEW run \in Runs, ApprovePolicy(run) PROVE Goal
  <2>1. /\ SetStatus(run, "queued") /\ Queue!Enqueue(run) /\ policyApproval[run] = "pending"
        /\ policyApproval' = [policyApproval EXCEPT ![run] = "approved"]
    BY <1>5, <1>8 DEF ApprovePolicy, EnqueueApproved, queueVars
  <2>2. records'[n].run = run
    BY <2>1, Appended, NewRecordRun DEF Queue!Enqueue
  <2>3. QED
    BY <1>6, <2>1, <2>2 DEF Goal, SetGoing, SetStatus
<1>9. ASSUME NEW e \in DOMAIN deadLetters, RedriveDeadLetter(e) PROVE Goal
  <2>1. Queue!RedriveDeadLetter(e) /\ SetStatus(deadLetters[e].run, "queued")
    BY <1>9 DEF RedriveDeadLetter
  <2>2. records'[n].run = deadLetters[e].run
    BY <2>1, Appended, NewRecordRun DEF Queue!RedriveDeadLetter
  <2>3. deadLetters[e] \in QP!DeadLetter
    BY <1>6
  <2>4. QED
    BY <1>6, <2>1, <2>2, <2>3 DEF Goal, SetGoing, SetStatus, QP!DeadLetter
<1>10. ASSUME NEW d \in Drains, DrainSettles(d) PROVE Goal
  <2>1. PICK i \in DOMAIN records : records[i].status = "claimed" /\ records'[i].status # "claimed"
    BY <1>10, Settles
  <2>2. QED
    BY <1>4, <2>1
<1>11. ASSUME DOMAIN records' = DOMAIN records PROVE FALSE
  BY <1>11
<1>12. ASSUME NEW run \in Runs, DenyPolicy(run) \/ CancelRun(run) PROVE FALSE
  BY <1>5, <1>11, <1>12 DEF DenyPolicy, CancelRun, queueVars, Queue!CancelRun, Queue!Work
<1>13. ASSUME NEW a \in 1..MaxApprovals, ApproveRequest(a) \/ DenyRequest(a) PROVE FALSE
  BY <1>5, <1>11, <1>13 DEF ApproveRequest, DenyRequest, queueVars, Queue!ResumeApproved, Queue!ResumeRefused,
     Queue!CancelApprovalWait, Queue!Work
<1>14. ASSUME NEW d \in Drains, DrainClaims(d) \/ DrainLosesLease(d) \/ DrainEnds(d) PROVE FALSE
  BY <1>5, <1>11, <1>14 DEF DrainClaims, DrainLosesLease, DrainEnds, queueVars, Queue!ClaimNext, Queue!Swept,
     Queue!LoseLease, Queue!ExpireOne, Queue!Work
<1>15. ASSUME DecideTooLate \/ Tick \/ UNCHANGED vars PROVE FALSE
  BY <1>5, <1>15 DEF DecideTooLate, Tick, vars, queueVars, Queue!Tick
<1>16. Goal
  <2>1. CASE \E run \in Runs : CreateRun(run) \/ ApprovePolicy(run) \/ DenyPolicy(run) \/ CancelRun(run)
    BY <1>7, <1>8, <1>12, <2>1
  <2>2. CASE \E a \in 1..MaxApprovals : ApproveRequest(a) \/ DenyRequest(a)
    BY <1>13, <2>2
  <2>3. CASE \E e \in DOMAIN deadLetters : RedriveDeadLetter(e)
    BY <1>9, <2>3
  <2>4. CASE \E d \in Drains : Drain(d)
    BY <1>10, <1>14, <2>4 DEF Drain
  <2>5. QED
    BY <1>15, <2>1, <2>2, <2>3, <2>4 DEF Next
<1>17. QED
  BY <1>2, <1>3, <1>16 DEF Goal

-----------------------------------------------------------------------------
(* What a step changes of the store and the drains *)

(* A denied request: the work behind it does not wait any longer. *)
LEMMA DenyStops ==
  ASSUME QP!Coherent, Typed, GatesMatchApprovals, NEW a \in 1..MaxApprovals, DenyRequest(a), NEW i \in GatedWork(a)
  PROVE  /\ i \in DOMAIN records /\ records'[i].status = "cancelled" /\ records'[i].gate.status # "approved"
         /\ records'[i].gate.approval = a /\ DOMAIN records' = DOMAIN records
         /\ \A j \in DOMAIN records : j # i => records'[j] = records[j]
         /\ runStatus' = [runStatus EXCEPT ![records[i].run] = "cancelled"]
         /\ nextApproval' = nextApproval /\ UNCHANGED <<policyApproval, drains>>
<1> DEFINE hash == records[i].gate.hash
<1>1. /\ a \in 1..(nextApproval - 1) /\ hash \in Hashes /\ i \in DOMAIN records /\ records[i].gate.approval = a
      /\ \A j \in DOMAIN records : records[j].gate.approval = a => j = i
  BY GateCall
<1>2. \A j \in GatedWork(a) : j = i
  BY <1>1 DEF GatedWork
<1>3. /\ approvals[a] = "pending" /\ runStatus' = [runStatus EXCEPT ![records[i].run] = "cancelled"]
      /\ UNCHANGED <<policyApproval, drains>>
      /\ IF Queue!Waiting(a, hash) = {} THEN UNCHANGED queueVars ELSE Queue!ResumeRefused(a, hash, "denied")
  BY <1>2 DEF DenyRequest, SetStatus
<1>4. records[i] \in QP!Record /\ records \in Seq(QP!Record)
  BY <1>1 DEF QP!Coherent, QP!TypeOK
<1>5. records[i].gate.status # "approved"
  BY <1>1, <1>3 DEF GatesMatchApprovals
<1> HIDE DEF hash
<1>6. CASE Queue!Waiting(a, hash) = {}
  <2>1. records' = records /\ nextApproval' = nextApproval
    BY <1>3, <1>6 DEF queueVars
  <2>2. \A j \in 1..(i - 1) : j \in DOMAIN records /\ j # i
    BY <1>1, <1>4
  <2>3. records[i].status # "awaiting_approval"
    BY <1>1, <1>6, <2>2 DEF Queue!Waiting, Queue!Work, hash
  <2>4. records[i].status \in {"awaiting_approval", "cancelled"}
    BY <1>1, <1>5 DEF QP!Coherent, QP!GatesDecide, QP!Work
  <2>5. QED
    BY <1>1, <1>3, <1>5, <2>1, <2>3, <2>4
<1>7. CASE Queue!Waiting(a, hash) # {}
  <2> DEFINE s == [Queue!Move(records[i], "cancelled", "cancelled") EXCEPT !.gate.status = "denied"]
  <2>1. records' = [records EXCEPT ![i] = s] /\ nextApproval' = nextApproval
    BY <1>1, <1>3, <1>7 DEF Queue!ResumeRefused, Queue!CancelApprovalWait, Queue!Waiting, Queue!Work
  <2>2. s.status = "cancelled" /\ s.gate = [records[i].gate EXCEPT !.status = "denied"]
    BY <1>4 DEF Queue!Move, QP!Record
  <2>3. records[i].gate \in QP!Gate
    BY <1>4 DEF QP!Record
  <2>4. s.gate.status = "denied" /\ s.gate.approval = a
    BY <1>1, <2>2, <2>3 DEF QP!Gate
  <2> HIDE DEF s
  <2>5. QED
    BY <1>1, <1>3, <1>4, <2>1, <2>2, <2>4
<1>8. QED
  BY <1>6, <1>7

(* A run cancelled by its own request. *)
LEMMA CancelStops ==
  ASSUME QP!Coherent, NEW run, CancelRun(run), runStatus'[run] # runStatus[run]
  PROVE  /\ DOMAIN records' = DOMAIN records
         /\ \A i \in DOMAIN records : records[i].run = run /\ Active(i) => records'[i].status = "cancelled"
<1> DEFINE active == Queue!ActiveWork(run)
<1>1. \A i \in DOMAIN records : i \in active <=> records[i].run = run /\ Active(i)
  BY DEF Queue!ActiveWork, Queue!IsActive, Queue!Work, Active
<1>2. /\ IF active = {} THEN UNCHANGED queueVars ELSE Queue!CancelRun(run)
      /\ \A i \in active : records[i].status # "claimed"
  BY DEF CancelRun
<1> HIDE DEF active
<1>3. CASE active = {}
  BY <1>1, <1>2, <1>3 DEF queueVars
<1>4. CASE active # {}
  <2>1. records' = [i \in DOMAIN records |-> IF i \in active THEN Queue!Cancelled(records[i]) ELSE records[i]]
    BY <1>2, <1>4 DEF Queue!CancelRun, Queue!Work, active
  <2>2. ASSUME NEW i \in DOMAIN records, i \in active
        PROVE  records'[i].status = "cancelled"
    <3>1. records[i] \in QP!Record /\ records[i].status # "claimed"
      BY <1>2, <2>2 DEF QP!Coherent, QP!TypeOK
    <3>2. Queue!Cancelled(records[i]).status = "cancelled"
      BY <3>1 DEF Queue!Cancelled, Queue!Move, QP!Record
    <3>3. QED
      BY <2>1, <2>2, <3>2
  <2>3. QED
    BY <1>1, <2>1, <2>2
<1>5. QED
  BY <1>3, <1>4

(* What a drain's settlements tell. *)
Ends(d, run) ==
  /\ DrainEnds(d)
  /\ \E k \in DOMAIN drains[d].settled :
       drains[d].settled[k].run = run /\ drains[d].settled[k].status = runStatus'[run]

(* Who may change the status that the store shows of a run, and to what. *)
LEMMA StatusChanges ==
  ASSUME QP!Coherent, Typed, [Next]_vars, NEW run \in Runs, runStatus'[run] # runStatus[run]
  PROVE  \/ runStatus'[run] \in {"queued", "awaiting_approval"}
         \/ runStatus'[run] = "failed" /\ runStatus[run] = "none" /\ UNCHANGED records
         \/ runStatus'[run] = "cancelled" /\ policyApproval[run] = "pending" /\ UNCHANGED records
         \/ runStatus'[run] = "cancelled" /\ runStatus[run] # "none" /\ CancelRun(run)
         \/ /\ runStatus'[run] = "cancelled"
            /\ \E a \in 1..MaxApprovals : DenyRequest(a) /\ \E i \in GatedWork(a) : records[i].run = run
         \/ \E d \in Drains : Ends(d, run)
<1>1. runStatus \in [Runs -> RunStatuses]
  BY DEF Typed
<1>2. ASSUME NEW other, NEW status, SetStatus(other, status)
      PROVE  other = run /\ runStatus'[run] = status
  BY <1>1, <1>2 DEF SetStatus
<1>3. ASSUME NEW other \in Runs, CreateRun(other) \/ ApprovePolicy(other) \/ DenyPolicy(other)
      PROVE  \/ runStatus'[run] \in {"queued", "awaiting_approval"}
             \/ runStatus'[run] = "failed" /\ runStatus[run] = "none" /\ UNCHANGED records
             \/ runStatus'[run] = "cancelled" /\ policyApproval[run] = "pending" /\ UNCHANGED records
  BY <1>2, <1>3 DEF CreateRun, ApprovePolicy, DenyPolicy, queueVars
<1>4. ASSUME NEW other \in Runs, CancelRun(other)
      PROVE  runStatus'[run] = "cancelled" /\ runStatus[run] # "none" /\ CancelRun(run)
  <2>1. SetStatus(other, "cancelled") /\ runStatus[other] \in {"queued", "awaiting_approval"}
    BY <1>4 DEF CancelRun
  <2>2. QED
    BY <1>2, <1>4, <2>1
<1>5. ASSUME NEW a \in 1..MaxApprovals, ApproveRequest(a)
      PROVE  runStatus'[run] = "queued"
  BY <1>2, <1>5 DEF ApproveRequest
<1>6. ASSUME NEW a \in 1..MaxApprovals, DenyRequest(a)
      PROVE  runStatus'[run] = "cancelled" /\ \E i \in GatedWork(a) : records[i].run = run
  <2>1. PICK i \in GatedWork(a) : SetStatus(records[i].run, "cancelled")
    BY <1>6 DEF DenyRequest
  <2>2. QED
    BY <1>2, <2>1
<1>7. ASSUME NEW e \in DOMAIN deadLetters, RedriveDeadLetter(e)
      PROVE  runStatus'[run] = "queued"
  BY <1>2, <1>7 DEF RedriveDeadLetter
<1>8. ASSUME NEW d \in Drains, DrainEnds(d)
      PROVE  Ends(d, run)
  <2>1. Apply(drains[d].settled) /\ drains[d].settled \in Seq(Settlements)
    BY <1>8 DEF DrainEnds, Typed, Underway
  <2>2. QED
    BY <1>8, <2>1, AppliedTyped DEF Ends
<1>9. ASSUME NEW d \in Drains, DrainClaims(d) \/ DrainSettles(d) \/ DrainLosesLease(d)
      PROVE  FALSE
  BY <1>9 DEF DrainClaims, DrainSettles, DrainLosesLease, storeVars
<1>10. ~(DecideTooLate \/ Tick \/ UNCHANGED vars)
  BY DEF DecideTooLate, Tick, vars, storeVars
<1>11. CASE \E other \in Runs : CreateRun(other) \/ ApprovePolicy(other) \/ DenyPolicy(other) \/ CancelRun(other)
  BY <1>3, <1>4, <1>11
<1>12. CASE \E a \in 1..MaxApprovals : ApproveRequest(a) \/ DenyRequest(a)
  BY <1>5, <1>6, <1>12
<1>13. CASE \E e \in DOMAIN deadLetters : RedriveDeadLetter(e)
  BY <1>7, <1>13
<1>14. CASE \E d \in Drains : Drain(d)
  BY <1>8, <1>9, <1>14 DEF Drain
<1>15. QED
  BY <1>10, <1>11, <1>12, <1>13, <1>14 DEF Next

Requests(d, a) == DrainEnds(d) /\ \E k \in DOMAIN drains[d].settled : drains[d].settled[k].approval = a

(* An approval is requested by a drain as it applies its results, and decided once by a handler. *)
LEMMA ApprovalsChange ==
  ASSUME QP!Coherent, Typed, [Next]_vars, NEW a \in 1..MaxApprovals, approvals'[a] # approvals[a]
  PROVE  \/ /\ approvals[a] = "pending"
            /\ \/ approvals'[a] = "approved" /\ ApproveRequest(a)
               \/ approvals'[a] = "denied" /\ DenyRequest(a)
               \/ approvals'[a] = "expired" /\ DecideTooLate
         \/ approvals'[a] = "pending" /\ \E d \in Drains : Requests(d, a)
<1>1. approvals \in [1..MaxApprovals -> Decisions]
  BY DEF Typed
<1>2. ASSUME NEW b \in 1..MaxApprovals, ApproveRequest(b) \/ DenyRequest(b)
      PROVE  /\ approvals[a] = "pending"
             /\ \/ approvals'[a] = "approved" /\ ApproveRequest(a)
                \/ approvals'[a] = "denied" /\ DenyRequest(a)
  <2>1. b = a
    BY <1>1, <1>2 DEF ApproveRequest, DenyRequest
  <2>2. CASE ApproveRequest(a)
    BY <1>1, <2>2 DEF ApproveRequest
  <2>3. CASE DenyRequest(a)
    BY <1>1, <2>3 DEF DenyRequest
  <2>4. QED
    BY <1>2, <2>1, <2>2, <2>3
<1>3. CASE DecideTooLate
  <2>1. PICK b \in 1..MaxApprovals : approvals[b] = "pending" /\ approvals' = [approvals EXCEPT ![b] = "expired"]
    BY <1>3 DEF DecideTooLate
  <2>2. b = a
    BY <1>1, <2>1
  <2>3. QED
    BY <1>1, <1>3, <2>1, <2>2
<1>4. ASSUME NEW d \in Drains, DrainEnds(d)
      PROVE  approvals'[a] = "pending" /\ Requests(d, a)
  <2>1. Apply(drains[d].settled) /\ drains[d].settled \in Seq(Settlements)
    BY <1>4 DEF DrainEnds, Typed, Underway
  <2>2. approvals'[a] = IF \E k \in DOMAIN drains[d].settled : drains[d].settled[k].approval = a
                        THEN "pending" ELSE approvals[a]
    BY <2>1, AppliedTyped
  <2>3. QED
    BY <1>4, <2>2 DEF Requests
<1>5. ASSUME NEW d \in Drains, DrainClaims(d) \/ DrainSettles(d) \/ DrainLosesLease(d)
      PROVE  FALSE
  BY <1>5 DEF DrainClaims, DrainSettles, DrainLosesLease, storeVars
<1>6. ~(Tick \/ UNCHANGED vars)
  BY DEF Tick, vars, storeVars
<1>7. ASSUME NEW run \in Runs, CreateRun(run) \/ ApprovePolicy(run) \/ DenyPolicy(run) \/ CancelRun(run)
      PROVE  FALSE
  BY <1>7 DEF CreateRun, ApprovePolicy, DenyPolicy, CancelRun
<1>8. ASSUME NEW e \in DOMAIN deadLetters, RedriveDeadLetter(e) PROVE FALSE
  BY <1>8 DEF RedriveDeadLetter
<1>9. CASE \E b \in 1..MaxApprovals : ApproveRequest(b) \/ DenyRequest(b)
  BY <1>2, <1>9
<1>10. CASE \E d \in Drains : Drain(d)
  BY <1>4, <1>5, <1>10 DEF Drain
<1>11. QED
  BY <1>3, <1>6, <1>7, <1>8, <1>9, <1>10 DEF Next

(* The approval a run is created with is requested at creation, before there is work, and decided once. *)
LEMMA PolicyChanges ==
  ASSUME Typed, [Next]_vars, NEW run \in Runs, policyApproval'[run] # policyApproval[run]
  PROVE  \/ policyApproval'[run] = "pending" /\ runStatus[run] = "none" /\ runStatus'[run] # "none" /\ UNCHANGED records
         \/ policyApproval[run] = "pending" /\ policyApproval'[run] \in {"approved", "denied", "expired"}
<1>1. policyApproval \in [Runs -> Decisions] /\ runStatus \in [Runs -> RunStatuses]
  BY DEF Typed
<1>2. ASSUME NEW other \in Runs, CreateRun(other)
      PROVE  policyApproval'[run] = "pending" /\ runStatus[run] = "none" /\ runStatus'[run] # "none" /\ UNCHANGED records
  <2>1. /\ policyApproval' = [policyApproval EXCEPT ![other] = "pending"] /\ UNCHANGED queueVars
        /\ runStatus[other] = "none" /\ SetStatus(other, "awaiting_approval")
    BY <1>2 DEF CreateRun
  <2>2. other = run
    BY <1>1, <2>1
  <2>3. QED
    BY <1>1, <2>1, <2>2 DEF queueVars, SetStatus
<1>3. ASSUME NEW other \in Runs, ApprovePolicy(other) \/ DenyPolicy(other)
      PROVE  policyApproval[run] = "pending" /\ policyApproval'[run] \in {"approved", "denied", "expired"}
  <2>1. PICK decision \in {"approved", "denied"} :
          policyApproval[other] = "pending" /\ policyApproval' = [policyApproval EXCEPT ![other] = decision]
    BY <1>3 DEF ApprovePolicy, DenyPolicy
  <2>2. other = run
    BY <1>1, <2>1
  <2>3. QED
    BY <1>1, <2>1, <2>2
<1>4. ASSUME DecideTooLate
      PROVE  policyApproval[run] = "pending" /\ policyApproval'[run] \in {"approved", "denied", "expired"}
  <2>1. PICK other \in Runs :
          policyApproval[other] = "pending" /\ policyApproval' = [policyApproval EXCEPT ![other] = "expired"]
    BY <1>4 DEF DecideTooLate
  <2>2. other = run
    BY <1>1, <2>1
  <2>3. QED
    BY <1>1, <2>1, <2>2
<1>5. ASSUME NEW d \in Drains, Drain(d) PROVE FALSE
  BY <1>5 DEF Drain, DrainClaims, DrainSettles, DrainLosesLease, DrainEnds, Apply, storeVars
<1>6. ~(Tick \/ UNCHANGED vars)
  BY DEF Tick, vars, storeVars
<1>7. ASSUME NEW run2 \in Runs, CancelRun(run2) PROVE FALSE
  BY <1>7 DEF CancelRun
<1>8. ASSUME NEW a \in 1..MaxApprovals, ApproveRequest(a) \/ DenyRequest(a) PROVE FALSE
  BY <1>8 DEF ApproveRequest, DenyRequest
<1>9. ASSUME NEW e \in DOMAIN deadLetters, RedriveDeadLetter(e) PROVE FALSE
  BY <1>9 DEF RedriveDeadLetter
<1>10. CASE \E other \in Runs : CreateRun(other) \/ ApprovePolicy(other) \/ DenyPolicy(other) \/ CancelRun(other)
  BY <1>2, <1>3, <1>7, <1>10
<1>11. QED
  BY <1>4, <1>5, <1>6, <1>8, <1>9, <1>10 DEF Next

(* What a drain has settled is kept until its loop ends. *)
LEMMA DrainsEvolve ==
  ASSUME QP!Coherent, Typed, [Next]_vars, NEW e \in Drains
  PROVE  /\ drains[e].settled \in Seq(Settlements)
         /\ \/ drains'[e].settled = drains[e].settled
            \/ DrainSettles(e)
            \/ DrainEnds(e) /\ drains'[e].settled = <<>>
<1>1. drains \in [Drains -> Underway] /\ drains[e] \in Underway
  BY DEF Typed
<1>2. drains[e].settled \in Seq(Settlements)
  BY <1>1 DEF Underway
<1>3. ASSUME NEW d \in Drains, NEW u, drains' = [drains EXCEPT ![d] = u]
      PROVE  drains'[d] = u /\ (e = d \/ drains'[e] = drains[e])
  BY <1>1, <1>3
<1>4. ASSUME NEW d \in Drains, DrainClaims(d)
      PROVE  drains'[e].settled = drains[e].settled
  <2> DEFINE u == [drains[d] EXCEPT !.pc = "carrying", !.lease = nextLease]
  <2>1. drains' = [drains EXCEPT ![d] = u]
    BY <1>1, <1>4 DEF DrainClaims
  <2>2. u.settled = drains[d].settled
    BY <1>1 DEF Typed, Underway
  <2> HIDE DEF u
  <2>3. QED
    BY <1>3, <2>1, <2>2
<1>5. ASSUME NEW d \in Drains, DrainLosesLease(d)
      PROVE  drains'[e].settled = drains[e].settled
  <2> DEFINE u == [drains[d] EXCEPT !.pc = "stopped", !.lease = 0]
  <2>1. drains' = [drains EXCEPT ![d] = u]
    BY <1>1, <1>5 DEF DrainLosesLease
  <2>2. u.settled = drains[d].settled
    BY <1>1 DEF Typed, Underway
  <2> HIDE DEF u
  <2>3. QED
    BY <1>3, <2>1, <2>2
<1>6. ASSUME NEW d \in Drains, DrainSettles(d)
      PROVE  drains'[e].settled = drains[e].settled \/ DrainSettles(e)
  <2>1. PICK u : drains' = [drains EXCEPT ![d] = u]
    BY <1>6, Settles
  <2>2. QED
    BY <1>3, <1>6, <2>1
<1>7. ASSUME NEW d \in Drains, DrainEnds(d)
      PROVE  drains'[e].settled = drains[e].settled \/ (DrainEnds(e) /\ drains'[e].settled = <<>>)
  <2>1. drains' = [drains EXCEPT ![d] = Unbegun] /\ Unbegun.settled = <<>>
    BY <1>7 DEF DrainEnds, Unbegun
  <2>2. QED
    BY <1>3, <1>7, <2>1
<1>8. CASE UNCHANGED drains
  BY <1>2, <1>8
<1>9. CASE \E d \in Drains : Drain(d)
  BY <1>2, <1>4, <1>5, <1>6, <1>7, <1>9 DEF Drain
<1>10. QED
  BY <1>8, <1>9 DEF Next, vars, CreateRun, ApprovePolicy, DenyPolicy, CancelRun, ApproveRequest, DenyRequest,
     DecideTooLate, RedriveDeadLetter, Tick

-----------------------------------------------------------------------------
(* The invariant *)

(* A run has work in the queue only once it was created, and not before the
   approval it was created with is decided. *)
Begun ==
  \A run \in Runs :
    /\ runStatus[run] = "none" => policyApproval[run] = "none"
    /\ runStatus[run] = "none" \/ policyApproval[run] = "pending"
         => \A i \in DOMAIN records : records[i].run # run

(* Dead letters are of runs with work. *)
Buried == \A d \in DOMAIN deadLetters : \E i \in DOMAIN records : records[i].run = deadLetters[d].run

(* What a drain is going to tell the store of how runs ended is true, ... *)
Tells(s) ==
  /\ s.status \in {"completed", "cancelled"} =>
       \E i \in DOMAIN records : records[i].run = s.run /\ records[i].status = s.status
  /\ s.status = "failed" => \E i \in DOMAIN records : records[i].run = s.run /\ records[i].status = "dead"

Told == \A d \in Drains : \A k \in DOMAIN drains[d].settled : Tells(drains[d].settled[k])

(* ... and a request for approval it brings is news to the store, and its own. *)
Requested ==
  \A d \in Drains : \A k \in DOMAIN drains[d].settled :
    LET a == drains[d].settled[k].approval IN a # 0 =>
      /\ a < nextApproval /\ approvals[a] = "none"
      /\ \A e \in Drains \ {d} : \A m \in DOMAIN drains[e].settled : drains[e].settled[m].approval # a

(* The store knows no approval that was not asked for. *)
Announced == \A a \in 1..MaxApprovals : approvals[a] # "none" => a < nextApproval

(* Work that waits, or went on past its gate, names an approval. *)
Gated ==
  \A i \in DOMAIN records :
    records[i].status = "awaiting_approval" \/ records[i].gate.status = "approved"
      => records[i].gate.approval \in 1..MaxApprovals

(* A run that was never dead-lettered has one attempt that did not fail. *)
OneOpen ==
  \A run \in Runs :
    \/ \E d \in DOMAIN deadLetters : deadLetters[d].run = run
    \/ \A i, j \in DOMAIN records :
         /\ records[i].run = run /\ records[j].run = run
         /\ records[i].status # "failed" /\ records[j].status # "failed"
         => i = j

(* A run that the store has not set going has no work, whatever step is taken. *)
LEMMA BegunKept ==
  ASSUME QP!Coherent, Typed, Begun, Buried, [Next]_vars
  PROVE  Begun'
<1> SUFFICES ASSUME NEW run \in Runs
             PROVE  /\ runStatus'[run] = "none" => policyApproval'[run] = "none"
                    /\ runStatus'[run] = "none" \/ policyApproval'[run] = "pending"
                         => \A i \in DOMAIN records' : records'[i].run # run
  BY DEF Begun
<1>1. runStatus'[run] = "none" => runStatus[run] = "none"
  <2>1. ASSUME NEW d \in Drains, Ends(d, run) PROVE runStatus'[run] # "none"
    <3>1. PICK k \in DOMAIN drains[d].settled : drains[d].settled[k].status = runStatus'[run]
      BY <2>1 DEF Ends
    <3>2. drains[d].settled[k] \in Settlements
      BY DrainsEvolve
    <3>3. QED
      BY <3>1, <3>2 DEF Settlements
  <2>2. QED
    BY <2>1, StatusChanges
<1>2. /\ runStatus[run] = "none" => policyApproval[run] = "none"
      /\ runStatus[run] = "none" \/ policyApproval[run] = "pending"
           => \A i \in DOMAIN records : records[i].run # run
  BY DEF Begun
<1>3. runStatus'[run] = "none" => policyApproval'[run] = "none"
  BY <1>1, <1>2, PolicyChanges
<1>4. runStatus'[run] = "none" \/ policyApproval'[run] = "pending"
        => \A i \in DOMAIN records : records[i].run # run
  BY <1>1, <1>2, PolicyChanges
<1>5. ASSUME runStatus'[run] = "none" \/ policyApproval'[run] = "pending",
             NEW i \in DOMAIN records', records'[i].run = run
      PROVE  FALSE
  <2>1. i \notin DOMAIN records
    BY <1>4, <1>5, RecordsEvolve
  <2>2. ~\E j \in DOMAIN records : RetriedFrom(j) /\ records[j].run = run
    BY <1>4, <1>5
  <2>3. SetGoing(run)
    BY <1>5, <2>1, <2>2, Begins
  <2>4. ~\E d \in DOMAIN deadLetters : deadLetters[d].run = run
    BY <1>4, <1>5 DEF Buried
  <2>5. QED
    BY <1>2, <1>5, <2>3, <2>4 DEF SetGoing
<1>6. QED
  BY <1>3, <1>5

(* Dead letters stay those of runs with work. *)
LEMMA BuriedKept ==
  ASSUME QP!Coherent, Typed, Buried, [Next]_vars
  PROVE  Buried'
<1> SUFFICES ASSUME NEW d \in DOMAIN deadLetters'
             PROVE  \E i \in DOMAIN records' : records'[i].run = deadLetters'[d].run
  BY DEF Buried
<1>1. \/ d \in DOMAIN deadLetters /\ deadLetters'[d] = deadLetters[d]
      \/ deadLetters'[d].work \in DOMAIN records /\ records'[deadLetters'[d].work].run = deadLetters'[d].run
  BY QueueStep, QP!DeadLetterStep, Assumed DEF QP!Coherent, QP!Work
<1>2. CASE d \in DOMAIN deadLetters /\ deadLetters'[d] = deadLetters[d]
  BY <1>2, RecordsEvolve DEF Buried
<1>3. QED
  BY <1>1, <1>2, RecordsEvolve

(* What a drain remembers of a settlement stays true of the queue's records while other handlers and drains
   go on. *)
LEMMA TellsStays ==
  ASSUME QP!Coherent, Typed, [Next]_vars, NEW s, Tells(s)
  PROVE  Tells(s)'
<1>1. \A i \in DOMAIN records : /\ i \in DOMAIN records' /\ records'[i].run = records[i].run
                                /\ ~Active(i) => records'[i] = records[i]
  BY RecordsEvolve
<1>2. ASSUME NEW status \in {"completed", "cancelled", "dead"},
             NEW i \in DOMAIN records, records[i].run = s.run, records[i].status = status
      PROVE  i \in DOMAIN records' /\ records'[i].run = s.run /\ records'[i].status = status
  BY <1>1, <1>2 DEF Active
<1>3. QED
  BY <1>2 DEF Tells

(* What drains remember of their settlements is true of the queue. *)
LEMMA ToldKept ==
  ASSUME QP!Coherent, Typed, Told, [Next]_vars
  PROVE  Told'
<1>1. SUFFICES ASSUME NEW d \in Drains, NEW k \in DOMAIN drains'[d].settled, NEW s, s = drains'[d].settled[k]
               PROVE  Tells(s)'
  BY DEF Told, Tells
<1>2. drains[d].settled \in Seq(Settlements)
  BY DrainsEvolve
<1>3. ASSUME k \in DOMAIN drains[d].settled, s = drains[d].settled[k]
      PROVE  Tells(s)'
  BY <1>3, TellsStays DEF Told
<1>4. CASE drains'[d].settled = drains[d].settled
  BY <1>1, <1>3, <1>4
<1>5. CASE DrainSettles(d)
  <2>1. PICK i \in DOMAIN records, x \in Settlements :
          /\ drains'[d].settled = Append(drains[d].settled, x) /\ x.run = records[i].run
          /\ \/ x.status \in {"completed", "cancelled"} /\ records'[i].status = x.status
             \/ x.status \in {"awaiting_approval", "queued"}
             \/ x.status = "failed" /\ records'[i].status = "dead"
    <3>1. PICK i \in DOMAIN records, x \in Settlements :
            /\ drains' = [drains EXCEPT ![d] =
                            [pc |-> "looping", lease |-> 0, settled |-> Append(drains[d].settled, x)]]
            /\ x.run = records[i].run
            /\ \/ x.status \in {"completed", "cancelled"} /\ records'[i].status = x.status
               \/ x.status \in {"awaiting_approval", "queued"}
               \/ x.status = "failed" /\ records'[i].status = "dead"
      BY <1>5, Settles
    <3>2. drains'[d].settled = Append(drains[d].settled, x)
      BY <3>1 DEF Typed
    <3>3. QED
      BY <3>1, <3>2
  <2>2. i \in DOMAIN records' /\ records'[i].run = x.run
    BY <2>1, RecordsEvolve
  <2>3. CASE s = x
    BY <2>1, <2>2, <2>3 DEF Tells
  <2>4. CASE s # x
    BY <1>1, <1>2, <1>3, <2>1, <2>4
  <2>5. QED
    BY <2>3, <2>4
<1>6. QED
  BY <1>1, <1>4, <1>5, DrainsEvolve

(* The settlements a drain has are those it had, or one more. *)
LEMMA SettledEvolves ==
  ASSUME QP!Coherent, Typed, [Next]_vars, NEW d \in Drains, NEW k \in DOMAIN drains'[d].settled
  PROVE  \/ k \in DOMAIN drains[d].settled /\ drains'[d].settled[k] = drains[d].settled[k]
         \/ /\ drains'[d].settled[k].approval \in {0, nextApproval}
            /\ drains'[d].settled[k].approval # 0 =>
                 nextApproval \in 1..MaxApprovals /\ nextApproval' = nextApproval + 1
            /\ UNCHANGED storeVars /\ \A e \in Drains \ {d} : drains'[e] = drains[e]
<1>1. CASE drains'[d].settled = drains[d].settled
  BY <1>1
<1>2. CASE DrainSettles(d)
  <2>1. PICK x \in Settlements :
          /\ drains' = [drains EXCEPT ![d] =
                          [pc |-> "looping", lease |-> 0, settled |-> Append(drains[d].settled, x)]]
          /\ UNCHANGED storeVars
          /\ x.approval = 0 \/ (x.approval = nextApproval /\ nextApproval' = nextApproval + 1)
    BY <1>2, Settles
  <2>2. drains'[d].settled = Append(drains[d].settled, x) /\ \A e \in Drains \ {d} : drains'[e] = drains[e]
    BY <2>1 DEF Typed
  <2>3. drains[d].settled \in Seq(Settlements)
    BY DrainsEvolve
  <2>4. x.approval \in 0..MaxApprovals
    BY DEF Settlements
  <2>5. CASE k \in DOMAIN drains[d].settled
    BY <2>2, <2>3, <2>5
  <2>6. CASE k \notin DOMAIN drains[d].settled
    <3>1. drains'[d].settled[k] = x
      BY <2>2, <2>3, <2>6
    <3>2. x.approval # 0 => nextApproval \in 1..MaxApprovals
      BY <2>1, <2>4, ControlPlaneAssumption
    <3>3. QED
      BY <2>1, <2>2, <3>1, <3>2
  <2>7. QED
    BY <2>5, <2>6
<1>3. QED
  BY <1>1, <1>2, DrainsEvolve

(* Approval ids are drawn one by one. *)
LEMMA ApprovalsDrawn ==
  ASSUME QP!Coherent, Typed, [Next]_vars
  PROVE  nextApproval \in Nat /\ nextApproval' \in {nextApproval, nextApproval + 1}
BY QueueStep, QP!IdsDrawnOnce, Assumed DEF QP!Coherent, QP!TypeOK

(* A drain asks for the approvals it has settlements of. *)
LEMMA RequestsOwn ==
  ASSUME Typed, Requested, NEW d \in Drains, NEW a \in 1..MaxApprovals, Requests(d, a)
  PROVE  /\ a < nextApproval /\ approvals[a] = "none" /\ drains'[d].settled = <<>>
         /\ \A e \in Drains \ {d} : drains'[e].settled = drains[e].settled
         /\ \A e \in Drains : \A m \in DOMAIN drains[e].settled : drains[e].settled[m].approval = a => e = d
<1>1. PICK k \in DOMAIN drains[d].settled : drains[d].settled[k].approval = a
  BY DEF Requests
<1>2. drains' = [drains EXCEPT ![d] = Unbegun] /\ Unbegun.settled = <<>>
  BY DEF Requests, DrainEnds, Unbegun
<1>3. a # 0
  OBVIOUS
<1>4. QED
  BY <1>1, <1>2, <1>3 DEF Requested, Typed

(* A request for approval that a drain brings stays news to the store, and its own. *)
LEMMA RequestedKept ==
  ASSUME QP!Coherent, Typed, Requested, Announced, [Next]_vars
  PROVE  Requested'
<1> SUFFICES ASSUME NEW d \in Drains, NEW k \in DOMAIN drains'[d].settled, NEW a,
                    a = drains'[d].settled[k].approval, a # 0
             PROVE  /\ a < nextApproval' /\ approvals'[a] = "none"
                    /\ \A e \in Drains \ {d} : \A m \in DOMAIN drains'[e].settled : drains'[e].settled[m].approval # a
  BY DEF Requested
<1>1. nextApproval \in Nat /\ nextApproval' \in {nextApproval, nextApproval + 1}
  BY ApprovalsDrawn
<1>2. CASE k \in DOMAIN drains[d].settled /\ drains'[d].settled[k] = drains[d].settled[k]
  <2>1. /\ a < nextApproval /\ approvals[a] = "none"
        /\ \A e \in Drains \ {d} : \A m \in DOMAIN drains[e].settled : drains[e].settled[m].approval # a
    BY <1>2 DEF Requested
  <2>2. a \in 1..MaxApprovals
    <3>1. drains[d].settled[k] \in Settlements
      BY <1>2, DrainsEvolve
    <3>2. a \in 0..MaxApprovals
      BY <1>2, <3>1 DEF Settlements
    <3>3. QED
      BY <3>2, ControlPlaneAssumption
  <2>3. a < nextApproval'
    BY <1>1, <2>1, <2>2
  <2>4. approvals'[a] = "none"
    <3>1. ASSUME NEW e \in Drains, Requests(e, a) PROVE FALSE
      <4>1. e = d /\ drains'[d].settled = <<>>
        BY <1>2, <2>2, <3>1, RequestsOwn
      <4>2. QED
        BY <4>1
    <3>2. QED
      BY <2>1, <2>2, <3>1, ApprovalsChange
  <2>5. ASSUME NEW e \in Drains \ {d}, NEW m \in DOMAIN drains'[e].settled, drains'[e].settled[m].approval = a
        PROVE  FALSE
    <3>1. a = nextApproval
      BY <2>1, <2>5, SettledEvolves
    <3>2. QED
      BY <1>1, <2>1, <3>1
  <2>6. QED
    BY <2>3, <2>4, <2>5
<1>3. CASE ~(k \in DOMAIN drains[d].settled /\ drains'[d].settled[k] = drains[d].settled[k])
  <2>1. /\ a = nextApproval /\ nextApproval \in 1..MaxApprovals /\ nextApproval' = nextApproval + 1
        /\ approvals' = approvals /\ \A e \in Drains \ {d} : drains'[e] = drains[e]
    BY <1>3, SettledEvolves DEF storeVars
  <2>2. ~(a < nextApproval)
    BY <1>1, <2>1
  <2>3. approvals'[a] = "none" /\ a < nextApproval'
    BY <1>1, <2>1, <2>2 DEF Announced
  <2>4. ASSUME NEW e \in Drains \ {d}, NEW m \in DOMAIN drains'[e].settled, drains'[e].settled[m].approval = a
        PROVE  FALSE
    <3>1. m \in DOMAIN drains[e].settled /\ drains[e].settled[m].approval = a
      BY <2>1, <2>4
    <3>2. QED
      BY <2>2, <3>1 DEF Requested
  <2>5. QED
    BY <2>3, <2>4
<1>4. QED
  BY <1>2, <1>3

(* The store learns of no approval whose id was not drawn. *)
LEMMA AnnouncedKept ==
  ASSUME QP!Coherent, Typed, Requested, Announced, [Next]_vars
  PROVE  Announced'
<1> SUFFICES ASSUME NEW a \in 1..MaxApprovals, approvals'[a] # "none"
             PROVE  a < nextApproval'
  BY DEF Announced
<1>1. nextApproval \in Nat /\ nextApproval' \in {nextApproval, nextApproval + 1}
  BY ApprovalsDrawn
<1>2. a < nextApproval
  BY ApprovalsChange, RequestsOwn DEF Announced
<1>3. QED
  BY <1>1, <1>2

-----------------------------------------------------------------------------
(* Gates and the approvals they name *)

(* A decision is final; only a request that a drain brings is entered. *)
LEMMA DecisionsStay ==
  ASSUME QP!Coherent, Typed, Requested, [Next]_vars, NEW a \in 1..MaxApprovals,
         approvals[a] \in {"approved", "denied", "expired"}
  PROVE  approvals'[a] = approvals[a]
BY ApprovalsChange, RequestsOwn

(* What work that waits for approval a may count on. *)
Decidable(a) ==
  \/ approvals[a] \in {"pending", "expired"}
  \/ \E d \in Drains : \E k \in DOMAIN drains[d].settled : drains[d].settled[k].approval = a

(* An approval that may still be decided stays so until it is. *)
LEMMA DecidableStays ==
  ASSUME QP!Coherent, Typed, Requested, [Next]_vars, NEW a \in 1..MaxApprovals,
         Decidable(a), ~ApproveRequest(a), ~DenyRequest(a)
  PROVE  Decidable(a)'
<1>1. CASE approvals[a] = "pending"
  BY <1>1, ApprovalsChange DEF Decidable
<1>2. CASE approvals[a] = "expired"
  BY <1>2, DecisionsStay DEF Decidable
<1>3. ASSUME NEW d \in Drains, NEW k \in DOMAIN drains[d].settled, drains[d].settled[k].approval = a
      PROVE  Decidable(a)'
  <2>1. drains[d].settled \in Seq(Settlements)
    BY DrainsEvolve
  <2>2. CASE drains'[d].settled = drains[d].settled
    BY <1>3, <2>2 DEF Decidable
  <2>3. CASE DrainSettles(d)
    <3>1. PICK x \in Settlements :
            drains' = [drains EXCEPT ![d] =
                         [pc |-> "looping", lease |-> 0, settled |-> Append(drains[d].settled, x)]]
      BY <2>3, Settles
    <3>2. drains'[d].settled = Append(drains[d].settled, x)
      BY <3>1 DEF Typed
    <3>3. k \in DOMAIN drains'[d].settled /\ drains'[d].settled[k].approval = a
      BY <1>3, <2>1, <3>2
    <3>4. QED
      BY <3>3 DEF Decidable
  <2>4. CASE DrainEnds(d)
    <3>1. Apply(drains[d].settled)
      BY <2>4 DEF DrainEnds
    <3>2. approvals'[a] = IF \E j \in DOMAIN drains[d].settled : drains[d].settled[j].approval = a
                          THEN "pending" ELSE approvals[a]
      BY <2>1, <3>1, AppliedTyped
    <3>3. approvals'[a] = "pending"
      BY <1>3, <3>2
    <3>4. QED
      BY <3>3 DEF Decidable
  <2>5. QED
    BY <2>2, <2>3, <2>4, DrainsEvolve
<1>4. QED
  BY <1>1, <1>2, <1>3 DEF Decidable

(* An approved request: the work behind it goes on, or waited no longer. *)
LEMMA ApproveResumes ==
  ASSUME QP!Coherent, Typed, NEW a \in 1..MaxApprovals, ApproveRequest(a), NEW i \in DOMAIN records
  PROVE  /\ DOMAIN records' = DOMAIN records /\ approvals'[a] = "approved"
         /\ \/ records'[i] = records[i] /\ (records[i].status = "awaiting_approval" => records[i].gate.approval # a)
            \/ records'[i].gate.approval = a /\ records'[i].status = "queued"
<1>1. PICK g \in GatedWork(a) : Queue!ResumeApproved(a, records[g].gate.hash)
  BY DEF ApproveRequest
<1> DEFINE hash == records[g].gate.hash
<1>2. /\ g \in DOMAIN records /\ records[g].gate.approval = a
      /\ \A j \in DOMAIN records : records[j].gate.approval = a => j = g
  BY GateCall
<1>3. records' = [j \in DOMAIN records |-> IF j \in Queue!Waiting(a, hash) THEN Queue!Resumed(records[j]) ELSE records[j]]
  BY <1>1 DEF Queue!ResumeApproved, Queue!Work
<1>4. approvals'[a] = "approved"
  BY DEF ApproveRequest, Typed
<1>5. records[i] \in QP!Record /\ records \in Seq(QP!Record)
  BY DEF QP!Coherent, QP!TypeOK
<1>6. CASE i \in Queue!Waiting(a, hash)
  <2>1. records'[i] = Queue!Resumed(records[i]) /\ records[i].gate.approval = a
    BY <1>3, <1>6 DEF Queue!Waiting
  <2>2. records[i].gate \in QP!Gate
    BY <1>5 DEF QP!Record
  <2>3. /\ Queue!Resumed(records[i]).status = "queued"
        /\ Queue!Resumed(records[i]).gate = [records[i].gate EXCEPT !.status = "approved"]
    BY <1>5 DEF Queue!Resumed, Queue!Move, QP!Record
  <2>4. Queue!Resumed(records[i]).gate.approval = records[i].gate.approval
    BY <2>2, <2>3 DEF QP!Gate
  <2>5. QED
    BY <1>3, <1>4, <2>1, <2>3, <2>4
<1>7. CASE i \notin Queue!Waiting(a, hash)
  <2>1. records'[i] = records[i]
    BY <1>3, <1>7
  <2>2. ASSUME records[i].status = "awaiting_approval", records[i].gate.approval = a PROVE FALSE
    <3>1. i = g
      BY <1>2, <2>2
    <3>2. \A j \in 1..(i - 1) : j \in DOMAIN records /\ j # i
      BY <1>5
    <3>3. \A j \in 1..(i - 1) : records[j].gate.approval # a
      BY <1>2, <3>1, <3>2
    <3>4. i \in Queue!Waiting(a, hash)
      BY <2>2, <3>1, <3>3 DEF Queue!Waiting, Queue!Work
    <3>5. QED
      BY <1>7, <3>4
  <2>3. QED
    BY <1>3, <1>4, <2>1, <2>2
<1>8. QED
  BY <1>6, <1>7

(* The gates' history changes only where an approval is granted or a drain settles. *)
LEMMA GatesQuiet ==
  ASSUME [Next]_vars
  PROVE  \/ grants' = grants /\ nextApproval' = nextApproval
         \/ \E a \in 1..MaxApprovals : ApproveRequest(a)
         \/ \E d \in Drains : DrainSettles(d)
<1>1. ASSUME NEW run \in Runs, CreateRun(run) \/ ApprovePolicy(run) \/ DenyPolicy(run) \/ CancelRun(run)
      PROVE  grants' = grants /\ nextApproval' = nextApproval
  BY <1>1 DEF CreateRun, ApprovePolicy, EnqueueApproved, DenyPolicy, CancelRun, queueVars, Queue!Enqueue, Queue!CancelRun
<1>2. ASSUME NEW a \in 1..MaxApprovals, DenyRequest(a)
      PROVE  grants' = grants /\ nextApproval' = nextApproval
  BY <1>2 DEF DenyRequest, queueVars, Queue!ResumeRefused, Queue!CancelApprovalWait
<1>3. ASSUME NEW e \in DOMAIN deadLetters, RedriveDeadLetter(e)
      PROVE  grants' = grants /\ nextApproval' = nextApproval
  BY <1>3 DEF RedriveDeadLetter, Queue!RedriveDeadLetter
<1>4. ASSUME NEW d \in Drains, DrainClaims(d) \/ DrainLosesLease(d) \/ DrainEnds(d)
      PROVE  grants' = grants /\ nextApproval' = nextApproval
  BY <1>4 DEF DrainClaims, DrainLosesLease, DrainEnds, queueVars, Queue!ClaimNext, Queue!LoseLease, Queue!ExpireOne
<1>5. ASSUME DecideTooLate \/ Tick \/ UNCHANGED vars
      PROVE  grants' = grants /\ nextApproval' = nextApproval
  BY <1>5 DEF DecideTooLate, Tick, vars, queueVars, Queue!Tick
<1>6. QED
  BY <1>1, <1>2, <1>3, <1>4, <1>5 DEF Next, Drain

(* How a step changes the gate of a record: it does not, or the record pauses
   for a new approval, or the one it waits for is given. *)
LEMMA GateMoves ==
  ASSUME QP!Coherent, Typed, GatesMatchApprovals, [Next]_vars, NEW i \in DOMAIN records
  PROVE  \/ /\ records'[i].gate.approval = records[i].gate.approval
            /\ records'[i].status = "awaiting_approval" =>
                 /\ records[i].status = "awaiting_approval"
                 /\ \A a \in 1..MaxApprovals : ApproveRequest(a) \/ DenyRequest(a) => records[i].gate.approval # a
            /\ records'[i].gate.status = "approved" => records[i].gate.status = "approved"
         \/ \E a \in 1..MaxApprovals :
              /\ ApproveRequest(a) /\ approvals'[a] = "approved" /\ records'[i].gate.approval = a
              /\ records'[i].status # "awaiting_approval"
         \/ \E d \in Drains : \E k \in DOMAIN drains'[d].settled :
              /\ nextApproval \in 1..MaxApprovals /\ drains'[d].settled[k].approval = nextApproval
              /\ records'[i].gate.approval = nextApproval /\ records'[i].gate.status # "approved"
<1> DEFINE Stays ==
      /\ records'[i].gate.approval = records[i].gate.approval
      /\ records'[i].status = "awaiting_approval" =>
           /\ records[i].status = "awaiting_approval"
           /\ \A a \in 1..MaxApprovals : ApproveRequest(a) \/ DenyRequest(a) => records[i].gate.approval # a
      /\ records'[i].gate.status = "approved" => records[i].gate.status = "approved"
<1>1. ASSUME NEW a \in 1..MaxApprovals, DenyRequest(a), records'[i].status = "awaiting_approval"
      PROVE  records[i].gate.approval # a
  <2>1. records[i].gate.approval = a => i \in GatedWork(a)
    BY DEF GatedWork
  <2>2. QED
    BY <1>1, <2>1, DenyStops
<1>2. ASSUME NEW a \in 1..MaxApprovals, ApproveRequest(a), records'[i].status = "awaiting_approval"
      PROVE  records[i].gate.approval # a
  BY <1>2, ApproveResumes
<1>3. CASE grants' = grants /\ nextApproval' = nextApproval
  <2>1. /\ records'[i].gate.approval = records[i].gate.approval
        /\ records'[i].status = "awaiting_approval" => records[i].status = "awaiting_approval"
        /\ records'[i].gate.status = "approved" => records[i].gate.status = "approved"
    BY <1>3, QueueStep, QP!GatesStay, Assumed DEF QP!Work
  <2>2. QED
    BY <1>1, <1>2, <2>1
<1>4. ASSUME records'[i] = records[i] PROVE Stays
  BY <1>1, <1>2, <1>4
<1>5. ASSUME NEW a \in 1..MaxApprovals, ApproveRequest(a)
      PROVE  \/ Stays
             \/ approvals'[a] = "approved" /\ records'[i].gate.approval = a /\ records'[i].status = "queued"
  BY <1>4, <1>5, ApproveResumes
<1>6. ASSUME NEW d \in Drains, DrainSettles(d)
      PROVE  \/ grants' = grants /\ nextApproval' = nextApproval
             \/ Stays
             \/ \E k \in DOMAIN drains'[d].settled :
                  /\ nextApproval \in 1..MaxApprovals /\ drains'[d].settled[k].approval = nextApproval
                  /\ records'[i].gate.approval = nextApproval /\ records'[i].gate.status # "approved"
  <2>1. PICK j \in DOMAIN records, x \in Settlements :
          /\ drains' = [drains EXCEPT ![d] =
                          [pc |-> "looping", lease |-> 0, settled |-> Append(drains[d].settled, x)]]
          /\ grants' = grants
          /\ \/ nextApproval' = nextApproval
             \/ /\ x.approval = nextApproval /\ records'[j].gate.approval = nextApproval
                /\ records'[j].gate.status = "pending" /\ \A m \in DOMAIN records : m # j => records'[m] = records[m]
    BY <1>6, Settles
  <2>2. CASE nextApproval' = nextApproval
    BY <2>1, <2>2
  <2>3. CASE nextApproval' # nextApproval /\ j # i
    BY <1>4, <2>1, <2>3
  <2>4. CASE nextApproval' # nextApproval /\ j = i
    <3>1. drains'[d].settled = Append(drains[d].settled, x) /\ drains[d].settled \in Seq(Settlements)
      BY <2>1, DrainsEvolve DEF Typed
    <3>2. \E k \in DOMAIN drains'[d].settled : drains'[d].settled[k] = x
      <4>1. Len(drains[d].settled) + 1 \in DOMAIN drains'[d].settled
            /\ drains'[d].settled[Len(drains[d].settled) + 1] = x
        BY <3>1
      <4>2. QED
        BY <4>1
    <3>3. nextApproval \in Nat \ {0} /\ x.approval \in 0..MaxApprovals
      BY DEF QP!Coherent, QP!TypeOK, Settlements
    <3>4. nextApproval \in 1..MaxApprovals
      BY <2>1, <2>4, <3>3, ControlPlaneAssumption
    <3>5. QED
      BY <2>1, <2>4, <3>2, <3>4
  <2>5. QED
    BY <2>2, <2>3, <2>4
<1> HIDE DEF Stays
<1>7. Stays \/ (grants' = grants /\ nextApproval' = nextApproval)
      \/ (\E a \in 1..MaxApprovals :
            /\ ApproveRequest(a) /\ approvals'[a] = "approved" /\ records'[i].gate.approval = a
            /\ records'[i].status # "awaiting_approval")
      \/ (\E d \in Drains : \E k \in DOMAIN drains'[d].settled :
            /\ nextApproval \in 1..MaxApprovals /\ drains'[d].settled[k].approval = nextApproval
            /\ records'[i].gate.approval = nextApproval /\ records'[i].gate.status # "approved")
  BY <1>5, <1>6, GatesQuiet
<1>8. QED
  BY <1>3, <1>7 DEF Stays

(* The gate that work waits for and the approval in the store stay together. *)
LEMMA GatesKept ==
  ASSUME QP!Coherent, Typed, Requested, Gated, GatesMatchApprovals, [Next]_vars
  PROVE  Gated' /\ GatesMatchApprovals'
<1> SUFFICES ASSUME NEW i \in DOMAIN records', NEW a, a = records'[i].gate.approval
             PROVE  /\ records'[i].status = "awaiting_approval" \/ records'[i].gate.status = "approved"
                         => a \in 1..MaxApprovals
                    /\ records'[i].gate.status = "approved" => approvals'[a] = "approved"
                    /\ records'[i].status = "awaiting_approval" => Decidable(a)'
  BY DEF Gated, GatesMatchApprovals, Decidable
<1>1. CASE i \notin DOMAIN records
  BY <1>1, Begins
<1>2. CASE /\ i \in DOMAIN records /\ a = records[i].gate.approval
           /\ records'[i].status = "awaiting_approval" =>
                /\ records[i].status = "awaiting_approval"
                /\ \A b \in 1..MaxApprovals : ApproveRequest(b) \/ DenyRequest(b) => records[i].gate.approval # b
           /\ records'[i].gate.status = "approved" => records[i].gate.status = "approved"
  <2>1. records'[i].status = "awaiting_approval" \/ records'[i].gate.status = "approved" => a \in 1..MaxApprovals
    BY <1>2 DEF Gated
  <2>2. ASSUME records'[i].gate.status = "approved" PROVE approvals'[a] = "approved"
    <3>1. approvals[a] = "approved"
      BY <1>2, <2>2 DEF GatesMatchApprovals
    <3>2. QED
      BY <2>1, <2>2, <3>1, DecisionsStay
  <2>3. ASSUME records'[i].status = "awaiting_approval" PROVE Decidable(a)'
    <3>1. Decidable(a) /\ ~ApproveRequest(a) /\ ~DenyRequest(a)
      BY <1>2, <2>1, <2>3 DEF GatesMatchApprovals, Decidable
    <3>2. QED
      BY <2>1, <2>3, <3>1, DecidableStays
  <2>4. QED
    BY <2>1, <2>2, <2>3
<1>3. CASE \E b \in 1..MaxApprovals :
             ApproveRequest(b) /\ approvals'[b] = "approved" /\ a = b /\ records'[i].status # "awaiting_approval"
  BY <1>3
<1>4. CASE \E d \in Drains : \E k \in DOMAIN drains'[d].settled :
             /\ nextApproval \in 1..MaxApprovals /\ drains'[d].settled[k].approval = nextApproval
             /\ a = nextApproval /\ records'[i].gate.status # "approved"
  <2>1. Decidable(a)'
    BY <1>4 DEF Decidable
  <2>2. QED
    BY <1>4, <2>1
<1>5. QED
  BY <1>1, <1>2, <1>3, <1>4, GateMoves

-----------------------------------------------------------------------------
(* Attempts, and what is reported of them *)

LEMMA OneOpenKept ==
  ASSUME QP!Coherent, Typed, Begun, OneOpen, [Next]_vars
  PROVE  OneOpen'
<1> SUFFICES ASSUME NEW run \in Runs, ~\E d \in DOMAIN deadLetters' : deadLetters'[d].run = run,
                    NEW i \in DOMAIN records', NEW j \in DOMAIN records',
                    records'[i].run = run, records'[j].run = run,
                    records'[i].status # "failed", records'[j].status # "failed"
             PROVE  i = j
  BY DEF OneOpen
<1>1. ~\E d \in DOMAIN deadLetters : deadLetters[d].run = run
  BY DeadLettersStay
<1>2. \A k, l \in DOMAIN records :
        records[k].run = run /\ records[l].run = run /\ records[k].status # "failed" /\ records[l].status # "failed"
          => k = l
  BY <1>1 DEF OneOpen
<1>3. \A k \in DOMAIN records :
        /\ records'[k].run = records[k].run
        /\ records'[k].status # "failed" => records[k].status # "failed"
  BY RecordsEvolve DEF Active
<1>4. ASSUME NEW n \in DOMAIN records' \ DOMAIN records, records'[n].run = run,
             NEW k \in DOMAIN records, records'[k].run = run, records'[k].status # "failed"
      PROVE  FALSE
  <2>1. CASE \E l \in DOMAIN records : RetriedFrom(l) /\ records[l].run = run
    <3>1. PICK l \in DOMAIN records : RetriedFrom(l) /\ records[l].run = run
      BY <2>1
    <3>2. l # k /\ records[l].status # "failed" /\ records[k].status # "failed" /\ records[k].run = run
      BY <1>3, <1>4, <3>1 DEF RetriedFrom
    <3>3. QED
      BY <1>2, <3>1, <3>2
  <2>2. CASE SetGoing(run)
    <3>1. runStatus[run] = "none" \/ policyApproval[run] = "pending"
      BY <1>1, <2>2 DEF SetGoing
    <3>2. records[k].run = run
      BY <1>3, <1>4
    <3>3. QED
      BY <3>1, <3>2 DEF Begun
  <2>3. QED
    BY <1>4, <2>1, <2>2, Begins
<1>5. CASE i \in DOMAIN records /\ j \in DOMAIN records
  BY <1>2, <1>3, <1>5
<1>6. CASE i \notin DOMAIN records /\ j \notin DOMAIN records
  BY <1>6, Begins
<1>7. QED
  BY <1>4, <1>5, <1>6

(* What a drain tells of a run as it ends is how an attempt of the run ended. *)
LEMMA EndsTruly ==
  ASSUME QP!Coherent, Typed, Told, [Next]_vars, NEW d \in Drains, NEW run, Ends(d, run)
  PROVE  /\ runStatus'[run] \in {"completed", "cancelled"} =>
              \E i \in DOMAIN records' : records'[i].run = run /\ records'[i].status = runStatus'[run]
         /\ runStatus'[run] = "failed" =>
              \E i \in DOMAIN records' : records'[i].run = run /\ records'[i].status = "dead"
<1>1. PICK s : s.run = run /\ s.status = runStatus'[run] /\ Tells(s)
  BY DEF Ends, Told
<1>2. Tells(s)'
  BY <1>1, TellsStays
<1>3. QED
  BY <1>1, <1>2 DEF Tells

(* An attempt that ended has ended for good. *)
LEMMA EndedStays ==
  ASSUME QP!Coherent, Typed, [Next]_vars, NEW i \in DOMAIN records, ~Active(i)
  PROVE  i \in DOMAIN records' /\ records'[i] = records[i]
BY RecordsEvolve

(* A run is shown completed or failed only by the settlement of its own attempt, and stays so. *)
LEMMA OutcomesKept ==
  ASSUME QP!Coherent, Typed, Begun, Told, OutcomesTrue, [Next]_vars
  PROVE  OutcomesTrue'
<1> SUFFICES ASSUME NEW run \in Runs
             PROVE  /\ runStatus'[run] = "completed" =>
                         \E i \in DOMAIN records' : records'[i].run = run /\ records'[i].status = "completed"
                    /\ runStatus'[run] = "failed" =>
                         \A i \in DOMAIN records' : records'[i].run = run =>
                           \E j \in DOMAIN records' : records'[j].run = run /\ records'[j].status = "dead"
  BY DEF OutcomesTrue
<1>1. ASSUME NEW d \in Drains, Ends(d, run)
      PROVE  /\ runStatus'[run] = "completed" =>
                  \E i \in DOMAIN records' : records'[i].run = run /\ records'[i].status = "completed"
             /\ runStatus'[run] = "failed" =>
                  \E j \in DOMAIN records' : records'[j].run = run /\ records'[j].status = "dead"
  BY <1>1, EndsTruly
<1>2. ASSUME runStatus'[run] = "completed"
      PROVE  \E i \in DOMAIN records' : records'[i].run = run /\ records'[i].status = "completed"
  <2>1. CASE runStatus[run] = "completed"
    <3>1. PICK i \in DOMAIN records : records[i].run = run /\ records[i].status = "completed"
      BY <2>1 DEF OutcomesTrue
    <3>2. QED
      BY <3>1, EndedStays DEF Active
  <2>2. CASE runStatus[run] # "completed"
    BY <1>1, <1>2, <2>2, StatusChanges
  <2>3. QED
    BY <2>1, <2>2
<1>3. ASSUME runStatus'[run] = "failed", NEW i \in DOMAIN records', records'[i].run = run
      PROVE  \E j \in DOMAIN records' : records'[j].run = run /\ records'[j].status = "dead"
  <2>1. CASE runStatus[run] = "failed"
    <3>1. \E k \in DOMAIN records : records[k].run = run
      <4>1. CASE i \in DOMAIN records
        BY <1>3, <4>1, RecordsEvolve
      <4>2. CASE i \notin DOMAIN records
        BY <1>3, <4>2, Begins DEF SetGoing
      <4>3. QED
        BY <4>1, <4>2
    <3>2. PICK j \in DOMAIN records : records[j].run = run /\ records[j].status = "dead"
      BY <2>1, <3>1 DEF OutcomesTrue
    <3>3. QED
      BY <3>2, EndedStays DEF Active
  <2>2. CASE runStatus[run] # "failed" /\ runStatus[run] = "none" /\ UNCHANGED records
    BY <1>3, <2>2 DEF Begun
  <2>3. QED
    BY <1>1, <1>3, <2>1, <2>2, StatusChanges
<1>4. QED
  BY <1>2, <1>3

(* Once a run is shown cancelled, nothing that would execute it is left without a mark. *)
LEMMA CancelledKept ==
  ASSUME QP!Coherent, Typed, Begun, Told, GatesMatchApprovals, CancelledIsStopped, [Next]_vars, OneOpen'
  PROVE  CancelledIsStopped'
<1>1. SUFFICES ASSUME NEW run \in Runs, runStatus'[run] = "cancelled",
                      ~\E d \in DOMAIN deadLetters' : deadLetters'[d].run = run,
                      NEW i \in DOMAIN records', records'[i].run = run, Active(i)'
               PROVE  FALSE
  BY DEF CancelledIsStopped, Queue!ActiveWork, Queue!IsActive, Queue!Work, Active
<1>2. ~\E d \in DOMAIN deadLetters : deadLetters[d].run = run
  BY <1>1, DeadLettersStay
<1>3. i \in DOMAIN records => records[i].run = run /\ Active(i)
  BY <1>1, RecordsEvolve
<1>4. \A j \in DOMAIN records' : records'[j].run = run /\ records'[j].status = "cancelled" => FALSE
  BY <1>1 DEF OneOpen, Active
<1>5. i \notin DOMAIN records => \E j \in DOMAIN records : records[j].run = run /\ Active(j)
  BY <1>1, Begins DEF SetGoing, RetriedFrom, Active
<1>6. CASE runStatus[run] = "cancelled"
  <2>1. \A j \in DOMAIN records : records[j].run = run => ~Active(j)
    BY <1>2, <1>6 DEF CancelledIsStopped, Queue!ActiveWork, Queue!IsActive, Queue!Work, Active
  <2>2. QED
    BY <1>3, <1>5, <2>1
<1>7. CASE runStatus[run] # "cancelled"
  <2>1. ~(policyApproval[run] = "pending" /\ UNCHANGED records)
    BY <1>1 DEF Begun
  <2>2. ASSUME CancelRun(run) PROVE FALSE
    <3>1. /\ DOMAIN records' = DOMAIN records
          /\ \A j \in DOMAIN records : records[j].run = run /\ Active(j) => records'[j].status = "cancelled"
      BY <1>1, <1>7, <2>2, CancelStops
    <3>2. QED
      BY <1>1, <1>3, <1>4, <3>1
  <2>3. ASSUME NEW a \in 1..MaxApprovals, DenyRequest(a), NEW g \in GatedWork(a), records[g].run = run
        PROVE  FALSE
    <3>1. g \in DOMAIN records /\ records'[g].status = "cancelled" /\ DOMAIN records' = DOMAIN records
      BY <2>3, DenyStops
    <3>2. records'[g].run = run
      BY <2>3, <3>1, RecordsEvolve
    <3>3. QED
      BY <1>4, <3>1, <3>2
  <2>4. ASSUME NEW d \in Drains, Ends(d, run) PROVE FALSE
    BY <1>1, <1>4, <2>4, EndsTruly
  <2>5. QED
    BY <1>1, <1>7, <2>1, <2>2, <2>3, <2>4, StatusChanges
<1>8. QED
  BY <1>6, <1>7

-----------------------------------------------------------------------------
(* The theorems *)

Governed ==
  /\ QP!Coherent /\ Typed /\ Begun /\ Buried
  /\ Told /\ Requested /\ Announced /\ Gated /\ OneOpen
  /\ GatesMatchApprovals /\ OutcomesTrue /\ CancelledIsStopped

(* The invariant holds of an empty control plane. *)
LEMMA GovernedInit == Init => Governed
<1> SUFFICES ASSUME Init PROVE Governed
  OBVIOUS
<1>1. QP!Coherent /\ Typed
  BY InitTyped
<1>2. DOMAIN records = {} /\ DOMAIN deadLetters = {}
  BY DEF Init, Queue!Init
<1>3. \A run \in Runs : runStatus[run] = "none" /\ policyApproval[run] = "none"
  BY DEF Init
<1>4. \A a \in 1..MaxApprovals : approvals[a] = "none"
  BY DEF Init
<1>5. \A d \in Drains : DOMAIN drains[d].settled = {}
  BY DEF Init, Unbegun
<1>6. Begun /\ Buried /\ Told /\ Requested /\ Announced /\ Gated /\ OneOpen
  BY <1>2, <1>3, <1>4, <1>5 DEF Begun, Buried, Told, Requested, Announced, Gated, OneOpen
<1>7. GatesMatchApprovals /\ OutcomesTrue /\ CancelledIsStopped
  BY <1>2, <1>3 DEF GatesMatchApprovals, OutcomesTrue, CancelledIsStopped
<1>8. QED
  BY <1>1, <1>6, <1>7 DEF Governed

(* Every step keeps the invariant. *)
LEMMA GovernedKept == Governed /\ [Next]_vars => Governed'
<1> SUFFICES ASSUME Governed, [Next]_vars PROVE Governed'
  OBVIOUS
<1> USE DEF Governed
<1>1. QP!Coherent' /\ Typed'
  BY CoherentKept, TypedKept
<1>2. Begun' /\ Buried' /\ Told'
  BY BegunKept, BuriedKept, ToldKept
<1>3. Requested' /\ Announced'
  BY RequestedKept, AnnouncedKept
<1>4. Gated' /\ GatesMatchApprovals'
  BY GatesKept
<1>5. OneOpen' /\ OutcomesTrue'
  BY OneOpenKept, OutcomesKept
<1>6. CancelledIsStopped'
  BY <1>5, CancelledKept
<1>7. QED
  BY <1>1, <1>2, <1>3, <1>4, <1>5, <1>6

(* The queue and the store govern runs together: in every reachable state of handlers and drains, all parts
   of the invariant hold. *)
THEOREM GovernedHolds == Spec => []Governed
BY GovernedInit, GovernedKept, PTL DEF Spec

(* Work that went on past a gate did so on an approval the store shows as
   approved, and work that waits can still be decided. *)
THEOREM GatesMatchApprovalsHolds == Spec => []GatesMatchApprovals
<1>1. Governed => GatesMatchApprovals
  BY DEF Governed
<1>2. QED
  BY <1>1, GovernedHolds, PTL

(* A run is shown as completed or failed only if an attempt of it was completed
   or dead-lettered, in whatever order drains report. *)
THEOREM OutcomesTrueHolds == Spec => []OutcomesTrue
<1>1. Governed => OutcomesTrue
  BY DEF Governed
<1>2. QED
  BY <1>1, GovernedHolds, PTL

(* A run shown as cancelled, and never dead-lettered, has no active attempt. *)
THEOREM CancelledIsStoppedHolds == Spec => []CancelledIsStopped
<1>1. Governed => CancelledIsStopped
  BY DEF Governed
<1>2. QED
  BY <1>1, GovernedHolds, PTL

(* A decision on an approval is final, whatever is reported or asked later. *)
THEOREM DecisionsFinalHolds == Spec => DecisionsFinal
<1>1. ASSUME Governed, [Next]_vars
      PROVE  /\ \A a \in 1..MaxApprovals :
                  approvals[a] \in {"approved", "denied", "expired"} => approvals'[a] = approvals[a]
             /\ \A run \in Runs :
                  policyApproval[run] \in {"approved", "denied", "expired"}
                    => policyApproval'[run] = policyApproval[run]
  <2>1. \A a \in 1..MaxApprovals :
          approvals[a] \in {"approved", "denied", "expired"} => approvals'[a] = approvals[a]
    BY <1>1, DecisionsStay DEF Governed
  <2>2. ASSUME NEW run \in Runs, policyApproval[run] \in {"approved", "denied", "expired"}
        PROVE  policyApproval'[run] = policyApproval[run]
    <3>1. runStatus[run] # "none"
      BY <1>1, <2>2 DEF Governed, Begun
    <3>2. QED
      BY <1>1, <2>2, <3>1, PolicyChanges DEF Governed
  <2>3. QED
    BY <2>1, <2>2
<1>2. QED
  BY <1>1, GovernedHolds, PTL DEF Spec, DecisionsFinal
================================================================================
