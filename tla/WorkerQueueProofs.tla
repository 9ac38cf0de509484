-------------------------- MODULE WorkerQueueProofs --------------------------
(* Theorems about WorkerQueue, for all values of its constants. *)
EXTENDS WorkerQueue, SequenceTheorems, FiniteSetTheorems, TLAPS

(* Replacing one element of a sequence, appending one or rewriting all of them
   keeps its type. *)
LEMMA ReplaceType ==
  ASSUME NEW S, NEW s \in Seq(S), NEW i \in DOMAIN s, NEW v \in S
  PROVE  [s EXCEPT ![i] = v] \in Seq(S)
  OBVIOUS

(* Rewriting each element of a sequence gives a sequence of the same length. *)
LEMMA RewriteType ==
  ASSUME NEW S, NEW s \in Seq(S), NEW f, f = [i \in DOMAIN s |-> f[i]],
         \A i \in DOMAIN s : f[i] \in S
  PROVE  f \in Seq(S) /\ Len(f) = Len(s) /\ DOMAIN f = DOMAIN s
  OBVIOUS

(* Appending an element of a set keeps a sequence over the set. *)
LEMMA AppendType ==
  ASSUME NEW S, NEW s \in Seq(S), NEW v \in S
  PROVE  Append(s, v) \in Seq(S)
  OBVIOUS

(* A transition keeps a record a record. *)
LEMMA MoveType ==
  ASSUME NEW r \in Record, NEW status \in Statuses, NEW state \in AttemptStates
  PROVE  Move(r, status, state) \in Record
  BY DEF Move, Record

(* So does each assignment to a field. *)
LEMMA FieldType ==
  ASSUME NEW r \in Record
  PROVE  /\ \A lease \in Lease : [r EXCEPT !.lease = lease] \in Record
         /\ \A gate \in Gate : [r EXCEPT !.gate = gate] \in Record
         /\ \A t \in Nat : [r EXCEPT !.availableAt = t] \in Record
         /\ [r EXCEPT !.cancelRequested = TRUE] \in Record
  BY DEF Record

(* So does the expiry of a claim. *)
LEMMA ExpireType ==
  ASSUME NEW r \in Record
  PROVE  ExpireClaimed(r) \in Record
<1>1. NoLease \in Lease
  BY DEF NoLease, Lease
<1>2. Move(r, "cancelled", "cancelled") \in Record /\ Move(r, "queued", "queued") \in Record
  BY MoveType DEF Statuses, AttemptStates
<1>3. QED
  BY <1>1, <1>2, FieldType DEF ExpireClaimed

(* New work is a record. *)
LEMMA NewRecordType ==
  ASSUME NEW run \in Runs, NEW attempt \in Nat, NEW at \in Nat, NEW from \in Nat
  PROVE  NewRecord(run, attempt, at, from) \in Record
  BY DEF NewRecord, Record, Statuses, AttemptStates, NoLease, Lease, NoGate, Gate, GateStatuses

(* The back-off is a time. *)
LEMMA RetryDelayType ==
  ASSUME NEW attempt \in Nat
  PROVE  RetryDelay(attempt) \in Nat
  BY RetryPolicyAssumption DEF RetryDelay

(* The sweep of expired leases adds and drops no record. *)
LEMMA SweptType ==
  ASSUME TypeOK
  PROVE  Swept \in Seq(Record) /\ DOMAIN Swept = Work
<1>1. \A i \in Work : Swept[i] \in Record
  BY ExpireType DEF TypeOK, Swept, Work
<1>2. QED
  BY <1>1 DEF TypeOK, Swept, Work

(* Cancelling a record keeps it a record. *)
LEMMA CancelledType ==
  ASSUME NEW r \in Record
  PROVE  Cancelled(r) \in Record
<1>1. Move(r, "claimed", "cancel_requested") \in Record
  BY MoveType DEF Statuses, AttemptStates
<1>2. [Move(r, "cancelled", "cancelled") EXCEPT !.lease = NoLease] \in Record
  BY MoveType, FieldType DEF Statuses, AttemptStates, NoLease, Lease
<1>3. QED
  BY <1>1, <1>2, FieldType DEF Cancelled

(* The type invariant holds initially and every operation keeps it. *)
LEMMA InitType == Init => TypeOK
  BY DEF Init, TypeOK

(* Every operation keeps the types. *)
LEMMA NextType ==
  ASSUME TypeOK, [Next]_vars
  PROVE  TypeOK'
<1> USE DurationAssumption DEF TypeOK, Work
<1>1. ASSUME NEW run \in Runs, Enqueue(run)
      PROVE  TypeOK'
  <2>1. NewRecord(run, 1, now, 0) \in Record
    BY NewRecordType
  <2>2. QED
    BY <1>1, <2>1 DEF Enqueue
<1>2. ASSUME NEW run \in Runs, CancelRun(run)
      PROVE  TypeOK'
  BY <1>2, CancelledType DEF CancelRun
<1>3. CASE ExpireLeases
  BY <1>3, SweptType DEF ExpireLeases
<1>4. CASE ClaimNext
  <2>1. PICK i \in Due : records' = [Swept EXCEPT ![i] =
          [Move(@, "claimed", "claimed") EXCEPT
             !.lease = [id |-> nextLease, claimedAt |-> now, expiresAt |-> now + LeaseMs]]]
    BY <1>4 DEF ClaimNext
  <2>2. i \in DOMAIN Swept /\ Swept[i] \in Record
    BY SweptType DEF Due
  <2>3. [id |-> nextLease, claimedAt |-> now, expiresAt |-> now + LeaseMs] \in Lease
    BY DEF Lease
  <2>4. Move(Swept[i], "claimed", "claimed") \in Record
    BY <2>2, MoveType DEF Statuses, AttemptStates
  <2>5. [Move(Swept[i], "claimed", "claimed") EXCEPT
           !.lease = [id |-> nextLease, claimedAt |-> now, expiresAt |-> now + LeaseMs]]
             \in Record
    BY <2>3, <2>4, FieldType
  <2>6. records' \in Seq(Record)
    BY <2>1, <2>2, <2>5, SweptType
  <2>7. QED
    BY <1>4, <2>6 DEF ClaimNext
<1>5. ASSUME NEW l \in 1..(nextLease - 1), LeaseCall(l)
      PROVE  TypeOK'
  <2>0. /\ \A i \in LeasedWork(l) : i \in Work /\ records[i] \in Record
        /\ NoLease \in Lease
    BY DEF LeasedWork, NoLease, Lease
  <2>1. ASSUME HeartbeatExtend(l) PROVE TypeOK'
    <3>1. PICK i \in LeasedWork(l) :
            \E extendBy \in ExtendByMs \cup
                            {records[i].lease.expiresAt - records[i].lease.claimedAt} :
              /\ extendBy > 0
              /\ records' = [records EXCEPT ![i].lease.expiresAt = now + extendBy]
      BY <2>1 DEF HeartbeatExtend
    <3>2. PICK expiry \in Nat : records' = [records EXCEPT ![i].lease.expiresAt = expiry]
      <4>1. records[i].lease.expiresAt - records[i].lease.claimedAt \in Int
        BY <2>0 DEF Record, Lease
      <4>2. PICK extendBy \in Int :
              extendBy > 0 /\ records' = [records EXCEPT ![i].lease.expiresAt = now + extendBy]
        <5>1. PICK extendBy \in ExtendByMs \cup
                             {records[i].lease.expiresAt - records[i].lease.claimedAt} :
                /\ extendBy > 0
                /\ records' = [records EXCEPT ![i].lease.expiresAt = now + extendBy]
          BY <3>1
        <5>2. ExtendByMs \subseteq Int
          BY DurationAssumption
        <5>3. extendBy \in Int
          BY <4>1, <5>1, <5>2, Zenon
        <5>4. QED
          BY <5>1, <5>3
      <4>3. now + extendBy \in Nat
        BY <4>2
      <4>4. QED
        BY <4>2, <4>3
    <3>3. [records[i] EXCEPT !.lease.expiresAt = expiry] \in Record
      BY <2>0 DEF Record, Lease
    <3>4. records' = [records EXCEPT ![i] = [records[i] EXCEPT !.lease.expiresAt = expiry]]
      BY <3>2, <2>0
    <3>5. records' \in Seq(Record)
      BY <2>0, <3>3, <3>4
    <3>6. QED
      BY <2>1, <3>5 DEF HeartbeatExtend
  <2>2. ASSUME LoseLease(l) PROVE TypeOK'
    BY <2>2, <2>0, ExpireType DEF LoseLease, ExpireOne
  <2>. DEFINE Ended(i, status, state) ==
         [Move(records[i], status, state) EXCEPT !.lease = NoLease]
  <2>a. ASSUME NEW i \in LeasedWork(l), NEW status \in Statuses, NEW state \in AttemptStates
        PROVE  Ended(i, status, state) \in Record
    BY <2>0, MoveType, FieldType
  <2>3. ASSUME SettleCancelled(l) PROVE TypeOK'
    <3>1. PICK i \in LeasedWork(l) : records' = [records EXCEPT ![i] = Ended(i, "cancelled", "cancelled")]
      BY <2>3 DEF SettleCancelled, SettleInto
    <3>2. Ended(i, "cancelled", "cancelled") \in Record
      BY <2>a DEF Statuses, AttemptStates
    <3>3. records' \in Seq(Record)
      BY <3>1, <3>2, <2>0
    <3>4. QED
      BY <2>3, <3>3 DEF SettleCancelled, SettleInto
  <2>4. ASSUME SettleCompleted(l) PROVE TypeOK'
    <3>1. PICK i \in LeasedWork(l) : records' = [records EXCEPT ![i] = Ended(i, "completed", "completed")]
      BY <2>4 DEF SettleCompleted, SettleInto
    <3>2. Ended(i, "completed", "completed") \in Record
      BY <2>a DEF Statuses, AttemptStates
    <3>3. records' \in Seq(Record)
      BY <3>1, <3>2, <2>0
    <3>4. QED
      BY <2>4, <3>3 DEF SettleCompleted, SettleInto
  <2>5. ASSUME NEW hash \in Hashes, SettleAwaitingApproval(l, hash) PROVE TypeOK'
    <3>1. PICK i \in LeasedWork(l) :
            SettleInto(i, [Move(records[i], "awaiting_approval", "awaiting_approval") EXCEPT
                             !.gate = [approval |-> nextApproval, hash |-> hash,
                                       status |-> "pending",
                                       expiresAt |-> now + ApprovalTtl]])
      BY <2>5 DEF SettleAwaitingApproval
    <3>2. Move(records[i], "awaiting_approval", "awaiting_approval") \in Record
      BY <2>0, MoveType DEF Statuses, AttemptStates
    <3>3. [approval |-> nextApproval, hash |-> hash, status |-> "pending",
           expiresAt |-> now + ApprovalTtl] \in Gate
      BY DEF Gate, GateStatuses
    <3>. DEFINE paused ==
           [[Move(records[i], "awaiting_approval", "awaiting_approval") EXCEPT
               !.gate = [approval |-> nextApproval, hash |-> hash, status |-> "pending",
                         expiresAt |-> now + ApprovalTtl]] EXCEPT !.lease = NoLease]
    <3>4. paused \in Record
      BY <2>0, <3>2, <3>3, FieldType
    <3>5. records' = [records EXCEPT ![i] = paused]
      BY <3>1 DEF SettleInto
    <3>6. records' \in Seq(Record)
      BY <2>0, <3>4, <3>5
    <3>7. QED
      BY <2>5, <3>1, <3>6 DEF SettleAwaitingApproval, SettleInto
  <2>6. ASSUME SettleRetry(l) PROVE TypeOK'
    <3>1. PICK i \in LeasedWork(l) :
            records' = Append([records EXCEPT ![i] =
                                 [Move(records[i], "failed", "retry_scheduled") EXCEPT
                                    !.lease = NoLease]],
                              NewRecord(records[i].run, records[i].attempt + 1,
                                        now + RetryDelay(records[i].attempt), i))
      BY <2>6 DEF SettleRetry
    <3>2. [Move(records[i], "failed", "retry_scheduled") EXCEPT !.lease = NoLease] \in Record
      BY <2>0, MoveType, FieldType DEF Statuses, AttemptStates
    <3>3. NewRecord(records[i].run, records[i].attempt + 1,
                    now + RetryDelay(records[i].attempt), i) \in Record
      <4>1. records[i].run \in Runs /\ records[i].attempt \in Nat /\ i \in Nat
        BY <2>0 DEF Record
      <4>2. RetryDelay(records[i].attempt) \in Nat
        BY <4>1, RetryDelayType
      <4>. now + RetryDelay(records[i].attempt) \in Nat
        BY <4>2
      <4>3. QED
        BY <4>1, <4>2, NewRecordType
    <3>4. records' \in Seq(Record)
      BY <2>0, <3>1, <3>2, <3>3
    <3>5. QED
      BY <2>6, <3>4 DEF SettleRetry
  <2>7. ASSUME SettleDead(l) PROVE TypeOK'
    <3>1. PICK i \in LeasedWork(l) :
            /\ records' = [records EXCEPT ![i] =
                 [Move(records[i], "dead", "dead_lettered") EXCEPT !.lease = NoLease]]
            /\ deadLetters' = Append(deadLetters,
                 [work |-> i, run |-> records[i].run, attempt |-> records[i].attempt])
      BY <2>7 DEF SettleDead
    <3>2. [Move(records[i], "dead", "dead_lettered") EXCEPT !.lease = NoLease] \in Record
      BY <2>0, MoveType, FieldType DEF Statuses, AttemptStates
    <3>3. [work |-> i, run |-> records[i].run, attempt |-> records[i].attempt] \in DeadLetter
      BY <2>0 DEF DeadLetter, Record
    <3>4. records' \in Seq(Record) /\ deadLetters' \in Seq(DeadLetter)
      BY <2>0, <3>1, <3>2, <3>3
    <3>5. QED
      BY <2>7, <3>4 DEF SettleDead
  <2>8. QED
    BY <1>5, <2>1, <2>2, <2>3, <2>4, <2>5, <2>6, <2>7 DEF LeaseCall
<1>6. ASSUME NEW d \in DOMAIN deadLetters, RedriveDeadLetter(d)
      PROVE  TypeOK'
  <2>1. deadLetters[d] \in DeadLetter
    OBVIOUS
  <2>2. NewRecord(deadLetters[d].run, 1, now, deadLetters[d].work) \in Record
    BY <2>1, NewRecordType DEF DeadLetter
  <2>3. QED
    BY <1>6, <2>2 DEF RedriveDeadLetter
<1>7. ASSUME NEW a \in 1..(nextApproval - 1), NEW hash \in Hashes, ApprovalCallback(a, hash)
      PROVE  TypeOK'
  <2>1. ASSUME NEW i \in Work, NEW status \in {"denied", "expired"},
               CancelApprovalWait(i, status)
        PROVE  TypeOK'
    <3>1. Move(records[i], "cancelled", "cancelled") \in Record
      BY MoveType DEF Statuses, AttemptStates
    <3>2. [Move(records[i], "cancelled", "cancelled") EXCEPT !.gate.status = status] \in Record
      BY <3>1 DEF Record, Gate, GateStatuses
    <3>3. QED
      BY <2>1, <3>2 DEF CancelApprovalWait
  <2>2. ASSUME ResumeApproved(a, hash) PROVE TypeOK'
    <3>1. ASSUME NEW i \in Work PROVE Resumed(records[i]) \in Record
      <4>1. Move(records[i], "queued", "queued") \in Record
        BY MoveType DEF Statuses, AttemptStates
      <4>2. QED
        BY <4>1 DEF Resumed, Record, Gate, GateStatuses
    <3>2. QED
      BY <2>2, <3>1 DEF ResumeApproved
  <2>3. QED
    BY <1>7, <2>1, <2>2
       DEF ApprovalCallback, ResumeRefused, ResumePending, Waiting
<1>8. CASE Tick
  BY <1>8 DEF Tick
<1>9. CASE UNCHANGED vars
  BY <1>9 DEF vars
<1>10. QED
  BY <1>1, <1>2, <1>3, <1>4, <1>5, <1>6, <1>7, <1>8, <1>9 DEF Next

(* Type correctness of the worker queue. *)
THEOREM TypeCorrect == Spec => []TypeOK
  BY InitType, NextType, PTL DEF Spec

-----------------------------------------------------------------------------
(* How one step changes one record.  Every safety argument below looks at  *)
(* a step through this relation instead of at the operations themselves.   *)

Extended(r, s) ==
  /\ r.status = "claimed" /\ ~LeaseExpired(r)
  /\ s = [r EXCEPT !.lease = s.lease] /\ s.lease.id = r.lease.id

Expired(r, s) == LeaseExpired(r) /\ s = ExpireClaimed(r)

Claimed(r, s) ==
  /\ \/ r.status = "queued" /\ s = [Move(r, "claimed", "claimed") EXCEPT !.lease = s.lease]
     \/ /\ LeaseExpired(r) /\ ~r.cancelRequested
        /\ s = [Move(ExpireClaimed(r), "claimed", "claimed") EXCEPT !.lease = s.lease]
  /\ s.lease.id = nextLease /\ nextLease' = nextLease + 1

Settled(r, s) ==
  /\ r.status = "claimed" /\ ~LeaseExpired(r)
  /\ \/ s = [Move(r, "cancelled", "cancelled") EXCEPT !.lease = NoLease]
     \/ /\ ~r.cancelRequested
        /\ \/ s = [Move(r, "completed", "completed") EXCEPT !.lease = NoLease]
           \/ /\ s = [Move(r, "failed", "retry_scheduled") EXCEPT !.lease = NoLease]
              /\ DOMAIN records' # Work
           \/ /\ s = [Move(r, "dead", "dead_lettered") EXCEPT !.lease = NoLease]
              /\ r.attempt >= MaxAttempts

Paused(r, s) ==
  /\ r.status = "claimed" /\ ~LeaseExpired(r) /\ ~r.cancelRequested
  /\ s = [Move(r, "awaiting_approval", "awaiting_approval") EXCEPT
            !.gate = s.gate, !.lease = NoLease]
  /\ s.gate.approval = nextApproval /\ s.gate.status = "pending" /\ s.gate.hash \in Hashes
  /\ nextApproval' = nextApproval + 1 /\ grants' = grants

Stopped(r, s) == IsActive(r) /\ s = Cancelled(r)

Granted(r, s) ==
  /\ r.status = "awaiting_approval" /\ s = Resumed(r)
  /\ <<r.gate.approval, r.gate.hash>> \in grants'

Refused(r, s) ==
  /\ r.status = "awaiting_approval"
  /\ \E status \in {"denied", "expired"} :
       s = [Move(r, "cancelled", "cancelled") EXCEPT !.gate.status = status]

Evolves(r, s) ==
  \/ s = r
  \/ Extended(r, s) \/ Expired(r, s) \/ Claimed(r, s) \/ Settled(r, s)
  \/ Paused(r, s) \/ Stopped(r, s) \/ Granted(r, s) \/ Refused(r, s)

(* Where a record pushed by a step comes from. *)
OthersStay(i) == \A j \in Work : j # i => records'[j] = records[j]

PushedFirst(s) ==
  /\ s = NewRecord(s.run, 1, s.availableAt, 0)
  /\ \A i \in ActiveWork(s.run) : records[i].attempt # 1
  /\ Reenqueue \/ \A i \in Work : records[i].run # s.run
  /\ OthersStay(0)

PushedRetry(s) ==
  \E i \in Work :
    /\ s = NewRecord(records[i].run, records[i].attempt + 1, s.availableAt, i)
    /\ records[i].status = "claimed" /\ ~records[i].cancelRequested
    /\ records[i].attempt < MaxAttempts
    /\ records'[i].status = "failed"
    /\ OthersStay(i)

PushedRedrive(s) ==
  \E d \in DOMAIN deadLetters :
    /\ s = NewRecord(deadLetters[d].run, 1, s.availableAt, deadLetters[d].work)
    /\ ActiveWork(s.run) = {}
    /\ OthersStay(0)

Pushed(s) ==
  /\ PushedFirst(s) \/ PushedRetry(s) \/ PushedRedrive(s)
  /\ nextLease' = nextLease

Step ==
  /\ \A i \in Work : i \in DOMAIN records' /\ Evolves(records[i], records'[i])
  /\ \A i \in DOMAIN records' \ Work : i = Len(records) + 1 /\ Pushed(records'[i])

(* Evolution of a record the step rewrites alone. *)
LEMMA StepOfOne ==
  ASSUME TypeOK, NEW i \in Work, NEW s, records' = [records EXCEPT ![i] = s],
         Evolves(records[i], s)
  PROVE  Step
  BY DEF Step, TypeOK, Work, Evolves

(* An operation that only appends work is a Step. *)
LEMMA StepOfPush ==
  ASSUME TypeOK, NEW s, records' = Append(records, s), Pushed(s)
  PROVE  Step
<1>1. /\ DOMAIN records' = 1..(Len(records) + 1)
      /\ Work = 1..Len(records)
      /\ records'[Len(records) + 1] = s
      /\ \A i \in Work : records'[i] = records[i]
  BY DEF TypeOK, Work
<1>2. \A i \in DOMAIN records' \ Work : i = Len(records) + 1
  BY <1>1 DEF TypeOK
<1>3. QED
  BY <1>1, <1>2 DEF Step, Evolves

(* Every operation is a Step: it pushes at most one record, and every other one evolves. *)
LEMMA NextStep ==
  ASSUME TypeOK, [Next]_vars
  PROVE  Step
<1>0. ASSUME UNCHANGED records
      PROVE  Step
  BY <1>0 DEF Step, Evolves, Work
<1>1. ASSUME NEW run \in Runs, Enqueue(run)
      PROVE  Step
  <2>1. records' = Append(records, NewRecord(run, 1, now, 0)) /\ nextLease' = nextLease
    BY <1>1 DEF Enqueue
  <2>2. PushedFirst(NewRecord(run, 1, now, 0))
    <3>1. OthersStay(0)
      BY <2>1 DEF OthersStay, Work, TypeOK
    <3>2. QED
      BY <1>1, <3>1 DEF Enqueue, PushedFirst, NewRecord
  <2>3. QED
    BY <2>1, <2>2, StepOfPush DEF Pushed
<1>2. ASSUME NEW run \in Runs, CancelRun(run)
      PROVE  Step
  <2>1. \A i \in Work : Evolves(records[i], records'[i])
    BY <1>2 DEF CancelRun, Evolves, Stopped, ActiveWork
  <2>2. QED
    BY <1>2, <2>1 DEF CancelRun, Step, Work, TypeOK
<1>3. CASE ExpireLeases
  <2>1. \A i \in Work : Evolves(records[i], records'[i])
    BY <1>3 DEF ExpireLeases, Swept, Evolves, Expired
  <2>2. QED
    BY <1>3, <2>1 DEF ExpireLeases, Swept, Step, Work, TypeOK
<1>4. CASE ClaimNext
  <2>1. PICK i \in Due : records' = [Swept EXCEPT ![i] =
          [Move(Swept[i], "claimed", "claimed") EXCEPT
             !.lease = [id |-> nextLease, claimedAt |-> now, expiresAt |-> now + LeaseMs]]]
    BY <1>4 DEF ClaimNext
  <2>2. /\ Swept \in Seq(Record) /\ DOMAIN Swept = Work
        /\ \A j \in Work : Swept[j] \in Record /\ records[j] \in Record
        /\ i \in Work
    BY SweptType DEF Due, TypeOK, Work
  <2>3. DOMAIN records' = Work
    BY <2>1, <2>2
  <2>4. ASSUME NEW j \in Work, j # i
        PROVE  Evolves(records[j], records'[j])
    BY <2>1, <2>2, <2>4 DEF Swept, Evolves, Expired
  <2>5. Evolves(records[i], records'[i])
    <3>1. records'[i] = [Move(Swept[i], "claimed", "claimed") EXCEPT
            !.lease = [id |-> nextLease, claimedAt |-> now, expiresAt |-> now + LeaseMs]]
      BY <2>1, <2>2
    <3>2. Move(Swept[i], "claimed", "claimed") \in Record
      BY <2>2, MoveType DEF Statuses, AttemptStates
    <3>3. /\ records'[i].lease.id = nextLease
          /\ records'[i] = [Move(Swept[i], "claimed", "claimed") EXCEPT
               !.lease = records'[i].lease]
      BY <3>1, <3>2 DEF Record
    <3>4. Swept[i].status = "queued" /\ nextLease' = nextLease + 1
      BY <1>4 DEF Due, ClaimNext
    <3>5. CASE ~LeaseExpired(records[i])
      <4>1. Swept[i] = records[i]
        BY <3>5, <2>2 DEF Swept
      <4>2. QED
        BY <3>3, <3>4, <4>1 DEF Evolves, Claimed
    <3>6. CASE LeaseExpired(records[i])
      <4>1. Swept[i] = ExpireClaimed(records[i])
        BY <3>6, <2>2 DEF Swept
      <4>2. ~records[i].cancelRequested
        BY <4>1, <3>4, <2>2 DEF ExpireClaimed, Move, Record
      <4>3. QED
        BY <3>3, <3>4, <3>6, <4>1, <4>2 DEF Evolves, Claimed
    <3>7. QED
      BY <3>5, <3>6
  <2>6. QED
    BY <2>3, <2>4, <2>5 DEF Step
<1>5. ASSUME NEW l \in 1..(nextLease - 1), LeaseCall(l)
      PROVE  Step
  <2>0. \A i \in LeasedWork(l) : i \in Work /\ records[i] \in Record
    BY DEF LeasedWork, TypeOK, Work
  <2>1. ASSUME HeartbeatExtend(l) PROVE Step
    <3>1. PICK i \in LeasedWork(l) :
            /\ records[i].status = "claimed" /\ ~LeaseExpired(records[i])
            /\ \E e : records' = [records EXCEPT ![i].lease.expiresAt = e]
      BY <2>1 DEF HeartbeatExtend
    <3>2. PICK e : records' = [records EXCEPT ![i] = [records[i] EXCEPT !.lease.expiresAt = e]]
      BY <3>1
    <3>. DEFINE s == [records[i] EXCEPT !.lease.expiresAt = e]
    <3>3. s = [records[i] EXCEPT !.lease = s.lease] /\ s.lease.id = records[i].lease.id
      BY <2>0 DEF Record, Lease
    <3>4. Evolves(records[i], s)
      BY <3>1, <3>3 DEF Evolves, Extended
    <3>5. QED
      BY <3>2, <3>4, <2>0, StepOfOne
  <2>2. ASSUME LoseLease(l) PROVE Step
    <3>1. PICK i \in LeasedWork(l) :
            /\ LeaseExpired(records[i])
            /\ records' = [records EXCEPT ![i] = ExpireClaimed(records[i])]
      BY <2>2 DEF LoseLease, ExpireOne
    <3>2. Evolves(records[i], ExpireClaimed(records[i]))
      BY <3>1 DEF Evolves, Expired
    <3>3. QED
      BY <3>1, <3>2, <2>0, StepOfOne
  <2>. DEFINE Ended(i, status, state) ==
         [Move(records[i], status, state) EXCEPT !.lease = NoLease]
  <2>3. ASSUME SettleCancelled(l) PROVE Step
    <3>1. PICK i \in LeasedWork(l) :
            MaySettle(i) /\ records' = [records EXCEPT ![i] = Ended(i, "cancelled", "cancelled")]
      BY <2>3 DEF SettleCancelled, SettleInto
    <3>2. Evolves(records[i], Ended(i, "cancelled", "cancelled"))
      BY <3>1 DEF Evolves, Settled, MaySettle
    <3>3. QED
      BY <3>1, <3>2, <2>0, StepOfOne
  <2>4. ASSUME SettleCompleted(l) PROVE Step
    <3>1. PICK i \in LeasedWork(l) :
            /\ MaySettle(i) /\ ~records[i].cancelRequested
            /\ records' = [records EXCEPT ![i] = Ended(i, "completed", "completed")]
      BY <2>4 DEF SettleCompleted, SettleInto
    <3>2. Evolves(records[i], Ended(i, "completed", "completed"))
      BY <3>1 DEF Evolves, Settled, MaySettle
    <3>3. QED
      BY <3>1, <3>2, <2>0, StepOfOne
  <2>5. ASSUME NEW hash \in Hashes, SettleAwaitingApproval(l, hash) PROVE Step
    <3>. DEFINE gate == [approval |-> nextApproval, hash |-> hash, status |-> "pending",
                         expiresAt |-> now + ApprovalTtl]
                m(i) == Move(records[i], "awaiting_approval", "awaiting_approval")
                s(i) == [[m(i) EXCEPT !.gate = gate] EXCEPT !.lease = NoLease]
    <3>1. PICK i \in LeasedWork(l) :
            /\ MaySettle(i) /\ ~records[i].cancelRequested
            /\ records' = [records EXCEPT ![i] = s(i)]
      BY <2>5 DEF SettleAwaitingApproval, SettleInto
    <3>2. m(i) \in Record
      BY <2>0, MoveType DEF Statuses, AttemptStates
    <3>3. s(i) = [m(i) EXCEPT !.gate = s(i).gate, !.lease = NoLease] /\ s(i).gate = gate
      BY <3>2 DEF Record
    <3>4. nextApproval' = nextApproval + 1 /\ grants' = grants
      BY <2>5 DEF SettleAwaitingApproval, SettleInto
    <3>5. Evolves(records[i], s(i))
      BY <3>1, <3>3, <3>4 DEF Evolves, Paused, MaySettle
    <3>6. QED
      BY <3>1, <3>5, <2>0, StepOfOne
  <2>6. ASSUME SettleRetry(l) PROVE Step
    <3>. DEFINE done(i) == Ended(i, "failed", "retry_scheduled")
                next(i) == NewRecord(records[i].run, records[i].attempt + 1,
                                     now + RetryDelay(records[i].attempt), i)
    <3>1. PICK i \in LeasedWork(l) :
            /\ MaySettle(i) /\ ~records[i].cancelRequested /\ records[i].attempt < MaxAttempts
            /\ records' = Append([records EXCEPT ![i] = done(i)], next(i))
            /\ nextLease' = nextLease
      BY <2>6 DEF SettleRetry
    <3>2. done(i) \in Record
      BY <2>0, MoveType, FieldType DEF Statuses, AttemptStates, NoLease, Lease
    <3>3. /\ DOMAIN records' = 1..(Len(records) + 1) /\ Work = 1..Len(records)
          /\ records'[Len(records) + 1] = next(i)
          /\ records'[i] = done(i)
          /\ \A j \in Work : j # i => records'[j] = records[j]
      <4>. HIDE DEF done, next
      <4>. QED
        BY <3>1, <2>0 DEF TypeOK, Work
    <3>4. records'[i].status = "failed"
      BY <3>3, <2>0 DEF Move, Record
    <3>5. Evolves(records[i], done(i))
      <4>1. DOMAIN records' # Work
        BY <3>3 DEF TypeOK
      <4>2. QED
        BY <3>1, <4>1 DEF Evolves, Settled, MaySettle
    <3>6. PushedRetry(next(i))
      <4>1. next(i) = NewRecord(records[i].run, records[i].attempt + 1, next(i).availableAt, i)
        BY DEF NewRecord
      <4>2. QED
        BY <3>1, <3>3, <3>4, <4>1, <2>0 DEF PushedRetry, MaySettle, OthersStay
    <3>7. QED
      <4>. HIDE DEF done, next
      <4>1. \A j \in Work : j \in DOMAIN records' /\ Evolves(records[j], records'[j])
        BY <3>3, <3>5 DEF Evolves, TypeOK
      <4>2. \A j \in DOMAIN records' \ Work : j = Len(records) + 1 /\ Pushed(records'[j])
        BY <3>1, <3>3, <3>6 DEF Pushed, TypeOK
      <4>3. QED
        BY <4>1, <4>2 DEF Step
  <2>7. ASSUME SettleDead(l) PROVE Step
    <3>1. PICK i \in LeasedWork(l) :
            /\ MaySettle(i) /\ ~records[i].cancelRequested /\ records[i].attempt >= MaxAttempts
            /\ records' = [records EXCEPT ![i] = Ended(i, "dead", "dead_lettered")]
      BY <2>7 DEF SettleDead
    <3>2. Evolves(records[i], Ended(i, "dead", "dead_lettered"))
      BY <3>1 DEF Evolves, Settled, MaySettle
    <3>3. QED
      BY <3>1, <3>2, <2>0, StepOfOne
  <2>8. QED
    BY <1>5, <2>1, <2>2, <2>3, <2>4, <2>5, <2>6, <2>7 DEF LeaseCall
<1>6. ASSUME NEW d \in DOMAIN deadLetters, RedriveDeadLetter(d)
      PROVE  Step
  <2>. DEFINE s == NewRecord(deadLetters[d].run, 1, now, deadLetters[d].work)
  <2>1. records' = Append(records, s) /\ nextLease' = nextLease
    BY <1>6 DEF RedriveDeadLetter
  <2>2. PushedRedrive(s)
    <3>1. OthersStay(0)
      BY <2>1 DEF OthersStay, Work, TypeOK
    <3>2. QED
      BY <1>6, <3>1 DEF RedriveDeadLetter, PushedRedrive, NewRecord
  <2>3. QED
    BY <2>1, <2>2, StepOfPush DEF Pushed
<1>7. ASSUME NEW a \in 1..(nextApproval - 1), NEW hash \in Hashes, ApprovalCallback(a, hash)
      PROVE  Step
  <2>1. ASSUME NEW i \in Waiting(a, hash), NEW status \in {"denied", "expired"},
               CancelApprovalWait(i, status)
        PROVE  Step
    <3>. DEFINE s == [Move(records[i], "cancelled", "cancelled") EXCEPT !.gate.status = status]
    <3>1. i \in Work /\ records' = [records EXCEPT ![i] = s]
      BY <2>1 DEF CancelApprovalWait, Waiting
    <3>2. Evolves(records[i], s)
      BY DEF Evolves, Refused, Waiting
    <3>3. QED
      BY <3>1, <3>2, StepOfOne
  <2>2. ASSUME ResumeApproved(a, hash) PROVE Step
    <3>1. \A i \in Work : Evolves(records[i], records'[i])
      BY <2>2 DEF ResumeApproved, Evolves, Granted, Waiting
    <3>2. QED
      BY <2>2, <3>1 DEF ResumeApproved, Step, Work, TypeOK
  <2>3. QED
    BY <1>7, <2>1, <2>2 DEF ApprovalCallback, ResumeRefused, ResumePending
<1>8. CASE Tick
  BY <1>0, <1>8 DEF Tick
<1>9. CASE UNCHANGED vars
  BY <1>0, <1>9 DEF vars
<1>10. QED
  BY <1>1, <1>2, <1>3, <1>4, <1>5, <1>6, <1>7, <1>8, <1>9 DEF Next

SameIdentity(r, s) == s.run = r.run /\ s.attempt = r.attempt /\ s.retryOf = r.retryOf

(* A move that gives the record another lease. *)
Leased(r, status, state, lease) == [Move(r, status, state) EXCEPT !.lease = lease]

(* What such a move leaves in the record. *)
LEMMA LeasedFields ==
  ASSUME NEW r \in Record, NEW status, NEW state, NEW lease
  PROVE  LET s == Leased(r, status, state, lease) IN
         /\ SameIdentity(r, s)
         /\ s.status = status /\ s.attemptState = state /\ s.lease = lease
         /\ s.gate = r.gate /\ s.cancelRequested = r.cancelRequested
  BY DEF Leased, Move, Record, SameIdentity

(* It keeps the type of the record. *)
LEMMA LeasedTyped ==
  ASSUME NEW r \in Record, NEW status \in Statuses, NEW state \in AttemptStates, NEW lease \in Lease
  PROVE  Leased(r, status, state, lease) \in Record
  BY DEF Leased, Move, Record

(* The fields of a record whose lease ran out. *)
LEMMA ExpiredFields ==
  ASSUME NEW r \in Record, r.status = "claimed"
  PROVE  LET s == ExpireClaimed(r) IN
         /\ s \in Record /\ SameIdentity(r, s)
         /\ s.lease.id = 0 /\ s.gate = r.gate /\ s.cancelRequested = r.cancelRequested
         /\ IF r.cancelRequested THEN s.status = "cancelled" /\ s.attemptState = "cancelled"
            ELSE s.status = "queued" /\ s.attemptState = "queued"
<1>1. NoLease \in Lease /\ NoLease.id = 0
  BY DEF NoLease, Lease
<1>2. {"cancelled", "queued"} \subseteq Statuses \cap AttemptStates
  BY DEF Statuses, AttemptStates
<1>3. CASE r.cancelRequested
  <2>1. ExpireClaimed(r) = Leased(r, "cancelled", "cancelled", NoLease)
    BY <1>3 DEF ExpireClaimed, Leased
  <2>2. ExpireClaimed(r) \in Record
    BY <1>1, <1>2, <2>1, LeasedTyped
  <2>3. /\ SameIdentity(r, ExpireClaimed(r))
        /\ ExpireClaimed(r).status = "cancelled" /\ ExpireClaimed(r).attemptState = "cancelled"
        /\ ExpireClaimed(r).lease = NoLease /\ ExpireClaimed(r).gate = r.gate
        /\ ExpireClaimed(r).cancelRequested = r.cancelRequested
    BY <2>1, LeasedFields
  <2>4. QED
    BY <1>1, <1>3, <2>2, <2>3
<1>4. CASE ~r.cancelRequested
  <2>1. ExpireClaimed(r) = Leased(r, "queued", "queued", NoLease)
    BY <1>4 DEF ExpireClaimed, Leased
  <2>2. ExpireClaimed(r) \in Record
    BY <1>1, <1>2, <2>1, LeasedTyped
  <2>3. /\ SameIdentity(r, ExpireClaimed(r))
        /\ ExpireClaimed(r).status = "queued" /\ ExpireClaimed(r).attemptState = "queued"
        /\ ExpireClaimed(r).lease = NoLease /\ ExpireClaimed(r).gate = r.gate
        /\ ExpireClaimed(r).cancelRequested = r.cancelRequested
    BY <2>1, LeasedFields
  <2>4. QED
    BY <1>1, <1>4, <2>2, <2>3
<1>5. QED
  BY <1>3, <1>4

(* The fields of a record that was claimed: its lease is the next one, and *)
(* no cancellation waits for a lease that ran out.                         *)
LEMMA ClaimedFields ==
  ASSUME NEW r \in Record, NEW s, Claimed(r, s)
  PROVE  /\ SameIdentity(r, s)
         /\ s.status = "claimed" /\ s.attemptState = "claimed" /\ s.lease.id = nextLease
         /\ s.gate = r.gate /\ s.cancelRequested = r.cancelRequested
         /\ \/ r.status = "queued"
            \/ r.status = "claimed" /\ ~r.cancelRequested
<1>1. PICK lease : lease = s.lease
  OBVIOUS
<1>2. s.lease.id = nextLease
  BY DEF Claimed
<1>3. CASE r.status = "queued" /\ s = [Move(r, "claimed", "claimed") EXCEPT !.lease = s.lease]
  <2>1. s = Leased(r, "claimed", "claimed", lease)
    BY <1>1, <1>3, Zenon DEF Leased
  <2>2. QED
    BY <1>2, <1>3, <2>1, LeasedFields
<1>4. CASE /\ LeaseExpired(r) /\ ~r.cancelRequested
           /\ s = [Move(ExpireClaimed(r), "claimed", "claimed") EXCEPT !.lease = s.lease]
  <2>1. PICK q : q = ExpireClaimed(r)
    OBVIOUS
  <2>2. r.status = "claimed" /\ s = Leased(q, "claimed", "claimed", lease)
    BY <1>1, <1>4, <2>1, Zenon DEF LeaseExpired, Leased
  <2>3. q \in Record /\ SameIdentity(r, q) /\ q.gate = r.gate /\ q.cancelRequested = r.cancelRequested
    BY <2>1, <2>2, ExpiredFields
  <2>4. /\ SameIdentity(q, s) /\ s.status = "claimed" /\ s.attemptState = "claimed"
        /\ s.gate = q.gate /\ s.cancelRequested = q.cancelRequested
    BY <2>2, <2>3, LeasedFields
  <2>5. QED
    BY <1>2, <1>4, <2>2, <2>3, <2>4 DEF SameIdentity
<1>5. QED
  BY <1>3, <1>4 DEF Claimed

(* The fields of a record that was settled, and of one that was paused. *)
LEMMA SettledFields ==
  ASSUME NEW r \in Record, NEW s, Settled(r, s)
  PROVE  /\ SameIdentity(r, s)
         /\ s.lease.id = 0 /\ s.gate = r.gate /\ s.cancelRequested = r.cancelRequested
         /\ \/ s.status = "cancelled" /\ s.attemptState = "cancelled"
            \/ /\ ~r.cancelRequested
               /\ \/ s.status = "completed" /\ s.attemptState = "completed"
                  \/ /\ s.status = "failed" /\ s.attemptState = "retry_scheduled"
                     /\ DOMAIN records' # Work
                  \/ /\ s.status = "dead" /\ s.attemptState = "dead_lettered"
                     /\ r.attempt >= MaxAttempts
<1>0. NoLease.id = 0
  BY DEF NoLease
<1>1. CASE s = Leased(r, "cancelled", "cancelled", NoLease)
  BY <1>0, <1>1, LeasedFields
<1>2. CASE ~r.cancelRequested /\ s = Leased(r, "completed", "completed", NoLease)
  BY <1>0, <1>2, LeasedFields
<1>3. CASE /\ ~r.cancelRequested /\ DOMAIN records' # Work
           /\ s = Leased(r, "failed", "retry_scheduled", NoLease)
  BY <1>0, <1>3, LeasedFields
<1>4. CASE /\ ~r.cancelRequested /\ r.attempt >= MaxAttempts
           /\ s = Leased(r, "dead", "dead_lettered", NoLease)
  BY <1>0, <1>4, LeasedFields
<1>5. QED
  BY <1>1, <1>2, <1>3, <1>4 DEF Settled, Leased

(* What a settlement that waits for an approval leaves in the record. *)
LEMMA PausedFields ==
  ASSUME NEW r \in Record, NEW s, Paused(r, s)
  PROVE  /\ SameIdentity(r, s)
         /\ s.status = "awaiting_approval" /\ s.attemptState = "awaiting_approval"
         /\ s.lease.id = 0 /\ s.gate.status = "pending" /\ s.gate.approval = nextApproval
         /\ s.cancelRequested = r.cancelRequested /\ ~r.cancelRequested
<1>1. ASSUME NEW gate
      PROVE  LET m == [Move(r, "awaiting_approval", "awaiting_approval") EXCEPT
                         !.gate = gate, !.lease = NoLease] IN
             /\ SameIdentity(r, m)
             /\ m.status = "awaiting_approval" /\ m.attemptState = "awaiting_approval"
             /\ m.lease.id = 0 /\ m.cancelRequested = r.cancelRequested
  BY DEF Move, NoLease, Record, SameIdentity
<1>2. PICK gate : gate = s.gate
  OBVIOUS
<1>3. s = [Move(r, "awaiting_approval", "awaiting_approval") EXCEPT !.gate = gate, !.lease = NoLease]
  BY <1>2 DEF Paused
<1>4. s.gate.status = "pending" /\ s.gate.approval = nextApproval /\ ~r.cancelRequested
  BY DEF Paused
<1>5. QED
  BY <1>1, <1>3, <1>4

-----------------------------------------------------------------------------
(* Action properties that need the types alone *)

(* TerminalFrozen: no operation writes to a record that has ended. *)
THEOREM TerminalFrozenHolds == Spec => TerminalFrozen
<1>1. ASSUME TypeOK, [Next]_vars
      PROVE  \A i \in Work : ~IsActive(records[i]) => records'[i] = records[i]
  <2>1. Step
    BY <1>1, NextStep
  <2>2. ASSUME NEW i \in Work, ~IsActive(records[i])
        PROVE  records'[i] = records[i]
    <3>1. Evolves(records[i], records'[i])
      BY <2>1 DEF Step
    <3>2. QED
      BY <2>2, <3>1 DEF Evolves, Extended, Expired, Claimed, Settled, Paused, Stopped,
                        Granted, Refused, LeaseExpired, IsActive
  <2>3. QED
    BY <2>2
<1>2. QED
  BY <1>1, TypeCorrect, PTL DEF Spec, TerminalFrozen

(* LeaseExclusive: a live lease keeps everyone but its holder out. *)
THEOREM LeaseExclusiveHolds == Spec => LeaseExclusive
<1>1. ASSUME TypeOK, [Next]_vars
      PROVE  \A i \in Work :
               records[i].status = "claimed" /\ ~LeaseExpired(records[i]) =>
                 /\ records'[i].status # "queued"
                 /\ records'[i].lease.id \in {0, records[i].lease.id}
  <2>1. Step
    BY <1>1, NextStep
  <2>2. ASSUME NEW i \in Work, records[i].status = "claimed", ~LeaseExpired(records[i])
        PROVE  /\ records'[i].status # "queued"
               /\ records'[i].lease.id \in {0, records[i].lease.id}
    <3>1. records[i] \in Record /\ Evolves(records[i], records'[i])
      BY <1>1, <2>1 DEF Step, TypeOK, Work
    <3>2. CASE records'[i] = records[i] \/ Extended(records[i], records'[i])
      BY <2>2, <3>1, <3>2 DEF Extended, Record
    <3>3. CASE Settled(records[i], records'[i])
      BY <2>2, <3>1, <3>3, SettledFields
    <3>4. CASE Paused(records[i], records'[i])
      BY <2>2, <3>1, <3>4, PausedFields
    <3>5. CASE Stopped(records[i], records'[i])
      BY <2>2, <3>1, <3>5 DEF Stopped, Cancelled, Move, Record
    <3>6. QED
      BY <2>2, <3>1, <3>2, <3>3, <3>4, <3>5
         DEF Evolves, Expired, Claimed, Granted, Refused, LeaseExpired
  <2>3. QED
    BY <2>2
<1>2. QED
  BY <1>1, TypeCorrect, PTL DEF Spec, LeaseExclusive

-----------------------------------------------------------------------------
(* The fields of a record agree *)

LEMMA AgreeKept ==
  ASSUME NEW r \in Record, NEW s \in Record, Agree(r), Evolves(r, s), TypeOK
  PROVE  Agree(s)
<1> USE DEF Agree
<1>1. CASE s = r
  BY <1>1
<1>2. CASE Extended(r, s)
  BY <1>2 DEF Extended, Record
<1>3. CASE Expired(r, s)
  BY <1>3, ExpiredFields DEF Expired, LeaseExpired
<1>4. CASE Claimed(r, s)
  <2>1. nextLease \in Nat \ {0}
    BY DEF TypeOK
  <2>2. QED
    BY <1>4, <2>1, ClaimedFields
<1>5. CASE Settled(r, s)
  <2>1. r.status = "claimed"
    BY <1>5 DEF Settled
  <2>2. QED
    BY <1>5, <2>1, SettledFields
<1>6. CASE Paused(r, s)
  BY <1>6, PausedFields
<1>7. CASE Stopped(r, s)
  BY <1>7 DEF Move, NoLease, Record, Stopped, Cancelled, IsActive
<1>8. CASE Granted(r, s)
  BY <1>8 DEF Move, NoLease, Record, Granted, Resumed, Gate
<1>9. CASE Refused(r, s)
  BY <1>9 DEF Move, NoLease, Record, Refused, Gate
<1>10. QED
  BY <1>1, <1>2, <1>3, <1>4, <1>5, <1>6, <1>7, <1>8, <1>9 DEF Evolves

(* New work has fields that agree. *)
LEMMA PushedAgree ==
  ASSUME NEW s, Pushed(s)
  PROVE  Agree(s) /\ s.status = "queued" /\ ~s.cancelRequested
  BY DEF Pushed, PushedFirst, PushedRetry, PushedRedrive, NewRecord, Agree, NoLease, NoGate

(* Every operation keeps the agreement of the fields. *)
LEMMA FieldsAgreeKept ==
  ASSUME TypeOK, TypeOK', FieldsAgree, [Next]_vars
  PROVE  FieldsAgree'
<1>1. Step
  BY NextStep
<1>2. ASSUME NEW i \in Work'
      PROVE  Agree(records'[i])
  <2>1. CASE i \in Work
    <3>1. /\ records[i] \in Record /\ records'[i] \in Record
          /\ Agree(records[i]) /\ Evolves(records[i], records'[i])
      BY <1>1, <1>2, <2>1 DEF Step, TypeOK, Work, FieldsAgree
    <3>2. QED
      BY <3>1, AgreeKept
  <2>2. CASE i \notin Work
    BY <1>1, <1>2, <2>2, PushedAgree DEF Step, Work
  <2>3. QED
    BY <2>1, <2>2
<1>3. QED
  BY <1>2 DEF FieldsAgree, Agree

(* FieldsAgree is an invariant: status, attempt state, lease, cancellation
   mark and gate agree in every reachable state. *)
THEOREM FieldsAgreeHolds == Spec => []FieldsAgree
<1>1. Init => FieldsAgree
  BY DEF Init, FieldsAgree, Work
<1>2. TypeOK /\ TypeOK' /\ FieldsAgree /\ [Next]_vars => FieldsAgree'
  BY FieldsAgreeKept
<1>3. QED
  BY <1>1, <1>2, TypeCorrect, PTL DEF Spec

(* TransitionsLegal: the exception of transitionRecord is unreachable. *)
THEOREM TransitionsLegalHolds == Spec => TransitionsLegal
<1>1. ASSUME TypeOK, FieldsAgree, [Next]_vars
      PROVE  \A i \in Work : CanTransition(records[i].attemptState, records'[i].attemptState)
  <2>1. Step
    BY <1>1, NextStep
  <2>2. ASSUME NEW i \in Work
        PROVE  CanTransition(records[i].attemptState, records'[i].attemptState)
    <3>1. /\ records[i] \in Record /\ Agree(records[i])
          /\ Evolves(records[i], records'[i])
      BY <1>1, <2>1 DEF Step, TypeOK, Work, FieldsAgree
    <3>2. QED
      BY <3>1 DEF Evolves, Extended, Expired, Claimed, Settled, Paused, Stopped, Granted,
                  Refused, LeaseExpired, ExpireClaimed, Cancelled, Resumed, IsActive, Move,
                  Record, Agree, CanTransition, Successors, AttemptStates, Statuses
  <2>3. QED
    BY <2>2
<1>2. QED
  BY <1>1, TypeCorrect, FieldsAgreeHolds, PTL DEF Spec, TransitionsLegal

-----------------------------------------------------------------------------
(* Where attempts come from: cancelled work is never retried *)

(* A record that a step leaves active was active before; an ended one stays. *)
LEMMA ActiveBefore ==
  ASSUME TypeOK, Step, NEW i \in Work
  PROVE  /\ SameIdentity(records[i], records'[i])
         /\ IsActive(records'[i]) => IsActive(records[i])
         /\ ~IsActive(records[i]) => records'[i] = records[i]
<1>1. records[i] \in Record /\ Evolves(records[i], records'[i])
  BY DEF Step, TypeOK, Work
<1>2. CASE records'[i] = records[i]
  BY <1>2 DEF SameIdentity
<1>3. CASE Extended(records[i], records'[i])
  BY <1>1, <1>3 DEF Extended, Record, SameIdentity, IsActive
<1>4. CASE Settled(records[i], records'[i])
  BY <1>1, <1>4, SettledFields DEF Settled, IsActive
<1>5. CASE Paused(records[i], records'[i])
  BY <1>1, <1>5, PausedFields DEF Paused, IsActive
<1>6. CASE Expired(records[i], records'[i]) \/ Claimed(records[i], records'[i])
  BY <1>1, <1>6 DEF Expired, Claimed, LeaseExpired, ExpireClaimed, Move, NoLease, Record,
                    SameIdentity, IsActive
<1>7. CASE \/ Stopped(records[i], records'[i]) \/ Granted(records[i], records'[i])
           \/ Refused(records[i], records'[i])
  BY <1>1, <1>7 DEF Stopped, Granted, Refused, Cancelled, Resumed, IsActive, Move, NoLease,
                    Record, SameIdentity
<1>8. QED
  BY <1>1, <1>2, <1>3, <1>4, <1>5, <1>6, <1>7 DEF Evolves

(* A dead letter is written for work that this step buries, and is never changed. *)
LEMMA DeadLetterStep ==
  ASSUME TypeOK, [Next]_vars
  PROVE  \A d \in DOMAIN deadLetters' :
           \/ d \in DOMAIN deadLetters /\ deadLetters'[d] = deadLetters[d]
           \/ /\ deadLetters'[d].work \in Work
              /\ records'[deadLetters'[d].work].status = "dead"
              /\ records'[deadLetters'[d].work].run = deadLetters'[d].run
<1>1. ASSUME NEW l \in 1..(nextLease - 1), SettleDead(l)
      PROVE  \A d \in DOMAIN deadLetters' :
               \/ d \in DOMAIN deadLetters /\ deadLetters'[d] = deadLetters[d]
               \/ /\ deadLetters'[d].work \in Work
                  /\ records'[deadLetters'[d].work].status = "dead"
                  /\ records'[deadLetters'[d].work].run = deadLetters'[d].run
  <2>1. PICK i \in LeasedWork(l) :
          /\ records' = [records EXCEPT ![i] =
               [Move(records[i], "dead", "dead_lettered") EXCEPT !.lease = NoLease]]
          /\ deadLetters' = Append(deadLetters,
               [work |-> i, run |-> records[i].run, attempt |-> records[i].attempt])
    BY <1>1 DEF SettleDead
  <2>2. i \in Work /\ records[i] \in Record
    BY DEF LeasedWork, TypeOK, Work
  <2> DEFINE ended == [Move(records[i], "dead", "dead_lettered") EXCEPT !.lease = NoLease]
  <2>3. ended.status = "dead" /\ ended.run = records[i].run
    BY <2>2 DEF Move, NoLease, Record
  <2>4. records'[i] = ended
    BY <2>1, <2>2 DEF Work
  <2>5. records'[i].status = "dead" /\ records'[i].run = records[i].run
    BY <2>3, <2>4
  <2>6. QED
    BY <2>1, <2>2, <2>5 DEF TypeOK
<1>2. CASE UNCHANGED deadLetters
  BY <1>2
<1>3. QED
  BY <1>1, <1>2 DEF Next, vars, Enqueue, CancelRun, ExpireLeases, ClaimNext, LeaseCall,
     HeartbeatExtend, LoseLease, ExpireOne, SettleCancelled, SettleCompleted, SettleInto,
     SettleAwaitingApproval, SettleRetry, RedriveDeadLetter, ApprovalCallback,
     ResumeApproved, ResumeRefused, ResumePending, CancelApprovalWait, Tick

(* Every attempt that succeeds another one succeeds an ended one; every dead
   letter tells of a dead record; attempt numbers keep to the retry limit. *)
Ancestry ==
  /\ \A i \in Work :
       /\ records[i].attempt \in 1..MaxAttempts
       /\ records[i].retryOf # 0 =>
            records[i].retryOf \in Work /\ records[records[i].retryOf].status \in {"failed", "dead"}
  /\ \A d \in DOMAIN deadLetters :
       deadLetters[d].work \in Work /\ records[deadLetters[d].work].status = "dead"

(* Every operation keeps the links between attempts. *)
LEMMA AncestryKept ==
  ASSUME TypeOK, TypeOK', Ancestry, [Next]_vars
  PROVE  Ancestry'
<1>1. Step
  BY NextStep
<1>2. \A i \in Work : /\ i \in Work'
                      /\ records[i].status \in {"failed", "dead"} => records'[i] = records[i]
                      /\ SameIdentity(records[i], records'[i])
  BY <1>1, ActiveBefore DEF Step, Work, IsActive
<1>3. \A i \in Work : records[i].attempt \in 1..MaxAttempts
  BY DEF Ancestry
<1>4. ASSUME NEW i \in Work'
      PROVE  /\ records'[i].attempt \in 1..MaxAttempts
             /\ records'[i].retryOf # 0 =>
                  /\ records'[i].retryOf \in Work'
                  /\ records'[records'[i].retryOf].status \in {"failed", "dead"}
  <2>1. CASE i \in Work
    BY <1>2, <2>1 DEF Ancestry, SameIdentity
  <2>2. CASE i \notin Work
    <3>1. Pushed(records'[i])
      BY <1>1, <1>4, <2>2 DEF Step, Work
    <3>2. CASE PushedFirst(records'[i])
      BY <3>2, RetryPolicyAssumption DEF PushedFirst, NewRecord
    <3>3. CASE PushedRetry(records'[i])
      <4>1. PICK p \in Work :
              /\ records'[i] = NewRecord(records[p].run, records[p].attempt + 1,
                                         records'[i].availableAt, p)
              /\ records[p].attempt < MaxAttempts
              /\ records'[p].status = "failed"
        BY <3>3 DEF PushedRetry
      <4>2. records'[i].attempt = records[p].attempt + 1 /\ records'[i].retryOf = p
        BY <4>1 DEF NewRecord
      <4>3. records'[i].attempt \in 1..MaxAttempts
        BY <1>3, <4>1, <4>2, RetryPolicyAssumption
      <4>4. QED
        BY <4>1, <4>2, <4>3, <1>2
    <3>4. CASE PushedRedrive(records'[i])
      <4>1. PICK d \in DOMAIN deadLetters :
              records'[i] = NewRecord(deadLetters[d].run, 1, records'[i].availableAt,
                                      deadLetters[d].work)
        BY <3>4 DEF PushedRedrive
      <4>2. records'[i].attempt = 1 /\ records'[i].retryOf = deadLetters[d].work
        BY <4>1 DEF NewRecord
      <4>3. deadLetters[d].work \in Work /\ records[deadLetters[d].work].status = "dead"
        BY DEF Ancestry
      <4>4. QED
        BY <4>2, <4>3, <1>2, RetryPolicyAssumption
    <3>5. QED
      BY <3>1, <3>2, <3>3, <3>4 DEF Pushed
  <2>3. QED
    BY <2>1, <2>2
<1>5. ASSUME NEW d \in DOMAIN deadLetters'
      PROVE  deadLetters'[d].work \in Work' /\ records'[deadLetters'[d].work].status = "dead"
  BY <1>2, DeadLetterStep DEF Ancestry
<1>6. QED
  BY <1>4, <1>5 DEF Ancestry

(* Retries, dead letters and redrives: an attempt that continues another continues one that has ended
   failed or dead, every dead letter tells of dead work, and attempt numbers stay within the limit. *)
THEOREM AncestryHolds == Spec => []Ancestry
<1>1. Init => Ancestry
  BY DEF Init, Ancestry, Work
<1>2. TypeOK /\ TypeOK' /\ Ancestry /\ [Next]_vars => Ancestry'
  BY AncestryKept
<1>3. QED
  BY <1>1, <1>2, TypeCorrect, PTL DEF Spec

(* CancelSticks: cancelled work ends cancelled, and nothing continues it. *)
THEOREM CancelSticksHolds == Spec => []CancelSticks
<1>1. TypeOK /\ FieldsAgree /\ Ancestry => CancelSticks
  BY DEF FieldsAgree, Agree, Ancestry, CancelSticks
<1>2. QED
  BY <1>1, TypeCorrect, FieldsAgreeHolds, AncestryHolds, PTL

-----------------------------------------------------------------------------
(* At most one attempt of a run is active *)

(* OneActivePerRun: retries, redrives, resumed and requeued attempts of a run
   that is enqueued only once never overlap. *)
THEOREM OneActivePerRunHolds ==
  ASSUME Reenqueue = FALSE
  PROVE  Spec => []OneActivePerRun
<1>1. Init => OneActivePerRun
  BY DEF Init, OneActivePerRun, ActiveWork, Work
<1>2. ASSUME TypeOK, OneActivePerRun, [Next]_vars
      PROVE  OneActivePerRun'
  <2>1. Step
    BY <1>2, NextStep
  <2>2. \A i \in Work : /\ SameIdentity(records[i], records'[i])
                        /\ IsActive(records'[i]) => IsActive(records[i])
    BY <1>2, <2>1, ActiveBefore
  <2>3. ASSUME NEW i \in Work, NEW j \in Work' \ Work,
               IsActive(records'[i]), records'[i].run = records'[j].run
        PROVE  FALSE
    <3>1. Pushed(records'[j]) /\ i \in ActiveWork(records'[j].run)
      BY <2>1, <2>2, <2>3 DEF Step, Work, ActiveWork, SameIdentity
    <3>2. CASE PushedFirst(records'[j])
      BY <3>1, <3>2 DEF PushedFirst, ActiveWork
    <3>3. CASE PushedRetry(records'[j])
      <4>1. PICK p \in Work :
              /\ records'[j] = NewRecord(records[p].run, records[p].attempt + 1,
                                         records'[j].availableAt, p)
              /\ records[p].status = "claimed" /\ records'[p].status = "failed"
        BY <3>3 DEF PushedRetry
      <4>2. records'[j].run = records[p].run
        BY <4>1 DEF NewRecord
      <4>3. p \in ActiveWork(records'[j].run)
        BY <4>1, <4>2 DEF ActiveWork, IsActive
      <4>4. records'[j].run \in Runs
        <5>1. records[p] \in Record
          BY <1>2 DEF TypeOK, Work
        <5>2. QED
          BY <4>2, <5>1 DEF Record
      <4>5. i = p
        BY <1>2, <3>1, <4>3, <4>4 DEF OneActivePerRun
      <4>6. QED
        BY <2>3, <4>1, <4>5 DEF IsActive
    <3>4. CASE PushedRedrive(records'[j])
      BY <3>1, <3>4 DEF PushedRedrive
    <3>5. QED
      BY <3>1, <3>2, <3>3, <3>4 DEF Pushed
  <2>4. SUFFICES ASSUME NEW run \in Runs, NEW i \in Work', NEW j \in Work',
                        records'[i].run = run, records'[j].run = run,
                        IsActive(records'[i]), IsActive(records'[j])
                 PROVE  i = j
    BY DEF OneActivePerRun, ActiveWork, IsActive
  <2>5. CASE i \in Work /\ j \in Work
    BY <1>2, <2>2, <2>4, <2>5 DEF OneActivePerRun, ActiveWork, SameIdentity
  <2>6. CASE i \notin Work /\ j \notin Work
    BY <2>1, <2>4, <2>6 DEF Step, Work
  <2>7. QED
    BY <2>3, <2>4, <2>5, <2>6
<1>3. QED
  BY <1>1, <1>2, TypeCorrect, PTL DEF Spec

(* FirstAttemptUnique: the key run_attempt:org:run:1 names one active record,
   even if the run is enqueued again and redriven. *)
THEOREM FirstAttemptUniqueHolds == Spec => []FirstAttemptUnique
<1>1. Init => FirstAttemptUnique
  BY DEF Init, FirstAttemptUnique, ActiveWork, Work
<1>2. ASSUME TypeOK, Ancestry, FirstAttemptUnique, [Next]_vars
      PROVE  FirstAttemptUnique'
  <2>1. Step
    BY <1>2, NextStep
  <2>2. \A i \in Work : /\ SameIdentity(records[i], records'[i])
                        /\ IsActive(records'[i]) => IsActive(records[i])
    BY <1>2, <2>1, ActiveBefore
  <2>3. ASSUME NEW i \in Work, NEW j \in Work' \ Work,
               IsActive(records'[i]), records'[i].run = records'[j].run,
               records'[i].attempt = 1, records'[j].attempt = 1
        PROVE  FALSE
    <3>1. /\ Pushed(records'[j]) /\ i \in ActiveWork(records'[j].run)
          /\ records[i].attempt = 1
      BY <2>1, <2>2, <2>3 DEF Step, Work, ActiveWork, SameIdentity
    <3>2. CASE PushedFirst(records'[j])
      BY <3>1, <3>2 DEF PushedFirst
    <3>3. CASE PushedRetry(records'[j])
      <4>1. PICK p \in Work :
              records'[j] = NewRecord(records[p].run, records[p].attempt + 1,
                                      records'[j].availableAt, p)
        BY <3>3 DEF PushedRetry
      <4>2. records'[j].attempt = records[p].attempt + 1
        BY <4>1 DEF NewRecord
      <4>3. records[p].attempt \in 1..MaxAttempts
        BY <1>2 DEF Ancestry
      <4>4. QED
        BY <2>3, <4>2, <4>3, RetryPolicyAssumption
    <3>4. CASE PushedRedrive(records'[j])
      BY <3>1, <3>4 DEF PushedRedrive
    <3>5. QED
      BY <3>1, <3>2, <3>3, <3>4 DEF Pushed
  <2>4. SUFFICES ASSUME NEW run \in Runs, NEW i \in Work', NEW j \in Work',
                        records'[i].run = run, records'[j].run = run,
                        IsActive(records'[i]), IsActive(records'[j]),
                        records'[i].attempt = 1, records'[j].attempt = 1
                 PROVE  i = j
    BY DEF FirstAttemptUnique, ActiveWork, IsActive
  <2>5. CASE i \in Work /\ j \in Work
    BY <1>2, <2>2, <2>4, <2>5 DEF FirstAttemptUnique, ActiveWork, SameIdentity
  <2>6. CASE i \notin Work /\ j \notin Work
    BY <2>1, <2>4, <2>6 DEF Step, Work
  <2>7. QED
    BY <2>3, <2>4, <2>5, <2>6
<1>3. QED
  BY <1>1, <1>2, TypeCorrect, AncestryHolds, PTL DEF Spec

-----------------------------------------------------------------------------
(* Lease and approval ids *)

(* A step leaves a record its lease, takes it away or hands out the next one. *)
LEMMA LeaseEvolves ==
  ASSUME TypeOK, NEW r \in Record, NEW s \in Record, Evolves(r, s)
  PROVE  \/ s.lease.id \in {0, r.lease.id}
         \/ s.lease.id = nextLease /\ nextLease' = nextLease + 1
<1>1. CASE s = r \/ Extended(r, s)
  BY <1>1 DEF Extended
<1>2. CASE Expired(r, s)
  BY <1>2 DEF Expired, ExpireClaimed, Move, NoLease, Record
<1>3. CASE Claimed(r, s)
  BY <1>3 DEF Claimed
<1>4. CASE Settled(r, s) \/ Paused(r, s)
  BY <1>4, SettledFields, PausedFields
<1>5. CASE Stopped(r, s)
  BY <1>5 DEF Stopped, Cancelled, Move, NoLease, Record
<1>6. CASE Granted(r, s) \/ Refused(r, s)
  BY <1>6 DEF Granted, Refused, Resumed, Move, Record
<1>7. QED
  BY <1>1, <1>2, <1>3, <1>4, <1>5, <1>6 DEF Evolves

(* The same of the gate, and of the grants that it depends on. *)
LEMMA GateEvolves ==
  ASSUME TypeOK, NEW r \in Record, NEW s \in Record, Evolves(r, s)
  PROVE  \/ s.gate = r.gate /\ (s.status = "awaiting_approval" => r.status = "awaiting_approval")
         \/ Paused(r, s)
         \/ /\ s.gate.approval = r.gate.approval /\ s.gate.hash = r.gate.hash
            /\ s.status # "awaiting_approval"
            /\ s.gate.status = "approved" => <<s.gate.approval, s.gate.hash>> \in grants'
<1>1. CASE s = r
  BY <1>1
<1>2. CASE Extended(r, s)
  BY <1>2 DEF Extended, Record
<1>3. CASE Expired(r, s) \/ Claimed(r, s)
  BY <1>3, ExpiredFields, ClaimedFields DEF Expired, LeaseExpired
<1>4. CASE Settled(r, s)
  BY <1>4, SettledFields
<1>5. CASE Stopped(r, s)
  BY <1>5 DEF Stopped, Cancelled, Move, NoLease, Record
<1>6. CASE Granted(r, s)
  <2>1. /\ s.gate = [r.gate EXCEPT !.status = "approved"] /\ s.status = "queued"
        /\ <<r.gate.approval, r.gate.hash>> \in grants'
    BY <1>6 DEF Granted, Resumed, Move, Record
  <2>2. r.gate \in Gate
    BY DEF Record
  <2>3. QED
    BY <2>1, <2>2 DEF Gate
<1>7. CASE Refused(r, s)
  <2>1. PICK status \in {"denied", "expired"} :
          s = [Move(r, "cancelled", "cancelled") EXCEPT !.gate.status = status]
    BY <1>7 DEF Refused
  <2>2. s.gate = [r.gate EXCEPT !.status = status] /\ s.status = "cancelled"
    BY <2>1 DEF Move, Record
  <2>3. r.gate \in Gate
    BY DEF Record
  <2>4. QED
    BY <2>1, <2>2, <2>3 DEF Gate
<1>8. QED
  BY <1>1, <1>2, <1>3, <1>4, <1>5, <1>6, <1>7 DEF Evolves

(* The id counters count up, and a record gets an id in a step of its own. *)
LEMMA IdsDrawnOnce ==
  ASSUME TypeOK, [Next]_vars
  PROVE  /\ nextLease' \in {nextLease, nextLease + 1}
         /\ nextApproval' \in {nextApproval, nextApproval + 1}
         /\ nextLease' # nextLease =>
              \E i \in Work : \A j \in Work : j # i => records'[j].lease.id \in {0, records[j].lease.id}
         /\ nextApproval' # nextApproval =>
              \E i \in Work : \A j \in Work : j # i => records'[j] = records[j]
<1>1. CASE ClaimNext
  <2>1. PICK i \in Due : records' = [Swept EXCEPT ![i] =
          [Move(Swept[i], "claimed", "claimed") EXCEPT
             !.lease = [id |-> nextLease, claimedAt |-> now, expiresAt |-> now + LeaseMs]]]
    BY <1>1 DEF ClaimNext
  <2>2. i \in Work /\ DOMAIN Swept = Work
    BY DEF Due, Swept
  <2>3. ASSUME NEW j \in Work, j # i
        PROVE  records'[j].lease.id \in {0, records[j].lease.id}
    <3>1. records'[j] = Swept[j]
      BY <2>1, <2>2, <2>3
    <3>2. records[j] \in Record
      BY DEF TypeOK, Work
    <3>3. QED
      BY <3>1, <3>2 DEF Swept, ExpireClaimed, Move, NoLease, Record
  <2>4. nextLease' = nextLease + 1 /\ nextApproval' = nextApproval
    BY <1>1 DEF ClaimNext
  <2>5. QED
    BY <2>2, <2>3, <2>4
<1>2. ASSUME NEW l, NEW hash, SettleAwaitingApproval(l, hash)
      PROVE  /\ nextLease' = nextLease /\ nextApproval' = nextApproval + 1
             /\ \E i \in Work : \A j \in Work : j # i => records'[j] = records[j]
  <2>1. PICK i \in LeasedWork(l) : \E v : records' = [records EXCEPT ![i] = v]
    BY <1>2 DEF SettleAwaitingApproval, SettleInto
  <2>2. i \in Work /\ \A j \in Work : j # i => records'[j] = records[j]
    BY <2>1 DEF LeasedWork, TypeOK, Work
  <2>3. nextLease' = nextLease /\ nextApproval' = nextApproval + 1
    BY <1>2 DEF SettleAwaitingApproval, SettleInto
  <2>4. QED
    BY <2>2, <2>3
<1>3. CASE UNCHANGED <<nextLease, nextApproval>>
  BY <1>3
<1>4. QED
  BY <1>1, <1>2, <1>3 DEF Next, vars, Enqueue, CancelRun, ExpireLeases, LeaseCall,
     HeartbeatExtend, LoseLease, ExpireOne, SettleCancelled, SettleCompleted, SettleInto,
     SettleRetry, SettleDead, RedriveDeadLetter, ApprovalCallback,
     ResumeApproved, ResumeRefused, ResumePending, CancelApprovalWait, Tick

(* The fields of new work. *)
LEMMA PushedFields ==
  ASSUME NEW s, Pushed(s)
  PROVE  /\ s.status = "queued" /\ s.attemptState = "queued" /\ ~s.cancelRequested
         /\ s.lease.id = 0 /\ s.gate = NoGate
  BY DEF Pushed, PushedFirst, PushedRetry, PushedRedrive, NewRecord, NoLease

(* Leases and approvals get ids that no record has yet. *)
LEMMA IdsKept ==
  ASSUME TypeOK, TypeOK', IdsUnique, [Next]_vars
  PROVE  IdsUnique'
<1>1. Step
  BY NextStep
<1> DEFINE LeaseOf(i) == records[i].lease.id
           GateOf(i) == records[i].gate.approval
<1>2. /\ nextLease \in Nat \ {0} /\ nextLease' \in {nextLease, nextLease + 1}
      /\ nextApproval \in Nat \ {0} /\ nextApproval' \in {nextApproval, nextApproval + 1}
  BY IdsDrawnOnce DEF TypeOK
<1>3. \A i \in Work : LeaseOf(i) \in Nat /\ GateOf(i) \in Nat
  <2>1. \A i \in Work : records[i] \in Record
    BY DEF TypeOK, Work
  <2>2. \A i \in Work : records[i].lease \in Lease /\ records[i].gate \in Gate
    BY <2>1 DEF Record
  <2>3. QED
    BY <2>2 DEF Lease, Gate
<1>4. \A i \in Work : LeaseOf(i) < nextLease /\ GateOf(i) < nextApproval
  BY DEF IdsUnique
<1>5. \A i \in Work : \/ LeaseOf(i)' \in {0, LeaseOf(i)}
                      \/ LeaseOf(i)' = nextLease /\ nextLease' = nextLease + 1
  BY <1>1, LeaseEvolves DEF Step, TypeOK, Work
<1>6. \A i \in Work : \/ GateOf(i)' = GateOf(i)
                      \/ GateOf(i)' = nextApproval /\ nextApproval' = nextApproval + 1
  <2>1. ASSUME NEW i \in Work
        PROVE  \/ GateOf(i)' = GateOf(i)
               \/ GateOf(i)' = nextApproval /\ nextApproval' = nextApproval + 1
    <3>1. /\ records[i] \in Record /\ records'[i] \in Record
          /\ Evolves(records[i], records'[i])
      BY <1>1, <2>1 DEF Step, TypeOK, Work
    <3>2. QED
      BY <3>1, GateEvolves DEF Paused
  <2>2. QED
    BY <2>1
<1>7. \A i \in Work' \ Work : i = Len(records) + 1 /\ LeaseOf(i)' = 0 /\ GateOf(i)' = 0
  BY <1>1, PushedFields DEF Step, Work, NoGate
<1>8. \A i \in Work' : LeaseOf(i)' < nextLease' /\ GateOf(i)' < nextApproval'
  BY <1>2, <1>3, <1>4, <1>5, <1>6, <1>7
<1>9. ASSUME NEW i \in Work', NEW j \in Work', i # j, LeaseOf(i)' # 0
      PROVE  LeaseOf(i)' # LeaseOf(j)'
  <2>1. CASE i \notin Work \/ j \notin Work
    BY <1>7, <1>9, <2>1
  <2>2. CASE i \in Work /\ j \in Work
    <3>1. LeaseOf(i) = LeaseOf(j) => LeaseOf(i) = 0
      BY <1>9, <2>2 DEF IdsUnique
    <3>2. CASE nextLease' = nextLease
      BY <1>2, <1>5, <1>9, <2>2, <3>1, <3>2
    <3>3. CASE nextLease' # nextLease
      <4>1. PICK k \in Work : \A m \in Work : m # k => LeaseOf(m)' \in {0, LeaseOf(m)}
        BY <3>3, IdsDrawnOnce
      <4>2. QED
        BY <1>2, <1>3, <1>4, <1>5, <1>9, <2>2, <3>1, <4>1
    <3>4. QED
      BY <3>2, <3>3
  <2>3. QED
    BY <2>1, <2>2
<1>10. ASSUME NEW i \in Work', NEW j \in Work', i # j, GateOf(i)' # 0
       PROVE  GateOf(i)' # GateOf(j)'
  <2>1. CASE i \notin Work \/ j \notin Work
    BY <1>7, <1>10, <2>1
  <2>2. CASE i \in Work /\ j \in Work
    <3>1. GateOf(i) = GateOf(j) => GateOf(i) = 0
      BY <1>10, <2>2 DEF IdsUnique
    <3>2. CASE nextApproval' = nextApproval
      BY <1>2, <1>6, <1>10, <2>2, <3>1, <3>2
    <3>3. CASE nextApproval' # nextApproval
      <4>1. PICK k \in Work : \A m \in Work : m # k => GateOf(m)' = GateOf(m)
        BY <3>3, IdsDrawnOnce
      <4>2. QED
        BY <1>2, <1>3, <1>4, <1>6, <1>10, <2>2, <3>1, <4>1
    <3>4. QED
      BY <3>2, <3>3
  <2>3. QED
    BY <2>1, <2>2
<1>11. QED
  BY <1>8, <1>9, <1>10 DEF IdsUnique

(* settle, heartbeat and the approval callbacks look a record up by one id: a  *)
(* lease or approval id names at most one record, and none not yet drawn does. *)
THEOREM IdsUniqueHolds == Spec => []IdsUnique
<1>1. Init => IdsUnique
  BY DEF Init, IdsUnique, Work
<1>2. TypeOK /\ TypeOK' /\ IdsUnique /\ [Next]_vars => IdsUnique'
  BY IdsKept
<1>3. QED
  BY <1>1, <1>2, TypeCorrect, PTL DEF Spec

-----------------------------------------------------------------------------
(* Work goes on past a gate on an approved callback *)

(* Work waits behind an approval that was drawn, and what was granted was. *)
GatesDrawn ==
  /\ \A i \in Work : records[i].status = "awaiting_approval" => records[i].gate.approval # 0
  /\ \A a \in Nat, hash \in Hashes : <<a, hash>> \in grants => a < nextApproval

(* resume is the one operation that delivers an approved callback, and the work
   that waits for it does not go on waiting. *)
LEMMA GrantsGrow ==
  ASSUME TypeOK, IdsUnique, [Next]_vars
  PROVE  \/ grants' = grants
         \/ \E a \in 1..(nextApproval - 1), hash \in Hashes :
              /\ grants' = grants \cup {<<a, hash>>} /\ nextApproval' = nextApproval
              /\ \A i \in Work :
                   /\ records[i].gate.approval = a /\ records[i].gate.hash = hash
                   /\ records[i].status = "awaiting_approval"
                   => records'[i].status = "queued"
<1>1. ASSUME NEW a \in 1..(nextApproval - 1), NEW hash \in Hashes, ResumeApproved(a, hash),
             NEW i \in Work, records[i].gate.approval = a, records[i].gate.hash = hash,
             records[i].status = "awaiting_approval"
      PROVE  records'[i].status = "queued"
  <2>1. \A j \in Work : j # i => records[j].gate.approval # a
    BY <1>1 DEF IdsUnique
  <2>2. 1..(i - 1) \subseteq Work /\ i \notin 1..(i - 1) /\ records[i] \in Record
    BY DEF TypeOK, Work
  <2>3. i \in Waiting(a, hash)
    BY <1>1, <2>1, <2>2 DEF Waiting
  <2>4. records'[i] = Resumed(records[i])
    BY <1>1, <2>3 DEF ResumeApproved
  <2>5. QED
    BY <2>2, <2>4 DEF Resumed, Move, Record
<1>2. ASSUME NEW a \in 1..(nextApproval - 1), NEW hash \in Hashes, ResumeApproved(a, hash)
      PROVE  grants' = grants \cup {<<a, hash>>} /\ nextApproval' = nextApproval
  BY <1>2 DEF ResumeApproved
<1>3. \/ grants' = grants
      \/ \E a \in 1..(nextApproval - 1), hash \in Hashes : ResumeApproved(a, hash)
  BY DEF Next, vars, Enqueue, CancelRun, ExpireLeases, ClaimNext, LeaseCall,
     HeartbeatExtend, LoseLease, ExpireOne, SettleCancelled, SettleCompleted, SettleInto,
     SettleAwaitingApproval, SettleRetry, SettleDead, RedriveDeadLetter, ApprovalCallback,
     ResumeRefused, ResumePending, CancelApprovalWait, Tick
<1>4. QED
  BY <1>1, <1>2, <1>3

(* A grant is given for the hash that the work paused on, whatever callbacks arrive. *)
LEMMA FidelityKept ==
  ASSUME TypeOK, TypeOK', IdsUnique, GatesDrawn, ApprovalFidelity, [Next]_vars
  PROVE  GatesDrawn' /\ ApprovalFidelity'
<1>1. Step
  BY NextStep
<1>2. /\ nextApproval \in Nat \ {0} /\ nextApproval' \in {nextApproval, nextApproval + 1}
      /\ grants \subseteq Nat \X Hashes
  BY IdsDrawnOnce DEF TypeOK
<1>3. grants \subseteq grants' /\ \A a \in Nat, hash \in Hashes : <<a, hash>> \in grants' => a < nextApproval'
  BY <1>2, GrantsGrow DEF GatesDrawn
<1>4. ASSUME NEW i \in Work'
      PROVE  /\ records'[i].status = "awaiting_approval" =>
                  /\ records'[i].gate.approval # 0
                  /\ <<records'[i].gate.approval, records'[i].gate.hash>> \notin grants'
             /\ records'[i].gate.status = "approved" =>
                  <<records'[i].gate.approval, records'[i].gate.hash>> \in grants'
  <2>1. CASE i \notin Work
    BY <1>1, <1>4, <2>1, PushedFields DEF Step, Work, NoGate
  <2>2. CASE i \in Work
    <3> DEFINE r == records[i]
               s == records'[i]
    <3>1. /\ r \in Record /\ s \in Record /\ Evolves(r, s)
          /\ r.status = "awaiting_approval" =>
               r.gate.approval # 0 /\ <<r.gate.approval, r.gate.hash>> \notin grants
          /\ r.gate.status = "approved" => <<r.gate.approval, r.gate.hash>> \in grants
      BY <1>1, <1>4, <2>2 DEF Step, TypeOK, Work, GatesDrawn, ApprovalFidelity
    <3>2. CASE s.gate = r.gate /\ (s.status = "awaiting_approval" => r.status = "awaiting_approval")
      BY <1>3, <2>2, <3>1, <3>2, GrantsGrow
    <3>3. CASE Paused(r, s)
      <4>1. /\ s.gate.approval = nextApproval /\ s.gate.status = "pending" /\ grants' = grants
            /\ s.gate.hash \in Hashes \cup {"none"}
        BY <3>1, <3>3 DEF Paused, Record, Gate
      <4>2. <<nextApproval, s.gate.hash>> \notin grants
        BY <1>2, <4>1 DEF GatesDrawn
      <4>3. QED
        BY <1>2, <4>1, <4>2
    <3>4. CASE /\ s.status # "awaiting_approval"
               /\ s.gate.status = "approved" => <<s.gate.approval, s.gate.hash>> \in grants'
      BY <3>4
    <3>5. QED
      BY <3>1, <3>2, <3>3, <3>4, GateEvolves
  <2>3. QED
    BY <2>1, <2>2
<1>5. QED
  BY <1>3, <1>4 DEF GatesDrawn, ApprovalFidelity

(* ApprovalFidelity: work goes on past a gate only on an approved callback for *)
(* the hash it paused with, and such a callback is never lost.                 *)
THEOREM ApprovalFidelityHolds == Spec => []ApprovalFidelity
<1>1. Init => GatesDrawn /\ ApprovalFidelity
  BY DEF Init, GatesDrawn, ApprovalFidelity, Work
<1>2. TypeOK /\ TypeOK' /\ IdsUnique /\ GatesDrawn /\ ApprovalFidelity /\ [Next]_vars
        => GatesDrawn' /\ ApprovalFidelity'
  BY FidelityKept
<1>3. QED
  BY <1>1, <1>2, TypeCorrect, IdsUniqueHolds, PTL DEF Spec

-----------------------------------------------------------------------------
(* What a gate says of the work behind it *)

(* Work that was gated waits, was cancelled, or went on with an approval; its
   gate names a payload. *)
GatesDecide ==
  \A i \in Work : records[i].gate.approval # 0 =>
    /\ records[i].gate.hash \in Hashes
    /\ records[i].status \in {"awaiting_approval", "cancelled"} \/ records[i].gate.status = "approved"

(* Work that waits or was cancelled goes on only by an approval. *)
LEMMA WaitEvolves ==
  ASSUME TypeOK, NEW r \in Record, NEW s \in Record, Evolves(r, s),
         r.status \in {"awaiting_approval", "cancelled"}
  PROVE  /\ s.status \in {"awaiting_approval", "cancelled"} \/ s.gate.status = "approved"
         /\ s.gate.approval = r.gate.approval /\ s.gate.hash = r.gate.hash
<1>1. CASE s = r
  BY <1>1
<1>2. CASE Stopped(r, s)
  BY <1>2 DEF Stopped, Cancelled, Move, NoLease, Record
<1>3. CASE Granted(r, s)
  <2>1. s.gate = [r.gate EXCEPT !.status = "approved"] /\ r.gate \in Gate
    BY <1>3 DEF Granted, Resumed, Move, Record
  <2>2. QED
    BY <2>1 DEF Gate
<1>4. CASE Refused(r, s)
  <2>1. PICK status \in {"denied", "expired"} :
          s = [Move(r, "cancelled", "cancelled") EXCEPT !.gate.status = status]
    BY <1>4 DEF Refused
  <2>2. s.gate = [r.gate EXCEPT !.status = status] /\ s.status = "cancelled" /\ r.gate \in Gate
    BY <2>1 DEF Move, Record
  <2>3. QED
    BY <2>2 DEF Gate
<1>5. QED
  BY <1>1, <1>2, <1>3, <1>4 DEF Evolves, Extended, Expired, Claimed, Settled, Paused, LeaseExpired

(* Gated work waits, is cancelled, or goes on with an approval, after every operation. *)
LEMMA GatesDecideKept ==
  ASSUME TypeOK, TypeOK', GatesDecide, [Next]_vars
  PROVE  GatesDecide'
<1>1. Step
  BY NextStep
<1>2. SUFFICES ASSUME NEW i \in Work', records'[i].gate.approval # 0
               PROVE  /\ records'[i].gate.hash \in Hashes
                      /\ \/ records'[i].status \in {"awaiting_approval", "cancelled"}
                         \/ records'[i].gate.status = "approved"
  BY DEF GatesDecide
<1>3. i \in Work
  BY <1>1, <1>2, PushedFields DEF Step, Work, NoGate
<1> DEFINE r == records[i]
           s == records'[i]
<1>4. r \in Record /\ s \in Record /\ Evolves(r, s) /\ s.gate.approval # 0
  BY <1>1, <1>2, <1>3 DEF Step, TypeOK, Work
<1>5. r.gate.approval # 0 =>
        r.gate.hash \in Hashes /\ (r.status \in {"awaiting_approval", "cancelled"} \/ r.gate.status = "approved")
  BY <1>3 DEF GatesDecide
<1> HIDE DEF r, s
<1>6. CASE r.status \in {"awaiting_approval", "cancelled"}
  BY <1>4, <1>5, <1>6, WaitEvolves DEF s
<1>7. CASE r.status \notin {"awaiting_approval", "cancelled"}
  <2>1. CASE Paused(r, s)
    BY <1>4, <2>1, PausedFields DEF Paused, s
  <2>2. CASE ~Paused(r, s)
    <3>1. s.gate = r.gate
      <4>1. CASE s = r \/ Extended(r, s)
        BY <1>4, <4>1 DEF Extended, Record
      <4>2. CASE Expired(r, s) \/ Claimed(r, s)
        BY <1>4, <4>2 DEF Expired, Claimed, ExpireClaimed, Move, NoLease, Record
      <4>3. CASE Settled(r, s)
        BY <1>4, <4>3, SettledFields
      <4>4. CASE Stopped(r, s)
        BY <1>4, <4>4 DEF Stopped, Cancelled, Move, NoLease, Record
      <4>5. QED
        BY <1>4, <1>7, <2>2, <4>1, <4>2, <4>3, <4>4 DEF Evolves, Granted, Refused
    <3>2. QED
      BY <1>4, <1>5, <1>7, <3>1 DEF s
  <2>3. QED
    BY <2>1, <2>2
<1>8. QED
  BY <1>6, <1>7

(* What those who decide approvals rely on, as one inductive invariant. *)
Coherent == TypeOK /\ IdsUnique /\ GatesDrawn /\ ApprovalFidelity /\ GatesDecide

(* The queue starts empty. *)
LEMMA CoherentInit == Init => Coherent
<1>1. Init => TypeOK
  BY InitType
<1>2. Init => IdsUnique /\ GatesDrawn /\ ApprovalFidelity /\ GatesDecide
  BY DEF Init, IdsUnique, GatesDrawn, ApprovalFidelity, GatesDecide, Work
<1>3. QED
  BY <1>1, <1>2 DEF Coherent

(* Every operation keeps what other components rely on. *)
LEMMA CoherentKept == Coherent /\ [Next]_vars => Coherent'
<1> SUFFICES ASSUME Coherent, [Next]_vars PROVE Coherent'
  OBVIOUS
<1>1. TypeOK'
  BY NextType DEF Coherent
<1>2. IdsUnique' /\ GatesDecide' /\ GatesDrawn' /\ ApprovalFidelity'
  BY <1>1, IdsKept, FidelityKept, GatesDecideKept DEF Coherent
<1>3. QED
  BY <1>1, <1>2 DEF Coherent

(* A step that delivers no approval and asks for none leaves every gate to the
   approval it names, and none approved that was not. *)
LEMMA GatesStay ==
  ASSUME Coherent, [Next]_vars, grants' = grants, nextApproval' = nextApproval, NEW i \in Work
  PROVE  /\ records'[i].gate.approval = records[i].gate.approval
         /\ records'[i].status = "awaiting_approval" => records[i].status = "awaiting_approval"
         /\ records'[i].gate.status = "approved" => records[i].gate.status = "approved"
<1>1. Step /\ TypeOK'
  BY NextStep, NextType DEF Coherent
<1> DEFINE r == records[i]
           s == records'[i]
<1>2. /\ r \in Record /\ s \in Record /\ Evolves(r, s) /\ nextApproval \in Nat
      /\ r.status = "awaiting_approval" => <<r.gate.approval, r.gate.hash>> \notin grants
  BY <1>1 DEF Coherent, Step, TypeOK, Work, ApprovalFidelity
<1>3. ~Paused(r, s) /\ ~Granted(r, s)
  BY <1>2 DEF Paused, Granted
<1>4. CASE s.gate = r.gate /\ (s.status = "awaiting_approval" => r.status = "awaiting_approval")
  BY <1>4
<1>5. CASE Refused(r, s)
  <2>1. PICK status \in {"denied", "expired"} :
          s = [Move(r, "cancelled", "cancelled") EXCEPT !.gate.status = status]
    BY <1>5 DEF Refused
  <2>2. s.gate = [r.gate EXCEPT !.status = status] /\ s.status = "cancelled" /\ r.gate \in Gate
    BY <1>2, <2>1 DEF Move, Record
  <2>3. QED
    BY <2>2 DEF Gate
<1>6. CASE ~Refused(r, s)
  <2>1. s.gate = r.gate /\ (s.status = "awaiting_approval" => r.status = "awaiting_approval")
    <3>1. CASE s = r \/ Extended(r, s)
      BY <1>2, <3>1 DEF Extended, Record
    <3>2. CASE Expired(r, s) \/ Claimed(r, s)
      BY <1>2, <3>2, ExpiredFields, ClaimedFields DEF Expired, LeaseExpired
    <3>3. CASE Settled(r, s)
      BY <1>2, <3>3, SettledFields
    <3>4. CASE Stopped(r, s)
      BY <1>2, <3>4 DEF Stopped, Cancelled, Move, NoLease, Record
    <3>5. QED
      BY <1>2, <1>3, <1>6, <3>1, <3>2, <3>3, <3>4 DEF Evolves
  <2>2. QED
    BY <1>4, <2>1
<1>7. QED
  BY <1>5, <1>6

-----------------------------------------------------------------------------
(* Retries form chains *)

(* An attempt succeeds an earlier one of its run, and a failed attempt has one
   successor; dead letters know the run of the record they tell of. *)
Succeeds(i) ==
  LET p == records[i].retryOf IN
  /\ p \in 1..(i - 1)
  /\ records[p].run = records[i].run
  /\ \/ records[p].status = "dead" /\ records[i].attempt = 1
     \/ records[p].status = "failed" /\ records[i].attempt = records[p].attempt + 1

Lineage ==
  /\ \A i \in Work : /\ records[i].attempt > 1 => records[i].retryOf # 0
                     /\ records[i].retryOf # 0 => Succeeds(i)
  /\ \A i \in Work : records[i].status = "failed" =>
       \E j \in Work : \A k \in Work : records[k].retryOf = i <=> k = j
  /\ \A d \in DOMAIN deadLetters : records[deadLetters[d].work].run = deadLetters[d].run

(* A record that fails does so in the step that pushes its successor. *)
LEMMA FailsWithSuccessor ==
  ASSUME TypeOK, Step, NEW i \in Work, records[i].status # "failed",
         records'[i].status = "failed"
  PROVE  /\ Len(records) + 1 \in DOMAIN records'
         /\ records'[Len(records) + 1].retryOf = i
<1>1. records[i] \in Record /\ Evolves(records[i], records'[i])
  BY DEF Step, TypeOK, Work
<1>2. DOMAIN records' # Work
  <2>1. CASE Settled(records[i], records'[i])
    BY <1>1, <2>1, SettledFields
  <2>2. CASE Paused(records[i], records'[i])
    BY <1>1, <2>2, PausedFields
  <2>3. CASE records'[i] = records[i] \/ Extended(records[i], records'[i])
    BY <1>1, <2>3 DEF Extended, Record
  <2>4. CASE \/ Expired(records[i], records'[i]) \/ Claimed(records[i], records'[i])
             \/ Stopped(records[i], records'[i]) \/ Granted(records[i], records'[i])
             \/ Refused(records[i], records'[i])
    BY <1>1, <2>4 DEF Expired, Claimed, Stopped, Granted, Refused, ExpireClaimed, Cancelled,
                      Resumed, Move, Record
  <2>5. QED
    BY <1>1, <2>1, <2>2, <2>3, <2>4 DEF Evolves
<1>3. PICK n \in DOMAIN records' \ Work : n = Len(records) + 1 /\ Pushed(records'[n])
  BY <1>2 DEF Step
<1>4. ~OthersStay(0)
  <2>1. 0 \notin Work
    BY DEF TypeOK, Work
  <2>2. QED
    BY <2>1 DEF OthersStay
<1>5. PushedRetry(records'[n])
  BY <1>3, <1>4 DEF Pushed, PushedFirst, PushedRedrive
<1>6. PICK p \in Work : /\ records'[n] = NewRecord(records[p].run, records[p].attempt + 1,
                                                   records'[n].availableAt, p)
                        /\ OthersStay(p)
  BY <1>5 DEF PushedRetry
<1>7. p = i
  BY <1>6 DEF OthersStay
<1>8. QED
  BY <1>3, <1>6, <1>7 DEF NewRecord

(* Every operation keeps retries in order: each follows one failed attempt with the next number or starts
   again after a dead one, and no failed attempt is retried twice. *)
LEMMA LineageKept ==
  ASSUME TypeOK, TypeOK', Ancestry, Ancestry', Lineage, [Next]_vars
  PROVE  Lineage'
<1>0. PICK n \in Nat : n = Len(records) + 1
  BY DEF TypeOK
<1>1. Step /\ Work = 1..Len(records) /\ Len(records) \in Nat
  BY NextStep DEF TypeOK, Work
<1>2. \A i \in Work : /\ i \in Work'
                      /\ records[i].status \in {"failed", "dead"} => records'[i] = records[i]
                      /\ SameIdentity(records[i], records'[i])
  BY <1>1, ActiveBefore DEF Step, Work, IsActive
<1>3. \A i \in Work' \ Work : i = n /\ Pushed(records'[i])
  BY <1>0, <1>1 DEF Step, Work
<1>4. \A i \in Work : records[i].attempt \in 1..MaxAttempts
  BY DEF Ancestry
(* The new record succeeds the record that fails, or a dead one. *)
<1>5. ASSUME n \in Work', n \notin Work
      PROVE  /\ records'[n].attempt > 1 => records'[n].retryOf # 0
             /\ records'[n].retryOf # 0 =>
                  /\ Succeeds(n)'
                  /\ \/ records[records'[n].retryOf].status = "dead"
                     \/ records[records'[n].retryOf].status = "claimed"
  <2>1. CASE PushedFirst(records'[n])
    BY <2>1 DEF PushedFirst, NewRecord
  <2>2. CASE PushedRetry(records'[n])
    <3>1. PICK p \in Work :
            /\ records'[n] = NewRecord(records[p].run, records[p].attempt + 1,
                                       records'[n].availableAt, p)
            /\ records[p].status = "claimed" /\ records'[p].status = "failed"
      BY <2>2 DEF PushedRetry
    <3>2. /\ records'[n].attempt = records[p].attempt + 1 /\ records'[n].retryOf = p
          /\ records'[n].run = records[p].run
      BY <3>1 DEF NewRecord
    <3>3. SameIdentity(records[p], records'[p]) /\ p \in 1..(n - 1) /\ p # 0
      BY <1>0, <1>1, <1>2
    <3>4. QED
      BY <3>1, <3>2, <3>3 DEF Succeeds, SameIdentity
  <2>3. CASE PushedRedrive(records'[n])
    <3>1. PICK d \in DOMAIN deadLetters :
            records'[n] = NewRecord(deadLetters[d].run, 1, records'[n].availableAt,
                                    deadLetters[d].work)
      BY <2>3 DEF PushedRedrive
    <3>2. /\ records'[n].attempt = 1 /\ records'[n].retryOf = deadLetters[d].work
          /\ records'[n].run = deadLetters[d].run
      BY <3>1 DEF NewRecord
    <3>3. /\ deadLetters[d].work \in Work /\ records[deadLetters[d].work].status = "dead"
          /\ records[deadLetters[d].work].run = deadLetters[d].run
      BY DEF Ancestry, Lineage
    <3>4. deadLetters[d].work \in 1..(n - 1)
      BY <1>0, <1>1, <3>3
    <3>5. records'[deadLetters[d].work] = records[deadLetters[d].work]
      BY <1>2, <3>3
    <3>6. QED
      BY <3>2, <3>3, <3>4, <3>5 DEF Succeeds
  <2>4. QED
    BY <1>3, <1>5, <2>1, <2>2, <2>3 DEF Pushed
<1>6. ASSUME NEW i \in Work'
      PROVE  /\ records'[i].attempt > 1 => records'[i].retryOf # 0
             /\ records'[i].retryOf # 0 => Succeeds(i)'
  <2>1. CASE i \in Work
    <3>1. ASSUME records'[i].retryOf # 0
          PROVE  Succeeds(i)'
      <4>1. Succeeds(i) /\ SameIdentity(records[i], records'[i])
        BY <1>2, <2>1, <3>1 DEF Lineage, SameIdentity
      <4>2. records[i].retryOf \in Work
        BY <1>1, <2>1, <4>1 DEF Succeeds
      <4>3. QED
        BY <1>2, <4>1, <4>2 DEF Succeeds, SameIdentity
    <3>2. QED
      BY <1>2, <2>1, <3>1 DEF Lineage, SameIdentity
  <2>2. CASE i \notin Work
    BY <1>3, <1>5, <1>6, <2>2
  <2>3. QED
    BY <2>1, <2>2
<1>7. ASSUME NEW i \in Work', records'[i].status = "failed"
      PROVE  \E j \in Work' : \A k \in Work' : records'[k].retryOf = i <=> k = j
  <2>1. i \in Work
    BY <1>3, <1>7, PushedFields
  <2>2. CASE records[i].status = "failed"
    <3>1. PICK j \in Work : \A k \in Work : records[k].retryOf = i <=> k = j
      BY <2>1, <2>2 DEF Lineage
    <3>2. \A k \in Work : records'[k].retryOf = i <=> k = j
      BY <1>2, <3>1 DEF SameIdentity
    <3>3. \A k \in Work' \ Work : records'[k].retryOf # i
      <4>1. i # 0
        BY <1>1, <2>1
      <4>2. QED
        BY <1>3, <1>5, <2>2, <4>1
    <3>4. QED
      BY <1>2, <3>2, <3>3
  <2>3. CASE records[i].status # "failed"
    <3>1. n \in Work' /\ n \notin Work /\ records'[n].retryOf = i
      BY <1>0, <1>1, <1>7, <2>1, <2>3, FailsWithSuccessor DEF Work
    <3>2. records[i].status # "dead"
      BY <1>2, <1>7, <2>1
    <3>3. \A k \in Work : records[k].retryOf # i
      <4>1. i # 0
        BY <1>1, <2>1
      <4>2. QED
        BY <2>3, <3>2, <4>1 DEF Ancestry
    <3>4. \A k \in Work : records'[k].retryOf # i
      BY <1>2, <3>3 DEF SameIdentity
    <3>5. QED
      BY <1>3, <3>1, <3>4
  <2>4. QED
    BY <2>2, <2>3
<1>8. ASSUME NEW d \in DOMAIN deadLetters'
      PROVE  records'[deadLetters'[d].work].run = deadLetters'[d].run
  <2>1. CASE d \in DOMAIN deadLetters /\ deadLetters'[d] = deadLetters[d]
    BY <1>2, <2>1 DEF Ancestry, Lineage, SameIdentity
  <2>2. QED
    BY <1>8, <2>1, DeadLetterStep
<1>9. QED
  BY <1>6, <1>7, <1>8 DEF Lineage

(* RetryChain: a failed attempt has exactly one successor, the next attempt of *)
(* its run; a restart begins at a dead attempt of its run; and no attempt      *)
(* number exceeds the retry policy's limit.                                    *)
THEOREM RetryChainHolds == Spec => []RetryChain
<1>1. Init => Lineage
  BY DEF Init, Lineage, Work
<1>2. TypeOK /\ TypeOK' /\ Ancestry /\ Ancestry' /\ Lineage /\ [Next]_vars => Lineage'
  BY LineageKept
<1>3. ASSUME Ancestry, Lineage, NEW i \in Work, records[i].status = "failed"
      PROVE  Cardinality({j \in Work : records[j].retryOf = i}) = 1
  <2>1. PICK j \in Work : \A k \in Work : records[k].retryOf = i <=> k = j
    BY <1>3 DEF Lineage
  <2>2. {k \in Work : records[k].retryOf = i} = {j}
    BY <2>1
  <2>3. QED
    BY <2>2, FS_Singleton
<1>4. Ancestry /\ Lineage => RetryChain
  BY <1>3 DEF Ancestry, Lineage, Succeeds, RetryChain
<1>5. QED
  BY <1>1, <1>2, <1>4, TypeCorrect, AncestryHolds, PTL DEF Spec

-----------------------------------------------------------------------------
(* The queue implements the attempt lifecycle *)

View(r) == [run |-> r.run, number |-> r.attempt, state |-> Phase(r), token |-> r.lease.id,
            from |-> r.retryOf]

(* What the abstract lifecycle sees of a record. *)
LEMMA ViewFields ==
  ASSUME NEW r \in Record
  PROVE  /\ View(r).run = r.run /\ View(r).number = r.attempt /\ View(r).from = r.retryOf
         /\ View(r).state = Phase(r) /\ View(r).token = r.lease.id
         /\ Lifecycle!InHand(View(r)) <=> r.status = "claimed"
         /\ View(r).state = "running" <=> r.status = "claimed" /\ ~r.cancelRequested
         /\ Lifecycle!Unfinished(View(r)) <=> IsActive(r)
         /\ View(r).state = "failed" <=> r.status = "failed"
         /\ View(r).state = "dead" <=> r.status = "dead"
<1>1. /\ View(r).run = r.run /\ View(r).number = r.attempt /\ View(r).from = r.retryOf
      /\ View(r).state = Phase(r) /\ View(r).token = r.lease.id
  BY DEF View
<1>2. r.status \in Statuses
  BY DEF Record
<1>3. QED
  BY <1>1, <1>2 DEF Phase, Statuses, IsActive, Lifecycle!InHand, Lifecycle!Unfinished

(* The lifecycle's attempts are the queue's records, one by one. *)
LEMMA AbstractView ==
  ASSUME TypeOK
  PROVE  /\ DOMAIN AbstractAttempts = Work /\ Work = 1..Len(records)
         /\ AbstractAttempts \in Seq({View(records[i]) : i \in Work})
         /\ Len(AbstractAttempts) = Len(records)
         /\ \A i \in Work : AbstractAttempts[i] = View(records[i]) /\ records[i] \in Record
<1>1. Work = 1..Len(records) /\ Len(records) \in Nat /\ \A i \in Work : records[i] \in Record
  BY DEF TypeOK, Work
<1>2. AbstractAttempts = [i \in Work |-> View(records[i])]
  BY DEF AbstractAttempts, View
<1>3. QED
  BY <1>1, <1>2

(* A step moves one record along the lifecycle, and keeps its token with it. *)
LEMMA PhaseEvolves ==
  ASSUME TypeOK, NEW r \in Record, NEW s \in Record, Agree(r), Agree(s), Evolves(r, s)
  PROVE  /\ Phase(r) = Phase(s) \/ <<Phase(r), Phase(s)>> \in Lifecycle!Moves
         /\ s.status = "claimed" =>
              \/ r.status = "claimed" /\ s.lease.id = r.lease.id
              \/ /\ ~s.cancelRequested
                 /\ s.lease.id = nextLease /\ nextLease' = nextLease + 1
         /\ s.status # "claimed" => s.lease.id = 0
<1> USE DEF Phase, Lifecycle!Moves
<1>1. s.status # "claimed" => s.lease.id = 0
  BY DEF Agree
<1>2. CASE s = r
  BY <1>1, <1>2
<1>3. CASE Extended(r, s)
  <2>1. s.status = r.status /\ s.cancelRequested = r.cancelRequested /\ s.lease.id = r.lease.id
        /\ r.status = "claimed"
    BY <1>3 DEF Extended, Record
  <2>2. QED
    BY <1>1, <2>1
<1>4. CASE Expired(r, s)
  <2>1. /\ r.status = "claimed"
        /\ s.status = IF r.cancelRequested THEN "cancelled" ELSE "queued"
    BY <1>4 DEF Expired, LeaseExpired, ExpireClaimed, Move, Record
  <2>2. QED
    BY <1>1, <2>1
<1>5. CASE Claimed(r, s)
  <2>1. /\ s.status = "claimed" /\ s.cancelRequested = r.cancelRequested
        /\ r.status = "queued" \/ (r.status = "claimed" /\ ~r.cancelRequested)
        /\ s.lease.id = nextLease /\ nextLease' = nextLease + 1
    BY <1>5 DEF Claimed, LeaseExpired, ExpireClaimed, Move, Record
  <2>2. ~r.cancelRequested
    BY <2>1 DEF Agree
  <2>3. QED
    BY <2>1, <2>2
<1>6. CASE Settled(r, s)
  <2>1. /\ r.status = "claimed"
        /\ \/ s.status = "cancelled"
           \/ ~r.cancelRequested /\ s.status \in {"completed", "failed", "dead"}
    BY <1>6, SettledFields DEF Settled
  <2>2. QED
    BY <1>1, <2>1
<1>7. CASE Paused(r, s)
  <2>1. r.status = "claimed" /\ ~r.cancelRequested /\ s.status = "awaiting_approval"
    BY <1>7, PausedFields DEF Paused
  <2>2. QED
    BY <1>1, <2>1
<1>8. CASE Stopped(r, s)
  <2>1. CASE r.status = "claimed"
    <3>1. s.status = "claimed" /\ s.cancelRequested /\ s.lease.id = r.lease.id
      BY <1>8, <2>1 DEF Stopped, Cancelled, Move, Record
    <3>2. QED
      BY <2>1, <3>1
  <2>2. CASE r.status # "claimed"
    <3>1. r.status \in {"queued", "awaiting_approval"} /\ s.status = "cancelled"
      BY <1>8, <2>2 DEF Stopped, IsActive, Cancelled, Move, Record
    <3>2. QED
      BY <1>1, <3>1
  <2>3. QED
    BY <2>1, <2>2
<1>9. CASE Granted(r, s) \/ Refused(r, s)
  <2>1. r.status = "awaiting_approval" /\ s.status \in {"queued", "cancelled"}
    BY <1>9 DEF Granted, Refused, Resumed, Move, Record
  <2>2. QED
    BY <1>1, <2>1
<1>10. QED
  BY <1>2, <1>3, <1>4, <1>5, <1>6, <1>7, <1>8, <1>9 DEF Evolves

(* What a step does to the attempts there were is a move of the lifecycle. *)
LEMMA StepMoves ==
  ASSUME TypeOK, TypeOK', FieldsAgree, FieldsAgree', IdsUnique, IdsUnique', [Next]_vars,
         NEW after, Len(after) = Len(records), \A i \in Work : after[i] = AbstractAttempts'[i]
  PROVE  Lifecycle!Moved(after)
<1>1. Step
  BY NextStep
<1>2. /\ nextLease \in Nat \ {0} /\ nextLease' \in {nextLease, nextLease + 1}
  BY IdsDrawnOnce DEF TypeOK
<1>3. Len(after) = Len(AbstractAttempts)
  BY AbstractView
<1>4. DOMAIN AbstractAttempts = Work /\ Work \subseteq Work'
  BY <1>1, AbstractView DEF Step, Work
<1>5. \A i \in Work :
        /\ AbstractAttempts[i] = View(records[i]) /\ records[i] \in Record
        /\ after[i] = View(records'[i]) /\ records'[i] \in Record
  <2>1. \A i \in Work' : AbstractAttempts'[i] = View(records'[i]) /\ records'[i] \in Record
    BY DEF AbstractAttempts, View, Phase, TypeOK, Work
  <2>2. QED
    BY <1>4, <2>1, AbstractView
<1>6. \A i \in Work : /\ Agree(records[i]) /\ Agree(records'[i])
                      /\ Evolves(records[i], records'[i])
                      /\ SameIdentity(records[i], records'[i])
                      /\ records'[i].status = "claimed" <=> records'[i].lease.id # 0
  BY <1>1, <1>4, ActiveBefore DEF Step, FieldsAgree, Agree
<1>7. ASSUME NEW i \in Work
      PROVE  LET a == AbstractAttempts[i]  b == after[i] IN
             /\ b.run = a.run /\ b.number = a.number /\ b.from = a.from
             /\ a.state = b.state \/ <<a.state, b.state>> \in Lifecycle!Moves
             /\ IF Lifecycle!InHand(b)
                THEN \/ Lifecycle!InHand(a) /\ b.token = a.token
                     \/ b.state = "running" /\ b.token = nextLease' - 1
                        /\ nextLease' - 1 > nextLease - 1
                ELSE b.token = 0
  <2> DEFINE r == records[i]
             s == records'[i]
  <2>1. r \in Record /\ s \in Record /\ Agree(r) /\ Agree(s) /\ Evolves(r, s) /\ SameIdentity(r, s)
    BY <1>5, <1>6
  <2> HIDE DEF r, s
  <2>2. View(s).run = View(r).run /\ View(s).number = View(r).number /\ View(s).from = View(r).from
    BY <2>1, ViewFields DEF SameIdentity
  <2>3. View(r).state = View(s).state \/ <<View(r).state, View(s).state>> \in Lifecycle!Moves
    BY <2>1, ViewFields, PhaseEvolves
  <2>4. IF Lifecycle!InHand(View(s))
        THEN \/ Lifecycle!InHand(View(r)) /\ View(s).token = View(r).token
             \/ View(s).state = "running" /\ View(s).token = nextLease' - 1
                /\ nextLease' - 1 > nextLease - 1
        ELSE View(s).token = 0
    <3>1. CASE s.status # "claimed"
      BY <2>1, <3>1, ViewFields, PhaseEvolves
    <3>2. CASE s.status = "claimed" /\ r.status = "claimed" /\ s.lease.id = r.lease.id
      BY <2>1, <3>2, ViewFields
    <3>3. CASE /\ s.status = "claimed" /\ ~s.cancelRequested
               /\ s.lease.id = nextLease /\ nextLease' = nextLease + 1
      <4>1. Lifecycle!InHand(View(s)) /\ View(s).state = "running" /\ View(s).token = nextLease
        BY <2>1, <3>3, ViewFields
      <4>2. nextLease = nextLease' - 1 /\ nextLease' - 1 > nextLease - 1
        BY <1>2, <3>3
      <4>3. QED
        BY <4>1, <4>2
    <3>4. QED
      BY <2>1, <3>1, <3>2, <3>3, PhaseEvolves
  <2>5. AbstractAttempts[i] = View(r) /\ after[i] = View(s)
    BY <1>5 DEF r, s
  <2>6. QED
    BY <2>2, <2>3, <2>4, <2>5
<1>8. ASSUME NEW i \in Work, NEW j \in Work, Lifecycle!InHand(after[i]),
             Lifecycle!InHand(after[j]), after[i].token = after[j].token
      PROVE  i = j
  <2>1. records'[i].lease.id = records'[j].lease.id /\ records'[i].status = "claimed"
    BY <1>5, <1>8, ViewFields
  <2>2. records'[i].lease.id # 0 /\ i \in Work' /\ j \in Work'
    BY <1>4, <1>6, <2>1
  <2>3. QED
    BY <2>1, <2>2 DEF IdsUnique
<1>9. nextLease' - 1 \in {nextLease - 1, (nextLease - 1) + 1}
  <2>1. CASE nextLease' = nextLease
    BY <2>1
  <2>2. CASE nextLease' = nextLease + 1
    BY <1>2, <2>2
  <2>3. QED
    BY <1>2, <2>1, <2>2
<1>10. QED
  BY <1>3, <1>4, <1>7, <1>8, <1>9 DEF Lifecycle!Moved

(* A step that pushes nothing lets no attempt fail. *)
LEMMA NothingFails ==
  ASSUME TypeOK, Step, Work' = Work, NEW i \in Work, records'[i].status = "failed"
  PROVE  records[i].status = "failed"
<1>1. Len(records) + 1 \notin Work
  BY DEF TypeOK, Work
<1>2. QED
  BY <1>1, FailsWithSuccessor DEF Work

(* Every operation of the queue is a step of the lifecycle, or none. *)
LEMMA StepRefines ==
  ASSUME TypeOK, TypeOK', FieldsAgree, FieldsAgree', IdsUnique, IdsUnique', Ancestry, Lineage,
         [Next]_vars
  PROVE  Lifecycle!Next
<1> DEFINE abstract == AbstractAttempts
<1>0. PICK n \in Nat : n = Len(records) + 1
  BY DEF TypeOK
<1>1. Step
  BY NextStep
<1>2. /\ DOMAIN abstract = Work /\ Work = 1..(n - 1) /\ Len(abstract) = n - 1
      /\ abstract \in Seq({View(records[i]) : i \in Work})
      /\ \A i \in Work : abstract[i] = View(records[i]) /\ records[i] \in Record
  BY <1>0, AbstractView DEF TypeOK
<1>3. /\ DOMAIN abstract' = Work' /\ Work' = 1..Len(records')
      /\ Len(records') \in Nat /\ Len(abstract') = Len(records')
      /\ abstract' \in Seq({View(records'[i]) : i \in Work'})
      /\ \A i \in Work' : abstract'[i] = View(records'[i]) /\ records'[i] \in Record
  <2>1. abstract' = [i \in Work' |-> View(records'[i])]
    BY DEF AbstractAttempts, View, Phase
  <2>2. /\ Work' = 1..Len(records') /\ Len(records') \in Nat
        /\ \A i \in Work' : records'[i] \in Record
    BY DEF TypeOK, Work
  <2> HIDE DEF abstract
  <2>3. QED
    BY <2>1, <2>2
<1>4. Len(records') \in {n - 1, n}
  <2>1. Work \subseteq Work' /\ \A i \in Work' \ Work : i = n
    BY <1>0, <1>1 DEF Step, Work
  <2>2. CASE Len(records') < n - 1
    <3>1. n - 1 \in Work /\ n - 1 \notin Work'
      BY <1>2, <1>3, <2>2
    <3>2. QED
      BY <2>1, <3>1
  <2>3. CASE Len(records') > n
    <3>1. Len(records') \in Work' /\ Len(records') \notin Work
      BY <1>2, <1>3, <2>3
    <3>2. QED
      BY <2>1, <2>3, <3>1
  <2>4. Len(records') \in Nat
    BY <1>3
  <2>5. QED
    BY <2>2, <2>3, <2>4
<1>5. \A i \in Work : Lifecycle!Unfinished(abstract[i]) <=> IsActive(records[i])
  BY <1>2, ViewFields
<1>6. CASE Len(records') = n - 1
  <2>1. Len(abstract') = Len(records) /\ Work' = Work
    BY <1>0, <1>2, <1>3, <1>6
  <2>2. Lifecycle!Moved(abstract')
    BY <2>1, StepMoves
  <2>3. ASSUME NEW i \in Work, Lifecycle!Fails(i, abstract')
        PROVE  FALSE
    <3>1. View(records[i]).state # "failed" /\ View(records'[i]).state = "failed"
      BY <1>2, <1>3, <2>1, <2>3 DEF Lifecycle!Fails
    <3>2. records[i].status # "failed" /\ records'[i].status = "failed"
      BY <1>2, <1>3, <2>1, <3>1, ViewFields
    <3>3. QED
      BY <1>1, <2>1, <3>2, NothingFails
  <2>4. QED
    BY <1>2, <2>2, <2>3 DEF Lifecycle!Next, Lifecycle!Progress
<1>7. CASE Len(records') = n
  <2> DEFINE s == records'[n]
  <2>0. Work' = 1..n /\ n \in Work' /\ n \notin Work /\ Work \subseteq Work'
    BY <1>0, <1>2, <1>3, <1>7
  <2>1. Pushed(s) /\ nextLease' = nextLease /\ s \in Record
    BY <1>1, <1>3, <2>0 DEF Step, Work, Pushed
  <2>2. Len(abstract') = n /\ abstract'[n] = View(s)
    BY <1>3, <1>7, <2>0
  <2>3. ASSUME \A i \in Work : records'[i] = records[i]
        PROVE  abstract' = Append(abstract, View(s))
    <3>1. \A i \in Work : abstract'[i] = abstract[i]
      BY <1>2, <1>3, <1>7, <2>0, <2>3
    <3>2. QED
      BY <1>2, <1>3, <1>7, <2>0, <2>2, <3>1
  <2>4. CASE PushedFirst(s)
    <3>1. /\ s = NewRecord(s.run, 1, s.availableAt, 0)
          /\ \A i \in ActiveWork(s.run) : records[i].attempt # 1
          /\ \A i \in Work : records'[i] = records[i]
      BY <1>2, <2>4 DEF PushedFirst, OthersStay
    <3>2. s.run \in Runs
      BY <2>1 DEF Record
    <3>3. View(s) = Lifecycle!Fresh(s.run, 1, 0)
      BY <3>1 DEF View, NewRecord, NoLease, Phase, Lifecycle!Fresh
    <3>4. \A i \in DOMAIN abstract :
            abstract[i].run = s.run /\ abstract[i].number = 1 => ~Lifecycle!Unfinished(abstract[i])
      BY <1>2, <1>5, <3>1, ViewFields DEF ActiveWork
    <3>5. abstract' = Append(abstract, Lifecycle!Fresh(s.run, 1, 0)) /\ nextLease' - 1 = nextLease - 1
      BY <2>1, <2>3, <3>1, <3>3
    <3>6. Lifecycle!Start(s.run)
      BY <3>4, <3>5 DEF Lifecycle!Start
    <3>7. QED
      BY <3>2, <3>6 DEF Lifecycle!Next
  <2>5. CASE PushedRetry(s)
    <3>1. PICK i \in Work :
            /\ s = NewRecord(records[i].run, records[i].attempt + 1, s.availableAt, i)
            /\ records[i].status = "claimed" /\ records'[i].status = "failed"
            /\ \A j \in Work : j # i => records'[j] = records[j]
      BY <2>5 DEF PushedRetry, OthersStay
    <3> DEFINE after == SubSeq(abstract', 1, Len(abstract))
    <3>2. Len(after) = n - 1 /\ \A j \in Work : after[j] = abstract'[j]
      BY <1>2, <1>3, <1>7, <2>0
    <3>3. Lifecycle!Moved(after)
      <4> HIDE DEF after
      <4>1. Len(after) = Len(records)
        BY <1>0, <3>2
      <4>2. QED
        BY <3>2, <4>1, StepMoves
    <3>4. abstract[i].state # "failed" /\ after[i].state = "failed"
      BY <1>2, <1>3, <1>7, <2>0, <3>1, <3>2, ViewFields
    <3>5. \A j \in Work : j # i => after[j] = abstract[j]
      BY <1>2, <1>3, <1>7, <2>0, <3>1, <3>2
    <3>6. View(s) = Lifecycle!Fresh(abstract[i].run, abstract[i].number + 1, i)
      <4>1. abstract[i].run = records[i].run /\ abstract[i].number = records[i].attempt
        BY <1>2, ViewFields
      <4>2. QED
        BY <3>1, <4>1 DEF View, NewRecord, NoLease, Phase, Lifecycle!Fresh
    <3>7. abstract' = Append(after, View(s))
      <4> DEFINE w == View(s)
      <4>1. Len(abstract') = n /\ abstract'[n] = w /\ abstract' = [j \in 1..n |-> abstract'[j]]
        BY <1>2, <1>3, <1>7, <2>2
      <4> HIDE DEF after, w
      <4>2. after = [j \in 1..(n - 1) |-> after[j]] /\ Len(after) = n - 1 /\ n - 1 \in Nat
        BY <1>2, <1>3, <1>7, <2>0, <3>2 DEF after
      <4>3. \A j \in 1..(n - 1) : after[j] = abstract'[j]
        BY <1>2, <1>3, <1>7, <2>0, <3>2
      <4>4. QED
        BY <4>1, <4>2, <4>3 DEF w
    <3>8. Lifecycle!Retry(i)
      BY <1>2, <3>3, <3>4, <3>5, <3>6, <3>7 DEF Lifecycle!Retry, Lifecycle!Fails
    <3>9. QED
      BY <1>2, <3>8 DEF Lifecycle!Next
  <2>6. CASE PushedRedrive(s)
    <3>1. PICK d \in DOMAIN deadLetters :
            /\ s = NewRecord(deadLetters[d].run, 1, s.availableAt, deadLetters[d].work)
            /\ ActiveWork(s.run) = {}
      BY <2>6 DEF PushedRedrive
    <3> DEFINE i == deadLetters[d].work
    <3>2. /\ i \in Work /\ records[i].status = "dead" /\ records[i].run = deadLetters[d].run
          /\ \A j \in Work : records'[j] = records[j]
      BY <1>2, <2>6 DEF Ancestry, Lineage, PushedRedrive, OthersStay
    <3>3. s.run = records[i].run /\ abstract[i].run = records[i].run /\ abstract[i].state = "dead"
      BY <1>2, <3>1, <3>2, ViewFields DEF NewRecord
    <3>4. View(s) = Lifecycle!Fresh(abstract[i].run, 1, i)
      BY <3>1, <3>2, <3>3 DEF View, NewRecord, NoLease, Phase, Lifecycle!Fresh
    <3>5. \A j \in DOMAIN abstract :
            abstract[j].run = abstract[i].run => ~Lifecycle!Unfinished(abstract[j])
      BY <1>2, <1>5, <3>1, <3>3, ViewFields DEF ActiveWork
    <3>6. abstract' = Append(abstract, Lifecycle!Fresh(abstract[i].run, 1, i))
          /\ nextLease' - 1 = nextLease - 1
      BY <2>1, <2>3, <3>2, <3>4
    <3>7. Lifecycle!Restart(i)
      BY <3>3, <3>5, <3>6 DEF Lifecycle!Restart
    <3>8. QED
      BY <1>2, <3>2, <3>7 DEF Lifecycle!Next
  <2>7. QED
    BY <2>1, <2>4, <2>5, <2>6 DEF Pushed
<1>8. QED
  BY <1>4, <1>6, <1>7

(* ImplementsLifecycle: every call of the queue, with the sweep it may begin   *)
(* with, is one step of the abstract attempt lifecycle, or changes nothing.    *)
THEOREM ImplementsLifecycleHolds == Spec => ImplementsLifecycle
<1>1. Init => Lifecycle!Init
  BY DEF Init, Lifecycle!Init, AbstractAttempts, Work
<1>2. TypeOK /\ TypeOK' /\ FieldsAgree /\ FieldsAgree' /\ IdsUnique /\ IdsUnique'
        /\ Ancestry /\ Lineage /\ [Next]_vars => [Lifecycle!Next]_(Lifecycle!vars)
  BY StepRefines
<1>3. Spec => []Lineage
  <2>1. Init => Lineage
    BY DEF Init, Lineage, Work
  <2>2. QED
    BY <2>1, LineageKept, TypeCorrect, AncestryHolds, PTL DEF Spec
<1>4. QED
  BY <1>1, <1>2, <1>3, TypeCorrect, FieldsAgreeHolds, IdsUniqueHolds, AncestryHolds, PTL
     DEF Spec, ImplementsLifecycle, Lifecycle!Spec
=============================================================================
