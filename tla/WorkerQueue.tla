----------------------------- MODULE WorkerQueue -----------------------------
(***************************************************************************)
(* The worker queue of Bek: InMemoryWorkerQueue in                         *)
(* packages/worker/src/index.ts.  The queue keeps one record per run       *)
(* attempt, leases due records to workers, takes back leases that run out, *)
(* pauses attempts for a human approval, schedules retries and moves       *)
(* attempts that exhaust their retries to a dead-letter list.              *)
(*                                                                         *)
(* Every method of the class runs to completion on one JavaScript thread,  *)
(* so one call is one action.  What interleaves are the calls: several     *)
(* workers, the requests that cancel or redrive, approval callbacks that   *)
(* are delivered late or twice, and the clock.                             *)
(*                                                                         *)
(* A record is identified by its position: records are only ever pushed,   *)
(* and the position orders them as their sequence number does.  Lease and  *)
(* approval ids are numbered as they are drawn; 0 stands for none.         *)
(***************************************************************************)
EXTENDS Integers, Sequences, FiniteSets

CONSTANTS
  Runs,              \* run ids
  Hashes,            \* payload hashes an approval can carry
  MaxAttempts,       \* retryPolicy.maxAttempts
  BaseDelay,         \* retryPolicy.baseDelayMs
  MaxDelay,          \* retryPolicy.maxDelayMs
  LeaseMs,           \* the lease a worker asks for
  ExtendByMs,        \* explicit heartbeat extensions
  ApprovalTtl,       \* lifetime of an approval request
  Reenqueue,         \* may a run that has records be enqueued again?
  Horizon,           \* bound: the clock and every lease end by then
  MaxRecords,        \* bound: enqueue and redrive stop at this many records
  MaxApprovals       \* bound: pauses for approval

ASSUME RetryPolicyAssumption ==
  /\ MaxAttempts \in Nat \ {0}
  /\ BaseDelay \in Nat \ {0}
  /\ MaxDelay \in Nat \ {0}

ASSUME DurationAssumption ==
  /\ LeaseMs \in Nat \ {0}
  /\ ExtendByMs \subseteq Nat \ {0}
  /\ ApprovalTtl \in Nat \ {0}
  /\ Reenqueue \in BOOLEAN
  /\ Horizon \in Nat /\ MaxRecords \in Nat /\ MaxApprovals \in Nat

VARIABLES
  records,           \* the run attempts, in the order they were pushed
  deadLetters,       \* the dead letters, in the order they were pushed
  nextLease,         \* the next lease id
  nextApproval,      \* the next approval id
  grants,            \* history: the approved callbacks delivered so far
  now                \* the clock

vars == <<records, deadLetters, nextLease, nextApproval, grants, now>>

-----------------------------------------------------------------------------
(* Records *)

Statuses == {"queued", "claimed", "awaiting_approval", "completed", "failed",
             "cancelled", "dead"}

AttemptStates == {"queued", "claimed", "awaiting_approval", "retry_scheduled",
                  "cancel_requested", "completed", "cancelled", "dead_lettered"}

(* Which attempt state may follow which; every state may follow itself. *)
Successors(state) ==
  CASE state = "queued"            -> {"queued", "claimed", "cancelled"}
    [] state = "claimed"           -> AttemptStates
    [] state = "awaiting_approval" -> {"awaiting_approval", "queued", "cancelled"}
    [] state = "cancel_requested"  -> {"cancel_requested", "cancelled"}
    [] OTHER                       -> {state}

CanTransition(from, to) == to \in Successors(from)

NoLease == [id |-> 0, claimedAt |-> 0, expiresAt |-> 0]
NoGate  == [approval |-> 0, hash |-> "none", status |-> "none", expiresAt |-> 0]

Lease == [id : Nat, claimedAt : Nat, expiresAt : Nat]

GateStatuses == {"none", "pending", "approved", "denied", "expired"}

Gate == [approval : Nat, hash : Hashes \cup {"none"}, status : GateStatuses,
         expiresAt : Nat]

Record == [run : Runs, attempt : Nat, status : Statuses,
           attemptState : AttemptStates, availableAt : Nat, lease : Lease,
           cancelRequested : BOOLEAN, gate : Gate, retryOf : Nat]

DeadLetter == [work : Nat, run : Runs, attempt : Nat]

IsActive(r) == r.status \in {"queued", "claimed", "awaiting_approval"}

Move(r, status, state) == [r EXCEPT !.status = status, !.attemptState = state]

(* A record as enqueue, a retry or a redrive pushes it. *)
NewRecord(run, attempt, availableAt, retryOf) ==
  [run |-> run, attempt |-> attempt, status |-> "queued",
   attemptState |-> "queued", availableAt |-> availableAt, lease |-> NoLease,
   cancelRequested |-> FALSE, gate |-> NoGate, retryOf |-> retryOf]

(* Exponential backoff, capped: min(maxDelay, base * 2 ^ (attempt - 1)). *)
RetryDelay(attempt) ==
  LET delay == BaseDelay * 2 ^ (attempt - 1)
  IN  IF delay \in 1..MaxDelay THEN delay ELSE MaxDelay

Work == DOMAIN records

ActiveWork(run) == {i \in Work : records[i].run = run /\ IsActive(records[i])}

(* Work leased under l.  A lease id names at most one record. *)
LeasedWork(l) == {i \in Work : records[i].lease.id = l /\ l # 0}

-----------------------------------------------------------------------------
(* Lease expiry, shared by every operation that meets an expired lease *)

(* Faulty variants, here and below: a definition as a plausible bug would    *)
(* have it.  Nothing uses them; each breaks a property stated at the end.    *)

LeaseExpired_SkipsCancelling(r) ==
  r.status = "claimed" /\ r.lease.expiresAt <= now /\ ~r.cancelRequested

LeaseExpired(r) == r.status = "claimed" /\ r.lease.expiresAt <= now

ExpireClaimed_ForgetsCancel(r) ==
  [Move(r, "queued", "queued") EXCEPT !.lease = NoLease]

(* Work whose lease ran out goes back to the queue, on the same attempt;   *)
(* a pending cancellation ends it instead.                                 *)
ExpireClaimed(r) ==
  IF r.cancelRequested
  THEN [Move(r, "cancelled", "cancelled") EXCEPT !.lease = NoLease]
  ELSE [Move(r, "queued", "queued") EXCEPT !.lease = NoLease]

Swept_LiveLeasesToo == [i \in Work |-> IF records[i].status = "claimed"
                                       THEN ExpireClaimed(records[i]) ELSE records[i]]

Swept == [i \in Work |-> IF LeaseExpired(records[i])
                         THEN ExpireClaimed(records[i]) ELSE records[i]]

ExpireOne(i) ==
  /\ records' = [records EXCEPT ![i] = ExpireClaimed(@)]
  /\ UNCHANGED <<deadLetters, nextLease, nextApproval, grants, now>>

-----------------------------------------------------------------------------
(* The operations *)

Init ==
  /\ records = <<>>
  /\ deadLetters = <<>>
  /\ nextLease = 1
  /\ nextApproval = 1
  /\ grants = {}
  /\ now = 0

(* enqueue: an active record of the same run and attempt makes it a duplicate. *)
Enqueue(run) ==
  /\ Len(records) < MaxRecords
  /\ Reenqueue \/ \A i \in Work : records[i].run # run
  /\ \A i \in ActiveWork(run) : records[i].attempt # 1
  /\ records' = Append(records, NewRecord(run, 1, now, 0))
  /\ UNCHANGED <<deadLetters, nextLease, nextApproval, grants, now>>

(* expireLeases, and a claimNext that finds nothing to claim. *)
ExpireLeases ==
  /\ \E i \in Work : LeaseExpired(records[i])
  /\ records' = Swept
  /\ UNCHANGED <<deadLetters, nextLease, nextApproval, grants, now>>

Due == {i \in Work : Swept[i].status = "queued" /\ Swept[i].availableAt <= now}

ClaimedBefore(i, j) ==
  \/ Swept[i].availableAt < Swept[j].availableAt
  \/ Swept[i].availableAt = Swept[j].availableAt /\ i <= j

(* claimNext: sweep, then lease the due record that has waited longest. *)
ClaimNext ==
  /\ now + LeaseMs <= Horizon
  /\ \E i \in Due :
       /\ \A j \in Due : ClaimedBefore(i, j)
       /\ records' = [Swept EXCEPT ![i] =
            [Move(@, "claimed", "claimed") EXCEPT
               !.lease = [id |-> nextLease, claimedAt |-> now,
                          expiresAt |-> now + LeaseMs]]]
  /\ nextLease' = nextLease + 1
  /\ UNCHANGED <<deadLetters, nextApproval, grants, now>>

(* heartbeat of a live lease without a cancellation: the lease is extended *)
(* by the caller's extension or, by default, by the span it has had so far. *)
HeartbeatExtend(l) ==
  \E i \in LeasedWork(l) :
    LET lease == records[i].lease IN
    /\ records[i].status = "claimed"
    /\ ~LeaseExpired(records[i])
    /\ ~records[i].cancelRequested
    /\ \E extendBy \in ExtendByMs \cup {lease.expiresAt - lease.claimedAt} :
         /\ extendBy > 0
         /\ now + extendBy <= Horizon
         /\ records' = [records EXCEPT ![i].lease.expiresAt = now + extendBy]
    /\ UNCHANGED <<deadLetters, nextLease, nextApproval, grants, now>>

(* heartbeat or settle on a lease that ran out: the caller has lost it. *)
LoseLease(l) ==
  \E i \in LeasedWork(l) : LeaseExpired(records[i]) /\ ExpireOne(i)

(* settle accepts a result only from the holder of a live lease. *)
MaySettle(i) == records[i].status = "claimed" /\ ~LeaseExpired(records[i])

SettleInto(i, r) ==
  /\ records' = [records EXCEPT ![i] = [r EXCEPT !.lease = NoLease]]
  /\ UNCHANGED <<deadLetters, nextLease, grants, now>>

(* A cancelled result, or any result once cancellation was requested. *)
SettleCancelled(l) ==
  \E i \in LeasedWork(l) :
    /\ MaySettle(i)
    /\ SettleInto(i, Move(records[i], "cancelled", "cancelled"))
    /\ UNCHANGED nextApproval

SettleCompleted(l) ==
  \E i \in LeasedWork(l) :
    /\ MaySettle(i) /\ ~records[i].cancelRequested
    /\ SettleInto(i, Move(records[i], "completed", "completed"))
    /\ UNCHANGED nextApproval

(* The attempt pauses behind a fresh approval request. *)
SettleAwaitingApproval(l, hash) ==
  \E i \in LeasedWork(l) :
    /\ nextApproval <= MaxApprovals
    /\ MaySettle(i) /\ ~records[i].cancelRequested
    /\ SettleInto(i,
         [Move(records[i], "awaiting_approval", "awaiting_approval") EXCEPT
            !.gate = [approval |-> nextApproval, hash |-> hash,
                      status |-> "pending", expiresAt |-> now + ApprovalTtl]])
    /\ nextApproval' = nextApproval + 1

SettleRetry_OneTooMany(l) ==
  \E i \in LeasedWork(l) :
    LET r    == records[i]
        done == [Move(r, "failed", "retry_scheduled") EXCEPT !.lease = NoLease]
    IN
    /\ MaySettle(i) /\ ~r.cancelRequested
    /\ r.attempt <= MaxAttempts
    /\ records' = Append([records EXCEPT ![i] = done],
                         NewRecord(r.run, r.attempt + 1,
                                   now + RetryDelay(r.attempt), i))
    /\ UNCHANGED <<deadLetters, nextLease, nextApproval, grants, now>>

(* A failure with attempts left pushes the next attempt. *)
SettleRetry(l) ==
  \E i \in LeasedWork(l) :
    LET r    == records[i]
        done == [Move(r, "failed", "retry_scheduled") EXCEPT !.lease = NoLease]
    IN
    /\ MaySettle(i) /\ ~r.cancelRequested
    /\ r.attempt < MaxAttempts
    /\ records' = Append([records EXCEPT ![i] = done],
                         NewRecord(r.run, r.attempt + 1,
                                   now + RetryDelay(r.attempt), i))
    /\ UNCHANGED <<deadLetters, nextLease, nextApproval, grants, now>>

(* A failure on the last attempt is dead-lettered. *)
SettleDead(l) ==
  \E i \in LeasedWork(l) :
    LET r == records[i] IN
    /\ MaySettle(i) /\ ~r.cancelRequested
    /\ r.attempt >= MaxAttempts
    /\ records' = [records EXCEPT ![i] =
         [Move(r, "dead", "dead_lettered") EXCEPT !.lease = NoLease]]
    /\ deadLetters' =
         Append(deadLetters, [work |-> i, run |-> r.run, attempt |-> r.attempt])
    /\ UNCHANGED <<nextLease, nextApproval, grants, now>>

(* Claimed work learns of the cancellation from its next heartbeat or      *)
(* settlement; queued and paused work ends at once.                        *)
Cancelled(r) ==
  [IF r.status = "claimed"
   THEN Move(r, "claimed", "cancel_requested")
   ELSE [Move(r, "cancelled", "cancelled") EXCEPT !.lease = NoLease]
   EXCEPT !.cancelRequested = TRUE]

CancelRun(run) ==
  /\ ActiveWork(run) # {}
  /\ records' = [i \in Work |-> IF i \in ActiveWork(run)
                                THEN Cancelled(records[i]) ELSE records[i]]
  /\ UNCHANGED <<deadLetters, nextLease, nextApproval, grants, now>>

RedriveDeadLetter_WhileActive(d) ==
  /\ Len(records) < MaxRecords
  /\ records' = Append(records,
       NewRecord(deadLetters[d].run, 1, now, deadLetters[d].work))
  /\ UNCHANGED <<deadLetters, nextLease, nextApproval, grants, now>>

(* An operator starts a dead-lettered run over, unless it has active work. *)
RedriveDeadLetter(d) ==
  /\ Len(records) < MaxRecords
  /\ ActiveWork(deadLetters[d].run) = {}
  /\ records' = Append(records,
       NewRecord(deadLetters[d].run, 1, now, deadLetters[d].work))
  /\ UNCHANGED <<deadLetters, nextLease, nextApproval, grants, now>>

Waiting_AnyHash(a, hash) ==
  {i \in Work : /\ records[i].gate.approval = a
                /\ \A j \in 1..(i - 1) : records[j].gate.approval # a
                /\ records[i].status = "awaiting_approval"}

(* The first record whose gate is the approval, where the hash agrees and  *)
(* the record still waits: everywhere else the callback changes nothing.   *)
Waiting(a, hash) ==
  {i \in Work : /\ records[i].gate.approval = a
                /\ \A j \in 1..(i - 1) : records[j].gate.approval # a
                /\ records[i].gate.hash = hash
                /\ records[i].status = "awaiting_approval"}

Resumed(r) ==
  [Move(r, "queued", "queued") EXCEPT !.availableAt = now,
                                      !.gate.status = "approved"]

ResumeApproved(a, hash) ==
  /\ records' = [i \in Work |-> IF i \in Waiting(a, hash)
                                THEN Resumed(records[i]) ELSE records[i]]
  /\ grants' = grants \cup {<<a, hash>>}
  /\ UNCHANGED <<deadLetters, nextLease, nextApproval, now>>

CancelApprovalWait(i, status) ==
  /\ records' = [records EXCEPT ![i] =
       [Move(@, "cancelled", "cancelled") EXCEPT !.gate.status = status]]
  /\ UNCHANGED <<deadLetters, nextLease, nextApproval, grants, now>>

ResumeRefused(a, hash, status) ==
  \E i \in Waiting(a, hash) : CancelApprovalWait(i, status)

(* A pending callback notices that the gate's deadline has passed. *)
ResumePending(a, hash) ==
  \E i \in Waiting(a, hash) :
    /\ records[i].gate.expiresAt <= now
    /\ CancelApprovalWait(i, "expired")

Tick ==
  /\ now < Horizon
  /\ now' = now + 1
  /\ UNCHANGED <<records, deadLetters, nextLease, nextApproval, grants>>

-----------------------------------------------------------------------------
(* Calls under a lease may carry any lease ever handed out, approval       *)
(* callbacks any approval ever requested and any hash.                     *)

LeaseCall(l) ==
  \/ HeartbeatExtend(l)
  \/ LoseLease(l)
  \/ SettleCancelled(l)
  \/ SettleCompleted(l)
  \/ \E hash \in Hashes : SettleAwaitingApproval(l, hash)
  \/ SettleRetry(l)
  \/ SettleDead(l)

ApprovalCallback(a, hash) ==
  \/ ResumeApproved(a, hash)
  \/ \E status \in {"denied", "expired"} : ResumeRefused(a, hash, status)
  \/ ResumePending(a, hash)

Next ==
  \/ \E run \in Runs : Enqueue(run) \/ CancelRun(run)
  \/ ExpireLeases
  \/ ClaimNext
  \/ \E l \in 1..(nextLease - 1) : LeaseCall(l)
  \/ \E d \in DOMAIN deadLetters : RedriveDeadLetter(d)
  \/ \E a \in 1..(nextApproval - 1), hash \in Hashes : ApprovalCallback(a, hash)
  \/ Tick

Spec == Init /\ [][Next]_vars

(* Time passes and something keeps sweeping (a claim or the scheduler      *)
(* sweep).  Nothing is assumed of workers: one that crashed never settles. *)
FairSpec == Spec /\ WF_vars(Tick) /\ WF_vars(ExpireLeases)

-----------------------------------------------------------------------------
(* What every reachable state satisfies *)

(* Type invariant: the values the queue's fields and the id counters range over. *)
TypeOK ==
  /\ records \in Seq(Record)
  /\ deadLetters \in Seq(DeadLetter)
  /\ nextLease \in Nat \ {0}
  /\ nextApproval \in Nat \ {0}
  /\ grants \subseteq Nat \X Hashes
  /\ now \in Nat

Agree(r) ==
  /\ r.attemptState =
       CASE r.status = "claimed" /\ r.cancelRequested -> "cancel_requested"
         [] r.status = "failed" -> "retry_scheduled"
         [] r.status = "dead"   -> "dead_lettered"
         [] OTHER               -> r.status
  /\ r.status = "claimed" <=> r.lease.id # 0
  /\ r.cancelRequested => r.status \in {"claimed", "cancelled"}
  /\ r.status = "awaiting_approval" => r.gate.status = "pending"
  /\ r.gate.status = "pending" => r.status \in {"awaiting_approval", "cancelled"}

(* The queue status, the attempt state, the lease, the cancellation mark and
   the approval gate are fields that nine methods update one by one; they
   always agree.  A lease left on a record that is no longer claimed would let
   its old holder settle it, a claimed record without one could never be
   settled or expired, and cancelled work can only end cancelled. *)
FieldsAgree == \A i \in Work : Agree(records[i])

(* settle and heartbeat look a record up by lease id alone: two records never
   carry the same lease, and no record carries a lease not handed out yet.
   Approval callbacks look a record up by approval id in the same way. *)
IdsUnique ==
  \A i, j \in Work :
    /\ records[i].lease.id < nextLease
    /\ records[i].gate.approval < nextApproval
    /\ i # j /\ records[i].lease.id # 0 => records[i].lease.id # records[j].lease.id
    /\ i # j /\ records[i].gate.approval # 0
         => records[i].gate.approval # records[j].gate.approval

(* A cancellation cannot be lost: whatever settles, fails, expires or is
   approved afterwards, the record ends cancelled, and no retry or redrive
   ever starts from it. *)
CancelSticks ==
  \A i \in Work :
    /\ records[i].cancelRequested => records[i].status \in {"claimed", "cancelled"}
    /\ records[i].retryOf # 0 =>
         /\ records[i].retryOf \in Work
         /\ ~records[records[i].retryOf].cancelRequested

(* Retries form chains: a failed attempt has exactly one successor, the next
   attempt of the same run; a first attempt that succeeds another one restarts
   a dead-lettered one; no attempt number exceeds the limit. *)
RetryChain ==
  \A i \in Work :
    /\ records[i].attempt \in 1..MaxAttempts
    /\ records[i].attempt > 1 => records[i].retryOf # 0
    /\ records[i].retryOf # 0 =>
         LET p == records[i].retryOf IN
         /\ p \in 1..(i - 1)
         /\ records[p].run = records[i].run
         /\ \/ records[p].status = "dead" /\ records[i].attempt = 1
            \/ records[p].status = "failed"
               /\ records[i].attempt = records[p].attempt + 1
    /\ records[i].status = "failed" =>
         Cardinality({j \in Work : records[j].retryOf = i}) = 1

(* A record is dead exactly if one dead letter tells of it, and only once its
   attempts are used up: exhausted work is never dropped and never told twice. *)
DeadLettersExact ==
  /\ \A d, e \in DOMAIN deadLetters :
       /\ deadLetters[d].work \in Work
       /\ deadLetters[d].work = deadLetters[e].work => d = e
       /\ records[deadLetters[d].work].status = "dead"
       /\ records[deadLetters[d].work].run = deadLetters[d].run
  /\ \A i \in Work : records[i].status = "dead" =>
       /\ records[i].attempt >= MaxAttempts
       /\ \E d \in DOMAIN deadLetters : deadLetters[d].work = i

(* The approval invariant of the documentation: work that went on past a gate
   did so on an approved callback carrying the very hash the work paused with;
   and such a callback is never lost, the work does not go on waiting. *)
ApprovalFidelity ==
  \A i \in Work : LET gate == records[i].gate IN
    /\ gate.status = "approved" => <<gate.approval, gate.hash>> \in grants
    /\ records[i].status = "awaiting_approval" =>
         <<gate.approval, gate.hash>> \notin grants

(* The key run_attempt:org:run:1 names at most one active record, however
   often a run is enqueued, dead-lettered and redriven. *)
FirstAttemptUnique ==
  \A run \in Runs : \A i, j \in ActiveWork(run) :
    records[i].attempt = 1 /\ records[j].attempt = 1 => i = j

(* As long as a run is enqueued only once, as the API does, at most one of its
   records is active, so no two workers ever hold live leases on one run:
   retries, redrives, resumed and requeued attempts never overlap. *)
OneActivePerRun ==
  \A run \in Runs : \A i, j \in ActiveWork(run) : i = j

-----------------------------------------------------------------------------
(* What a step may never do *)

(* Terminal records are frozen: no stale settlement, late callback, sweep or
   redrive writes to one again. *)
TerminalFrozen ==
  [][\A i \in Work : ~IsActive(records[i]) => records'[i] = records[i]]_vars

(* transitionRecord throws on a transition outside its table; no operation
   ever provokes that, in whatever order calls arrive. *)
TransitionsLegal ==
  [][\A i \in Work : CanTransition(records[i].attemptState,
                                    records'[i].attemptState)]_vars

(* A live lease excludes everyone else: until it runs out, only settlement or
   a cancellation request may take the record from its holder, so the record
   is neither requeued nor leased to another worker. *)
LeaseExclusive ==
  [][\A i \in Work :
       records[i].status = "claimed" /\ ~LeaseExpired(records[i]) =>
         /\ records'[i].status # "queued"
         /\ records'[i].lease.id \in {0, records[i].lease.id}]_vars

(* claimNext serves the work that has waited longest, counting work whose
   lease has run out by now, which returns to its old place in the queue. *)
ClaimsOldestDue ==
  [][\A i, j \in Work :
       /\ records'[i].lease.id = nextLease
       /\ records[j].availableAt < records[i].availableAt
       /\ \/ records[j].status = "queued"
          \/ LeaseExpired(records[j]) /\ ~records[j].cancelRequested
       => records'[j].status # "queued"]_vars

(* A cancellation completes even if the worker that holds the lease has
   crashed and never settles: the lease runs out and the sweep ends it. *)
CancelCompletes ==
  \A run \in Runs :
    (\E i \in Work : records[i].run = run /\ records[i].cancelRequested
                     /\ IsActive(records[i]))
      ~> (\A i \in Work : records[i].run = run /\ records[i].cancelRequested
                          => records[i].status = "cancelled")

-----------------------------------------------------------------------------
(* The abstract view: states of attempts, the lease id as the token *)

Phase(r) ==
  CASE r.status = "queued" -> "waiting"
    [] r.status = "claimed" -> IF r.cancelRequested THEN "stopping" ELSE "running"
    [] r.status = "awaiting_approval" -> "paused"
    [] OTHER -> r.status

AbstractAttempts ==
  [i \in Work |-> [run |-> records[i].run, number |-> records[i].attempt,
                   state |-> Phase(records[i]), token |-> records[i].lease.id,
                   from |-> records[i].retryOf]]

Lifecycle == INSTANCE AttemptLifecycle
  WITH attempts <- AbstractAttempts, lastToken <- nextLease - 1

(* The queue implements the abstract attempt lifecycle: every operation, with
   the sweep it may start with, is one step of it or changes nothing in it. *)
ImplementsLifecycle == Lifecycle!Spec
=============================================================================
