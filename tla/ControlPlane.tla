---------------------------- MODULE ControlPlane ----------------------------
(***************************************************************************)
(* The control plane around the worker queue: the request handlers of      *)
(* apps/api/src/app.ts, LocalWorkerController in                           *)
(* apps/api/src/worker-runtime.ts and the run and approval state of        *)
(* BekStore in packages/core/src/store.ts.                                 *)
(*                                                                         *)
(* The status of a run is kept twice: in the store, where humans and Slack *)
(* see it, and in the queue, which decides what is executed.  Handlers     *)
(* that decide an approval, cancel or redrive change both at once.  A      *)
(* drain changes the queue item by item, and tells the store of all its    *)
(* settlements when its loop has ended; every await of the loop lets other *)
(* handlers, and other drains, run in between.                             *)
(***************************************************************************)
EXTENDS Integers, Sequences, FiniteSets

CONSTANTS
  Runs, Hashes, MaxAttempts, BaseDelay, MaxDelay, LeaseMs, ExtendByMs, ApprovalTtl,
  Horizon, MaxRecords, MaxApprovals,     \* as in WorkerQueue
  Drains,            \* drains that may be going on at the same time
  MaxItems,          \* drain's maxItems
  Redriving          \* do operators redrive dead letters?

ASSUME ControlPlaneAssumption ==
  /\ {MaxAttempts, BaseDelay, MaxDelay, LeaseMs, ApprovalTtl, MaxItems} \subseteq Nat \ {0}
  /\ ExtendByMs \subseteq Nat \ {0}
  /\ {Horizon, MaxRecords, MaxApprovals} \subseteq Nat
  /\ Redriving \in BOOLEAN

VARIABLES
  records, deadLetters, nextLease, nextApproval, grants, now,    \* the queue
  runStatus,         \* the store: the status of each run
  policyApproval,    \* the store: the approval a run was created with, if any
  approvals,         \* the store: the approvals workers asked for
  drains             \* the drains: lease at hand, settlements not yet applied

queueVars == <<records, deadLetters, nextLease, nextApproval, grants, now>>
storeVars == <<runStatus, policyApproval, approvals>>
vars == <<queueVars, storeVars, drains>>

(* The API enqueues a run again when an approval finds no work of its own.  *)
Queue == INSTANCE WorkerQueue WITH Reenqueue <- TRUE

RunStatuses == {"none", "queued", "awaiting_approval", "completed", "failed", "cancelled"}
Terminal == {"completed", "failed", "cancelled"}
Decisions == {"none", "pending", "approved", "denied", "expired"}

Unbegun == [pc |-> "idle", lease |-> 0, settled |-> <<>>]

Init ==
  /\ Queue!Init
  /\ runStatus = [run \in Runs |-> "none"]
  /\ policyApproval = [run \in Runs |-> "none"]
  /\ approvals = [a \in 1..MaxApprovals |-> "none"]
  /\ drains = [d \in Drains |-> Unbegun]

SetStatus(run, status) == runStatus' = [runStatus EXCEPT ![run] = status]

-----------------------------------------------------------------------------
(* Handlers *)

(* createRunAndQueue: policy denies the run, asks for an approval first, or  *)
(* lets it (or the planning of its approval) go to the queue.                *)
CreateRun(run) ==
  /\ runStatus[run] = "none"
  /\ \/ SetStatus(run, "failed") /\ UNCHANGED <<queueVars, policyApproval>>
     \/ /\ SetStatus(run, "awaiting_approval")
        /\ policyApproval' = [policyApproval EXCEPT ![run] = "pending"]
        /\ UNCHANGED queueVars
     \/ /\ SetStatus(run, "queued")
        /\ Queue!Enqueue(run)
        /\ UNCHANGED policyApproval
  /\ UNCHANGED <<approvals, drains>>

FirstAttemptActive(run) == \E i \in Queue!ActiveWork(run) : records[i].attempt = 1

(* An approval no work waits for starts the run; a duplicate is dropped.    *)
EnqueueApproved(run) ==
  IF FirstAttemptActive(run) THEN UNCHANGED queueVars ELSE Queue!Enqueue(run)

(* decideApprovalAndQueue, for the approval the run was created with. *)
ApprovePolicy(run) ==
  /\ policyApproval[run] = "pending"
  /\ policyApproval' = [policyApproval EXCEPT ![run] = "approved"]
  /\ SetStatus(run, "queued")
  /\ EnqueueApproved(run)
  /\ UNCHANGED <<approvals, drains>>

DenyPolicy(run) ==
  /\ policyApproval[run] = "pending"
  /\ policyApproval' = [policyApproval EXCEPT ![run] = "denied"]
  /\ SetStatus(run, "cancelled")
  /\ UNCHANGED <<queueVars, approvals, drains>>

(* The work a worker's approval request was raised for. *)
GatedWork(a) == {i \in DOMAIN records : records[i].gate.approval = a}

Overdue(a) == \E i \in GatedWork(a) : records[i].gate.expiresAt <= now

(* decideApprovalAndQueue, for an approval a worker asked for. *)
ApproveRequest(a) ==
  /\ approvals[a] = "pending" /\ ~Overdue(a)
  /\ approvals' = [approvals EXCEPT ![a] = "approved"]
  /\ \E i \in GatedWork(a) :
       /\ SetStatus(records[i].run, "queued")
       /\ Queue!ResumeApproved(a, records[i].gate.hash)
  /\ UNCHANGED <<policyApproval, drains>>

DenyRequest(a) ==
  /\ approvals[a] = "pending" /\ ~Overdue(a)
  /\ approvals' = [approvals EXCEPT ![a] = "denied"]
  /\ \E i \in GatedWork(a) :
       LET hash == records[i].gate.hash IN
       /\ SetStatus(records[i].run, "cancelled")
       /\ IF Queue!Waiting(a, hash) = {} THEN UNCHANGED queueVars
          ELSE Queue!ResumeRefused(a, hash, "denied")
  /\ UNCHANGED <<policyApproval, drains>>

(* A decision that comes too late is refused and marks the approval expired; *)
(* nobody else is told.  (The approval a run was created with runs out after *)
(* half an hour, at any moment here.)                                        *)
DecideTooLate ==
  /\ \/ \E run \in Runs :
          /\ policyApproval[run] = "pending"
          /\ policyApproval' = [policyApproval EXCEPT ![run] = "expired"]
          /\ UNCHANGED approvals
     \/ \E a \in 1..MaxApprovals :
          /\ approvals[a] = "pending" /\ Overdue(a)
          /\ approvals' = [approvals EXCEPT ![a] = "expired"]
          /\ UNCHANGED policyApproval
  /\ UNCHANGED <<queueVars, runStatus, drains>>

CancelRun_StoreOnly(run) ==
  /\ runStatus[run] \in {"queued", "awaiting_approval"}
  /\ SetStatus(run, "cancelled")
  /\ UNCHANGED <<queueVars, policyApproval, approvals, drains>>

(* The cancel handler: a claimed attempt is only asked to stop, and the run  *)
(* keeps its status until a drain reports the cancellation.                  *)
CancelRun(run) ==
  LET active == Queue!ActiveWork(run) IN
  /\ runStatus[run] \in {"queued", "awaiting_approval"}
  /\ IF active = {} THEN UNCHANGED queueVars ELSE Queue!CancelRun(run)
  /\ IF \E i \in active : records[i].status = "claimed"
     THEN UNCHANGED runStatus ELSE SetStatus(run, "cancelled")
  /\ UNCHANGED <<policyApproval, approvals, drains>>

RedriveDeadLetter(d) ==
  /\ Redriving
  /\ Queue!RedriveDeadLetter(d)
  /\ SetStatus(deadLetters[d].run, "queued")
  /\ UNCHANGED <<policyApproval, approvals, drains>>

-----------------------------------------------------------------------------
(* Drains *)

Settlement(i, status, a) == [run |-> records[i].run, status |-> status, approval |-> a]

(* The loop claims the next item. *)
DrainClaims(d) ==
  /\ drains[d].pc \in {"idle", "looping"}
  /\ Len(drains[d].settled) < MaxItems
  /\ Queue!ClaimNext
  /\ drains' = [drains EXCEPT ![d].pc = "carrying", ![d].lease = nextLease]
  /\ UNCHANGED storeVars

Settled(d, settlement) ==
  drains' = [drains EXCEPT ![d].pc = "looping", ![d].lease = 0,
                           ![d].settled = Append(@, settlement)]

(* The adapter is done, and its result is settled with the queue. *)
DrainSettles(d) ==
  LET l == drains[d].lease IN
  /\ drains[d].pc = "carrying"
  /\ \E i \in Queue!LeasedWork(l) :
       \/ /\ records[i].cancelRequested
          /\ Queue!SettleCancelled(l) /\ Settled(d, Settlement(i, "cancelled", 0))
       \/ Queue!SettleCompleted(l) /\ Settled(d, Settlement(i, "completed", 0))
       \/ \E hash \in Hashes :
            /\ Queue!SettleAwaitingApproval(l, hash)
            /\ Settled(d, Settlement(i, "awaiting_approval", nextApproval))
       \/ Queue!SettleRetry(l) /\ Settled(d, Settlement(i, "queued", 0))
       \/ Queue!SettleDead(l) /\ Settled(d, Settlement(i, "failed", 0))
  /\ UNCHANGED storeVars

DrainLosesLease_AsFailure(d) ==
  LET l == drains[d].lease IN
  /\ drains[d].pc = "carrying"
  /\ \E i \in Queue!LeasedWork(l) :
       Queue!LoseLease(l) /\ Settled(d, Settlement(i, "failed", 0))
  /\ UNCHANGED storeVars

(* The lease ran out meanwhile: the loop stops. *)
DrainLosesLease(d) ==
  LET l == drains[d].lease IN
  /\ drains[d].pc = "carrying"
  /\ IF Queue!LeasedWork(l) = {} THEN UNCHANGED queueVars ELSE Queue!LoseLease(l)
  /\ drains' = [drains EXCEPT ![d].pc = "stopped", ![d].lease = 0]
  /\ UNCHANGED storeVars

Apply_NoApprovals(settled) ==
  LET of(run) == {k \in DOMAIN settled : settled[k].run = run}
      last(run) == CHOOSE k \in of(run) : \A j \in of(run) : j <= k
  IN
  /\ runStatus' = [run \in Runs |-> IF of(run) = {} THEN runStatus[run]
                                    ELSE settled[last(run)].status]
  /\ UNCHANGED <<approvals, policyApproval>>

(* applyProcessedDecision, for each settlement in order: the run takes the  *)
(* status of the last one, requested approvals enter the store as pending.  *)
Apply(settled) ==
  LET of(run) == {k \in DOMAIN settled : settled[k].run = run}
      last(run) == CHOOSE k \in of(run) : \A j \in of(run) : j <= k
  IN
  /\ runStatus' = [run \in Runs |-> IF of(run) = {} THEN runStatus[run]
                                    ELSE settled[last(run)].status]
  /\ approvals' = [a \in DOMAIN approvals |->
                     IF \E k \in DOMAIN settled : settled[k].approval = a
                     THEN "pending" ELSE approvals[a]]
  /\ UNCHANGED policyApproval

(* The loop ends: nothing is left to claim (which sweeps expired leases),   *)
(* enough items were processed or a lease was lost.  Only now the store     *)
(* learns of the settlements.                                               *)
DrainEnds(d) ==
  /\ \/ drains[d].pc \in {"idle", "looping"} /\ Queue!Due = {} /\ records' = Queue!Swept
     \/ drains[d].pc = "looping" /\ Len(drains[d].settled) >= MaxItems /\ UNCHANGED records
     \/ drains[d].pc = "stopped" /\ UNCHANGED records
  /\ Apply(drains[d].settled)
  /\ drains' = [drains EXCEPT ![d] = Unbegun]
  /\ UNCHANGED <<deadLetters, nextLease, nextApproval, grants, now>>

Drain(d) == DrainClaims(d) \/ DrainSettles(d) \/ DrainLosesLease(d) \/ DrainEnds(d)

Tick == Queue!Tick /\ UNCHANGED <<storeVars, drains>>

Next ==
  \/ \E run \in Runs : CreateRun(run) \/ ApprovePolicy(run) \/ DenyPolicy(run) \/ CancelRun(run)
  \/ \E a \in 1..MaxApprovals : ApproveRequest(a) \/ DenyRequest(a)
  \/ DecideTooLate
  \/ \E d \in DOMAIN deadLetters : RedriveDeadLetter(d)
  \/ \E d \in Drains : Drain(d)
  \/ Tick

Spec == Init /\ [][Next]_vars

(* Requests keep draining the queue, and what was begun goes on. *)
FairSpec == Spec /\ WF_vars(Tick) /\ \A d \in Drains : WF_vars(Drain(d))

-----------------------------------------------------------------------------
(* What every reachable state satisfies *)

(* Type invariant: the store's view of runs and approvals, and the drains.  *)
TypeOK ==
  /\ runStatus \in [Runs -> RunStatuses]
  /\ policyApproval \in [Runs -> Decisions]
  /\ approvals \in [1..MaxApprovals -> Decisions]
  /\ \A d \in Drains :
       /\ drains[d].pc \in {"idle", "looping", "carrying", "stopped"}
       /\ drains[d].lease \in 0..(nextLease - 1)
       /\ drains[d].settled \in
            Seq([run : Runs, status : RunStatuses, approval : 0..MaxApprovals])
       /\ Len(drains[d].settled) <= MaxItems

(* A run never has two attempts going on at once, although the handlers     *)
(* enqueue it on several paths: on creation, on the approval it was created *)
(* with, on a redrive, on retries.  This is what justifies reading          *)
(* WorkerQueue with one enqueue per run.                                    *)
OneAttemptAtATime == \A run \in Runs : \A i, j \in Queue!ActiveWork(run) : i = j

(* Work that went on past a gate did so on an approval that the store shows *)
(* as approved; and work that still waits can still be decided: its request *)
(* is pending in the store, on its way there, or has expired.               *)
GatesMatchApprovals ==
  \A i \in DOMAIN records : LET r == records[i]  a == r.gate.approval IN
    /\ r.gate.status = "approved" => approvals[a] = "approved"
    /\ r.status = "awaiting_approval" =>
         \/ approvals[a] \in {"pending", "expired"}
         \/ \E d \in Drains : \E k \in DOMAIN drains[d].settled :
              drains[d].settled[k].approval = a

(* The run is reported completed or failed only if an attempt of it was     *)
(* completed or dead-lettered (or policy refused the run from the start).   *)
OutcomesTrue ==
  \A run \in Runs :
    /\ runStatus[run] = "completed" =>
         \E i \in DOMAIN records : records[i].run = run /\ records[i].status = "completed"
    /\ runStatus[run] = "failed" =>
         \A i \in DOMAIN records : records[i].run = run =>
           \E j \in DOMAIN records : records[j].run = run /\ records[j].status = "dead"

(* A run that is shown as cancelled is not going on: no attempt of it is    *)
(* active (of a run that was never redriven; a redrive may overtake the     *)
(* report of a cancellation).                                               *)
CancelledIsStopped ==
  \A run \in Runs : runStatus[run] = "cancelled" =>
    \/ Queue!ActiveWork(run) = {}
    \/ \E d \in DOMAIN deadLetters : deadLetters[d].run = run

(* A decision on an approval is final: no late report of the pause it was   *)
(* requested for, and no other request, makes it pending again.             *)
DecisionsFinal ==
  [][/\ \A a \in 1..MaxApprovals :
          approvals[a] \in {"approved", "denied", "expired"} => approvals'[a] = approvals[a]
     /\ \A run \in Runs :
          policyApproval[run] \in {"approved", "denied", "expired"}
            => policyApproval'[run] = policyApproval[run]]_vars

(* Stated by the API, which answers a cancellation of a cancelled run with  *)
(* "already_terminal": a cancelled run stays cancelled.                     *)
CancelledStaysCancelled ==
  [][\A run \in Runs : runStatus[run] = "cancelled" => runStatus'[run] = "cancelled"]_vars

(* Stated by docs/architecture/worker.md: when an approval has expired, the *)
(* paused work is cancelled.                                                *)
ExpiryCancelsWork ==
  \A a \in 1..MaxApprovals :
    approvals[a] = "expired" ~>
      \A i \in DOMAIN records : records[i].gate.approval = a => records[i].status = "cancelled"

(* Stated by docs/architecture/worker.md: the cancellation of claimed work  *)
(* is completed, and recorded, by its settlement.                           *)
CancelReachesRun ==
  \A run \in Runs :
    (\E i \in Queue!ActiveWork(run) : records[i].cancelRequested) ~> runStatus[run] = "cancelled"
=============================================================================
