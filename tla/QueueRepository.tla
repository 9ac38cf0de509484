--------------------------- MODULE QueueRepository ---------------------------
(***************************************************************************)
(* The worker queue in the database:                                       *)
(* DrizzleWorkerQueueRepository in packages/db/src/                        *)
(* worker-queue-repository.ts.  Worker processes claim, heartbeat and      *)
(* expire rows in transactions, statement by statement, at a time they     *)
(* took before the first of them; an API process keeps a snapshot of the   *)
(* queue and merges copies of it into the rows, possibly long after it was *)
(* taken.                                                                  *)
(*                                                                         *)
(* External: PostgreSQL at its default isolation.  A row that a            *)
(* transaction has written or selected FOR UPDATE is locked until the      *)
(* transaction ends; SKIP LOCKED passes over locked rows, other statements *)
(* wait for them and then see the row as it was left; readers see what is  *)
(* committed.  Deadlocks among waiting transactions, which the database    *)
(* resolves by failing one, are left out.                                  *)
(***************************************************************************)
EXTENDS Integers, FiniteSets

CONSTANTS
  Works,             \* work records of the organisation
  Workers,           \* worker processes
  LeaseMs,           \* the lease a claim asks for
  Extensions,        \* what a heartbeat may extend it by
  Horizon,           \* bound: last time
  MaxLeases,         \* bound: leases granted
  MaxCalls,          \* bound: calls of the workers
  MaxSaves           \* bound: saves of the API process

ASSUME QueueRepositoryAssumption ==
  /\ LeaseMs \in Nat \ {0} /\ Extensions \subseteq Nat \ {0}
  /\ Horizon \in Nat /\ MaxLeases \in Nat /\ MaxCalls \in Nat /\ MaxSaves \in Nat
  /\ "none" \notin Workers

VARIABLES
  rows,              \* the rows of worker_work_records, uncommitted changes included
  committed,         \* the rows as they were last committed
  locks,             \* the worker whose transaction has locked a row, or "none"
  txs,               \* each worker's call: how far it is, its time, its row
  held,              \* each worker's own view: the lease it was last granted
  snapshot,          \* the snapshot the API process keeps
  saving,            \* the copy of it that is being saved, if any
  undone,            \* history: leases that a save has taken out of their row or shortened
  nextLease, now,
  calls, saves       \* how many there were, see MaxCalls and MaxSaves

vars == <<rows, committed, locks, txs, held, snapshot, saving, undone, nextLease, now, calls, saves>>

NoTx == [pc |-> "none", op |-> "none", now |-> 0, row |-> "none"]
NoLease == [row |-> "none", lease |-> 0, until |-> 0]

(* A queued row, with the time its last change carries. *)
Queued(t) == [status |-> "queued", lease |-> 0, until |-> 0, cancel |-> FALSE, updatedAt |-> t]

(* The rows have just been enqueued, and saved. *)
Init ==
  /\ rows = [k \in Works |-> Queued(0)]
  /\ committed = rows
  /\ locks = [k \in Works |-> "none"]
  /\ txs = [w \in Workers |-> NoTx]
  /\ held = [w \in Workers |-> NoLease]
  /\ snapshot = rows /\ saving = {} /\ undone = {}
  /\ nextLease = 1 /\ now = 0 /\ calls = 0 /\ saves = 0

Free(w, k) == locks[k] \in {"none", w}

(* What a statement of a worker's transaction finds before it waits. *)
Visible(w, k) == IF locks[k] = w THEN rows[k] ELSE committed[k]

-----------------------------------------------------------------------------
(* Transactions of a worker *)

(* An operation is called: it takes the time; its statements come later.     *)
Call(w) ==
  /\ txs[w].pc = "none" /\ calls < MaxCalls /\ calls' = calls + 1
  /\ \E op \in {"claim", "expire", "heartbeat"} :
       /\ op = "heartbeat" => held[w].lease # 0
       /\ txs' = [txs EXCEPT ![w] = [pc |-> IF op = "heartbeat" THEN "beat" ELSE "cancel",
                                     op |-> op, now |-> now, row |-> "none"]]
  /\ UNCHANGED <<rows, committed, locks, held, snapshot, saving, undone, nextLease, now, saves>>

(* A transaction ends: what it changed is committed and unlocked. *)
Commit(w) ==
  /\ committed' = [k \in Works |-> IF Free(w, k) THEN rows'[k] ELSE committed[k]]
  /\ locks' = [k \in Works |-> IF locks[k] = w THEN "none" ELSE locks[k]]
  /\ txs' = [txs EXCEPT ![w] = NoTx]

Ended(k, t, status) ==
  [status |-> status, lease |-> 0, until |-> 0, cancel |-> rows[k].cancel, updatedAt |-> t]

Expired(w) ==
  {k \in Works : Visible(w, k).status = "claimed" /\ Visible(w, k).until <= txs[w].now}

ToCancel(w) == {k \in Expired(w) : Visible(w, k).cancel}

(* A statement gives rows another status; it waits for those that others    *)
(* have locked.                                                             *)
End(w, ks, status) ==
  /\ \A k \in ks : Free(w, k)
  /\ rows' = [k \in Works |-> IF k \in ks THEN Ended(k, txs[w].now, status) ELSE rows[k]]
  /\ locks' = [k \in Works |-> IF k \in ks THEN w ELSE locks[k]]
  /\ UNCHANGED <<committed, held, snapshot, saving, undone, nextLease, now, calls, saves>>

(* expirePersistedWorkerLeases: expired work that is to be cancelled is ...  *)
ExpireCancelled(w) ==
  /\ txs[w].pc = "cancel"
  /\ End(w, ToCancel(w), "cancelled")
  /\ txs' = [txs EXCEPT ![w].pc = "requeue"]

(* ... and what is still expired is queued again. *)
ExpireRequeue(w) ==
  /\ txs[w].pc = "requeue"
  /\ End(w, Expired(w), "queued")
  /\ txs' = [txs EXCEPT ![w].pc = IF txs[w].op = "claim" THEN "select" ELSE "end"]

(* expireLeases ends, or a heartbeat that has found its lease expired.       *)
ExpireLeases(w) ==
  /\ txs[w].pc = "end"
  /\ rows' = rows /\ Commit(w)
  /\ held' = IF txs[w].op = "heartbeat" THEN [held EXCEPT ![w] = NoLease] ELSE held
  /\ UNCHANGED <<snapshot, saving, undone, nextLease, now, calls, saves>>

Select_NoLock(w) ==
  /\ txs[w].pc = "select"
  /\ \E k \in Works :
       /\ rows[k].status = "queued"
       /\ txs' = [txs EXCEPT ![w].pc = "update", ![w].row = k]
  /\ UNCHANGED <<rows, committed, locks, held, snapshot, saving, undone, nextLease, now, calls, saves>>

(* claimNextAvailable selects a queued row that nobody else has locked; it   *)
(* may find none, since a save that is about to commit locks rows too.       *)
Select(w) ==
  /\ txs[w].pc = "select"
  /\ \/ rows' = rows /\ Commit(w)
     \/ \E k \in Works :
          /\ rows[k].status = "queued" /\ Free(w, k)
          /\ txs' = [txs EXCEPT ![w].pc = "update", ![w].row = k]
          /\ locks' = [locks EXCEPT ![k] = w]
          /\ UNCHANGED <<rows, committed>>
  /\ UNCHANGED <<held, snapshot, saving, undone, nextLease, now, calls, saves>>

(* It marks the row as claimed, whatever time the row carries, and commits.  *)
Claim(w) ==
  LET k == txs[w].row  t == txs[w].now IN
  /\ txs[w].pc = "update" /\ nextLease <= MaxLeases /\ Free(w, k)
  /\ rows' = [rows EXCEPT ![k] = [status |-> "claimed", lease |-> nextLease, until |-> t + LeaseMs,
                                  cancel |-> rows[k].cancel, updatedAt |-> t]]
  /\ held' = [held EXCEPT ![w] = [row |-> k, lease |-> nextLease, until |-> t + LeaseMs]]
  /\ nextLease' = nextLease + 1
  /\ Commit(w)
  /\ UNCHANGED <<snapshot, saving, undone, now, calls, saves>>

(* heartbeatLease, whose first statement waits for the row: a lost lease,    *)
(* and one that is to be cancelled, is given up ...                          *)
HeartbeatLost(w) ==
  /\ txs[w].pc = "beat"
  /\ \A k \in Works : rows[k].lease = held[w].lease =>
       Free(w, k) /\ rows[k].until > txs[w].now /\ rows[k].cancel
  /\ held' = [held EXCEPT ![w] = NoLease]
  /\ rows' = rows /\ Commit(w)
  /\ UNCHANGED <<snapshot, saving, undone, nextLease, now, calls, saves>>

(* ... an expired one goes on to end all expired ones ...                    *)
HeartbeatExpired(w) ==
  /\ txs[w].pc = "beat"
  /\ \E k \in Works :
       /\ rows[k].lease = held[w].lease /\ Free(w, k) /\ rows[k].until <= txs[w].now
       /\ locks' = [locks EXCEPT ![k] = w]
  /\ txs' = [txs EXCEPT ![w].pc = "cancel"]
  /\ UNCHANGED <<rows, committed, held, snapshot, saving, undone, nextLease, now, calls, saves>>

(* ... and a live one is extended, from the time the call took.              *)
HeartbeatExtends(w) ==
  LET t == txs[w].now IN
  /\ txs[w].pc = "beat"
  /\ \E k \in Works, ms \in Extensions :
       /\ rows[k].lease = held[w].lease /\ Free(w, k)
       /\ rows[k].until > t /\ ~rows[k].cancel
       /\ rows' = [rows EXCEPT ![k].until = t + ms, ![k].updatedAt = t]
       /\ held' = [held EXCEPT ![w].until = t + ms]
  /\ Commit(w)
  /\ UNCHANGED <<snapshot, saving, undone, nextLease, now, calls, saves>>

-----------------------------------------------------------------------------
(* The API process *)

(* It starts, and readSnapshot finds what is committed.  A save that was     *)
(* under way comes to its end or is lost.                                    *)
TakeSnapshot ==
  /\ snapshot' = committed
  /\ saving' \in {saving, {}}
  /\ UNCHANGED <<rows, committed, locks, txs, held, undone, nextLease, now, calls, saves>>

(* cancelRun changes the snapshot, which is saved later: queued work is     *)
(* cancelled, claimed work is to be.                                        *)
cancelRun(k) ==
  /\ snapshot[k].status \in {"queued", "claimed"} /\ ~snapshot[k].cancel
  /\ snapshot' = [snapshot EXCEPT ![k].cancel = TRUE, ![k].updatedAt = now,
                    ![k].status = IF @ = "queued" THEN "cancelled" ELSE @]
  /\ UNCHANGED <<rows, committed, locks, txs, held, saving, undone, nextLease, now, calls, saves>>

(* saveSnapshot is called, with the snapshot of this moment.                *)
Flush ==
  /\ saving = {} /\ saves < MaxSaves /\ saves' = saves + 1
  /\ saving' = {snapshot}
  /\ UNCHANGED <<rows, committed, locks, txs, held, snapshot, undone, nextLease, now, calls>>

(* shouldPersistWorkerWorkRecordUpdate: an update must be as fresh. *)
shouldPersist(existing, incoming) == incoming.updatedAt >= existing.updatedAt

Undoes(existing, incoming) ==
  incoming.lease # existing.lease \/ incoming.until < existing.until

(* Its transaction commits.  It has then locked every row, each since it     *)
(* compared it, so that all comparisons may as well be made now.             *)
SaveSnapshot ==
  \E saved \in saving :
    LET taken == {k \in Works : shouldPersist(rows[k], saved[k])} IN
    /\ \A k \in Works : locks[k] = "none"
    /\ rows' = [k \in Works |-> IF k \in taken THEN saved[k] ELSE rows[k]]
    /\ committed' = rows'
    /\ undone' = undone \union {rows[k].lease : k \in {j \in taken : Undoes(rows[j], saved[j])}}
    /\ saving' = {}
    /\ UNCHANGED <<locks, txs, held, snapshot, nextLease, now, calls, saves>>

Tick ==
  /\ now < Horizon /\ now' = now + 1
  /\ UNCHANGED <<rows, committed, locks, txs, held, snapshot, saving, undone, nextLease, calls, saves>>

Next ==
  \/ \E w \in Workers :
       \/ Call(w) \/ ExpireCancelled(w) \/ ExpireRequeue(w) \/ ExpireLeases(w)
       \/ Select(w) \/ Claim(w)
       \/ HeartbeatLost(w) \/ HeartbeatExpired(w) \/ HeartbeatExtends(w)
  \/ \E k \in Works : cancelRun(k)
  \/ TakeSnapshot \/ Flush \/ SaveSnapshot \/ Tick

Spec == Init /\ [][Next]_vars

-----------------------------------------------------------------------------

(* Type invariant: a row has a lease exactly when it is claimed. *)
TypeOK ==
  /\ \A k \in Works :
       /\ rows[k].status \in {"queued", "claimed", "cancelled"}
       /\ rows[k].lease \in 0..(nextLease - 1)
       /\ (rows[k].status = "claimed") <=> (rows[k].lease # 0)
       /\ locks[k] \in Workers \union {"none"}
  /\ \A w \in Workers :
       txs[w].pc \in {"none", "beat", "cancel", "requeue", "end", "select", "update"}

(* claimNextAvailable, heartbeatLease and expireLeases, however late their  *)
(* transactions run and whatever is saved between their statements: of two  *)
(* workers that were granted the same work, the lease of one has run out by *)
(* the time it was told, unless a save has overwritten one of the leases.   *)
(* Only the merge of a snapshot can bring two workers to one piece of work. *)
ClaimExclusive ==
  \A v, w \in Workers :
    /\ v # w /\ held[v].lease # 0 /\ held[w].lease # 0
    /\ held[v].row = held[w].row
    => \/ held[v].until <= now \/ held[w].until <= now
       \/ {held[v].lease, held[w].lease} \intersect undone # {}

(* Stated by docs/architecture/worker.md: an older snapshot never reopens   *)
(* newer work.  What the merge finds claimed, it does not queue again; the  *)
(* snapshot is always older, as the API process queues no claimed work.     *)
OlderSnapshotHarmless ==
  [][SaveSnapshot => \A k \in Works : rows[k].status = "claimed" => rows'[k].status # "queued"]_vars

(* Stated by worker-queue-repository.integration.test.ts: expired claimed   *)
(* work with a cancellation request becomes cancelled, not queued.          *)
CancelNotRequeued ==
  [][\A k \in Works : rows[k].status = "claimed" /\ rows[k].cancel => rows'[k].status # "queued"]_vars
=============================================================================
