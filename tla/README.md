# A TLA+ development of Bek

Bek is a control plane for one visible Slack teammate: people ask it for work in Slack, on GitHub or
in its console, policies decide what may be done and who has to agree, workers execute the runs, and
the outcome is posted back. This directory holds TLA+ models of the parts of it that decide *what is
executed, how often, with whose approval, and whether anybody is told*, TLC configurations that check
them, and TLAPS proofs. Paths below are relative to `src/`, the repository root.

Contents: [the system](#the-system) · [modules](#modules) · [runs](#what-the-runs-check) ·
[bounds](#bounds) · [fairness](#fairness) · [proofs](#what-is-proved) ·
[divergences](#where-the-code-and-its-documents-differ) · [assumptions](#assumptions) ·
[what is not modelled](#what-is-not-modelled) · [plan](#plan)

## The system

One Node process holds almost everything in memory: the *store* (`BekStore`), the *worker queue*
(`InMemoryWorkerQueue` behind `SnapshotPersistedWorkerQueue`), the HTTP handlers (`apps/api/src/app.ts`)
and the drains that execute work. Handlers and drains are JavaScript functions: they run alone up to an
`await`, and between two of their steps any other one may run. Both the store and the queue save a
snapshot after each change and restore the last one at start. Several worker processes may also share
the queue through the database.

| component | state | operations | interacts with |
| --- | --- | --- | --- |
| worker queue, `packages/worker/src/index.ts:397` | records (one per attempt), leases, approval gates, dead letters, id counters | enqueue, claimNext, heartbeat, expireLeases, settle, cancelRun, redriveDeadLetter, resumeAfterApproval | called by the controller, the runtime service and handlers; events go to the store |
| worker runtime service, `index.ts:1470` | the attempt at hand, sandbox lease, approval it asks for | processNext, drain, runAdapter and its checkpoints | queue, policy, budgets, sandbox, adapters, GitHub |
| queue and store persistence, `index.ts:1206`, `packages/core/src/store.ts:163` | a promise chain, an error | recordChange, flushChanges | database |
| queue repository, `packages/db/src/worker-queue-repository.ts` | rows | readSnapshot, saveSnapshot, claimNextAvailable, heartbeatLease, expireLeases | PostgreSQL; other processes |
| local worker controller, `apps/api/src/worker-runtime.ts` | - | enqueueRun, queueApprovalDecision, cancelRun, drain, applyProcessedDecision | queue and store: keeps the two in step |
| core store, `packages/core/src/store.ts` | runs, approvals, deliveries, audit, configuration | createRun, decideApproval, setRunStatus, enqueue/begin/complete/failOutboundDelivery, ... | everything |
| Slack outbox, `apps/api/src/slack-outbound.ts`, `app.ts:1408-1536` | outbound deliveries in the store | enqueue, drain, post with retries | Slack |
| Slack ingress, `app.ts:3593-4430` | ingress deliveries (dedupe keys), OAuth nonces | events, commands, approval buttons, OAuth redirect; rollback of a key when a flush fails | store, queue, Slack |
| workspace administration, `app.ts:1949-3448` | channels, bundles, grants, MCP servers, settings, memory | one request each; `POST /api/runs` with `Idempotency-Key` | store |
| policy, identity, memory, `packages/core/src/policy.ts`, `identity.ts`, `memory.ts` | none (pure) | evaluatePolicy, resolveAgentIdentity, selectInjectableMemoryChunks | store, ingress |
| middleware, `app.ts:387-537`, `packages/core/src/rbac.ts`, `sessions.ts` | rate-limit buckets, session cookies | size and rate limits, authentication, scopes | every route |
| budgets and model router, `packages/worker/src/index.ts:3682-4045`, `packages/model-router` | what each run has cost | budget guard, approvals, ranking, failover | runtime service |
| sandbox, `packages/sandbox` | docker containers | policy checks, create, exec, download, destroy | runtime service |
| MCP gateway, `packages/mcp-gateway` | schema cache, quarantine, allowlist, approvals | upsert, approve, createMcpProxyRequest, execute | runtime service |
| GitHub installations, `app.ts:960-1162, 2640-2805` | installation rows, repository places | webhooks, binding of a repository | store, GitHub |
| GitHub draft pull requests, `packages/github` | plan, approval payload, token | branch, commit, pull request | runtime service, GitHub |
| snapshot repository, `packages/db` | eighteen tables, the model usage ledger, memory tables | save (delete and insert all), read, ledger writes | PostgreSQL |
| credentials, `packages/credentials`, `apps/api/src/credential-vault.ts` | encrypted tokens, leases | install, revoke, post, issue, renew, resolve, sweep | store, outbox |
| agent loop, `packages/runtime` | the transcript of a run | steps with tool calls, pause, resume | runtime service |
| observability, web console, scripts | none that matters | read-only views | - |

What is hard here:

* **Interleaving.** A drain holds a lease while its adapter runs for minutes; meanwhile the run is
  cancelled, its approval is decided, the lease expires and another worker claims the work.
* **Two owners of one status.** The store shows a run's status to people, the queue decides what is
  executed, and a drain tells the store of its settlements only after its whole loop.
* **Approvals.** They are bound to a payload, expire, are decided twice, and come after the work has
  moved on. One run may pause at several checkpoints.
* **Retries.** Attempts that fail, leases that expire and dead letters that are redriven all continue a
  run, each in its own way.
* **Persistence behind the answer.** Saves are queued; a failed one leaves an error for whoever
  flushes next.
* **At-least-once neighbours.** Slack's answers are lost, the process ends between a post and its record.
* **Several processes on the same rows**, with a merge that goes by timestamps which were taken earlier.
* **Everything is deleted and inserted again** by each save, while the ledger of model calls hangs on the deleted
  rows and is written from other connections.
* **What was checked is not what is used**: schemas, plans, grants, tokens and budgets change between
  the check, the approval and the use.
* **Two opinions of one fact**: two parsers of a network target, two clocks on one lease, several ways to a role.

For each component the properties that make it correct are the ones listed with its runs below; the
full list of hazards, each at its line, is in `PROJECT.json`.

## Modules

| module | models | how it corresponds to the code |
| --- | --- | --- |
| `WorkerQueue` | `InMemoryWorkerQueue` | One action per method and outcome (settlement is split by what becomes of the attempt). `records` is the array of records, a record its status, attempt state, lease, cancel mark, gate and retry link; a record is its position. The clock is `now`. The events a method emits are left out. |
| `AttemptLifecycle` | the states of one attempt as `docs/architecture/worker.md` tells them | The abstract specification: an attempt waits, is held, pauses and ends once. `WorkerQueue` implements it under a mapping that looks at one record. |
| `WorkerRuntime` | `WorkerRuntimeService.processNext` and what it calls | Each worker goes step by step (claim, plan, budget, sandbox, adapter, destroy, heartbeat, settle) on its copy of the record, with the queue reduced to the one run it carries. Policies and budget figures change between steps. |
| `ControlPlane` | handlers, `LocalWorkerController`, runs and approvals of the store | Composes `WorkerQueue` (by `INSTANCE`) with the store's view. A drain is a claim, an adapter run whose outcome is arbitrary, a settlement, and at the end `Apply`, item by item in one step as the code does. |
| `SaveChain` | `recordChange` and `flushChanges`, the same in the queue and in the store | `chain.pending` are the snapshots still to be saved, each standing for the number of changes it has. Whoever awaits a link is resumed before the next link starts, as promises do. |
| `QueueRepository` | `DrizzleWorkerQueueRepository` | A call takes its time; the statements of its transaction, with their row locks, run at any later time. An API process copies its snapshot (`Flush`) and merges the copy into the rows whenever no statement has them locked (`SaveSnapshot`), between the statements of a transaction too. |
| `SlackOutbox` | outbound deliveries, drains, posting | Drains list, then take, post and record one delivery after the other; a crash goes back to the saved snapshot. |
| `ModelRouter` | `packages/model-router`: cost, candidates, ranking, failover | Operators over small registries of models; prices in whole cents per unit. |
| `Spending` | the budget guard, budget approvals, calls with failover, what the store counts | Each check reads the store some steps before it is used; drains report late; runs fail, are retried, redriven and cancelled. |
| `SandboxPolicy`, `Sandbox` | `packages/sandbox` and the worker's sandbox adapter | Policy checks are operators on parsed hosts, ports and paths; every docker call starts in one step and answers, fails or times out in another, with two workers at the same attempt. |
| `McpGateway` | `packages/mcp-gateway` | JSON schemas and values as small records; one tool whose server presents one schema after another. |
| `SlackIngress` | Slack's callbacks and the OAuth redirect | A handler is one step up to its flush; each store call queues a snapshot; deliveries repeat until they are answered; saves fail and the process restarts. |
| `AccessPolicy`, `Workspace` | policy, identity, memory retrieval; the administrative requests and `POST /api/runs` | The pure functions are operators, the requests actions on sequences kept newest first as in the store. |
| `GitHubInstall` | webhooks, installation rows, repository places, binding | GitHub's side (install, rename, remove, send, redeliver) is external; the handler is one step, its flush another. |
| `GitHubDraftPr` | plan, approval payload, token, REST and fake client | Each request is a step that may fail or lose its answer, with two workers and other people at the repository. |
| `AdminAuth` | the middleware before every route, session cookies | A request passes in one step; time passes in between. |
| `SnapshotRepository` | the tables, saves, hydration, ledger and memory tables | A table is a set of rows with its foreign keys and unique indexes; a save is begin, delete, commit; ledger writes come at any point. What the store holds and no row is made from (`inMemoryOnly`: the memory API's sources and chunks, identity profiles) is in the snapshot too. What PostgreSQL does on delete and insert is external. |
| `Credentials` | vault, token choice, health, lease broker | A cipher is what opens it; a lease is its place in the broker's map. A message is posted with the client resolved in the same turn (`Post`) and posted again, later, with that same client (`Retry`). |
| `Services`, `MCServices` | - | Put the ten services that share no state side by side: `unit` says which one a behaviour is about. `Services` takes `Sandbox`, `AdminAuth`, `Credentials`, `GitHubDraftPr`, `SlackIngress`, `Workspace` and `SaveChain` with arbitrary constants, and its `Spec` is what their theorems are about; `MCServices` adds the other three and the values, and the run checks its `AllSpec`. |
| `MC...` | - | Model values and symmetry sets for TLC. |
| `WorkerQueueProofs`, `ControlPlaneProofs`, `WorkerRuntimeProofs`, `QueueRepositoryProofs`, `SlackOutboxProofs`, `SpendingProofs`, `ServicesProofs`, `ConnectorProofs` | - | Theorems about the module each is named after; in `ServicesProofs` about `Sandbox`, `AdminAuth`, `GitHubDraftPr` and `SaveChain`, in `ConnectorProofs` about `Credentials`, `SlackIngress` and `Workspace`. `ControlPlaneProofs` takes the queue's theorems by `INSTANCE`. |

A definition named `X_Y` that stands before `X` is a faulty variant of `X`: a slip that the code might
have. It is used nowhere in the specifications; putting it in the place of `X` makes a property fail,
which shows that the property depends on the code it is about.

## What the runs check

**`queue_once`** (`WorkerQueueOnce.cfg`, 490,000 states): the life of a run that is enqueued once, with
late and duplicate approval callbacks, a heartbeat, expiring leases, retries and redrives. Live leases are
exclusive (`LeaseExclusive`); a cancelled attempt is continued by nothing (`CancelSticks`); work
resumes only on a callback with the hash it paused on (`ApprovalFidelity`); at most one attempt of the
run is active (`OneActivePerRun`); work asked to cancel ends, even if its worker never comes back
(`CancelCompletes`).

**`queue_contract`** (580,000): two runs that may be enqueued again at any time. Retries
form a chain with consecutive numbers and within the limit (`RetryChain`), and each
attempt follows `AttemptLifecycle` (`ImplementsLifecycle`).

**`runtime_safety`** (2,780,000): two workers, two attempts, expiring leases, a changing sandbox grant, overrun and
pull request plan. An attempt is settled once (`SettledOnce`); nothing is executed but what was approved, in the same
attempt, on the terms or the plan it is executed with (`CheckpointsCleared`).
**`runtime_progress`**: with one checkpoint that needs an approval, the run ends, through failures and retries (`RunEnds`).

**`control_one_run`** (1,670,000): every handler and two drains. The store and the queue agree on which
approval the work waits for (`GatesMatchApprovals`); a run is shown completed or failed only if an attempt of it was
(`OutcomesTrue`); a run shown cancelled has no active attempt, unless it was dead-lettered before (`CancelledIsStopped`).

**`repository_claims`** (3,760,000): one row, two workers whose transactions run late, and an API process whose
snapshots, with cancel requests, are saved between any two of their statements. The two workers never both have
reason to believe that they hold the row, unless a save has overwritten the lease of one (`ClaimExclusive`). That
saves do so is what `repository_merge` [shows](#where-the-code-and-its-documents-differ).

**`outbox_drains`** (290,000): two overlapping drains, two messages that are enqueued three times in all, a crash.
A message is acknowledged once per life of the process (`AckedOnce`), and ends, delivered or failed, as long as the
process lives (`EndsUnlessCrashed`).

**`spending`**: two runs in two places, two policies, two models, failed calls, retries, redrives, cancellations and late
reports. Runs let through without an approval fit the day's ceiling together (`DayCeilingsKept`); no call above a
run's ceiling is made but at most at the price of an approval that holds (`OverCeilingApproved`).

**`services`** (2,900,000): ten services, each by itself.

| unit | instance | properties |
| --- | --- | --- |
| `sandbox` | two workers, two attempts, one expired queue lease, 129 policies | `RunsInOwnContainer`, `LeftBehindOnlyByFaults`, `EgressNeverWider`, `SourceNeverWritten` |
| `mcp` | five schemas presented up to three times, one tool | `ReviewedSchemasOnly`, `CompatibleKeepsInputs` |
| `slack` | any two callbacks of 19, each delivered twice, two faults | `OneRunPerCallback`, `StateExchangedOnce` |
| `workspace` | any three requests on three external ids, two equal but for case | `ReferencesResolve`, `MemoryConfined` |
| `github` | three webhooks of two installations and two repositories, four deliveries in any order, one failed flush | `BoundIsHeld` |
| `pull` | two workers, three attempts, two faults, two acts of other people, REST and fake client | `CommitsAsApproved`, `OneCommitOnePullRequest` |
| `admin` | four requests of two peers in two environments, over a window and a session's life | `RateKept`, `ActsWithinRole` |
| `snapshot` | any two changes of a seeded store, one fault, ledger writes | `SavedReadsBack`, `LedgerKept`, `SavableSaves` |
| `credentials` | two Slack workspaces, three vaults, leases of four credentials, four operations, three attempts at each message | `PostsCurrentToken`, `LeasesEnd`, `HealthMatchesBroker` |
| `save` | three requests, four changes; any save may fail | `ReturnedIsSavedOrTold` |

What each of them says is told where it is defined. Some are as strong as the code lets them be, and name what they
leave out. `OneRunPerCallback` grants one more run for each failed flush or restart. `LedgerKept` leaves out rows
written between a save's reading and its deletes. `SavedReadsBack` says that what no row is made from reads back
empty. `SavableSaves` names the five things that the store accepts and a table does not; a value that the type of
its column refuses is not among what is modelled. `PostsCurrentToken` lets a repeated attempt carry the token that
was the latest when the message was first sent: the workspace may have been installed again, or its token revoked,
since. `BoundIsHeld` is about webhooks handled in order, and `RateKept` says twice the limit because windows are fixed.

The modules state more than the runs list: type invariants, and properties that were checked with the same
configurations and are kept for proofs or for a change of the code (`FieldsAgree`, `TerminalFrozen`, `TransitionsLegal`,
`FirstAttemptUnique`, `IdsUnique`, `DecisionsFinal`, `DeliveredWasAcked`, `NoSilentLoss` and `SavedGrows`, which are
proved; `DeadLettersExact`, `ClaimsOldestDue`, `OneAttemptAtATime`, `NothingLeftBehind`,
`AttemptsBounded`, `FlushesReturn`, which hold on these instances). To check
one, add it to the configuration.

The runs whose result is a violation are under
[divergences](#where-the-code-and-its-documents-differ).

`CHECK_DEADLOCK FALSE` stands in every configuration because the clock and the counters are bounded: a
behaviour that has used them up stops.

## Bounds

| bound | where | why it is enough |
| --- | --- | --- |
| `Horizon` | queue, control plane, outbox, repository | Long enough for a lease to be granted, extended, expire and be granted again, and for an approval to expire while work waits. |
| `MaxAttempts = 2` | queue, control plane, runtime | A first attempt, a retry and a dead letter; the code treats later retries alike. `runtime_progress` uses 3. |
| `MaxRecords` 3-4 | queue, control plane | A retry, a dead letter and a redrive of it. |
| `MaxApprovals` 1-2 | queue, control plane | Two tell an old approval from the present one. |
| two workers or drains | all | Conflicts are between two holders; a third acts as one of them after its lease is lost. |
| `MaxChanges = 4`, three flushers | save chain | One flush that throws, one that shares its link, one that comes later. The theorems have no bound. |
| `MaxLeases`, `MaxCalls`, `MaxSaves`, `MaxContents`, `MaxUnsaved`, `MaxCrashes` | repository, outbox | Named in the modules; each lets the counted event happen again after the interesting one. |
| `MaxExpired`, `MaxPresented`, `MaxSent`, `MaxOps`, `MaxTries`, `MaxFaults`, `MaxEvents`, `MaxDelivered`, `MaxFails`, `MaxOutside`, `MaxRequests`, `MaxChanges` | services | Given in `MCServices` with each instance; each lets a call be repeated, or overlap with another, after the fault or change in question. Two faults let a failed save and a restart meet. |
| `Days = 1`, `MaxAttempts = 2`, `MaxPaid = 1` | spending | Two runs compete for one day's ceiling, and the day may change under them once; a retry and a redrive come back to it. |
| `MaxBuckets = 0` | middleware | Every second peer makes the buckets too many, so that pruning happens. |
| `Extensions` | repository | What a heartbeat may extend a lease by: as long as a lease, and longer. |
| `CredentialMaxAttempts = 3` | credentials | The code's default; the second and third attempt find what happened after the first. |

## Fairness

* `WorkerQueue!FairSpec`: time passes and lease sweeps keep coming. Every `claimNext`, `settle` and
  `heartbeat` sweeps, and drains are started by requests; no fairness is put on workers.
* `WorkerRuntime!FairSpec`: each step of a worker is taken (an awaited call returns) and a human answers
  a pending approval.
* `ControlPlane!FairSpec`: time passes and drains go on; used for the run whose property fails, which must not fail
  merely because everything stops.
* `SaveChain!FairSpec`: a save ends, well or badly, and an awaiting flush is resumed. Nothing is assumed of
  requests.
* `SlackOutbox!FairSpec`: saves end, time passes, and each drain that is started goes on. That drains keep
  being started is an assumption about traffic: in the code only Slack requests and the operator's
  endpoints start one (`app.ts:1521`, `3196`), and no timer does.

The `services` and `spending` runs check safety only and assume no fairness.

## What is proved

TLAPS checks every proof for arbitrary constants that satisfy the modules' assumptions: positive durations and
limits, arbitrary sets of runs, workers, messages, hashes and requests. The bounds of the models (`Horizon`,
`MaxRecords`, `MaxApprovals`, ...) are arbitrary numbers there, so that nothing depends on the values of the runs.
The assumptions say no more than that, that the model value for "nobody" is not a worker, and, of `Services`, what
the code itself enforces: a limit or a window of the rate limit may be zero (`parsePositiveInteger` lets zero
through), the broker's default lifetime is within its limit, and a credential has one of four statuses and expires at
a time or never. `Spending` supposes that there are finitely many runs, that daily ceilings are natural numbers (policies
are seeded, with whole cents) and that routes cost whole cents (`calculateModelUsageCostCents` rounds up).
What a theorem supposes beyond that is an `ASSUME` in its statement and is named below. The theorems of the services are
about `Services!Spec`, where each is guarded by `unit`, and so about each service by itself.

| module | theorems | supposing |
| --- | --- | --- |
| `WorkerQueueProofs` | `TypeCorrect`, `FieldsAgreeHolds`, `TerminalFrozenHolds`, `TransitionsLegalHolds`, `LeaseExclusiveHolds`, `CancelSticksHolds`, `FirstAttemptUniqueHolds`, `IdsUniqueHolds`, `ApprovalFidelityHolds`, `RetryChainHolds`, `ImplementsLifecycleHolds`; `OneActivePerRunHolds` | the last one: runs are enqueued once (`Reenqueue = FALSE`) |
| `ControlPlaneProofs` | `DrivesTheQueue`, `QueueKept`, `TypeCorrect`, `GovernedHolds`, `GatesMatchApprovalsHolds`, `OutcomesTrueHolds`, `CancelledIsStoppedHolds`, `DecisionsFinalHolds` | - |
| `WorkerRuntimeProofs` | `TypeCorrect`, `CarriedHolds`, `CheckpointsClearedHolds`, `SettledOnceHolds` | - |
| `SpendingProofs` | `OverCeilingApprovedHolds`; `DayCeilingsKeptHolds` | the last one: no place has two budget policies (one is seeded, and no request makes another); without it TLC refutes the property, see [below](#where-the-code-and-its-documents-differ) |
| `QueueRepositoryProofs` | `TypeCorrect`, `InvHolds`, `ClaimExclusiveHolds` | - |
| `SlackOutboxProofs` | `InvHolds`, `AckedOnceHolds`, `DeliveredWasAckedHolds` | - |
| `ServicesProofs` | of the sandbox: `SandboxInvHolds`, `RunsInOwnContainerHolds`, `LeftBehindOnlyByFaultsHolds`, `EgressNeverWiderHolds`, `SourceNeverWrittenHolds`; of the middleware: `RateInvHolds`, `RateKeptHolds`, `SessionInvHolds`, `ActsWithinRoleHolds`; of draft pull requests: `PullInvHolds`, `CommitsAsApprovedHolds`, `OneCommitOnePullRequestHolds`; of saving: `SaveInvHolds`, `NoSilentLossHolds`, `ReturnedHolds`, `SavedGrowsHolds` | - |
| `ConnectorProofs` | of credentials: `PostsCurrentTokenHolds`, `LeasesEndHolds`, `HealthMatchesBrokerHolds`; of Slack's callbacks: `OneRunPerCallbackHolds`, `StateExchangedOnceHolds`; of the workspace: `ReferencesResolveHolds`, `MemoryConfinedHolds` | - |

**The queue.** The argument goes in two stages. First, `NextStep` shows, action by action, that a step is a `Step`:
it pushes at most one record, in one of three known forms, and every other record *evolves* in one of the few ways
`Evolves` lists. What then has to be shown of a property is shown of `Evolves` alone, not of twenty actions again.
`FieldsAgree` strengthens the type invariant: it says which lease, mark and gate a record in each state has, and
`TransitionsLegal` follows from it with one more look at `Evolves`; `TerminalFrozen` and `LeaseExclusive` need the
type invariant only. `CancelSticks` and `FirstAttemptUnique` are not inductive: they depend on how records are
chained. `Ancestry` says what is needed: an attempt that continues another continues one that has ended failed or
dead, every dead letter tells of a dead record, and attempt numbers stay within the limit. With `FieldsAgree` (a
failed or dead record carries no cancel request) it gives `CancelSticks`. `OneActivePerRun` follows from `Step` and
the type invariant. `ApprovalFidelity` needs two more facts: ids are unique, or a callback could find another
record; and a grant is on record for no approval that has not been drawn yet (`GatesDrawn`), or a new gate could
inherit an old grant. `RetryChain` follows from `Lineage`: a failed record has exactly one successor, with the next
number; it gets it in the very step it fails in, and only that step refers to it. `ImplementsLifecycle` maps each
record to the abstract attempt (`View`) and shows, kind of change by kind of change, that a `Step` is a step of
`AttemptLifecycle` or changes no attempt; its tokens are unique because lease ids are, and its retries are in order
because of `Lineage`.

**The control plane.** `DrivesTheQueue` shows that each handler's and drain's step is a step of the queue, so that
the queue's theorems hold in the composition and need not be shown again. `Governed` is the inductive invariant of
store and queue together. None of its properties is inductive alone, since a drain tells the store of its
settlements long after it made them: what a drain still has to tell must be true (`Told`) and new (`Requested`: an
approval it is going to announce has been drawn, is not known to the store, and is announced by no other drain), the
store knows no approval that was never drawn (`Announced`), a run has work only after it was created and let through
(`Begun`), dead letters are of runs with work (`Buried`), gates that were passed name an approval (`Gated`), and a
run that was never dead-lettered has one attempt that has not failed (`OneOpen`), so that the settlement a late
drain reports is that of the attempt the run has. TLC checked these parts on the instance of `control_one_run`
before they were proved.

**The worker runtime.** `Carried` relates each worker's copy of the record to what was approved: a gate that reads
"approved" is on record with its attempt, action and payload, and a worker past a checkpoint carries a gate, or
terms, that clears it. This is what carries `CheckpointsCleared` over steps between which policies, plans and other
workers change. `SettledOnce` needs `HolderAtWork` (the lease names a worker that is at the very attempt) and
`ReportsFinal` (a final report is of an attempt that is over).

**The queue repository.** `Inv` is about all the copies of the rows there are: the rows, what of them is committed,
the API process's snapshot and the copy being saved. In each, a lease id is of one worker and one row
(`LeasesKnown`), and is there exactly when the row is claimed (`Proper`). A lease that has not run out is in its row,
with at least the time its worker was told, unless a save has undone it (`LeasesKept`); so no statement that looks
for expired or queued rows finds that row, however long before the statement the time it goes by was taken.
`Unlocked` and `CallsProper` carry what a statement has seen to the next: a row is as it was committed unless
somebody has it locked, and what a claim selected stays locked and queued, since a save waits for the lock. Nothing
is assumed of clocks or of when snapshots are saved.

**Persistence.** The inductive invariant of the save chain is the conjunction of its first three properties; its
core is that the pending links carry consecutive snapshots that follow those settled, so that settling a link either
saves exactly one more change or leaves the mark.

**The outbox.** A delivery that is being posted is on record as taken by exactly one drain (`TakenByOne`), is
acknowledged at most once per life of the process and only if it is then recorded (`AckedWhenDelivered`), and every
snapshot on its way to the database is true about deliveries (`RecordsTrue`), which is what a restart falls back to.

**The sandbox.** A worker that uses a container, or has still to destroy one, created the container that has the
name (`OwnsName`); as long as nothing has failed, every container is in use or about to be destroyed (`Accounted`).
`EgressNeverWider` compares the two parsers of a network target, for every policy and target. `SourceNeverWritten`
holds because of the order in which roots are tried: the first place of the order whose root holds the path decides,
and that of the source comes before the writable ones.

**The rate limit.** The buckets only say how much a window has counted so far, and pruned ones nothing; what the
property counts is the history. `RateInv` says that there is a function from the requests that arrived to the window
each was counted in (`Windows`): a request came after its window began and before it ended, two windows of a key
are the same or at least a window's length apart, none lets more through than the limit, and a window that is not
over is still its key's bucket, so that pruning loses nothing. A stretch of a window's length then meets at most two
windows (`AtMostTwice`). With a window of zero the property says nothing, as the code then limits nothing.

**Sessions.** `SessionInv`: a cookie is older than those renewed from it and has their role (`Signed`), and what was
served was within the role of the caller's cookie while it lasted (`Served`). That following renewals back to the
first cookie is well defined (`FirstDefined`) and leads to the same role (`FirstHasRole`) is shown by a least
counterexample, since the induction theorems cannot be used here.

**Draft pull requests.** `OneCommitOnePullRequest` counts the commits of the branch; the proof follows all that was
ever published on the branch or the base (`Publishes`). That set holds the parents of its commits and no commit a
worker has made and not yet moved the branch to, and it has at most one commit of Bek's more than the branch was
deleted. A further one could only come from a worker that read the branch at the commit published last; `Patched`
says that there is none, since a worker commits on a base it has read from the base branch. Workers' requests are
reduced to seven effects on the repository (`Works`) and to what a worker learns in a step (`Moves`), with one lemma
per request that covers its lost answers too. `Opened` counts pull requests in the same way: a new one is accepted
only when none is open. `Agreed` says that plan, payload hash and commits agree from the approval on: only the
comparison of hashes at the start of an attempt makes it inductive. TLC checked the whole invariant on the
pull requests of `services` before it was proved.

**Credentials.** `Posting` says that the active credential of a workspace holds the token Slack issued last
(`HoldsLatest`), and that a message that is about to be posted again carries the environment's token or the one that
was the latest when it was first sent (`KeepsToken`); `Leasing` that leases which were found over are not active, and expire with their credential.

**Slack's callbacks.** `OneRunPerCallback` grants a further run for each save that failed or restart that lost one, so
that the invariant has to count. `Ingressed` says of every snapshot there is (in memory, queued to be saved, saved)
that a callback has in it at most one run more than were lost. What makes it inductive is that there is *room* for
the run of the next delivery: a callback whose key is not in memory and that Slack has no answer to has no more runs
than were lost (`Owed`). In a snapshot that a restart may go back to, the room may be what that restart makes,
when a request of the callback is under way (`Held`). `StateExchangedOnce` follows from `Exchanging`: as long as no
save failed, keys only grow from the saved snapshot over the queued ones to memory (`Growing`); a
redirect's request is the only one of its callback, waits for a snapshot that has its key, and has not exchanged its
code (`OneReady`); a code that was exchanged has its key saved (`Exchanges`). Both proofs go in two stages, as the
queue's does: a step of a handler is reduced to what it appends to memory and queue, and the invariant is shown of that.

**The workspace.** `Resolving` says that ids of places are drawn upwards and are unique, that every list of places is
well-formed, and that bundles and runs point at places there are. Deleting a place keeps it because the same request
detaches the place from every bundle, and a place with runs is not deleted. `MemoryConfined` uses that ids are unique: the
place a run's request finds by id is the one its memory is retrieved for.

**Spending.** `SpendsAsApproved`: a worker that calls a provider carries no approved route, or carries the default model
at the price of an approval that holds. It is inductive since an approval does not change while its run is calling; a
failed call falls over to other models, and each of those is skipped unless it is within the ceiling or is the
approved one. `DayCeilingsKept` is about a sum over runs that were let through one after the other, each against a store
read some steps before. `DayInv` says that there is an order of those reads (`Ordered`) such that what a run has
read covers all it counts that read before it, and a run that was let through fits in together with those
(`Covered`). A run that reads becomes the last of the order. In every other step each run goes *onward* (`Onward`): it
gets no heavier, weighed at the lesser of estimate and cost, and whoever is let through had a read that fits
(`Fits`); a run that failed or was cancelled and comes back reads anew. Of the runs let through on a day, the last to
read accounts for all of them. The sums are folds of the community modules: that they depend neither on the
order of the elements nor on the set they are part of (`TotalWithout`, `SumsAgree`), and grow with set and summands
(`TotalLeq`), is shown by least counterexamples, as the fold's recursion is a `CHOOSE` that has to be shown to have
a solution first (`SumsIs`). TLC checked `DayInv` on the instance of `spending` before it was proved.

Only model-checked: the liveness properties (`CancelCompletes`, `RunEnds`, `EndsUnlessCrashed`: fairness and
`ENABLED` are out of the prover's reach); `ReviewedSchemasOnly`, `CompatibleKeepsInputs`, `SavedReadsBack`,
`LedgerKept` and `SavableSaves`, since `McpGateway` and `SnapshotRepository` use recursive operators (nested JSON
schemas, cascading deletes); and `BoundIsHeld`, since a
webhook handles a list of repositories one after the other, each on what the one before left.

## Where the code and its documents differ

Three runs end with a counterexample; `PROJECT.json` quotes the sentence each one contradicts.

| run | what happens |
| --- | --- |
| `control_expiry` | An approval that paused work waits for is decided after its expiry: the store marks it expired, nobody tells the queue, and the work waits for ever. |
| `runtime_two_approvals` | A run over budget whose sandbox also needs an approval: the work carries one approval, so clearing one checkpoint un-clears the other. |
| `repository_merge` | A snapshot taken before a claim is saved after it. The claim's time, taken before its transaction began, is not later than the row's, so the merge takes the snapshot's row: claimed work is queued again while its worker executes it. |

The modules show more of this kind when a configuration is changed by hand:

| change | what TLC finds |
| --- | --- |
| `ControlPlaneExpiry.cfg` with `CancelledStaysCancelled` | A run is cancelled while the approval it was created with is pending. The approval is granted later, and the cancelled run is queued and executed (`store.ts:889`). |
| `ControlPlaneExpiry.cfg` with `CancelReachesRun` | Claimed work is asked to cancel and its lease expires: the sweep ends it, no settlement follows, and the run keeps its old status in the store (`packages/worker/src/index.ts:1146`, against `docs/architecture/worker.md:240-243`). |
| `SlackOutboxDrains.cfg` with `DeliveredIsCurrent` | A second outcome under a delivered key replaces the recorded content and is not posted (`store.ts:988`). |
| `Services.cfg`, `Units = {"save"}`, `ReturnedIsSaved` | Two requests await the same failed save; one gets the error, the other acknowledges (`store.ts:186`, against `docs/setup/slack.md:262-263`). |
| `SlackOutboxDrains.cfg` with one key, `MaxContents = 1`, `Horizon = 2` and `IntentsEnd` | The process ends while posting: the row stays `delivering`, which no drain lists (`store.ts:1043`, against `docs/reference/data-model.md:43-45`). |
| `Services.cfg`, `Units = {"workspace"}`, `OneRunPerKey` | Two requests with one `Idempotency-Key` overlap: each looks the key up before either records it (`app.ts:3391-3437`, against `docs/launch-readiness.md:9`). |
| `Services.cfg`, `Units = {"slack"}`, `LeftChannelsStayQuiet` | A channel Bek has left is patched in the console: the mark that Bek left is replaced with the rest of the metadata, and mentions create runs again (`app.ts:2853-2884`, `store.ts:309`, against `docs/setup/slack.md:36-38`). |
| `Services.cfg`, `Units = {"slack"}`, `AnsweredIsWritten` | A duplicate that arrives before the first delivery is saved is acknowledged at once; Slack stops repeating, and the process ends (`app.ts:4174-4182`, against `docs/setup/slack.md:50`). |
| `Services.cfg`, `Units = {"github"}`, `HeldIsBound` | After a re-installation of the App a repository's place cannot be created again, and stays bound to nothing (`app.ts:1035`, `store.ts:281`, against `docs/setup/github.md:186`). |
| `Services.cfg`, `Units = {"snapshot"}`, `UsageNeverRefused` | One drain's flush writes the ledger rows of another, whose run event is not saved yet: the foreign key refuses them (`worker-runtime.ts:222`, `353-365`, against `docs/reference/data-model.md:69-71`). |
| `Services.cfg`, `Units = {"snapshot"}`, `ChunksKeepPlace` | A save deletes all places, and `memory_chunks.place_id` is set to null (`snapshot-repository.ts:839-866`, against `packages/db/src/memory-repository.ts:18-22`; nothing in production calls that repository yet). |
| `Spending.cfg` with `Policies <- WidePolicySet` and `Governs <- Overlapping`, `DayCeilingsKept` | A place with two budget policies (which only rows written by hand give it) is checked against the lower daily ceiling alone, and a run there is let through although it exceeds the ceiling of the other policy (`packages/worker/src/index.ts:3799-3807`, against `docs/operator-checklist.md:171-173`). |
| `QueueRepositoryMerge.cfg` with `CancelNotRequeued` | A cancel request is saved between the two statements of an expiry, which queues the work again (`worker-queue-repository.ts:252-296`, against `worker-queue-repository.integration.test.ts:134`). |

Reading the code for the models also showed the following, which no property states:

* *Snapshots.* After a refused save the queued ones are skipped until the next flush. Ledger rows written between a
  save's reading and its deletes go with their run. `readSnapshot` orders bundles and places by id, the store newest
  first, so that policy ties may fall differently after a restart. Pending ledger writes die with the process.
  `POST /api/memory/sources` and `/chunks` answer 201 after a flush (`app.ts:1949-2020`), but no row is made from what
  they record: a restart loses it. A bundle or runtime profile renamed to a taken name, a run whose
  `requesterPrincipalId` is no principal's and an install by a token whose principal is none make that save and every
  later one fail (`store.ts:404-543`, `673-709`), as do two bundles created with one name, an external id in a
  bundle's places and a second approval of one action and payload.
* *Credentials.* A lease of a credential that is revoked later still resolves, since the broker keeps a copy. A message
  whose post failed is posted again with the client of its first attempt, whose token may be revoked by then. A late
  `tokens_revoked` after a new install revokes the new token. Without a usable stored token the environment's is used
  for any workspace.
* *GitHub.* A retry after the commit landed fails at the branch, so the pull request is never opened; a plan that
  redaction changes can never be executed. Deliveries out of order bring back a removed repository.
* *Workspace.* A bundle created with an external id is attached to nothing. Detaching a bundle's last place makes it
  a baseline of the whole workspace. A request may answer 409 after it has applied its change.
* *Budgets.* Failed and cancelled runs do not count against the day's ceiling, whatever they have cost.
* *MCP.* `ToolSchemaCache.approve` activates a schema without validating its shape; an approval is bound to a request
  id, not to its input.
* *Sandbox.* An allowlist entry `https://x:443` loses its port and covers every port of the host. An expired queue
  lease keeps the attempt number, so that the next create fails on the container's name.
* *Middleware.* Rate limits are fixed windows, in memory, so that twice the limit passes across a boundary; sessions
  can be renewed with a session.

## Assumptions

* A function runs alone between two `await`s (JavaScript); at an `await` any other may run.
* PostgreSQL (in `QueueRepository`): row locks, `SKIP LOCKED`, statements that wait for a locked row see it as
  it was left; a transaction that loses a deadlock is not modelled. The upserts of one `saveSnapshot` are one
  step, at its commit: it has then locked every row since it compared it, so that no worker's statement came between;
  that rows it has locked are passed over by a claim is in `Select`, which may always find none. The processes'
  clocks agree; a time that was taken may be used at any later time.
* Slack: a post is acknowledged, refused, or its answer is lost; a lost answer looks like a transient failure.
* Adapters, plan providers, policies and budgets may answer anything of their type, at any time.
* PostgreSQL (in `SnapshotRepository`): read committed, foreign keys checked per statement, `on delete cascade` and
  `set null` as `packages/db/src/schema.ts` declares them; a ledger write that meets a lock waits for the save.
* A cipher is opened by the key and additional data it was made with, and by nothing else; a signed value was issued by Bek.
* GitHub and docker: a request is refused, answered, or takes effect while its answer is lost.
* Hashes do not collide: a payload hash is a model value.

## What is not modelled

* **Web console** (`apps/web`): it presents what the API answers and holds no state beyond forms.
* **Observability**: metrics, traces and reports are computed from snapshots and change nothing.
* **Scripts, deployment, Slack's Block Kit texts, HTTP adapters to model providers**: wording, formatting and I/O.
* **Redaction and signatures**: text patterns and cryptography; models take their effect (a text becomes another one, a
  signature is good or not).
* **Agent loop**: `WorkerRuntime` has its outcomes and pauses; what a model proposes at each step is arbitrary, and a
  run that resumes treats every grant as approved, so that following single tools adds nothing that is decided there.
* Of modelled parts: events of the queue and audit entries, the append-only tables of the queue repository, names and
  descriptions, the preparation of Slack messages.

## Plan

Done, in this order: (1) `WorkerQueue`, `AttemptLifecycle`, `WorkerQueueProofs`; (2) `WorkerRuntime`;
(3) `ControlPlane`; (4) `SaveChain`, `QueueRepository`; (5) `SlackOutbox`; (6) `ModelRouter`, `Spending`;
(7) `SandboxPolicy`, `Sandbox`, `McpGateway`; (8) `SlackIngress`, `AccessPolicy`, `Workspace`; (9) `GitHubInstall`,
`GitHubDraftPr`, `AdminAuth`; (10) `SnapshotRepository`, `Credentials`.

Proved, in this order: the queue's invariants and the save chain's; `CheckpointsCleared` and `SettledOnce`;
`ClaimExclusive`; `AckedOnce`; `ApprovalFidelity`, `RetryChain` and the refinement of `AttemptLifecycle`; the
sandbox's and the credentials' invariants; the control plane; the rate limit and the sessions; draft pull requests;
Slack's callbacks; the workspace; the sandbox's mounts; the price of a call; the day's ceiling.

Left to prove: `BoundIsHeld` of `GitHubInstall`; `DeadLettersExact` of the queue.

Left to model, if the code grows there: the queue's events in the store (a sink that throws), a crash between
the saves of queue and store, and the agent loop's transcript.
