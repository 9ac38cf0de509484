---------------------------- MODULE WorkerRuntime ----------------------------
(***************************************************************************)
(* How a worker carries a run attempt: WorkerRuntimeService.processNext in *)
(* packages/worker/src/index.ts.  A worker claims the attempt and goes     *)
(* through the checkpoints (an approved GitHub plan, the budget, the       *)
(* sandbox grant) before it starts or resumes a runtime adapter; a         *)
(* checkpoint that needs a human pauses the attempt.  Here the adapter is  *)
(* the AI SDK agent, whose tools may need an approval of their own.        *)
(*                                                                         *)
(* One run is followed through all its attempts.  The queue underneath is  *)
(* reduced to what WorkerQueue shows of it: one active record, one holder  *)
(* of its lease, retries that replace it.  Between any two steps of a      *)
(* worker, others run: the lease may expire and another worker claim the   *)
(* attempt while the first one still executes it.                          *)
(***************************************************************************)
EXTENDS Integers, FiniteSets

CONSTANTS
  Workers,           \* concurrent drains, each carrying at most one attempt
  Tools,             \* granted tools that require an approval
  Plans,             \* GitHub workflow plans the plan provider may come up with
  Overruns,          \* budget decisions that are over budget: the estimate of
                     \* the run, and the terms (route, budget, spending) it exceeds
  Rules,             \* what policies and the budget may say of the run: of
                     \* sandbox.exec ("none": not needed), of its cost (an overrun
                     \* or Within), and whether it opens a pull request
  FirstReasons,      \* reasons the run is enqueued with
  MaxAttempts,       \* retryPolicy.maxAttempts
  Expiring,          \* may leases run out under a worker?
  Changing           \* may policies and budgets change while the run goes on?

Within == [estimate |-> 0, terms |-> "within"]

ASSUME RuntimeAssumption ==
  /\ Rules \subseteq [sandbox : {"none", "allow", "ask", "deny"},
                      budget : Overruns \cup {Within}, github : BOOLEAN]
  /\ \A o \in Overruns : o.estimate \in Nat /\ o.terms # "within"
  /\ FirstReasons \subseteq {"new_run", "approval_granted"}
  /\ MaxAttempts \in Nat \ {0}
  /\ {Expiring, Changing} \subseteq BOOLEAN

VARIABLES
  work,              \* the active record of the run
  holder,            \* who holds the lease on it
  workers,           \* what each worker is doing, on its copy of the record
  rules,             \* policies and budget state in the store
  approved,          \* history: what humans approved, by attempt
  effects,           \* history: what was done, by attempt
  reports            \* history: settlements the queue accepted

vars == <<work, holder, workers, rules, approved, effects, reports>>

NoOne  == "no_one"

ASSUME WorkersAssumption == NoOne \notin Workers

NoGate == [action |-> "none", payload |-> {}, status |-> "none"]

(* An approval request binds its payload: the budget decision, the plan, the *)
(* tools the agent waits for; that of the sandbox is not looked at again.    *)
Request(action, payload) == [action |-> action, payload |-> payload, status |-> "pending"]

Nothing == [kind |-> "none", request |-> NoGate]
Result(kind) == [kind |-> kind, request |-> NoGate]
Awaiting(action, payload) == [kind |-> "awaiting", request |-> Request(action, payload)]

NoRules == [sandbox |-> "none", budget |-> Within, github |-> FALSE]

Idle == [pc |-> "idle", attempt |-> 0, reason |-> "none", gate |-> NoGate,
         rules |-> NoRules, sandbox |-> FALSE,
         result |-> Nothing]

NewWork(attempt, reason) ==
  [status |-> "queued", attempt |-> attempt, reason |-> reason, gate |-> NoGate,
   cancelling |-> FALSE]

Init ==
  /\ work \in {NewWork(1, reason) : reason \in FirstReasons}
  /\ holder = NoOne
  /\ workers = [w \in Workers |-> Idle]
  /\ rules \in Rules
  /\ approved = {}
  /\ effects = {}
  /\ reports = {}

-----------------------------------------------------------------------------
(* One worker *)

(* processNext claims and clones the record and the state it will decide on. *)
Claim(w) ==
  /\ workers[w].pc = "idle"
  /\ work.status = "queued"
  /\ work' = [work EXCEPT !.status = "claimed"]
  /\ holder' = w
  /\ workers' = [workers EXCEPT ![w] =
       [Idle EXCEPT !.pc = "checking", !.attempt = work.attempt, !.reason = work.reason,
                    !.gate = work.gate, !.rules = rules]]
  /\ UNCHANGED <<rules, approved, effects, reports>>

Goto(w, pc) == workers' = [workers EXCEPT ![w].pc = pc]

(* With a result at hand the worker is done with what it decided on.        *)
Report(w, pc, result) ==
  workers' = [workers EXCEPT ![w] =
    [Idle EXCEPT !.pc = pc, !.attempt = workers[w].attempt, !.result = result]]

(* A result of the checkpoints or the adapter is checked against the lease  *)
(* first; an exception is settled as a failure straight away.               *)
Finish(w, result) == Report(w, "heartbeat", result)

Throw(w) == Report(w, "settling", Result("failed"))

GitHubRun(w) == workers[w].rules.github

Resuming(w) == workers[w].reason = "approval_granted"

ApprovedGate(w, action) ==
  Resuming(w) /\ workers[w].gate.action = action /\ workers[w].gate.status = "approved"

(* isApprovedSandboxExec *)
SandboxCleared_PolicyOnly(w) == workers[w].rules.sandbox = "allow"

SandboxCleared(w) ==
  \/ workers[w].rules.sandbox = "allow"
  \/ workers[w].rules.sandbox = "ask" /\ ApprovedGate(w, "sandbox")

(* approvedBudgetRouteForCurrentContext: an approved increase counts on the *)
(* same terms, up to the estimate it was approved for.                      *)
Covers(asked, now) == asked.terms = now.terms /\ now.estimate <= asked.estimate

BudgetCleared_AnyNumbers(w) ==
  workers[w].rules.budget = Within \/ ApprovedGate(w, "budget")

BudgetCleared(w) ==
  \/ workers[w].rules.budget = Within
  \/ /\ ApprovedGate(w, "budget")
     /\ \E asked \in workers[w].gate.payload : Covers(asked, workers[w].rules.budget)

Done(w, action, payload) ==
  [attempt |-> workers[w].attempt, action |-> action, payload |-> payload]

(* The plan is drawn up anew when the approved attempt resumes, and must    *)
(* hash to what was approved; the approval of the run as a whole does not.  *)
OpenPullRequest_NoHashCheck(w) ==
  /\ workers[w].pc = "checking" /\ GitHubRun(w) /\ Resuming(w)
  /\ \E plan \in Plans :
       \/ Throw(w) /\ UNCHANGED effects
       \/ /\ workers[w].gate.action = "pr"
          /\ effects' = effects \cup {Done(w, "pr", {plan})}
          /\ Finish(w, Result("completed")) \/ Throw(w)
  /\ UNCHANGED <<work, holder, rules, approved, reports>>

OpenPullRequest(w) ==
  /\ workers[w].pc = "checking" /\ GitHubRun(w) /\ Resuming(w)
  /\ \E plan \in Plans :
       \/ Throw(w) /\ UNCHANGED effects
       \/ /\ workers[w].gate.action = "pr" /\ workers[w].gate.payload = {plan}
          /\ effects' = effects \cup {Done(w, "pr", {plan})}
          /\ Finish(w, Result("completed")) \/ Throw(w)
  /\ UNCHANGED <<work, holder, rules, approved, reports>>

(* Until then, each new attempt of such a run asks for its plan; a policy    *)
(* that denies it, or asks for nothing, fails the attempt.                   *)
PlanPullRequest(w) ==
  /\ workers[w].pc = "checking" /\ GitHubRun(w) /\ ~Resuming(w)
  /\ \/ \E plan \in Plans : Finish(w, Awaiting("pr", {plan}))
     \/ Finish(w, Result("failed"))
     \/ Throw(w)
  /\ UNCHANGED <<work, holder, rules, approved, effects, reports>>

(* createBudgetApprovalIfOverLimit *)
AskForBudget(w) ==
  /\ workers[w].pc = "checking" /\ ~GitHubRun(w)
  /\ ~BudgetCleared(w)
  /\ Finish(w, Awaiting("budget", {workers[w].rules.budget}))
  /\ UNCHANGED <<work, holder, rules, approved, effects, reports>>

CheckSandbox(w) ==
  LET rule == workers[w].rules.sandbox IN
  /\ workers[w].pc = "checking" /\ ~GitHubRun(w)
  /\ BudgetCleared(w)
  /\ \/ rule = "none" /\ Goto(w, "running")
     \/ rule = "deny" /\ Finish(w, Result("failed"))
     \/ rule = "ask" /\ ~SandboxCleared(w) /\ Finish(w, Awaiting("sandbox", {}))
     \/ SandboxCleared(w) /\ Goto(w, "leasing")
  /\ UNCHANGED <<work, holder, rules, approved, effects, reports>>

(* provider.create; it may fail. *)
LeaseSandbox(w) ==
  /\ workers[w].pc = "leasing"
  /\ \/ /\ workers' = [workers EXCEPT ![w].pc = "running", ![w].sandbox = TRUE]
        /\ effects' = IF workers[w].rules.sandbox = "ask"
                      THEN effects \cup {Done(w, "sandbox", {})} ELSE effects
     \/ Throw(w) /\ UNCHANGED effects
  /\ UNCHANGED <<work, holder, rules, approved, reports>>

Started(w) ==
  IF workers[w].rules.budget = Within THEN {}
  ELSE {Done(w, "budget", {workers[w].rules.budget})}

LeaveWith(w, result) == IF result.kind = "thrown" THEN Throw(w) ELSE Finish(w, result)

(* runAdapter leaves through its finally block; only then the result counts. *)
Leave(w, result) ==
  IF workers[w].sandbox
  THEN workers' = [workers EXCEPT ![w].result = result, ![w].pc = "destroying"]
  ELSE LeaveWith(w, result)

(* start: a tool that requires an approval is refused, and the attempt      *)
(* pauses for all the tools the agent asked for; without one it completes.  *)
StartAgent(w) ==
  /\ workers[w].pc = "running" /\ ~Resuming(w)
  /\ \/ \E wanted \in SUBSET Tools :
          Leave(w, IF wanted = {} THEN Result("completed") ELSE Awaiting("tool", wanted))
     \/ Leave(w, Result("failed")) \/ Leave(w, Result("thrown"))
  /\ effects' = effects \cup Started(w)
  /\ UNCHANGED <<work, holder, rules, approved, reports>>

(* resume: whatever was approved, the agent is not asked again. *)
ResumeAgent(w) ==
  /\ workers[w].pc = "running" /\ Resuming(w)
  /\ effects' = effects \cup Started(w)
  /\ \E kind \in {"completed", "failed", "thrown"} : Leave(w, Result(kind))
  /\ UNCHANGED <<work, holder, rules, approved, reports>>

(* provider.destroy; if it fails, its exception replaces the result.        *)
DestroySandbox(w) ==
  /\ workers[w].pc = "destroying"
  /\ LeaveWith(w, workers[w].result) \/ Throw(w)
  /\ UNCHANGED <<work, holder, rules, approved, effects, reports>>

(* coerceCancelledResult: the worker learns that it lost the lease or that  *)
(* the run is being cancelled.                                              *)
Heartbeat(w) ==
  /\ workers[w].pc = "heartbeat"
  /\ \/ holder # w /\ workers' = [workers EXCEPT ![w] = Idle]
     \/ holder = w /\ work.cancelling
        /\ workers' = [workers EXCEPT ![w].result = Result("cancelled"), ![w].pc = "settling"]
     \/ holder = w /\ ~work.cancelling /\ Goto(w, "settling")
  /\ UNCHANGED <<work, holder, rules, approved, effects, reports>>

(* What settle makes of the record; a failure with attempts left continues  *)
(* with the next attempt, which starts without a gate.                      *)
Settled(kind, request) ==
  CASE work.cancelling \/ kind = "cancelled" -> [work EXCEPT !.status = "cancelled"]
    [] kind = "completed" /\ ~work.cancelling -> [work EXCEPT !.status = "completed"]
    [] kind = "awaiting" /\ ~work.cancelling ->
         [work EXCEPT !.status = "awaiting_approval", !.gate = request]
    [] kind \in {"failed", "thrown"} /\ ~work.cancelling ->
         IF work.attempt < MaxAttempts THEN NewWork(work.attempt + 1, "retry")
         ELSE [work EXCEPT !.status = "dead"]

SettleFrom_StaleLease(w) ==
  /\ workers[w].pc = "settling"
  /\ workers' = [workers EXCEPT ![w] = Idle]
  /\ \/ work.status # "claimed" /\ UNCHANGED <<work, holder, reports>>
     \/ /\ work.status = "claimed"
        /\ work' = Settled(workers[w].result.kind, workers[w].result.request)
        /\ holder' = NoOne
        /\ reports' = reports \cup {[worker |-> w, attempt |-> workers[w].attempt,
                                     kind |-> IF work.cancelling THEN "cancelled"
                                              ELSE workers[w].result.kind]}
  /\ UNCHANGED <<rules, approved, effects>>

(* settle takes a result from the holder of the lease only. *)
SettleFrom(w) ==
  /\ workers[w].pc = "settling"
  /\ workers' = [workers EXCEPT ![w] = Idle]
  /\ \/ holder # w /\ UNCHANGED <<work, holder, reports>>
     \/ /\ holder = w
        /\ work' = Settled(workers[w].result.kind, workers[w].result.request)
        /\ holder' = NoOne
        /\ reports' = reports \cup {[worker |-> w, attempt |-> workers[w].attempt,
                                     kind |-> IF work.cancelling THEN "cancelled"
                                              ELSE workers[w].result.kind]}
  /\ UNCHANGED <<rules, approved, effects>>

-----------------------------------------------------------------------------
(* The others *)

(* The lease runs out; its old holder goes on and finds out later. *)
Expire ==
  /\ Expiring
  /\ work.status = "claimed"
  /\ holder' = NoOne
  /\ work' = [work EXCEPT !.status = IF work.cancelling THEN "cancelled" ELSE "queued"]
  /\ UNCHANGED <<workers, rules, approved, effects, reports>>

(* A human approves the request the attempt is paused for. *)
Approve ==
  /\ work.status = "awaiting_approval"
  /\ work' = [work EXCEPT !.status = "queued", !.reason = "approval_granted",
                          !.gate.status = "approved"]
  /\ approved' = approved \cup {[attempt |-> work.attempt, action |-> work.gate.action,
                                 payload |-> work.gate.payload]}
  /\ UNCHANGED <<holder, workers, rules, effects, reports>>

Refuse ==
  /\ work.status = "awaiting_approval"
  /\ work' = [work EXCEPT !.status = "cancelled", !.gate.status = "refused"]
  /\ UNCHANGED <<holder, workers, rules, approved, effects, reports>>

Cancel ==
  /\ work.status \in {"queued", "awaiting_approval", "claimed"} /\ ~work.cancelling
  /\ work' = [work EXCEPT !.cancelling = TRUE,
                !.status = IF work.status = "claimed" THEN "claimed" ELSE "cancelled"]
  /\ UNCHANGED <<holder, workers, rules, approved, effects, reports>>

(* An administrator edits grants or budgets, or other runs spend. *)
ChangeRules ==
  /\ Changing
  /\ rules' \in {r \in Rules \ {rules} : r.github = rules.github}
  /\ UNCHANGED <<work, holder, workers, approved, effects, reports>>

Step(w) ==
  \/ Claim(w)
  \/ OpenPullRequest(w) \/ PlanPullRequest(w)
  \/ AskForBudget(w) \/ CheckSandbox(w) \/ LeaseSandbox(w)
  \/ StartAgent(w) \/ ResumeAgent(w) \/ DestroySandbox(w)
  \/ Heartbeat(w) \/ SettleFrom(w)

Next ==
  \/ \E w \in Workers : Step(w)
  \/ Expire \/ Approve \/ Refuse \/ Cancel \/ ChangeRules

Spec == Init /\ [][Next]_vars

(* Workers go on with what they started, someone keeps draining the queue,  *)
(* and the human approves what is asked.                                    *)
FairSpec == Spec /\ WF_vars(Approve) /\ \A w \in Workers : WF_vars(Step(w))

-----------------------------------------------------------------------------
(* What every reachable state satisfies *)

Payloads == SUBSET (Tools \cup Plans \cup Overruns)
GateType == [action : {"none", "budget", "sandbox", "pr", "tool"}, payload : Payloads,
             status : {"none", "pending", "approved", "refused"}]
Kinds == {"none", "completed", "failed", "thrown", "cancelled", "awaiting"}
Attempts == 1..MaxAttempts
Acts == [attempt : Attempts, action : {"budget", "sandbox", "pr", "tool"}, payload : Payloads]

(* Type invariant: the record, the workers' copies of it and the histories. *)
TypeOK ==
  /\ work \in [status : {"queued", "claimed", "awaiting_approval", "completed", "cancelled",
                         "dead"},
               attempt : Attempts, reason : FirstReasons \cup {"retry", "approval_granted"},
               gate : GateType, cancelling : BOOLEAN]
  /\ holder \in Workers \cup {NoOne}
  /\ workers \in [Workers ->
       [pc : {"idle", "checking", "leasing", "running", "destroying", "heartbeat", "settling"},
        attempt : Attempts \cup {0},
        reason : {"none", "new_run", "retry", "approval_granted"}, gate : GateType,
        rules : Rules \cup {NoRules}, sandbox : BOOLEAN,
        result : [kind : Kinds, request : GateType]]]
  /\ rules \in Rules
  /\ approved \subseteq Acts
  /\ effects \subseteq Acts
  /\ reports \subseteq [worker : Workers, attempt : Attempts, kind : Kinds]

(* What a human has to approve first: a pull request exactly as planned, a
   sandbox where policy asks for one, a run over budget up to its estimate. *)
ClearedBy(a, e) ==
  /\ a.attempt = e.attempt /\ a.action = e.action
  /\ e.action = "budget" => \A now \in e.payload : \E asked \in a.payload : Covers(asked, now)
  /\ e.action # "budget" => a.payload = e.payload

(* A pull request is opened, an adapter started over budget and a sandbox
   leased where policy asks, only after a human approved exactly that (this
   plan, an estimate at least as high on these terms) within the same attempt:
   whatever was approved before for something else, whatever changed in the
   meantime, and whichever stale worker is still at it. *)
CheckpointsCleared ==
  \A e \in effects : \E a \in approved : ClearedBy(a, e)

(* An attempt is settled for good by one worker only: a worker that lost its
   lease never reports an outcome next to the one that took over. *)
SettledOnce ==
  \A r, s \in reports :
    r.attempt = s.attempt /\ r.kind # "awaiting" /\ s.kind # "awaiting" => r = s

(* A worker that is done, however it left, leaves nothing behind: no lease
   that would block the attempt until it expires, and no sandbox. *)
NothingLeftBehind ==
  /\ holder # NoOne <=> work.status = "claimed"
  /\ \A w \in Workers :
       /\ holder = w => workers[w].pc # "idle" /\ workers[w].attempt = work.attempt
       /\ workers[w].sandbox => workers[w].pc \in {"running", "destroying"}

(* A run whose approvals are all granted comes to an end. *)
RunEnds == <>(work.status \in {"completed", "cancelled", "dead"})

(* Stated by docs/architecture/worker.md: once a human approves, the runtime is
   resumed (unless the run ends for another reason). *)
ApprovalResumesRuntime ==
  work.status = "awaiting_approval" ~>
    \/ \E w \in Workers : workers[w].pc = "running"
    \/ work.status \in {"completed", "cancelled", "dead"}
=============================================================================
