------------------------------ MODULE Spending ------------------------------
(***************************************************************************)
(* What a run may cost: the budget check of the worker (per run, per day,  *)
(* with its approvals), the model calls with failover that follow, and     *)
(* what the store says each run has cost, which is what later checks count.*)
(* Sources: packages/worker/src/index.ts (budget guard, gateway adapter),  *)
(* packages/model-router/src/index.ts (failover), worker-runtime.ts.       *)
(***************************************************************************)
EXTENDS ModelRouter, FiniteSetsExt, Functions

CONSTANTS
  Runs,          \* runs of one organisation
  Places,        \* the places they may come from
  Policies,      \* budget policies: id -> [perRun, perDay] in cents
  Governs,       \* <<policy, place>>: an access bundle of the policy is attached there
  ModelPolicy,   \* [defaultModel, fallbackModels, perRunBudgetCents]
  Registry,      \* the model registry
  Mode,          \* routing mode
  Usage,         \* the estimated tokens of a call
  Estimates,     \* estimated costs a run is created with
  Days,          \* bound: the last day
  MaxAttempts,   \* attempts of the worker queue's retry policy
  MaxPaid        \* bound: calls that succeed, for one run

ASSUME SpendingAssumption ==
  /\ IsFiniteSet(Runs)
  /\ \A p \in DOMAIN Policies : Policies[p].perDay \in Nat
  /\ Days \in Nat /\ MaxAttempts \in Nat \ {0} /\ MaxPaid \in Nat
  /\ Estimates \subseteq Nat \ {0}
  /\ Governs \subseteq (DOMAIN Policies) \X Places

VARIABLES
  today,
  runs,       \* the store: [status, estimated, actual, day, place]
  worker,     \* the attempt a worker has at hand, for each run
  approval,   \* the budget.increase approval the work record carries
  paid        \* the calls of a run that were answered: how many, and the last one's route

vars == <<today, runs, worker, approval, paid>>

NoRoute   == [provider |-> "", model |-> [vendor |-> "", model |-> ""], cost |-> 0]
NoTerms   == [scope |-> "none"]
NoneGiven == [status |-> "none", terms |-> NoTerms]
Idle      == [at |-> "idle", attempt |-> 1, spent |-> 0, next |-> 0, approved |-> NoRoute,
              admitted |-> FALSE, asks |-> NoTerms, cost |-> 0]

Init ==
  /\ today = 0
  /\ runs = [r \in Runs |-> [status |-> "none", estimated |-> 0, actual |-> 0, day |-> 0,
                             place |-> CHOOSE p \in Places : TRUE]]
  /\ worker = [r \in Runs |-> Idle]
  /\ approval = [r \in Runs |-> NoneGiven]
  /\ paid = [r \in Runs |-> [calls |-> 0, route |-> NoRoute]]

-----------------------------------------------------------------------------
(* The budget check *)

PoliciesOf(place) == {p \in DOMAIN Policies : <<p, place>> \in Governs}

(* The lowest per-run ceiling of the place's policies, if below the model policy's. *)
StrictestRuntimeBudgetCeiling(place) ==
  Min({ModelPolicy.perRunBudgetCents} \cup {Policies[p].perRun : p \in PoliciesOf(place)})

StrictestDailyBudgetPolicy(place) ==
  CHOOSE p \in PoliciesOf(place) :
    \A q \in PoliciesOf(place) : Policies[p].perDay <= Policies[q].perDay

RunCountsAgainstDailyBudget_WhenDone(run) == run.status = "completed"

RunCountsAgainstDailyBudget(run) == run.status \notin {"none", "cancelled", "failed"}

CommittedRunCostCents(run) == IF run.actual > 0 THEN run.actual ELSE run.estimated

(* What the other runs in the policy's places, created on the same day, have cost
   or are estimated to cost. *)
DailyBudgetSpentCents(r, policy) ==
  LET counted == {s \in Runs \ {r} : /\ <<policy, runs[s].place>> \in Governs
                                     /\ runs[s].day = runs[r].day
                                     /\ RunCountsAgainstDailyBudget(runs[s])}
  IN FoldFunctionOnSet(+, 0, [s \in Runs |-> CommittedRunCostCents(runs[s])], counted)

(* The worker reads the store once, before anything it awaits. *)
DailySpentSeen(r) ==
  IF PoliciesOf(runs[r].place) = {} THEN 0
  ELSE DailyBudgetSpentCents(r, StrictestDailyBudgetPolicy(runs[r].place))

(* The overrun, if any: first the run's own ceiling, then the day's. *)
RuntimeBudgetGuardDecision(r) ==
  LET run     == runs[r]
      ceiling == StrictestRuntimeBudgetCeiling(run.place)
      policy  == StrictestDailyBudgetPolicy(run.place)
  IN IF run.estimated > ceiling
     THEN [scope |-> "per_run", cents |-> ceiling, estimated |-> run.estimated]
     ELSE IF /\ PoliciesOf(run.place) # {}
             /\ worker[r].spent + run.estimated > Policies[policy].perDay
          THEN [scope |-> "per_day", policy |-> policy, cents |-> Policies[policy].perDay,
                estimated |-> run.estimated, spent |-> worker[r].spent, day |-> run.day]
          ELSE NoTerms

(* An approval counts only for the very overrun it was asked for. *)
ApprovedBudgetRouteForCurrentContext(r) ==
  approval[r].status = "approved" /\ approval[r].terms = RuntimeBudgetGuardDecision(r)

-----------------------------------------------------------------------------
(* Runs are created, cancelled and approved *)

CreateRun(r) ==
  /\ runs[r].status = "none"
  /\ \E cents \in Estimates, place \in Places :
       runs' = [runs EXCEPT ![r] = [status |-> "queued", estimated |-> cents, actual |-> 0,
                                    day |-> today, place |-> place]]
  /\ UNCHANGED <<today, worker, approval, paid>>

CancelRun(r) ==
  /\ runs[r].status \in {"queued", "awaiting_approval"}
  /\ runs' = [runs EXCEPT ![r].status = "cancelled"]
  /\ UNCHANGED <<today, worker, approval, paid>>

(* The store's decideApproval in worker mode. *)
DecideApproval(r, decision) ==
  /\ runs[r].status = "awaiting_approval" /\ approval[r].status = "pending"
  /\ approval' = [approval EXCEPT ![r].status = decision]
  /\ runs' = [runs EXCEPT ![r].status = IF decision = "approved" THEN "queued" ELSE "cancelled"]
  /\ UNCHANGED <<today, worker, paid>>

(* An operator redrives the dead letter of a run that failed for good. *)
Redrive(r) ==
  /\ runs[r].status = "failed" /\ worker[r].at = "idle"
  /\ runs' = [runs EXCEPT ![r].status = "queued"]
  /\ worker' = [worker EXCEPT ![r] = Idle]
  /\ approval' = [approval EXCEPT ![r] = NoneGiven]
  /\ UNCHANGED <<today, paid>>

NextDay ==
  /\ today < Days
  /\ today' = today + 1
  /\ UNCHANGED <<runs, worker, approval, paid>>

-----------------------------------------------------------------------------
(* One attempt *)

(* processNext: the work is claimed and the store read. *)
ReadContext(r) ==
  /\ runs[r].status = "queued" /\ worker[r].at = "idle"
  /\ worker' = [worker EXCEPT ![r].at = "planned", ![r].spent = DailySpentSeen(r)]
  /\ UNCHANGED <<today, runs, approval, paid>>

(* Over budget and not approved: the attempt ends asking for it. *)
BudgetBlocks(r) ==
  /\ worker[r].at = "planned"
  /\ RuntimeBudgetGuardDecision(r) # NoTerms /\ ~ApprovedBudgetRouteForCurrentContext(r)
  /\ worker' = [worker EXCEPT ![r].at = "paused", ![r].asks = RuntimeBudgetGuardDecision(r)]
  /\ UNCHANGED <<today, runs, approval, paid>>

ProviderFromModel(name) == IF name.vendor = "" THEN "local" ELSE name.vendor

(* Within budget, or approved: the adapter starts, with the ceiling and the
   approved route it is given. *)
BudgetAdmits(r) ==
  /\ worker[r].at = "planned"
  /\ \/ RuntimeBudgetGuardDecision(r) = NoTerms
     \/ ApprovedBudgetRouteForCurrentContext(r)
  /\ worker' = [worker EXCEPT
       ![r].at = "calling", ![r].next = 1,
       ![r].admitted = RuntimeBudgetGuardDecision(r) = NoTerms,
       ![r].approved = IF ApprovedBudgetRouteForCurrentContext(r)
                       THEN [provider |-> ProviderFromModel(ModelPolicy.defaultModel),
                             model |-> ModelPolicy.defaultModel,
                             cost |-> approval[r].terms.estimated]
                       ELSE NoRoute]
  /\ UNCHANGED <<today, runs, approval, paid>>

Routes == BuildModelRouteSequence([policy |-> ModelPolicy, registry |-> Registry,
                                   mode |-> Mode, usage |-> Usage])

(* Routes cost whole cents (calculateModelUsageCostCents rounds up). *)
ASSUME RoutesAssumption == \A k \in DOMAIN Routes : Routes[k].cost \in Nat

EffectiveBudget(r) == [ceiling |-> StrictestRuntimeBudgetCeiling(runs[r].place),
                       approved |-> worker[r].approved]

AtRoute(r) == worker[r].at = "calling" /\ worker[r].next \in DOMAIN Routes

SkipRoute(r) ==
  /\ AtRoute(r)
  /\ SkipReasonForFailoverRoute(Routes[worker[r].next], EffectiveBudget(r))
  /\ worker' = [worker EXCEPT ![r].next = @ + 1]
  /\ UNCHANGED <<today, runs, approval, paid>>

(* The provider is called.  The answer costs what was estimated or, as the
   answer may be longer or shorter, one cent more or less. *)
CallSucceeds(r) ==
  /\ AtRoute(r) /\ paid[r].calls < MaxPaid
  /\ ~SkipReasonForFailoverRoute(Routes[worker[r].next], EffectiveBudget(r))
  /\ LET route == Routes[worker[r].next]
     IN \E cents \in {c \in (route.cost - 1)..(route.cost + 1) : c >= 0} :
          /\ paid' = [paid EXCEPT ![r] = [calls |-> @.calls + 1, route |-> route]]
          /\ worker' = [worker EXCEPT
               ![r].at = "completed",
               ![r].cost = IF cents > 0 THEN cents
                           ELSE Max({1, route.cost, runs[r].estimated})]
  /\ UNCHANGED <<today, runs, approval>>

(* A failed call costs nothing as far as the code knows; a failure that cannot
   be retried ends the attempt, any other one goes on to the next route. *)
CallFails(r, retryable) ==
  /\ AtRoute(r)
  /\ ~SkipReasonForFailoverRoute(Routes[worker[r].next], EffectiveBudget(r))
  /\ worker' = [worker EXCEPT ![r].next = IF retryable THEN @ + 1 ELSE Len(Routes) + 1]
  /\ UNCHANGED <<today, runs, approval, paid>>

NoRouteLeft(r) ==
  /\ worker[r].at = "calling" /\ worker[r].next \notin DOMAIN Routes
  /\ worker' = [worker EXCEPT ![r].at = "failed", ![r].cost = 0]
  /\ UNCHANGED <<today, runs, approval, paid>>

(* The drain tells the store.  A run cancelled meanwhile is settled as cancelled,
   with what it has cost; a failed attempt is retried up to the limit. *)
ApplyDecision(r) ==
  /\ worker[r].at \in {"completed", "failed", "paused"}
  /\ LET again  == worker[r].at = "failed" /\ worker[r].attempt < MaxAttempts
         status == IF runs[r].status = "cancelled" THEN "cancelled"
                   ELSE IF worker[r].at = "paused" THEN "awaiting_approval"
                   ELSE IF worker[r].at = "completed" THEN "completed"
                   ELSE IF again THEN "queued" ELSE "failed"
     IN /\ runs' = [runs EXCEPT ![r].status = status,
                                ![r].actual = IF worker[r].at = "paused" THEN 0
                                              ELSE worker[r].cost]
        /\ worker' = [worker EXCEPT
             ![r] = [Idle EXCEPT !.attempt = IF again THEN worker[r].attempt + 1
                                             ELSE worker[r].attempt,
                                 !.admitted = worker[r].admitted /\ status = "completed"]]
        /\ approval' = [approval EXCEPT
             ![r] = IF status = "awaiting_approval"
                    THEN [status |-> "pending", terms |-> worker[r].asks]
                    ELSE IF status = "queued" THEN NoneGiven ELSE @]
  /\ UNCHANGED <<today, paid>>

(* The lease was lost: nothing is settled, and the work is claimed again. *)
LoseLease(r) ==
  /\ worker[r].at \in {"completed", "failed", "paused"}
  /\ runs[r].status = "queued"
  /\ worker' = [worker EXCEPT ![r] = [Idle EXCEPT !.attempt = worker[r].attempt]]
  /\ UNCHANGED <<today, runs, approval, paid>>

Next ==
  \/ NextDay
  \/ \E r \in Runs :
       \/ CreateRun(r)
       \/ CancelRun(r)
       \/ \E d \in {"approved", "denied"} : DecideApproval(r, d)
       \/ Redrive(r)
       \/ ReadContext(r)
       \/ BudgetBlocks(r)
       \/ BudgetAdmits(r)
       \/ SkipRoute(r)
       \/ CallSucceeds(r)
       \/ \E b \in BOOLEAN : CallFails(r, b)
       \/ NoRouteLeft(r)
       \/ ApplyDecision(r)
       \/ LoseLease(r)

Spec == Init /\ [][Next]_vars

-----------------------------------------------------------------------------
(* Properties *)

AdmittedOn(day, policy) ==
  {r \in Runs : /\ worker[r].admitted /\ runs[r].status \notin {"none", "cancelled", "failed"}
                /\ runs[r].day = day /\ <<policy, runs[r].place>> \in Governs}

(* The runs that were let through without an approval fit into the day's
   ceiling together, at what they were estimated to cost (or have cost, if
   less), although each check counts a store read some steps before, runs
   fail and come back, and a drain reports its runs late: the worker "enforces
   same-day policy ceilings before adapters start". *)
DayCeilingsKept ==
  \A policy \in DOMAIN Policies, day \in 0..Days :
    FoldFunctionOnSet(+, 0, [r \in Runs |-> Min({runs[r].estimated,
                                                 CommittedRunCostCents(runs[r])})],
                      AdmittedOn(day, policy)) <= Policies[policy].perDay

(* A provider is called beyond the run's ceiling only for the default model, at
   most at the price of an approval that has been granted and has not lapsed
   with its attempt. *)
OverCeilingApproved ==
  [][\A r \in Runs :
       paid'[r] # paid[r] /\ paid'[r].route.cost > StrictestRuntimeBudgetCeiling(runs[r].place)
         => /\ approval[r].status = "approved"
            /\ paid'[r].route.model = ModelPolicy.defaultModel
            /\ paid'[r].route.cost <= approval[r].terms.estimated]_vars
=============================================================================
