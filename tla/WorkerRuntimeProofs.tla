------------------------- MODULE WorkerRuntimeProofs -------------------------
(* Theorems about WorkerRuntime, and about Spending, which looks closer at what
   the same worker may pay for: for all values of their constants. *)
EXTENDS WorkerRuntime, TLAPS

-----------------------------------------------------------------------------
(* What a worker may carry about, and what the record may say *)

WorkerType ==
  [pc : {"idle", "checking", "leasing", "running", "destroying", "heartbeat", "settling"},
   attempt : Attempts \cup {0},
   reason : {"none", "new_run", "retry", "approval_granted"}, gate : GateType,
   rules : Rules \cup {NoRules}, sandbox : BOOLEAN,
   result : [kind : Kinds, request : GateType]]

(* A request that waits for a human. *)
Requested(gate) ==
  /\ gate \in GateType
  /\ gate.action # "none" /\ gate.status = "pending"
  /\ gate.action = "sandbox" => gate.payload = {}

(* A gate an attempt may go on with: there was none, or a human let it pass. *)
Passed(gate) ==
  /\ gate \in GateType
  /\ gate.action = "none" \/ gate.status = "approved"
  /\ gate.action = "sandbox" => gate.payload = {}

OnRecord(attempt, gate, grants) ==
  gate.status = "approved" =>
    [attempt |-> attempt, action |-> gate.action, payload |-> gate.payload] \in grants

Outcome(result) ==
  /\ result \in [kind : Kinds, request : GateType] /\ result.kind # "none"
  /\ result.kind = "awaiting" => Requested(result.request)

SandboxGranted(p) ==
  p.rules.sandbox = "ask" => p.gate.action = "sandbox" /\ p.gate.status = "approved"

BudgetGranted(p) ==
  \/ p.rules.budget = Within
  \/ /\ p.gate.action = "budget" /\ p.gate.status = "approved"
     /\ \E asked \in p.gate.payload : Covers(asked, p.rules.budget)

(* Before each of its effects a worker's own copy says that it may happen, and
   what that copy calls approved is on record as approved. *)
Sound(p, grants) ==
  /\ p \in WorkerType
  /\ p.pc # "idle" => p.attempt \in Attempts
  /\ p.pc \in {"checking", "leasing", "running"} =>
       Passed(p.gate) /\ OnRecord(p.attempt, p.gate, grants)
  /\ p.pc = "leasing" => SandboxGranted(p)
  /\ p.pc \in {"leasing", "running"} => BudgetGranted(p)
  /\ p.pc \in {"destroying", "heartbeat", "settling"} => Outcome(p.result)

WorkSound(r, grants) ==
  /\ r \in [status : {"queued", "claimed", "awaiting_approval", "completed", "cancelled", "dead"},
            attempt : Attempts, reason : FirstReasons \cup {"retry", "approval_granted"},
            gate : GateType, cancelling : BOOLEAN]
  /\ OnRecord(r.attempt, r.gate, grants)
  /\ r.status \in {"queued", "claimed"} => Passed(r.gate)
  /\ r.status = "awaiting_approval" => Requested(r.gate)

Carried ==
  /\ TypeOK
  /\ WorkSound(work, approved)
  /\ \A w \in Workers : Sound(workers[w], approved)

(* The lease names a worker at the very attempt; an outcome is final. *)
HolderAtWork ==
  holder \in Workers =>
    /\ work.status = "claimed" /\ workers[holder].pc # "idle"
    /\ workers[holder].attempt = work.attempt

ReportsFinal ==
  \A r \in reports : r.kind # "awaiting" =>
    \/ r.attempt < work.attempt
    \/ r.attempt = work.attempt /\ work.status \in {"completed", "cancelled", "dead"}

-----------------------------------------------------------------------------
(* The shapes of a worker's record *)

LEMMA NoGateType ==
  /\ NoGate \in GateType /\ Passed(NoGate) /\ NoGate.status = "none"
  /\ Nothing \in [kind : Kinds, request : GateType]
  BY DEF NoGate, GateType, Passed, Nothing, Kinds, Payloads

(* A worker without work carries nothing. *)
LEMMA IdleSound ==
  ASSUME NEW grants
  PROVE  Sound(Idle, grants) /\ Idle.pc = "idle"
  BY NoGateType DEF Sound, Idle, WorkerType

(* A result asks for a human only by a well-formed request. *)
LEMMA ResultOutcome ==
  ASSUME NEW kind \in {"completed", "failed", "thrown", "cancelled"}
  PROVE  Outcome(Result(kind)) /\ Result(kind).kind = kind
  BY NoGateType DEF Outcome, Result, Kinds

(* A pause for an approval is an outcome. *)
LEMMA AwaitingOutcome ==
  ASSUME NEW action \in {"budget", "sandbox", "pr", "tool"}, NEW payload \in Payloads,
         action = "sandbox" => payload = {}
  PROVE  Outcome(Awaiting(action, payload)) /\ Awaiting(action, payload).kind = "awaiting"
  BY DEF Outcome, Awaiting, Request, Requested, GateType, Kinds

(* A worker that leaves with an outcome carries the outcome only. *)
LEMMA ReportSound ==
  ASSUME NEW p, NEW grants, Sound(p, grants), p.pc # "idle",
         NEW pc \in {"heartbeat", "settling"}, NEW result, Outcome(result)
  PROVE  LET q == [Idle EXCEPT !.pc = pc, !.attempt = p.attempt, !.result = result] IN
         Sound(q, grants) /\ q.pc = pc /\ q.attempt = p.attempt
  BY NoGateType DEF Sound, Idle, WorkerType, Outcome, Attempts

(* A worker's step changes its own record only. *)
LEMMA OneWorker ==
  ASSUME Carried, NEW w \in Workers, NEW q, workers' = [workers EXCEPT ![w] = q],
         Sound(q, approved), UNCHANGED approved
  PROVE  \A v \in Workers : Sound(workers'[v], approved')
  BY DEF Carried, TypeOK

(* Replacing one worker's state keeps the workers. *)
LEMMA WorkersType ==
  ASSUME TypeOK, NEW w \in Workers, NEW q \in WorkerType, workers' = [workers EXCEPT ![w] = q]
  PROVE  workers' \in [Workers -> WorkerType]
  BY DEF TypeOK, WorkerType

-----------------------------------------------------------------------------
(* Carried is inductive *)

LEMMA InitCarried == Init => Carried
<1> SUFFICES ASSUME Init PROVE Carried
  OBVIOUS
<1>1. PICK reason \in FirstReasons : work = NewWork(1, reason)
  BY DEF Init
<1>2. WorkSound(work, approved)
  BY <1>1, NoGateType, RuntimeAssumption DEF WorkSound, NewWork, OnRecord, Attempts
<1>3. \A w \in Workers : Sound(workers[w], approved) /\ workers[w] \in WorkerType
  BY IdleSound DEF Init, Sound
<1>4. TypeOK
  <2>1. workers \in [Workers -> WorkerType]
    BY <1>3 DEF Init
  <2>2. QED
    BY <1>2, <2>1 DEF Init, TypeOK, WorkerType, WorkSound
<1>5. QED
  BY <1>2, <1>3, <1>4 DEF Carried

(* A step that changes one worker and nothing it shares but the effects. *)
LEMMA CarriedByWorker ==
  ASSUME Carried, NEW w \in Workers, NEW q, workers' = [workers EXCEPT ![w] = q],
         Sound(q, approved), UNCHANGED <<work, holder, rules, approved, reports>>,
         effects' \subseteq Acts
  PROVE  Carried'
<1>1. \A v \in Workers : Sound(workers'[v], approved')
  BY OneWorker
<1>2. workers' \in [Workers -> WorkerType]
  BY WorkersType DEF Carried, Sound
<1>3. TypeOK'
  BY <1>2 DEF Carried, TypeOK, WorkerType
<1>4. QED
  BY <1>1, <1>3 DEF Carried

(* Leaving with an outcome keeps what workers carry true. *)
LEMMA CarriedByReport ==
  ASSUME Carried, NEW w \in Workers, workers[w].pc # "idle",
         NEW pc \in {"heartbeat", "settling"}, NEW result, Outcome(result), Report(w, pc, result),
         UNCHANGED <<work, holder, rules, approved, reports>>, effects' \subseteq Acts
  PROVE  Carried'
<1> DEFINE q == [Idle EXCEPT !.pc = pc, !.attempt = workers[w].attempt, !.result = result]
<1>1. Sound(q, approved)
  BY ReportSound DEF Carried
<1>2. workers' = [workers EXCEPT ![w] = q]
  BY DEF Report
<1>3. QED
  BY <1>1, <1>2, CarriedByWorker

(* The same after the sandbox has been destroyed or has failed to be. *)
LEMMA CarriedByLeaveWith ==
  ASSUME Carried, NEW w \in Workers, workers[w].pc # "idle",
         NEW result, Outcome(result), LeaveWith(w, result),
         UNCHANGED <<work, holder, rules, approved, reports>>, effects' \subseteq Acts
  PROVE  Carried'
<1>1. Outcome(Result("failed"))
  BY ResultOutcome
<1>2. QED
  BY <1>1, CarriedByReport DEF LeaveWith, Finish, Throw

(* The same when the adapter returns or throws. *)
LEMMA CarriedByLeave ==
  ASSUME Carried, NEW w \in Workers, workers[w].pc = "running",
         NEW result, Outcome(result), Leave(w, result),
         UNCHANGED <<work, holder, rules, approved, reports>>, effects' \subseteq Acts
  PROVE  Carried'
<1>1. CASE workers[w].sandbox
  <2> DEFINE q == [workers[w] EXCEPT !.result = result, !.pc = "destroying"]
  <2>1. Sound(workers[w], approved) /\ workers \in [Workers -> WorkerType]
    BY DEF Carried, TypeOK, WorkerType
  <2>2. Sound(q, approved)
    BY <2>1 DEF Sound, WorkerType, Outcome
  <2>3. workers' = [workers EXCEPT ![w] = q]
    BY <1>1, <2>1 DEF Leave
  <2>4. QED
    BY <2>2, <2>3, CarriedByWorker
<1>2. CASE ~workers[w].sandbox
  BY <1>2, CarriedByLeaveWith DEF Leave
<1>3. QED
  BY <1>1, <1>2

(* The effects that a worker's own copy allows. *)
LEMMA EffectType ==
  ASSUME Carried, NEW w \in Workers, workers[w].pc # "idle",
         NEW action \in {"budget", "sandbox", "pr", "tool"}, NEW payload \in Payloads
  PROVE  effects \cup {Done(w, action, payload)} \subseteq Acts
<1>1. workers[w].attempt \in Attempts
  BY DEF Carried, Sound
<1>2. QED
  BY <1>1 DEF Carried, TypeOK, Acts, Done

(* What policies and budgets answer. *)
LEMMA RulesType ==
  ASSUME NEW r \in Rules \cup {NoRules}
  PROVE  r.budget \in Overruns \cup {Within} /\ r.sandbox \in {"none", "allow", "ask", "deny"}
<1>1. CASE r = NoRules
  BY <1>1 DEF NoRules
<1>2. CASE r \in Rules
  BY <1>2, RuntimeAssumption
<1>3. QED
  BY <1>1, <1>2

(* What the adapter starts are acts of the known kinds. *)
LEMMA StartedType ==
  ASSUME Carried, NEW w \in Workers, workers[w].pc # "idle"
  PROVE  effects \cup Started(w) \subseteq Acts
<1>1. workers[w].rules \in Rules \cup {NoRules}
  BY DEF Carried, Sound, WorkerType
<1>2. workers[w].rules.budget \in Overruns \cup {Within}
  BY <1>1, RulesType
<1>3. CASE workers[w].rules.budget = Within
  BY <1>3 DEF Started, Carried, TypeOK
<1>4. CASE workers[w].rules.budget # Within
  <2>1. {workers[w].rules.budget} \in Payloads
    BY <1>2, <1>4 DEF Payloads
  <2>2. QED
    BY <1>4, <2>1, EffectType DEF Started
<1>5. QED
  BY <1>3, <1>4

(* What settling an attempt makes of its record. *)
LEMMA SettledFields ==
  ASSUME NEW result, Outcome(result), WorkSound(work, approved)
  PROVE  LET after == Settled(result.kind, result.request) IN
         \/ /\ after = [work EXCEPT !.status = "awaiting_approval", !.gate = result.request]
            /\ ~work.cancelling /\ result.kind = "awaiting"
         \/ \E status \in {"cancelled", "completed", "dead"} : after = [work EXCEPT !.status = status]
         \/ work.attempt < MaxAttempts /\ after = NewWork(work.attempt + 1, "retry")
<1>1. work.cancelling \in BOOLEAN /\ result.kind \in Kinds \ {"none"}
  BY DEF WorkSound, Outcome
<1>2. QED
  BY <1>1 DEF Settled, Kinds

(* Work that is settled carries its gate or nothing. *)
LEMMA SettledSound ==
  ASSUME NEW result, Outcome(result), WorkSound(work, approved)
  PROVE  WorkSound(Settled(result.kind, result.request), approved)
<1>1. ASSUME result.kind = "awaiting"
      PROVE  WorkSound([work EXCEPT !.status = "awaiting_approval", !.gate = result.request], approved)
  BY <1>1 DEF Outcome, WorkSound, OnRecord, Requested
<1>2. ASSUME NEW status \in {"cancelled", "completed", "dead"}
      PROVE  WorkSound([work EXCEPT !.status = status], approved)
  BY DEF WorkSound, OnRecord
<1>3. ASSUME work.attempt < MaxAttempts
      PROVE  WorkSound(NewWork(work.attempt + 1, "retry"), approved)
  BY <1>3, NoGateType, RuntimeAssumption DEF WorkSound, OnRecord, NewWork, Attempts
<1>4. QED
  BY <1>1, <1>2, <1>3, SettledFields

(* Every step of a worker keeps what workers carry true. *)
LEMMA StepCarried ==
  ASSUME Carried, NEW w \in Workers, Step(w)
  PROVE  Carried'
<1>0. /\ Sound(workers[w], approved) /\ workers[w] \in WorkerType
      /\ workers \in [Workers -> WorkerType]
      /\ effects \subseteq Acts
      /\ workers[w].rules.budget \in Overruns \cup {Within}
  BY RulesType DEF Carried, TypeOK, WorkerType, Sound
<1>1. ASSUME NEW pc \in {"leasing", "running", "settling"},
             Sound([workers[w] EXCEPT !.pc = pc], approved), Goto(w, pc),
             UNCHANGED <<work, holder, rules, approved, effects, reports>>
      PROVE  Carried'
  <2>1. workers' = [workers EXCEPT ![w] = [workers[w] EXCEPT !.pc = pc]]
    BY <1>0, <1>1 DEF Goto
  <2>2. QED
    BY <1>0, <1>1, <2>1, CarriedByWorker
<1>2. CASE Claim(w)
  <2> DEFINE q == [Idle EXCEPT !.pc = "checking", !.attempt = work.attempt, !.reason = work.reason,
                               !.gate = work.gate, !.rules = rules]
  <2>1. /\ WorkSound(work, approved) /\ Passed(work.gate) /\ rules \in Rules
        /\ work.reason \in {"new_run", "retry", "approval_granted"}
    BY <1>2, RuntimeAssumption DEF Claim, Carried, WorkSound, TypeOK
  <2>2. q \in WorkerType
    BY <2>1, NoGateType DEF WorkSound, WorkerType, Idle
  <2>3. q.pc = "checking" /\ q.attempt = work.attempt /\ q.gate = work.gate
    BY DEF Idle
  <2>4. Sound(q, approved)
    BY <2>1, <2>2, <2>3 DEF Sound, WorkSound
  <2>5. workers' = [workers EXCEPT ![w] = q] /\ UNCHANGED <<rules, approved, effects, reports>>
    BY <1>2 DEF Claim
  <2> HIDE DEF q
  <2>6. \A v \in Workers : Sound(workers'[v], approved')
    BY <2>4, <2>5, OneWorker
  <2>7. WorkSound(work', approved')
    BY <1>2, <2>1, <2>5 DEF Claim, WorkSound
  <2>8. workers' \in [Workers -> WorkerType] /\ holder' = w
    BY <1>2, <2>2, <2>5, WorkersType DEF Carried, Claim
  <2>9. TypeOK'
    BY <2>5, <2>7, <2>8 DEF Carried, TypeOK, WorkSound, WorkerType
  <2>10. QED
    BY <2>6, <2>7, <2>9 DEF Carried
<1>3. CASE OpenPullRequest(w)
  <2>1. PICK plan \in Plans :
          \/ Throw(w) /\ UNCHANGED effects
          \/ /\ effects' = effects \cup {Done(w, "pr", {plan})}
             /\ Finish(w, Result("completed")) \/ Throw(w)
    BY <1>3 DEF OpenPullRequest
  <2>2. {plan} \in Payloads /\ workers[w].pc # "idle"
    BY <1>3 DEF Payloads, OpenPullRequest
  <2>3. effects' \subseteq Acts
    BY <1>0, <2>1, <2>2, EffectType
  <2>4. Outcome(Result("completed")) /\ Outcome(Result("failed"))
    BY ResultOutcome
  <2>5. UNCHANGED <<work, holder, rules, approved, reports>>
    BY <1>3 DEF OpenPullRequest
  <2>6. QED
    BY <2>1, <2>2, <2>3, <2>4, <2>5, CarriedByReport DEF Finish, Throw
<1>4. CASE PlanPullRequest(w)
  <2>1. \A plan \in Plans : Outcome(Awaiting("pr", {plan}))
    BY AwaitingOutcome DEF Payloads
  <2>2. Outcome(Result("failed"))
    BY ResultOutcome
  <2>3. workers[w].pc # "idle" /\ UNCHANGED <<work, holder, rules, approved, effects, reports>>
    BY <1>4 DEF PlanPullRequest
  <2>4. QED
    BY <1>0, <1>4, <2>1, <2>2, <2>3, CarriedByReport DEF PlanPullRequest, Finish, Throw
<1>5. CASE AskForBudget(w)
  <2>1. workers[w].rules.budget # Within
    BY <1>5 DEF AskForBudget, BudgetCleared
  <2>2. {workers[w].rules.budget} \in Payloads
    BY <1>0, <2>1 DEF Payloads
  <2>3. Outcome(Awaiting("budget", {workers[w].rules.budget}))
    BY <2>2, AwaitingOutcome
  <2>4. QED
    BY <1>0, <1>5, <2>3, CarriedByReport DEF AskForBudget, Finish
<1>6. CASE CheckSandbox(w)
  <2>1. /\ workers[w].pc = "checking" /\ BudgetGranted(workers[w])
        /\ UNCHANGED <<work, holder, rules, approved, effects, reports>>
    BY <1>6 DEF CheckSandbox, BudgetCleared, ApprovedGate, BudgetGranted
  <2>2. CASE Goto(w, "running")
    <3>1. Sound([workers[w] EXCEPT !.pc = "running"], approved)
      BY <1>0, <2>1 DEF Sound, WorkerType, BudgetGranted
    <3>2. QED
      BY <1>1, <2>1, <2>2, <3>1
  <2>3. CASE SandboxCleared(w) /\ Goto(w, "leasing")
    <3>1. SandboxGranted(workers[w])
      BY <2>3 DEF SandboxCleared, ApprovedGate, SandboxGranted
    <3>2. Sound([workers[w] EXCEPT !.pc = "leasing"], approved)
      BY <1>0, <2>1, <3>1 DEF Sound, WorkerType, BudgetGranted, SandboxGranted
    <3>3. QED
      BY <1>1, <2>1, <2>3, <3>2
  <2>4. CASE Finish(w, Result("failed")) \/ Finish(w, Awaiting("sandbox", {}))
    <3>1. Outcome(Result("failed")) /\ Outcome(Awaiting("sandbox", {}))
      BY ResultOutcome, AwaitingOutcome DEF Payloads
    <3>2. QED
      BY <1>0, <2>1, <2>4, <3>1, CarriedByReport DEF Finish
  <2>5. QED
    BY <1>6, <2>2, <2>3, <2>4 DEF CheckSandbox
<1>7. CASE LeaseSandbox(w)
  <2>1. workers[w].pc = "leasing" /\ UNCHANGED <<work, holder, rules, approved, reports>>
    BY <1>7 DEF LeaseSandbox
  <2>2. CASE Throw(w) /\ UNCHANGED effects
    BY <1>0, <2>1, <2>2, ResultOutcome, CarriedByReport DEF Throw
  <2>3. CASE /\ workers' = [workers EXCEPT ![w].pc = "running", ![w].sandbox = TRUE]
             /\ effects' = IF workers[w].rules.sandbox = "ask"
                           THEN effects \cup {Done(w, "sandbox", {})} ELSE effects
    <3> DEFINE q == [workers[w] EXCEPT !.pc = "running", !.sandbox = TRUE]
    <3>1. Sound(q, approved)
      BY <1>0, <2>1 DEF Sound, WorkerType, BudgetGranted
    <3>2. workers' = [workers EXCEPT ![w] = q]
      BY <1>0, <2>3
    <3>3. effects' \subseteq Acts
      BY <1>0, <2>1, <2>3, EffectType DEF Payloads
    <3> HIDE DEF q
    <3>4. QED
      BY <2>1, <3>1, <3>2, <3>3, CarriedByWorker
  <2>4. QED
    BY <1>7, <2>2, <2>3 DEF LeaseSandbox
<1>8. CASE StartAgent(w)
  <2>1. /\ workers[w].pc = "running" /\ UNCHANGED <<work, holder, rules, approved, reports>>
        /\ effects' \subseteq Acts
    BY <1>8, StartedType DEF StartAgent
  <2>2. \A wanted \in SUBSET Tools : Outcome(Awaiting("tool", wanted))
    BY AwaitingOutcome DEF Payloads
  <2>3. \A kind \in {"completed", "failed", "thrown"} : Outcome(Result(kind))
    BY ResultOutcome
  <2>4. PICK result : Outcome(result) /\ Leave(w, result)
    BY <1>8, <2>2, <2>3 DEF StartAgent
  <2>5. QED
    BY <2>1, <2>4, CarriedByLeave
<1>9. CASE ResumeAgent(w)
  <2>1. /\ workers[w].pc = "running" /\ UNCHANGED <<work, holder, rules, approved, reports>>
        /\ effects' \subseteq Acts
    BY <1>9, StartedType DEF ResumeAgent
  <2>2. PICK kind \in {"completed", "failed", "thrown"} : Leave(w, Result(kind))
    BY <1>9 DEF ResumeAgent
  <2>3. QED
    BY <2>1, <2>2, ResultOutcome, CarriedByLeave
<1>10. CASE DestroySandbox(w)
  <2>1. /\ workers[w].pc = "destroying" /\ Outcome(workers[w].result)
        /\ UNCHANGED <<work, holder, rules, approved, effects, reports>>
    BY <1>0, <1>10 DEF DestroySandbox, Sound
  <2>2. QED
    BY <1>0, <1>10, <2>1, ResultOutcome, CarriedByLeaveWith, CarriedByReport DEF DestroySandbox, Throw
<1>11. CASE Heartbeat(w)
  <2>1. workers[w].pc = "heartbeat" /\ UNCHANGED <<work, holder, rules, approved, effects, reports>>
    BY <1>11 DEF Heartbeat
  <2>2. CASE workers' = [workers EXCEPT ![w] = Idle]
    BY <1>0, <2>1, <2>2, IdleSound, CarriedByWorker
  <2>3. CASE workers' = [workers EXCEPT ![w].result = Result("cancelled"), ![w].pc = "settling"]
    <3> DEFINE q == [workers[w] EXCEPT !.result = Result("cancelled"), !.pc = "settling"]
    <3>1. Outcome(Result("cancelled"))
      BY ResultOutcome
    <3>2. Sound(q, approved)
      BY <1>0, <2>1, <3>1 DEF Sound, WorkerType, Outcome
    <3>3. workers' = [workers EXCEPT ![w] = q]
      BY <1>0, <2>3
    <3> HIDE DEF q
    <3>4. QED
      BY <1>0, <2>1, <3>2, <3>3, CarriedByWorker
  <2>4. CASE Goto(w, "settling")
    <3>1. Sound([workers[w] EXCEPT !.pc = "settling"], approved)
      BY <1>0, <2>1 DEF Sound, WorkerType
    <3>2. QED
      BY <1>1, <2>1, <2>4, <3>1
  <2>5. QED
    BY <1>11, <2>2, <2>3, <2>4 DEF Heartbeat
<1>12. CASE SettleFrom(w)
  <2>1. /\ workers[w].pc = "settling" /\ workers' = [workers EXCEPT ![w] = Idle]
        /\ UNCHANGED <<rules, approved, effects>>
    BY <1>12 DEF SettleFrom
  <2>2. \A v \in Workers : Sound(workers'[v], approved')
    BY <2>1, IdleSound, OneWorker
  <2>3. Idle \in WorkerType /\ workers' \in [Workers -> WorkerType]
    BY <2>1, IdleSound, WorkersType DEF Carried, Sound
  <2>4. CASE UNCHANGED <<work, holder, reports>>
    BY <2>1, <2>2, <2>3, <2>4 DEF Carried, TypeOK, WorkerType
  <2>5. CASE /\ work' = Settled(workers[w].result.kind, workers[w].result.request)
             /\ holder' = NoOne
             /\ reports' = reports \cup {[worker |-> w, attempt |-> workers[w].attempt,
                                     kind |-> IF work.cancelling THEN "cancelled"
                                              ELSE workers[w].result.kind]}
    <3>1. Outcome(workers[w].result) /\ workers[w].attempt \in Attempts
      BY <1>0, <2>1 DEF Sound
    <3>2. WorkSound(work, approved)
      BY DEF Carried
    <3>3. WorkSound(work', approved')
      BY <2>1, <2>5, <3>1, <3>2, SettledSound
    <3>4. reports' \subseteq [worker : Workers, attempt : Attempts, kind : Kinds]
      BY <2>5, <3>1 DEF Carried, TypeOK, Outcome, Kinds
    <3>5. TypeOK'
      BY <2>1, <2>3, <2>5, <3>3, <3>4 DEF Carried, TypeOK, WorkerType, WorkSound
    <3>6. QED
      BY <2>2, <3>3, <3>5 DEF Carried
  <2>6. QED
    BY <1>12, <2>4, <2>5 DEF SettleFrom
<1>13. QED
  BY <1>2, <1>3, <1>4, <1>5, <1>6, <1>7, <1>8, <1>9, <1>10, <1>11, <1>12 DEF Step

(* What is on record stays on record. *)
LEMMA MoreGrants ==
  ASSUME NEW grants, NEW more, grants \subseteq more
  PROVE  /\ \A p : Sound(p, grants) => Sound(p, more)
         /\ \A r : WorkSound(r, grants) => WorkSound(r, more)
  BY DEF Sound, WorkSound, OnRecord

(* Every step keeps what workers carry true: a copy of the record that an approval has really cleared. *)
LEMMA NextCarried ==
  ASSUME Carried, [Next]_vars
  PROVE  Carried'
<1>0. WorkSound(work, approved) /\ TypeOK /\ \A w \in Workers : Sound(workers[w], approved)
  BY DEF Carried
<1>1. ASSUME WorkSound(work', approved'), UNCHANGED <<workers, effects, reports>>,
             approved \subseteq approved', approved' \subseteq Acts,
             rules' \in Rules, holder' \in {holder, NoOne}
      PROVE  Carried'
  <2>1. \A w \in Workers : Sound(workers'[w], approved')
    BY <1>0, <1>1, MoreGrants
  <2>2. TypeOK'
    BY <1>0, <1>1 DEF TypeOK, WorkSound
  <2>3. QED
    BY <1>1, <2>1, <2>2 DEF Carried
<1>2. ASSUME NEW w \in Workers, Step(w)
      PROVE  Carried'
  BY <1>2, StepCarried
<1>3. CASE Expire
  <2>1. WorkSound(work', approved')
    BY <1>0, <1>3 DEF Expire, WorkSound, OnRecord
  <2>2. QED
    BY <1>0, <1>1, <1>3, <2>1 DEF Expire, TypeOK
<1>4. CASE Approve
  <2> DEFINE grant == [attempt |-> work.attempt, action |-> work.gate.action,
                       payload |-> work.gate.payload]
  <2>1. Requested(work.gate) /\ approved' = approved \cup {grant}
    BY <1>0, <1>4 DEF Approve, WorkSound
  <2>2. grant \in Acts
    BY <1>0, <2>1 DEF Requested, GateType, Acts, WorkSound
  <2>3. work' = [work EXCEPT !.status = "queued", !.reason = "approval_granted",
                             !.gate = [work.gate EXCEPT !.status = "approved"]]
    BY <1>0, <1>4 DEF Approve, WorkSound
  <2>4. WorkSound(work', approved')
    BY <1>0, <2>1, <2>3 DEF WorkSound, OnRecord, Requested, Passed, GateType
  <2>5. QED
    BY <1>0, <1>1, <1>4, <2>1, <2>2, <2>4 DEF Approve, TypeOK
<1>5. CASE Refuse
  <2>1. work' = [work EXCEPT !.status = "cancelled", !.gate = [work.gate EXCEPT !.status = "refused"]]
    BY <1>0, <1>5 DEF Refuse, WorkSound
  <2> DEFINE gate == [work.gate EXCEPT !.status = "refused"]
  <2>a. gate \in GateType /\ gate.status = "refused"
    BY <1>0 DEF WorkSound, GateType
  <2>b. work' = [work EXCEPT !.status = "cancelled", !.gate = gate] /\ UNCHANGED approved
    BY <1>5, <2>1 DEF Refuse
  <2> HIDE DEF gate
  <2>2. WorkSound(work', approved')
    BY <1>0, <2>a, <2>b DEF WorkSound, OnRecord
  <2>3. QED
    BY <1>0, <1>1, <1>5, <2>2 DEF Refuse, TypeOK
<1>6. CASE Cancel
  <2>1. WorkSound(work', approved')
    BY <1>0, <1>6 DEF Cancel, WorkSound, OnRecord
  <2>2. QED
    BY <1>0, <1>1, <1>6, <2>1 DEF Cancel, TypeOK
<1>7. CASE ChangeRules
  BY <1>0, <1>1, <1>7 DEF ChangeRules, TypeOK
<1>8. CASE UNCHANGED vars
  BY <1>0, <1>1, <1>8 DEF vars, TypeOK
<1>9. QED
  BY <1>2, <1>3, <1>4, <1>5, <1>6, <1>7, <1>8 DEF Next

(* In every reachable state the record and each worker's copy of it are sound:
   what they call approved is on record, and a worker past a checkpoint has on
   its own copy what let it pass. *)
THEOREM CarriedHolds == Spec => []Carried
  BY InitCarried, NextCarried, PTL DEF Spec

(* Type correctness of the worker runtime. *)
THEOREM TypeCorrect == Spec => []TypeOK
<1>1. Carried => TypeOK
  BY DEF Carried
<1>2. QED
  BY <1>1, CarriedHolds, PTL

-----------------------------------------------------------------------------
(* Effects *)

LEMMA PayloadCleared ==
  ASSUME NEW w \in Workers, NEW action \in {"sandbox", "pr"}, NEW payload,
         OnRecord(workers[w].attempt, workers[w].gate, approved),
         workers[w].gate.status = "approved", workers[w].gate.action = action,
         workers[w].gate.payload = payload
  PROVE  \E a \in approved : ClearedBy(a, Done(w, action, payload))
  BY DEF OnRecord, ClearedBy, Done

(* What the adapter starts has been cleared by an approval of this attempt. *)
LEMMA StartCleared ==
  ASSUME NEW w \in Workers, BudgetGranted(workers[w]),
         OnRecord(workers[w].attempt, workers[w].gate, approved), NEW e \in Started(w)
  PROVE  \E a \in approved : ClearedBy(a, e)
<1> DEFINE a == [attempt |-> workers[w].attempt, action |-> "budget",
                 payload |-> workers[w].gate.payload]
<1>1. /\ workers[w].rules.budget # Within
      /\ e = Done(w, "budget", {workers[w].rules.budget})
  BY DEF Started
<1>2. /\ workers[w].gate.action = "budget" /\ workers[w].gate.status = "approved"
      /\ \E asked \in workers[w].gate.payload : Covers(asked, workers[w].rules.budget)
  BY <1>1 DEF BudgetGranted
<1>3. a \in approved
  BY <1>2 DEF OnRecord
<1>4. ClearedBy(a, e)
  BY <1>1, <1>2 DEF ClearedBy, Done
<1>5. QED
  BY <1>3, <1>4

(* So has whatever a step adds to what was executed. *)
LEMMA EffectsCleared ==
  ASSUME Carried, [Next]_vars, NEW e \in effects' \ effects
  PROVE  \E a \in approved : ClearedBy(a, e)
<1>1. ASSUME NEW w \in Workers, OpenPullRequest(w)
      PROVE  \E a \in approved : ClearedBy(a, e)
  <2>1. PICK plan \in Plans : /\ workers[w].gate.action = "pr" /\ workers[w].gate.payload = {plan}
                              /\ e = Done(w, "pr", {plan})
    BY <1>1 DEF OpenPullRequest
  <2>2. /\ Passed(workers[w].gate)
        /\ OnRecord(workers[w].attempt, workers[w].gate, approved)
    BY <1>1 DEF OpenPullRequest, Carried, Sound
  <2>3. workers[w].gate.status = "approved"
    BY <2>1, <2>2 DEF Passed
  <2>4. QED
    BY <2>1, <2>2, <2>3, PayloadCleared
<1>2. ASSUME NEW w \in Workers, LeaseSandbox(w)
      PROVE  \E a \in approved : ClearedBy(a, e)
  <2>1. workers[w].rules.sandbox = "ask" /\ e = Done(w, "sandbox", {})
    BY <1>2 DEF LeaseSandbox
  <2>2. /\ Passed(workers[w].gate) /\ SandboxGranted(workers[w])
        /\ OnRecord(workers[w].attempt, workers[w].gate, approved)
    BY <1>2 DEF LeaseSandbox, Carried, Sound
  <2>3. /\ workers[w].gate.action = "sandbox" /\ workers[w].gate.status = "approved"
        /\ workers[w].gate.payload = {}
    BY <2>1, <2>2 DEF Passed, SandboxGranted
  <2>4. QED
    BY <2>1, <2>2, <2>3, PayloadCleared
<1>3. ASSUME NEW w \in Workers, StartAgent(w) \/ ResumeAgent(w)
      PROVE  \E a \in approved : ClearedBy(a, e)
  <2>1. e \in Started(w) /\ workers[w].pc = "running"
    BY <1>3 DEF StartAgent, ResumeAgent
  <2>2. /\ BudgetGranted(workers[w])
        /\ OnRecord(workers[w].attempt, workers[w].gate, approved)
    BY <2>1 DEF Carried, Sound
  <2>3. QED
    BY <2>1, <2>2, StartCleared
<1>4. QED
  BY <1>1, <1>2, <1>3
     DEF Next, Step, vars, Claim, PlanPullRequest, AskForBudget, CheckSandbox, DestroySandbox,
         Heartbeat, SettleFrom, Expire, Approve, Refuse, Cancel, ChangeRules

(* What was approved stays approved. *)
LEMMA ApprovedGrows ==
  ASSUME [Next]_vars
  PROVE  approved \subseteq approved'
  BY DEF Next, Step, vars, Claim, OpenPullRequest, PlanPullRequest, AskForBudget, CheckSandbox,
         LeaseSandbox, StartAgent, ResumeAgent, DestroySandbox, Heartbeat, SettleFrom, Expire,
         Approve, Refuse, Cancel, ChangeRules

(* CheckpointsCleared: a pull request is opened, an adapter started over budget
   and a sandbox leased only after a human approved exactly that. *)
THEOREM CheckpointsClearedHolds == Spec => []CheckpointsCleared
<1>1. Init => CheckpointsCleared
  BY DEF Init, CheckpointsCleared
<1>2. ASSUME Carried, CheckpointsCleared, [Next]_vars
      PROVE  CheckpointsCleared'
  <2>1. \A e \in effects' : \E a \in approved : ClearedBy(a, e)
    BY <1>2, EffectsCleared DEF CheckpointsCleared
  <2>2. QED
    BY <1>2, <2>1, ApprovedGrows DEF CheckpointsCleared
<1>3. QED
  BY <1>1, <1>2, CarriedHolds, PTL DEF Spec

-----------------------------------------------------------------------------
(* Who may settle *)

(* What a step of a worker may do to the record and the lease. *)
LEMMA StepOfWorker ==
  ASSUME Carried, NEW w \in Workers, Step(w)
  PROVE  /\ \A v \in Workers : v # w => workers'[v] = workers[v]
         /\ \/ /\ UNCHANGED <<work, holder, reports>>
               /\ holder = w => /\ workers[w].pc # "idle" => workers'[w].pc # "idle"
                                /\ workers'[w].attempt = workers[w].attempt
            \/ Claim(w)
            \/ SettleFrom(w) /\ holder = w
<1>0. workers \in [Workers -> WorkerType]
  BY DEF Carried, TypeOK, WorkerType
<1>1. ASSUME NEW pc, Goto(w, pc)
      PROVE  /\ \A v \in Workers : v # w => workers'[v] = workers[v]
             /\ workers'[w].pc = pc /\ workers'[w].attempt = workers[w].attempt
  BY <1>0, <1>1 DEF Goto, WorkerType
<1>2. ASSUME NEW pc, NEW result, Report(w, pc, result)
      PROVE  /\ \A v \in Workers : v # w => workers'[v] = workers[v]
             /\ workers'[w].pc = pc /\ workers'[w].attempt = workers[w].attempt
  BY <1>0, <1>2 DEF Report, Idle
<1>3. ASSUME NEW result, Leave(w, result) \/ LeaveWith(w, result)
      PROVE  /\ \A v \in Workers : v # w => workers'[v] = workers[v]
             /\ workers'[w].pc # "idle" /\ workers'[w].attempt = workers[w].attempt
  <2>1. CASE LeaveWith(w, result)
    BY <1>2, <2>1 DEF LeaveWith, Throw, Finish
  <2>2. CASE workers' = [workers EXCEPT ![w].result = result, ![w].pc = "destroying"]
    BY <1>0, <2>2 DEF WorkerType
  <2>3. QED
    BY <1>3, <2>1, <2>2 DEF Leave
<1>4. CASE OpenPullRequest(w) \/ PlanPullRequest(w) \/ AskForBudget(w) \/ CheckSandbox(w)
  <2>1. UNCHANGED <<work, holder, reports>>
    BY <1>4 DEF OpenPullRequest, PlanPullRequest, AskForBudget, CheckSandbox
  <2>2. \/ Goto(w, "running") \/ Goto(w, "leasing") \/ Throw(w)
        \/ \E result : Finish(w, result)
    BY <1>4 DEF OpenPullRequest, PlanPullRequest, AskForBudget, CheckSandbox
  <2>3. CASE Goto(w, "running") \/ Goto(w, "leasing")
    BY <1>1, <2>1, <2>3
  <2>4. CASE Throw(w) \/ \E result : Finish(w, result)
    BY <1>2, <2>1, <2>4 DEF Finish, Throw
  <2>5. QED
    BY <2>2, <2>3, <2>4
<1>5. CASE LeaseSandbox(w)
  <2>1. CASE workers' = [workers EXCEPT ![w].pc = "running", ![w].sandbox = TRUE]
    BY <1>0, <1>5, <2>1 DEF LeaseSandbox, WorkerType
  <2>2. CASE Throw(w)
    BY <1>2, <1>5, <2>2 DEF LeaseSandbox, Throw
  <2>3. QED
    BY <1>5, <2>1, <2>2 DEF LeaseSandbox
<1>6. CASE StartAgent(w) \/ ResumeAgent(w) \/ DestroySandbox(w)
  <2>1. \/ Throw(w)
        \/ \E result : Leave(w, result) \/ LeaveWith(w, result)
    BY <1>6 DEF StartAgent, ResumeAgent, DestroySandbox
  <2>2. UNCHANGED <<work, holder, reports>>
    BY <1>6 DEF StartAgent, ResumeAgent, DestroySandbox
  <2>3. QED
    BY <1>2, <1>3, <2>1, <2>2 DEF Throw
<1>7. CASE Heartbeat(w)
  <2>1. CASE workers' = [workers EXCEPT ![w].result = Result("cancelled"), ![w].pc = "settling"]
    BY <1>0, <1>7, <2>1 DEF Heartbeat, WorkerType
  <2>2. CASE Goto(w, "settling")
    BY <1>1, <1>7, <2>2 DEF Heartbeat
  <2>3. CASE holder # w /\ workers' = [workers EXCEPT ![w] = Idle]
    BY <1>0, <1>7, <2>3 DEF Heartbeat
  <2>4. QED
    BY <1>7, <2>1, <2>2, <2>3 DEF Heartbeat
<1>8. CASE Claim(w) \/ SettleFrom(w)
  BY <1>0, <1>8 DEF Claim, SettleFrom
<1>9. QED
  BY <1>4, <1>5, <1>6, <1>7, <1>8 DEF Step

Guarded == HolderAtWork /\ ReportsFinal /\ SettledOnce

(* The holder settles its attempt, once. *)
LEMMA SettleGuarded ==
  ASSUME Carried, Guarded, NEW w \in Workers, SettleFrom(w), holder = w
  PROVE  Guarded'
<1> DEFINE new == [worker |-> w, attempt |-> workers[w].attempt,
                   kind |-> IF work.cancelling THEN "cancelled" ELSE workers[w].result.kind]
<1>1. /\ work' = Settled(workers[w].result.kind, workers[w].result.request)
      /\ holder' = NoOne /\ reports' = reports \cup {new}
  BY DEF SettleFrom
<1>2. work.status = "claimed" /\ workers[w].attempt = work.attempt
  BY DEF Guarded, HolderAtWork
<1>3. Outcome(workers[w].result) /\ WorkSound(work, approved)
  BY DEF Carried, Sound, SettleFrom
<1>4. work.attempt \in Nat /\ \A r \in reports : r.attempt \in Nat
  BY <1>3 DEF WorkSound, Carried, TypeOK, Attempts
<1>5. \A r \in reports : r.kind # "awaiting" => r.attempt < work.attempt
  BY <1>2 DEF Guarded, ReportsFinal
<1>6. \/ /\ work' = [work EXCEPT !.status = "awaiting_approval", !.gate = workers[w].result.request]
         /\ ~work.cancelling /\ workers[w].result.kind = "awaiting"
      \/ \E status \in {"cancelled", "completed", "dead"} : work' = [work EXCEPT !.status = status]
      \/ work'.attempt = work.attempt + 1
  <2>1. NewWork(work.attempt + 1, "retry").attempt = work.attempt + 1
    BY DEF NewWork
  <2>2. QED
    BY <1>1, <1>3, <2>1, SettledFields
<1>7. /\ work'.attempt \in {work.attempt, work.attempt + 1}
      /\ \/ new.kind = "awaiting"
         \/ work'.attempt = work.attempt + 1
         \/ work'.status \in {"completed", "cancelled", "dead"}
  BY <1>3, <1>6 DEF WorkSound
<1>8. new.attempt = work.attempt
  BY <1>2
<1> HIDE DEF new
<1>9. ReportsFinal'
  BY <1>1, <1>4, <1>5, <1>7, <1>8 DEF ReportsFinal
<1>10. SettledOnce'
  BY <1>1, <1>4, <1>5, <1>8 DEF Guarded, SettledOnce
<1>11. HolderAtWork'
  BY <1>1, WorkersAssumption DEF HolderAtWork
<1>12. QED
  BY <1>9, <1>10, <1>11 DEF Guarded

(* Every step keeps one holder, and final reports. *)
LEMMA NextGuarded ==
  ASSUME Carried, Guarded, [Next]_vars
  PROVE  Guarded'
<1>0. WorkSound(work, approved) /\ TypeOK
  BY DEF Carried
<1>1. ASSUME UNCHANGED <<workers, reports>>, work'.attempt = work.attempt,
             \/ holder' = holder /\ work'.status = work.status
             \/ holder' = NoOne /\ work.status \in {"queued", "claimed", "awaiting_approval"}
             \/ /\ holder' = holder /\ work.status \in {"queued", "awaiting_approval"}
      PROVE  Guarded'
  <2>1. ReportsFinal'
    BY <1>1 DEF Guarded, ReportsFinal
  <2>2. HolderAtWork'
    BY <1>1, WorkersAssumption DEF Guarded, HolderAtWork
  <2>3. QED
    BY <1>1, <2>1, <2>2 DEF Guarded, SettledOnce
<1>2. ASSUME NEW w \in Workers, Step(w)
      PROVE  Guarded'
  <2>1. \A v \in Workers : v # w => workers'[v] = workers[v]
    BY <1>2, StepOfWorker
  <2>2. CASE /\ UNCHANGED <<work, holder, reports>>
             /\ holder = w => /\ workers[w].pc # "idle" => workers'[w].pc # "idle"
                              /\ workers'[w].attempt = workers[w].attempt
    BY <2>1, <2>2 DEF Guarded, HolderAtWork, ReportsFinal, SettledOnce
  <2>3. CASE Claim(w)
    <3>1. /\ work' = [work EXCEPT !.status = "claimed"] /\ holder' = w /\ UNCHANGED reports
          /\ work.status = "queued"
          /\ workers'[w].pc = "checking" /\ workers'[w].attempt = work.attempt
      BY <1>0, <2>3 DEF Claim, TypeOK, Idle
    <3>2. work'.attempt = work.attempt /\ work'.status = "claimed"
      BY <1>0, <3>1 DEF WorkSound
    <3>3. QED
      BY <3>1, <3>2 DEF Guarded, HolderAtWork, ReportsFinal, SettledOnce
  <2>4. CASE SettleFrom(w) /\ holder = w
    BY <2>4, SettleGuarded
  <2>5. QED
    BY <1>2, <2>2, <2>3, <2>4, StepOfWorker
<1>3. CASE Expire \/ Approve \/ Refuse
  BY <1>0, <1>1, <1>3 DEF Expire, Approve, Refuse, WorkSound
<1>4. CASE Cancel
  BY <1>0, <1>1, <1>4 DEF Cancel, WorkSound
<1>5. CASE ChangeRules \/ UNCHANGED vars
  BY <1>1, <1>5 DEF ChangeRules, vars
<1>6. QED
  BY <1>2, <1>3, <1>4, <1>5 DEF Next

(* SettledOnce: of all the workers that carried an attempt, one settles it for
   good; the others lost their lease, and what they report is not taken. *)
THEOREM SettledOnceHolds == Spec => []SettledOnce
<1>1. Init => Guarded
  BY WorkersAssumption DEF Init, Guarded, HolderAtWork, ReportsFinal, SettledOnce
<1>2. Guarded => SettledOnce
  BY DEF Guarded
<1>3. QED
  BY <1>1, <1>2, NextGuarded, CarriedHolds, PTL DEF Spec
=============================================================================
