---------------------------- MODULE ServicesProofs ----------------------------
(* Theorems about Sandbox, AdminAuth, GitHubDraftPr and SaveChain, as four of the
   Services: for all workers, attempts, policies and targets; for all requests,
   environments, limits and windows; for all proposals, redactions, answers,
   workers and attempts; for all requests that save, and all changes. *)
EXTENDS Services, SequenceTheorems, FiniteSetTheorems, WellFoundedInduction, TLAPS

(* The constants and variables of the three, by the names they have there (the
   workers of a pull request are writers here). *)
Workers == SandboxWorkers
MaxAttempts == SandboxAttempts
policy == s1
config == s2
queue == s3
docker == s4
worker == s5
faults == s6
RateLimit == ApiRateLimit
Window == ApiWindow
MaxNow == ApiMaxNow
env == s1
now == s2
buckets == s3
cookies == s4
arrived == s5
acts == s6
run == s2
repo == s3
writer == s4
USE DEF Workers, MaxAttempts, policy, config, queue, docker, worker, faults,
        RateLimit, Window, MaxNow, env, now, buckets, cookies, arrived, acts, run, repo, writer

-----------------------------------------------------------------------------
(* The sandbox: the inductive invariant *)

Points == {"idle", "planned", "created", "running", "downloading", "destroying", "ended"}
Working == [at : Points, attempt : 0..MaxAttempts, destroyed : BOOLEAN, ok : BOOLEAN]
Queued == [status : {"queued", "claimed", "done", "dead"}, attempt : Sbx!Attempts,
           holder : Workers \cup {"none"}, expired : Nat]

SandboxTyped ==
  /\ queue \in Queued
  /\ docker \in [Sbx!Attempts -> Workers \cup {"none"}]
  /\ worker \in [Workers -> Working]
  /\ \A w \in Workers : worker[w].at # "idle" => worker[w].attempt \in Sbx!Attempts
  /\ faults \in BOOLEAN

InUse(w) == worker[w].at \in {"created", "running", "downloading"}

(* A worker that has a container in use, or has still to destroy one, created
   the container that has the name. *)
OwnsName ==
  \A w \in Workers :
    /\ InUse(w) => ~worker[w].destroyed
    /\ InUse(w) \/ (worker[w].at = "destroying" /\ ~worker[w].destroyed)
         => docker[worker[w].attempt] = w

(* As long as nothing has failed, a container is destroyed before its worker
   takes it to be. *)
Accounted ==
  ~faults => \A n \in Sbx!Attempts : docker[n] # "none" =>
    LET w == docker[n] IN
    /\ worker[w].attempt = n /\ ~worker[w].destroyed
    /\ InUse(w) \/ worker[w].at = "destroying"

SandboxInv == SandboxTyped /\ OwnsName /\ Accounted

(* No container exists at first. *)
LEMMA SandboxInit ==
  ASSUME MaxAttempts \in Nat \ {0}
  PROVE  Sbx!Init => SandboxInv
<1> SUFFICES ASSUME Sbx!Init PROVE SandboxInv
  OBVIOUS
<1>1. 1 \in Sbx!Attempts /\ Sbx!Idle \in Working
  BY DEF Sbx!Attempts, Sbx!Idle, Working, Points
<1>2. SandboxTyped
  BY <1>1 DEF Sbx!Init, SandboxTyped, Queued, Sbx!Idle
<1>3. OwnsName /\ Accounted
  BY DEF Sbx!Init, OwnsName, Accounted, InUse, Sbx!Idle
<1>4. QED
  BY <1>2, <1>3 DEF SandboxInv

-----------------------------------------------------------------------------
(* The sandbox: its steps *)

(* A step of one worker that leaves the containers as they are, and takes a
   worker that had none in use, or keeps it at work on its own. *)
LEMMA WorkerStepKeeps ==
  ASSUME SandboxInv, "none" \notin Workers, NEW w \in Workers, NEW q \in Working,
         worker' = [worker EXCEPT ![w] = q], docker' = docker, queue' \in Queued,
         faults' \in BOOLEAN, faults => faults',
         q.at # "idle" => q.attempt \in Sbx!Attempts,
         \/ /\ q.at \notin {"created", "running", "downloading"}
            /\ q.at = "destroying" => q.destroyed
            /\ \/ faults'
               \/ ~InUse(w) /\ (worker[w].at = "destroying" => worker[w].destroyed)
         \/ /\ InUse(w) /\ q.attempt = worker[w].attempt /\ ~q.destroyed
            /\ q.at \in {"created", "running", "downloading", "destroying"}
  PROVE  SandboxInv'
<1>1. SandboxTyped /\ OwnsName /\ Accounted
  BY DEF SandboxInv
<1>2. worker'[w] = q /\ \A v \in Workers : v # w => worker'[v] = worker[v]
  BY <1>1 DEF SandboxTyped
<1>3. SandboxTyped'
  BY <1>1, <1>2 DEF SandboxTyped
<1>4. OwnsName'
  BY <1>1, <1>2 DEF OwnsName, InUse
<1>5. Accounted'
  <2>1. SUFFICES ASSUME ~faults', NEW n \in Sbx!Attempts, docker[n] # "none"
                 PROVE  LET v == docker[n] IN
                        /\ worker'[v].attempt = n /\ ~worker'[v].destroyed
                        /\ worker'[v].at \in {"created", "running", "downloading", "destroying"}
    BY DEF Accounted, InUse
  <2>2. /\ worker[docker[n]].attempt = n /\ ~worker[docker[n]].destroyed
        /\ InUse(docker[n]) \/ worker[docker[n]].at = "destroying"
        /\ docker[n] \in Workers
    BY <1>1, <2>1 DEF Accounted, SandboxTyped
  <2>3. CASE docker[n] # w
    BY <1>2, <2>2, <2>3 DEF InUse
  <2>4. CASE docker[n] = w
    BY <1>2, <2>1, <2>2, <2>4
  <2>5. QED
    BY <2>3, <2>4
<1>6. QED
  BY <1>3, <1>4, <1>5 DEF SandboxInv

(* A step that creates the container of a worker's attempt, or removes it. *)
LEMMA ContainerStepKeeps ==
  ASSUME SandboxInv, "none" \notin Workers, NEW w \in Workers, NEW q \in Working,
         NEW c \in {w, "none"}, docker[worker[w].attempt] \in {w, "none"},
         worker[w].at \in {"planned", "created", "running", "downloading", "destroying"},
         worker' = [worker EXCEPT ![w] = q],
         docker' = [docker EXCEPT ![worker[w].attempt] = c], queue' = queue,
         faults' \in BOOLEAN, faults => faults',
         q.attempt = worker[w].attempt,
         q.at \in {"created", "destroying", "ended"},
         q.at = "created" => ~q.destroyed /\ c = w,
         q.at = "destroying" => q.destroyed,
         ~faults' => c = "none" \/ q.at = "created"
  PROVE  SandboxInv'
<1> DEFINE k == worker[w].attempt
<1>1. SandboxTyped /\ OwnsName /\ Accounted
  BY DEF SandboxInv
<1>2. /\ worker'[w] = q /\ \A v \in Workers : v # w => worker'[v] = worker[v]
      /\ k \in Sbx!Attempts /\ docker'[k] = c /\ \A n \in Sbx!Attempts : n # k => docker'[n] = docker[n]
  BY <1>1 DEF SandboxTyped
<1>3. SandboxTyped'
  BY <1>1, <1>2 DEF SandboxTyped
<1>4. OwnsName'
  <2>1. \A v \in Workers : v # w =>
          /\ InUse(v) => ~worker[v].destroyed
          /\ InUse(v) \/ (worker[v].at = "destroying" /\ ~worker[v].destroyed)
               => docker[worker[v].attempt] = v /\ worker[v].attempt \in Sbx!Attempts
                  /\ worker[v].attempt # k
    BY <1>1, <1>2 DEF OwnsName, SandboxTyped, InUse
  <2> HIDE DEF k
  <2>2. \A v \in Workers : v # w =>
          /\ InUse(v)' => ~worker'[v].destroyed
          /\ InUse(v)' \/ (worker'[v].at = "destroying" /\ ~worker'[v].destroyed)
               => docker'[worker'[v].attempt] = v
    BY <1>2, <2>1 DEF InUse
  <2>3. /\ InUse(w)' => ~worker'[w].destroyed
        /\ InUse(w)' \/ (worker'[w].at = "destroying" /\ ~worker'[w].destroyed)
             => docker'[worker'[w].attempt] = w
    BY <1>2 DEF InUse, k
  <2>4. QED
    BY <2>2, <2>3 DEF OwnsName
<1>5. Accounted'
  <2>1. SUFFICES ASSUME ~faults', NEW n \in Sbx!Attempts, docker'[n] # "none"
                 PROVE  LET v == docker'[n] IN
                        /\ worker'[v].attempt = n /\ ~worker'[v].destroyed
                        /\ worker'[v].at \in {"created", "running", "downloading", "destroying"}
    BY DEF Accounted, InUse
  <2>2. CASE n = k
    BY <1>2, <2>1, <2>2
  <2>3. CASE n # k
    <3>1. /\ docker'[n] = docker[n] /\ docker[n] \in Workers
          /\ worker[docker[n]].attempt = n /\ ~worker[docker[n]].destroyed
          /\ InUse(docker[n]) \/ worker[docker[n]].at = "destroying"
      BY <1>1, <1>2, <2>1, <2>3 DEF Accounted, SandboxTyped
    <3>2. docker[n] # w
      BY <2>3, <3>1
    <3>3. QED
      BY <1>2, <3>1, <3>2 DEF InUse
  <2>4. QED
    BY <2>2, <2>3
<1>6. QED
  BY <1>3, <1>4, <1>5 DEF SandboxInv

(* Every docker call, answered, failed or timed out, keeps the invariant. *)
LEMMA SandboxStep ==
  ASSUME "none" \notin Workers, MaxAttempts \in Nat \ {0}, SandboxInv, [Sbx!Next]_(Sbx!vars)
  PROVE  SandboxInv'
<1>1. SandboxTyped /\ OwnsName /\ Accounted
  BY DEF SandboxInv
<1>2. /\ Sbx!Idle \in Working /\ Sbx!Idle.at = "idle" /\ Sbx!Idle.destroyed
      /\ \A w \in Workers : worker[w] \in Working
  BY <1>1 DEF Sbx!Idle, Working, Points, SandboxTyped
<1> DEFINE At(w, at) == [worker[w] EXCEPT !.at = at]
           Ended(w, ok) == [worker[w] EXCEPT !.at = "ended", !.ok = ok]
<1>3. \A w \in Workers, at \in Points :
        /\ At(w, at) \in Working /\ At(w, at).at = at
        /\ At(w, at).attempt = worker[w].attempt /\ At(w, at).destroyed = worker[w].destroyed
  BY <1>2 DEF Working
<1>4. \A w \in Workers, ok \in BOOLEAN :
        /\ Ended(w, ok) \in Working /\ Ended(w, ok).at = "ended"
        /\ Ended(w, ok).attempt = worker[w].attempt
  BY <1>2 DEF Working, Points
<1>5. \A w \in Workers : worker[w].at # "idle" => worker[w].attempt \in Sbx!Attempts
  BY <1>1 DEF SandboxTyped
<1>6. queue \in Queued /\ faults \in BOOLEAN
  BY <1>1 DEF SandboxTyped
<1>7. CASE Sbx!LeaseExpires
  <2>1. queue' \in Queued
    <3>1. queue.expired + 1 \in Nat
      BY <1>6 DEF Queued
    <3>2. QED
      BY <1>6, <1>7, <3>1 DEF Sbx!LeaseExpires, Queued
  <2>2. UNCHANGED <<docker, worker, faults>>
    BY <1>7 DEF Sbx!LeaseExpires
  <2>3. QED
    BY <1>1, <2>1, <2>2 DEF SandboxInv, SandboxTyped, OwnsName, Accounted, InUse
<1>8. ASSUME NEW w \in Workers, Sbx!ClaimNext(w) PROVE SandboxInv'
  <2> DEFINE q == [Sbx!Idle EXCEPT !.at = "planned", !.attempt = queue.attempt]
  <2>1. q \in Working /\ q.at = "planned" /\ q.attempt = queue.attempt /\ q.attempt \in Sbx!Attempts
    <3>1. queue.attempt \in Sbx!Attempts
      BY <1>6 DEF Queued
    <3>2. queue.attempt \in 0..MaxAttempts
      BY <3>1 DEF Sbx!Attempts
    <3>3. QED
      BY <3>1, <3>2 DEF Sbx!Idle, Working, Points
  <2>2. queue' \in Queued
    BY <1>6, <1>8 DEF Sbx!ClaimNext, Queued
  <2>3. /\ worker[w].at = "idle" /\ worker' = [worker EXCEPT ![w] = q]
        /\ UNCHANGED <<docker, faults>>
    BY <1>8 DEF Sbx!ClaimNext
  <2> HIDE DEF q
  <2>4. QED
    BY <1>6, <2>1, <2>2, <2>3, WorkerStepKeeps DEF InUse
<1>9. ASSUME NEW w \in Workers, Sbx!Settle(w) PROVE SandboxInv'
  <2>1. queue' \in Queued
    <3>1. queue.attempt < MaxAttempts => queue.attempt + 1 \in Sbx!Attempts
      BY <1>6 DEF Queued, Sbx!Attempts
    <3>2. QED
      BY <1>6, <1>9, <3>1 DEF Sbx!Settle, Queued
  <2>2. /\ worker[w].at = "ended" /\ worker' = [worker EXCEPT ![w] = Sbx!Idle]
        /\ UNCHANGED <<docker, faults>>
    BY <1>9 DEF Sbx!Settle
  <2>3. QED
    BY <1>2, <1>6, <2>1, <2>2, WorkerStepKeeps DEF InUse
<1>10. ASSUME NEW w \in Workers, Sbx!RefusePolicy(w) PROVE SandboxInv'
  <2>1. /\ worker[w].at = "planned" /\ worker' = [worker EXCEPT ![w] = Ended(w, FALSE)]
        /\ UNCHANGED <<queue, docker, faults>>
    BY <1>10 DEF Sbx!RefusePolicy, Sbx!End
  <2> HIDE DEF Ended
  <2>2. QED
    BY <1>4, <1>5, <1>6, <2>1, WorkerStepKeeps DEF InUse
<1>11. ASSUME NEW w \in Workers, Sbx!CreateOk(w) PROVE SandboxInv'
  <2> DEFINE q == [worker[w] EXCEPT !.at = "created", !.destroyed = FALSE]
  <2>1. q \in Working /\ q.at = "created" /\ ~q.destroyed /\ q.attempt = worker[w].attempt
    BY <1>2 DEF Working, Points
  <2>2. /\ worker[w].at = "planned" /\ docker[worker[w].attempt] = "none"
        /\ docker' = [docker EXCEPT ![worker[w].attempt] = w]
        /\ worker' = [worker EXCEPT ![w] = q] /\ UNCHANGED <<queue, faults>>
    BY <1>11 DEF Sbx!CreateOk
  <2> HIDE DEF q
  <2>3. QED
    BY <1>6, <2>1, <2>2, ContainerStepKeeps
<1>12. ASSUME NEW w \in Workers, Sbx!CreateFails(w) PROVE SandboxInv'
  <2>1. /\ worker[w].at = "planned" /\ worker' = [worker EXCEPT ![w] = Ended(w, FALSE)]
        /\ UNCHANGED queue
    BY <1>12 DEF Sbx!CreateFails, Sbx!End
  <2> HIDE DEF Ended
  <2>2. CASE docker' = docker /\ faults' \in BOOLEAN /\ (faults => faults')
    BY <1>4, <1>5, <1>6, <2>1, <2>2, WorkerStepKeeps DEF InUse
  <2>3. CASE /\ docker[worker[w].attempt] = "none" /\ faults' = TRUE
             /\ docker' = [docker EXCEPT ![worker[w].attempt] = w]
    BY <1>4, <2>1, <2>3, ContainerStepKeeps
  <2>4. \/ docker' = docker /\ (faults' = faults \/ faults' = TRUE)
        \/ /\ docker[worker[w].attempt] = "none" /\ faults' = TRUE
           /\ docker' = [docker EXCEPT ![worker[w].attempt] = w]
    BY <1>12 DEF Sbx!CreateFails
  <2>5. QED
    BY <1>6, <2>2, <2>3, <2>4
<1>13. ASSUME NEW w \in Workers, Sbx!AdapterDenies(w) PROVE SandboxInv'
  <2> DEFINE q == [worker[w] EXCEPT !.at = "destroying", !.ok = FALSE]
  <2>1. /\ q \in Working /\ q.at = "destroying" /\ q.attempt = worker[w].attempt
        /\ q.destroyed = worker[w].destroyed
    BY <1>2 DEF Working, Points
  <2>2. /\ worker[w].at = "created" /\ worker' = [worker EXCEPT ![w] = q]
        /\ UNCHANGED <<queue, docker, faults>>
    BY <1>13 DEF Sbx!AdapterDenies
  <2>3. InUse(w) /\ ~worker[w].destroyed
    BY <1>1, <2>2 DEF OwnsName, InUse
  <2> HIDE DEF q
  <2>4. QED
    BY <1>5, <1>6, <2>1, <2>2, <2>3, WorkerStepKeeps
<1>14. ASSUME NEW w \in Workers, NEW at \in {"running", "downloading", "destroying"}, InUse(w),
              worker' = [worker EXCEPT ![w] = At(w, at)], UNCHANGED <<queue, docker, faults>>
       PROVE  SandboxInv'
  <2>1. ~worker[w].destroyed /\ at \in Points /\ worker[w].at # "idle"
    BY <1>1, <1>14 DEF OwnsName, InUse, Points
  <2> HIDE DEF At
  <2>2. QED
    BY <1>3, <1>5, <1>6, <1>14, <2>1, WorkerStepKeeps
<1>15. ASSUME NEW w \in Workers, Sbx!ExecStarts(w) \/ Sbx!ExecReturns(w) PROVE SandboxInv'
  <2>1. InUse(w) /\ UNCHANGED <<queue, docker, faults>>
    BY <1>15 DEF Sbx!ExecStarts, Sbx!ExecReturns, InUse
  <2>2. \E at \in {"running", "downloading", "destroying"} : worker' = [worker EXCEPT ![w] = At(w, at)]
    BY <1>15 DEF Sbx!ExecStarts, Sbx!ExecReturns
  <2>3. QED
    BY <1>14, <2>1, <2>2
<1>16. ASSUME NEW w \in Workers, Sbx!Download(w) PROVE SandboxInv'
  <2>1. PICK ok \in BOOLEAN :
          worker' = [worker EXCEPT ![w] = [worker[w] EXCEPT !.at = "destroying", !.ok = ok]]
    BY <1>16 DEF Sbx!Download
  <2> DEFINE q == [worker[w] EXCEPT !.at = "destroying", !.ok = ok]
  <2>2. /\ q \in Working /\ q.at = "destroying" /\ q.attempt = worker[w].attempt
        /\ q.destroyed = worker[w].destroyed
    BY <1>2 DEF Working, Points
  <2>3. worker[w].at = "downloading" /\ UNCHANGED <<queue, docker, faults>>
    BY <1>16 DEF Sbx!Download
  <2>4. InUse(w) /\ ~worker[w].destroyed
    BY <1>1, <2>3 DEF OwnsName, InUse
  <2> HIDE DEF q
  <2>5. QED
    BY <1>5, <1>6, <2>1, <2>2, <2>3, <2>4, WorkerStepKeeps DEF q
<1>17. ASSUME NEW w \in Workers, Sbx!ExecTimesOut(w) PROVE SandboxInv'
  <2> DEFINE q == [worker[w] EXCEPT !.at = "destroying", !.ok = FALSE, !.destroyed = TRUE]
  <2>1. /\ q \in Working /\ q.at = "destroying" /\ q.attempt = worker[w].attempt
        /\ q.destroyed
    BY <1>2 DEF Working, Points
  <2>2. worker[w].at = "running" /\ worker' = [worker EXCEPT ![w] = q] /\ UNCHANGED queue
    BY <1>17 DEF Sbx!ExecTimesOut
  <2>3. docker[worker[w].attempt] = w
    BY <1>1, <2>2 DEF OwnsName, InUse
  <2> HIDE DEF q
  <2>4. CASE docker' = [docker EXCEPT ![worker[w].attempt] = "none"] /\ UNCHANGED faults
    BY <1>6, <2>1, <2>2, <2>3, <2>4, ContainerStepKeeps
  <2>5. CASE UNCHANGED docker /\ faults' = TRUE
    BY <1>5, <1>6, <2>1, <2>2, <2>5, WorkerStepKeeps
  <2>6. QED
    BY <1>17, <2>4, <2>5 DEF Sbx!ExecTimesOut
<1>18. ASSUME NEW w \in Workers, Sbx!Destroy(w) PROVE SandboxInv'
  <2>1. worker[w].at = "destroying" /\ UNCHANGED queue
    BY <1>18 DEF Sbx!Destroy
  <2>2. CASE worker[w].destroyed
    <3>1. worker' = [worker EXCEPT ![w] = At(w, "ended")] /\ UNCHANGED <<docker, faults>>
      BY <1>18, <2>2 DEF Sbx!Destroy
    <3>2. "ended" \in Points
      BY DEF Points
    <3> HIDE DEF At
    <3>3. QED
      BY <1>3, <1>5, <1>6, <2>1, <2>2, <3>1, <3>2, WorkerStepKeeps DEF InUse
  <2>3. CASE ~worker[w].destroyed
    <3> DEFINE q == [worker[w] EXCEPT !.at = "ended", !.destroyed = TRUE]
               p == [Ended(w, FALSE) EXCEPT !.destroyed = TRUE]
    <3>1. /\ q \in Working /\ q.at = "ended" /\ q.attempt = worker[w].attempt
          /\ p \in Working /\ p.at = "ended" /\ p.attempt = worker[w].attempt
      BY <1>2 DEF Working, Points
    <3>2. docker[worker[w].attempt] = w
      BY <1>1, <2>1, <2>3 DEF OwnsName
    <3>3. \/ /\ docker' = [docker EXCEPT ![worker[w].attempt] = "none"]
             /\ worker' = [worker EXCEPT ![w] = q] /\ UNCHANGED faults
          \/ /\ worker' = [worker EXCEPT ![w] = p]
             /\ faults' = TRUE /\ UNCHANGED docker
      BY <1>18, <2>3 DEF Sbx!Destroy, Sbx!End
    <3> HIDE DEF q, p
    <3>4. CASE /\ docker' = [docker EXCEPT ![worker[w].attempt] = "none"]
               /\ worker' = [worker EXCEPT ![w] = q] /\ UNCHANGED faults
      BY <1>6, <2>1, <3>1, <3>2, <3>4, ContainerStepKeeps
    <3>5. CASE /\ worker' = [worker EXCEPT ![w] = p]
               /\ faults' = TRUE /\ UNCHANGED docker
      BY <1>5, <1>6, <2>1, <3>1, <3>5, WorkerStepKeeps
    <3>6. QED
      BY <3>3, <3>4, <3>5
  <2>4. QED
    BY <2>2, <2>3
<1>19. ASSUME NEW w \in Workers, Sbx!Crash(w) PROVE SandboxInv'
  <2>1. worker' = [worker EXCEPT ![w] = Sbx!Idle] /\ faults' = TRUE /\ UNCHANGED <<queue, docker>>
    BY <1>19 DEF Sbx!Crash
  <2>2. QED
    BY <1>2, <1>6, <2>1, WorkerStepKeeps
<1>20. CASE UNCHANGED Sbx!vars
  BY <1>1, <1>20 DEF Sbx!vars, SandboxInv, SandboxTyped, OwnsName, Accounted, InUse
<1>21. QED
  BY <1>7, <1>8, <1>9, <1>10, <1>11, <1>12, <1>13, <1>15, <1>16, <1>17, <1>18, <1>19, <1>20
     DEF Sbx!Next

-----------------------------------------------------------------------------
(* The sandbox: the theorems *)

(* DockerSandboxProvider: container names are owned by the worker that created *)
(* the container, and while nothing fails every container is accounted for.    *)
THEOREM SandboxInvHolds == Spec => [](unit = "sandbox" => SandboxInv)
<1>1. Starts => (unit = "sandbox" => SandboxInv)
  BY SandboxInit, SandboxAssumption DEF Starts
<1>2. (unit = "sandbox" => SandboxInv) /\ [UNCHANGED unit /\ Steps]_vars => (unit = "sandbox" => SandboxInv)'
  BY SandboxStep, SandboxAssumption DEF Steps, vars, Sbx!vars
<1>3. QED
  BY <1>1, <1>2, PTL DEF Spec

(* create and exec: a command runs in the container its own worker created,    *)
(* although another worker may be at the same attempt under the same name.     *)
THEOREM RunsInOwnContainerHolds == Spec => []RunsInOwnContainer
<1>1. SandboxInv => Sbx!RunsInOwnContainer
  BY DEF SandboxInv, OwnsName, InUse, Sbx!RunsInOwnContainer
<1>2. (unit = "sandbox" => SandboxInv) => RunsInOwnContainer
  BY <1>1 DEF RunsInOwnContainer
<1>3. QED
  BY <1>2, SandboxInvHolds, PTL

(* The finally of an attempt: a container that no attempt still has to destroy *)
(* is one that a failed docker call or a crash left.                           *)
THEOREM LeftBehindOnlyByFaultsHolds == Spec => []LeftBehindOnlyByFaults
<1>1. SandboxInv => Sbx!LeftBehindOnlyByFaults
  BY DEF SandboxInv, Accounted, InUse, Sbx!LeftBehindOnlyByFaults
<1>2. (unit = "sandbox" => SandboxInv) => LeftBehindOnlyByFaults
  BY <1>1 DEF LeftBehindOnlyByFaults
<1>3. QED
  BY <1>2, SandboxInvHolds, PTL

(* EvaluateEgressPolicy: what the adapter lets through under an accepted       *)
(* policy is on the list the container is started with, for every policy and   *)
(* every target: where the two parsers disagree about a port, the list's entry *)
(* names none.                                                                 *)
THEOREM EgressNeverWiderHolds == Spec => []EgressNeverWider
<1>1. Sbx!EgressNeverWider
  <2> DEFINE t == Sbx!ParseEgressTarget(config.target)
  <2>1. SUFFICES ASSUME Sbx!AssertSandboxPolicy(policy),
                        Sbx!EvaluateEgressPolicy(policy.network, config.target) = "allowlisted"
                 PROVE  /\ ~Sbx!IsMetadataNetworkTarget(t.host)
                        /\ policy.network.blockPrivate => ~Sbx!IsPrivateNetworkTarget(t.host)
                        /\ \E raw \in policy.network.allowlist :
                             LET entry == Sbx!ParseNetworkAllowlistEntry(raw)
                             IN entry.host = t.host /\ entry.port \in {0, t.port}
    BY DEF Sbx!EgressNeverWider
  <2>2. policy.network.blockMetadata
    BY <2>1 DEF Sbx!AssertSandboxPolicy
  <2>3. /\ ~(policy.network.blockMetadata /\ Sbx!IsMetadataNetworkTarget(t.host))
        /\ ~(policy.network.blockPrivate /\ Sbx!IsPrivateNetworkTarget(t.host))
        /\ Sbx!MatchesEgressAllowlist(policy.network.allowlist, t.host, t.port)
    BY <2>1 DEF Sbx!EvaluateEgressPolicy
  <2>4. PICK raw \in policy.network.allowlist :
          /\ Sbx!ParseEgressTarget(raw).host = t.host
          /\ Sbx!ParseEgressTarget(raw).port \in {0, t.port}
    BY <2>3 DEF Sbx!MatchesEgressAllowlist
  <2>5. /\ Sbx!ParseNetworkAllowlistEntry(raw).host = Sbx!ParseEgressTarget(raw).host
        /\ Sbx!ParseNetworkAllowlistEntry(raw).port \in {0, Sbx!ParseEgressTarget(raw).port}
    BY DEF Sbx!ParseNetworkAllowlistEntry, Sbx!ParseEgressTarget, Sbx!UrlPort
  <2>6. QED
    BY <2>2, <2>3, <2>4, <2>5
<1>2. EgressNeverWider
  BY <1>1 DEF EgressNeverWider
<1>3. QED
  BY <1>2, PTL

(* No write is let into what is mounted as source, nor outside the mounts: the
   source root is the first that is tried. *)
THEOREM SourceNeverWrittenHolds == Spec => []SourceNeverWritten
<1>1. Sbx!SourceNeverWritten
  <2> DEFINE roots == Sbx!FilesystemPolicyFromMounts(policy.targets)
             path  == Sbx!Normalize(config.cwd)
             held  == Sbx!ContainingRoot(roots, path)
  <2>1. SUFFICES ASSUME Sbx!EvaluateFilesystemAccess(roots, config.cwd, "write", 0, 0) = "allowed"
                 PROVE  /\ ~Sbx!IsWithinRoot(roots["source"], path)
                        /\ \/ Sbx!IsWithinRoot(roots["worktree"], path)
                           \/ Sbx!IsWithinRoot(roots["artifact"], path)
    BY DEF Sbx!SourceNeverWritten
  <2>2. held # {} /\ Sbx!RootOrder[Sbx!Min(held)] # "source"
    <3> HIDE DEF roots, path
    <3> QED  BY <2>1 DEF Sbx!EvaluateFilesystemAccess, path
  <2>3. /\ DOMAIN Sbx!RootOrder = 1..3
        /\ Sbx!RootOrder[1] = "source" /\ Sbx!RootOrder[2] = "worktree"
        /\ Sbx!RootOrder[3] = "artifact"
    BY DEF Sbx!RootOrder
  <2>4. \A i : i \in held <=> i \in 1..3 /\ Sbx!IsWithinRoot(roots[Sbx!RootOrder[i]], path)
    BY <2>3 DEF Sbx!ContainingRoot
  <2> HIDE DEF roots, path, held
  <2>5. 1 \notin held
    <3>1. SUFFICES ASSUME 1 \in held PROVE FALSE
      OBVIOUS
    <3>2. 1 \in held /\ \A i \in held : 1 =< i
      BY <3>1, <2>4
    <3>3. Sbx!Min(held) \in held /\ \A i \in held : Sbx!Min(held) =< i
      BY <3>2 DEF Sbx!Min
    <3>4. Sbx!Min(held) = 1
      BY <3>2, <3>3, <2>4
    <3> QED  BY <3>4, <2>2, <2>3
  <2>6. PICK i : i \in held
    BY <2>2
  <2>7. i = 2 \/ i = 3
    BY <2>6, <2>5, <2>4
  <2> QED  BY <2>3, <2>4, <2>5, <2>6, <2>7
<1>2. SourceNeverWritten
  BY <1>1 DEF SourceNeverWritten
<1>3. QED
  BY <1>2, PTL

-----------------------------------------------------------------------------
(* The rate limit *)

Keys ==
  [class : {"slack", "github", "api"}, peer : {r.peer : r \in ApiRequests} \cup {"direct"}]
Arrivals == [key : Keys, at : Nat, allowed : BOOLEAN]

Counted(at, arrivals, rate) ==
  /\ at \in Nat
  /\ arrivals \in Seq(Arrivals)
  /\ \A j \in 1..Len(arrivals) : arrivals[j].at <= at
  /\ \A k \in DOMAIN rate : k \in Keys /\ rate[k] \in [count : Nat, resetAt : Int]

(* The requests of a key let through in the window that ends at e, where f says
   which window each request was counted in. *)
Through(f, arrivals, k, e) ==
  {j \in 1..Len(arrivals) : arrivals[j].key = k /\ arrivals[j].allowed /\ f[j] = e}

(* A request was counted in a window that had begun and was not over; windows of
   a key do not overlap; none lets more through than the limit; and a window
   that is not over is its key's bucket, which has counted all it let through. *)
Windows(f, at, arrivals, rate) ==
  /\ f \in [1..Len(arrivals) -> Int]
  /\ \A j \in 1..Len(arrivals) : arrivals[j].allowed =>
       /\ arrivals[j].at < f[j] /\ f[j] <= arrivals[j].at + Window
       /\ Cardinality(Through(f, arrivals, arrivals[j].key, f[j])) <= RateLimit
       /\ f[j] <= at \/ (arrivals[j].key \in DOMAIN rate /\ rate[arrivals[j].key].resetAt = f[j])
  /\ \A i, j \in 1..Len(arrivals) :
       arrivals[i].allowed /\ arrivals[j].allowed /\ arrivals[i].key = arrivals[j].key =>
         f[i] = f[j] \/ f[i] + Window <= f[j] \/ f[j] + Window <= f[i]
  /\ \A k \in DOMAIN rate : rate[k].resetAt > at =>
       /\ rate[k].resetAt <= at + Window
       /\ Cardinality(Through(f, arrivals, k, rate[k].resetAt)) <= rate[k].count
       /\ \A j \in 1..Len(arrivals) : arrivals[j].allowed /\ arrivals[j].key = k =>
            f[j] = rate[k].resetAt \/ f[j] + Window <= rate[k].resetAt

RateTyped == now <= MaxNow /\ Counted(now, arrived, buckets)
RateInv == RateTyped /\ (RateLimit > 0 /\ Window > 0 => \E f : Windows(f, now, arrived, buckets))

(* AdminAuth counts as everybody does. *)
LEMMA SameCardinality == \A S : Adm!Cardinality(S) = Cardinality(S)
BY DEF Adm!Cardinality, Cardinality

(* What a request is counted under. *)
LEMMA KeyTyped ==
  ASSUME NEW r \in ApiRequests
  PROVE  Adm!rateLimitKey(r) \in Keys
<1> DEFINE key == Adm!rateLimitKey(r)
           class == CASE Adm!isSlackPublicCallback(r.path) -> "slack"
                                [] Adm!isGitHubPublicWebhookCallback(r.path) -> "github"
                                [] OTHER -> "api"
<1>1. class \in {"slack", "github", "api"}
  BY Zenon DEF Adm!isSlackPublicCallback, Adm!isGitHubPublicWebhookCallback
<1>2. key = [class |-> class, peer |-> Adm!requestPeerKey(r)]
  BY Zenon DEF Adm!rateLimitKey
<1> HIDE DEF class
<1>3. QED
  BY <1>1, <1>2 DEF Adm!requestPeerKey, Keys

(* What a request's bucket becomes. *)
LEMMA Consumed ==
  ASSUME RateTyped, RateLimit > 0, NEW r \in ApiRequests
  PROVE  LET d   == Adm!consumeRateLimit(r)
             key == Adm!rateLimitKey(r)
         IN  /\ key \in Keys /\ key \in DOMAIN d.buckets
             /\ d.allowed \in BOOLEAN
             /\ \A k \in DOMAIN d.buckets : k # key => k \in DOMAIN buckets /\ d.buckets[k] = buckets[k]
             /\ \A k \in DOMAIN buckets : k # key /\ buckets[k].resetAt > now => k \in DOMAIN d.buckets
             /\ d.allowed <=> d.buckets[key].count <= RateLimit
             /\ \/ /\ key \in DOMAIN buckets /\ buckets[key].resetAt > now
                   /\ d.buckets[key] = [count |-> buckets[key].count + 1, resetAt |-> buckets[key].resetAt]
                \/ /\ key \notin DOMAIN buckets \/ buckets[key].resetAt <= now
                   /\ d.buckets[key] = [count |-> 1, resetAt |-> now + Window]
<1> DEFINE key == Adm!rateLimitKey(r)
           pruned == Adm!pruneExpiredRateLimitBuckets
           left == IF Adm!Cardinality(DOMAIN buckets) > ApiMaxBuckets THEN pruned ELSE buckets
           bucket == IF key \in DOMAIN left /\ left[key].resetAt > now THEN left[key]
                     ELSE [count |-> 0, resetAt |-> now + Window]
           next == [bucket EXCEPT !.count = @ + 1]
           after == [k \in DOMAIN left \cup {key} |-> IF k = key THEN next ELSE left[k]]
<1>1. key \in Keys
  BY KeyTyped
<1>2. /\ \A k \in DOMAIN pruned : k \in DOMAIN buckets /\ pruned[k] = buckets[k]
      /\ \A k \in DOMAIN buckets : buckets[k].resetAt > now => k \in DOMAIN pruned
  <2>1. ASSUME NEW k \in DOMAIN buckets, buckets[k].resetAt > now PROVE ~(buckets[k].resetAt <= now)
    BY <2>1 DEF RateTyped, Counted
  <2>2. QED
    BY <2>1 DEF Adm!pruneExpiredRateLimitBuckets, Adm!Drop
<1>3. /\ \A k \in DOMAIN left : k \in DOMAIN buckets /\ left[k] = buckets[k]
      /\ \A k \in DOMAIN buckets : buckets[k].resetAt > now => k \in DOMAIN left
  BY <1>2
<1>4. /\ Adm!consumeRateLimit(r).allowed = (next.count <= RateLimit)
      /\ Adm!consumeRateLimit(r).buckets = after
  BY DEF Adm!consumeRateLimit, Adm!rateLimitConfig
<1> HIDE DEF left, pruned, key
<1>5. \/ /\ key \in DOMAIN buckets /\ buckets[key].resetAt > now /\ bucket = buckets[key]
      \/ /\ key \notin DOMAIN buckets \/ buckets[key].resetAt <= now
         /\ bucket = [count |-> 0, resetAt |-> now + Window]
  BY <1>3 DEF RateTyped, Counted
<1>6. bucket \in [count : Nat, resetAt : Int]
  BY <1>5, ApiAssumption DEF RateTyped, Counted
<1> HIDE DEF bucket
<1>7. next = [count |-> bucket.count + 1, resetAt |-> bucket.resetAt]
  BY <1>6
<1>8. /\ key \in DOMAIN after /\ after[key] = next
      /\ \A k \in DOMAIN after : k # key => k \in DOMAIN left /\ after[k] = left[k]
      /\ \A k \in DOMAIN left : k \in DOMAIN after
  OBVIOUS
<1> HIDE DEF next, after
<1>9. /\ \A k \in DOMAIN after : k # key => k \in DOMAIN buckets /\ after[k] = buckets[k]
      /\ \A k \in DOMAIN buckets : k # key /\ buckets[k].resetAt > now => k \in DOMAIN after
  BY <1>3, <1>8
<1>10. next.count \in Nat /\ ((next.count <= RateLimit) \in BOOLEAN)
  BY <1>6, <1>7, ApiAssumption
<1>11. \/ /\ key \in DOMAIN buckets /\ buckets[key].resetAt > now
          /\ next = [count |-> buckets[key].count + 1, resetAt |-> buckets[key].resetAt]
       \/ /\ key \notin DOMAIN buckets \/ buckets[key].resetAt <= now
          /\ next = [count |-> 1, resetAt |-> now + Window]
  BY <1>5, <1>7
<1>12. QED
  BY <1>1, <1>4, <1>8, <1>9, <1>10, <1>11 DEF key

(* The requests a window let through are a finite set. *)
LEMMA ThroughFinite ==
  ASSUME NEW arrivals \in Seq(Arrivals), NEW f, NEW k, NEW e
  PROVE  IsFiniteSet(Through(f, arrivals, k, e)) /\ Cardinality(Through(f, arrivals, k, e)) \in Nat
<1>1. Len(arrivals) \in Nat
  BY LenProperties
<1>2. IsFiniteSet(1..Len(arrivals))
  BY <1>1, FS_Interval
<1>3. Through(f, arrivals, k, e) \subseteq 1..Len(arrivals)
  BY DEF Through
<1>4. QED
  BY <1>2, <1>3, FS_Subset, FS_CardinalityType

(* A request that is counted keeps the windows apart, and within the limit. *)
LEMMA CountedKeepsWindows ==
  ASSUME NEW t \in Nat, NEW earlier, NEW later, NEW before, NEW after,
         Counted(t, earlier, before), Counted(t, later, after), RateLimit > 0, Window > 0,
         NEW f, Windows(f, t, earlier, before), NEW key \in Keys, NEW allowed \in BOOLEAN,
         later = Append(earlier, [key |-> key, at |-> t, allowed |-> allowed]),
         key \in DOMAIN after,
         \A k \in DOMAIN after : k # key => k \in DOMAIN before /\ after[k] = before[k],
         \A k \in DOMAIN before : k # key /\ before[k].resetAt > t => k \in DOMAIN after,
         allowed <=> after[key].count <= RateLimit,
         \/ /\ key \in DOMAIN before /\ before[key].resetAt > t
            /\ after[key] = [count |-> before[key].count + 1, resetAt |-> before[key].resetAt]
         \/ /\ key \notin DOMAIN before \/ before[key].resetAt <= t
            /\ after[key] = [count |-> 1, resetAt |-> t + Window]
  PROVE  \E g : Windows(g, t, later, after)
<1> DEFINE n == Len(earlier)
           e == after[key].resetAt
<1>1. /\ n \in Nat /\ t \in Nat /\ e \in Int /\ t < e /\ e <= t + Window
      /\ RateLimit \in Nat /\ Window \in Nat
  BY ApiAssumption DEF Counted, Windows
<1>2. /\ Len(later) = n + 1 /\ \A j \in 1..n : later[j] = earlier[j] /\ earlier[j] \in Arrivals
      /\ later[n + 1] = [key |-> key, at |-> t, allowed |-> allowed]
  <2>1. [key |-> key, at |-> t, allowed |-> allowed] \in Arrivals
    BY <1>1 DEF Arrivals
  <2>2. QED
    BY <2>1, AppendProperties, ElementOfSeq DEF Counted
<1>3. PICK g : g = [j \in 1..n+1 |-> IF j = n + 1 THEN e ELSE f[j]]
  OBVIOUS
<1>4. /\ g \in [1..n+1 -> Int] /\ g[n + 1] = e /\ \A j \in 1..n : g[j] = f[j] /\ f[j] \in Int
  BY <1>1, <1>3 DEF Windows
<1> HIDE DEF e, n
<1>5. \A k, x : Through(g, later, k, x) =
        IF allowed /\ k = key /\ x = e THEN Through(f, earlier, k, x) \cup {n + 1} ELSE Through(f, earlier, k, x)
  <2>1. \A j : j \in 1..n + 1 <=> j \in 1..n \/ j = n + 1
    BY <1>1
  <2>2. ~(n + 1 \in 1..n)
    BY <1>1
  <2>3. QED
    BY <1>2, <1>4, <2>1, <2>2 DEF Through, n
<1>6. \A k, x : /\ Cardinality(Through(f, earlier, k, x)) \in Nat
                /\ Cardinality(Through(g, later, k, x)) =
                     IF allowed /\ k = key /\ x = e THEN Cardinality(Through(f, earlier, k, x)) + 1
                     ELSE Cardinality(Through(f, earlier, k, x))
  <2> TAKE k, x
  <2>1. IsFiniteSet(Through(f, earlier, k, x)) /\ Cardinality(Through(f, earlier, k, x)) \in Nat
    BY ThroughFinite DEF Counted
  <2>2. n + 1 \notin Through(f, earlier, k, x)
    BY <1>1 DEF Through, n
  <2>3. Cardinality(Through(f, earlier, k, x) \cup {n + 1}) = Cardinality(Through(f, earlier, k, x)) + 1
    BY <2>1, <2>2, FS_AddElement
  <2>4. QED
    BY <1>5, <2>1, <2>3
(* What the request's window has let through, and the windows before it. *)
<1>7. /\ after[key].count \in Nat
      /\ Cardinality(Through(f, earlier, key, e)) + 1 <= after[key].count
      /\ \A j \in 1..n : earlier[j].allowed /\ earlier[j].key = key => f[j] = e \/ f[j] + Window <= e
  <2>1. CASE key \in DOMAIN before /\ before[key].resetAt > t
    <3>1. /\ e = before[key].resetAt /\ after[key].count = before[key].count + 1
          /\ before[key].count \in Nat /\ before[key].resetAt \in Int
      BY <2>1, <1>1 DEF e, Counted
    <3>2. QED
      BY <2>1, <3>1, <1>6 DEF Windows, n
  <2>2. CASE ~(key \in DOMAIN before /\ before[key].resetAt > t)
    <3>1. e = t + Window /\ after[key].count = 1
      BY <2>2, <1>1 DEF e, Counted
    <3>2. \A j \in 1..n : earlier[j].allowed /\ earlier[j].key = key => f[j] <= t
      BY <2>2, <1>1, <1>4 DEF Windows, n, Counted
    <3>3. Through(f, earlier, key, e) = {}
      BY <3>1, <3>2, <1>1, <1>4 DEF Through, n
    <3>4. QED
      <4>1. Cardinality(Through(f, earlier, key, e)) = 0
        BY <3>3, FS_EmptySet
      <4>2. \A j \in 1..n : earlier[j].allowed /\ earlier[j].key = key => f[j] + Window <= e
        BY <3>1, <3>2, <1>1, <1>4
      <4>3. QED
        BY <3>1, <4>1, <4>2
  <2>3. QED
    BY <2>1, <2>2
<1>9. ASSUME allowed
      PROVE  Cardinality(Through(g, later, key, e)) <= RateLimit /\ after[key].resetAt = e
  <2>1. after[key].count <= RateLimit
    BY <1>9
  <2>2. Cardinality(Through(g, later, key, e)) = Cardinality(Through(f, earlier, key, e)) + 1
    BY <1>6, <1>9
  <2>3. Cardinality(Through(f, earlier, key, e)) \in Nat
    BY <1>6
  <2>4. QED
    BY <2>1, <2>2, <2>3, <1>1, <1>7 DEF e
<1>8. ASSUME NEW j \in 1..n, earlier[j].allowed
      PROVE  /\ earlier[j].at < g[j] /\ g[j] <= earlier[j].at + Window
             /\ Cardinality(Through(g, later, earlier[j].key, g[j])) <= RateLimit
             /\ g[j] <= t \/ (earlier[j].key \in DOMAIN after /\ after[earlier[j].key].resetAt = g[j])
  <2>1. /\ earlier[j].at < f[j] /\ f[j] <= earlier[j].at + Window
        /\ Cardinality(Through(f, earlier, earlier[j].key, f[j])) <= RateLimit
        /\ f[j] <= t \/ (earlier[j].key \in DOMAIN before /\ before[earlier[j].key].resetAt = f[j])
    BY <1>8 DEF Windows, n
  <2>2. Cardinality(Through(g, later, earlier[j].key, g[j])) <= RateLimit
    <3>1. CASE allowed /\ earlier[j].key = key /\ f[j] = e
      BY <3>1, <1>4, <1>9
    <3>2. CASE ~(allowed /\ earlier[j].key = key /\ f[j] = e)
      BY <3>2, <2>1, <1>4, <1>6
    <3>3. QED
      BY <3>1, <3>2
  <2>3. ASSUME ~(f[j] <= t)
        PROVE  earlier[j].key \in DOMAIN after /\ after[earlier[j].key].resetAt = f[j]
    <3>1. f[j] > t /\ earlier[j].key \in DOMAIN before /\ before[earlier[j].key].resetAt = f[j]
      BY <2>1, <2>3, <1>1, <1>4
    <3>2. CASE earlier[j].key = key
      <4>1. before[key].resetAt > t /\ before[key].resetAt \in Int /\ f[j] = before[key].resetAt
        BY <3>1, <3>2 DEF Counted
      <4>2. ~(before[key].resetAt <= t)
        BY <4>1, <1>1
      <4>3. after[key] = [count |-> before[key].count + 1, resetAt |-> before[key].resetAt]
        BY <3>1, <3>2, <4>2, Zenon
      <4>4. QED
        BY <3>2, <4>1, <4>3
    <3>3. CASE earlier[j].key # key
      BY <3>1, <3>3
    <3>4. QED
      BY <3>2, <3>3
  <2>4. QED
    BY <2>1, <2>2, <2>3, <1>4
<1>10. ASSUME NEW i \in 1..n+1, NEW j \in 1..n+1,
              later[i].allowed, later[j].allowed, later[i].key = later[j].key
       PROVE  g[i] = g[j] \/ g[i] + Window <= g[j] \/ g[j] + Window <= g[i]
  <2>1. CASE i \in 1..n /\ j \in 1..n
    BY <2>1, <1>10, <1>2, <1>4 DEF Windows, n
  <2>2. CASE i = n + 1 /\ j \in 1..n
    BY <2>2, <1>10, <1>2, <1>4, <1>7
  <2>3. CASE j = n + 1 /\ i \in 1..n
    BY <2>3, <1>10, <1>2, <1>4, <1>7
  <2>4. CASE i = n + 1 /\ j = n + 1
    BY <2>4
  <2>5. QED
    BY <2>1, <2>2, <2>3, <2>4, <1>1
<1>11. ASSUME NEW k \in DOMAIN after, after[k].resetAt > t
       PROVE  /\ after[k].resetAt <= t + Window
              /\ Cardinality(Through(g, later, k, after[k].resetAt)) <= after[k].count
              /\ \A j \in 1..n+1 : later[j].allowed /\ later[j].key = k =>
                   g[j] = after[k].resetAt \/ g[j] + Window <= after[k].resetAt
  <2>1. CASE k = key
    <3>1. Cardinality(Through(g, later, key, e)) <= after[key].count
      BY <1>6, <1>7
    <3>2. ASSUME NEW j \in 1..n+1, later[j].allowed, later[j].key = key
          PROVE  g[j] = e \/ g[j] + Window <= e
      <4>1. CASE j = n + 1
        BY <4>1, <1>4
      <4>2. CASE j \in 1..n
        BY <4>2, <3>2, <1>2, <1>4, <1>7
      <4>3. QED
        BY <4>1, <4>2, <1>1
    <3>3. QED
      BY <2>1, <3>1, <3>2, <1>1 DEF e
  <2>2. CASE k # key
    <3>1. k \in DOMAIN before /\ after[k] = before[k] /\ before[k].resetAt > t
      BY <2>2, <1>11
    <3>2. /\ before[k].resetAt <= t + Window
          /\ Cardinality(Through(f, earlier, k, before[k].resetAt)) <= before[k].count
          /\ \A j \in 1..n : earlier[j].allowed /\ earlier[j].key = k =>
               f[j] = before[k].resetAt \/ f[j] + Window <= before[k].resetAt
      BY <3>1 DEF Windows, n
    <3>3. ASSUME NEW j \in 1..n+1, later[j].allowed, later[j].key = k
          PROVE  g[j] = before[k].resetAt \/ g[j] + Window <= before[k].resetAt
      <4>1. j \in 1..n
        BY <3>3, <2>2, <1>1, <1>2
      <4>2. QED
        BY <4>1, <3>2, <3>3, <1>2, <1>4
    <3>4. Cardinality(Through(g, later, k, before[k].resetAt)) <= before[k].count
      BY <2>2, <3>2, <1>6
    <3>5. QED
      BY <3>1, <3>2, <3>3, <3>4
  <2>3. QED
    BY <2>1, <2>2
<1>12. Windows(g, t, later, after)
  <2>1. \A j \in 1..n + 1 : j \in 1..n \/ j = n + 1
    BY <1>1
  <2>2. ASSUME NEW j \in 1..n + 1, later[j].allowed
        PROVE  /\ later[j].at < g[j] /\ g[j] <= later[j].at + Window
               /\ Cardinality(Through(g, later, later[j].key, g[j])) <= RateLimit
               /\ g[j] <= t \/ (later[j].key \in DOMAIN after /\ after[later[j].key].resetAt = g[j])
    <3>1. CASE j \in 1..n
      BY <3>1, <2>2, <1>2, <1>8
    <3>2. CASE j = n + 1
      BY <3>2, <2>2, <1>1, <1>2, <1>4, <1>9
    <3>3. QED
      BY <3>1, <3>2, <2>1
  <2>3. Len(later) = n + 1
    BY <1>2
  <2>4. QED
    BY <2>2, <2>3, <1>4, <1>10, <1>11 DEF Windows
<1>13. QED
  BY <1>12

(* At first nothing was counted. *)
LEMMA InitRate == Adm!Init => RateInv
<1> SUFFICES ASSUME Adm!Init PROVE RateInv
  OBVIOUS
<1>1. now = 0 /\ arrived = <<>> /\ DOMAIN buckets = {} /\ Len(arrived) = 0 /\ arrived \in Seq(Arrivals)
  BY EmptySeq DEF Adm!Init
<1>2. RateTyped
  BY <1>1, ApiAssumption DEF RateTyped, Counted
<1>3. Windows([j \in 1..Len(arrived) |-> 0], now, arrived, buckets)
  BY <1>1 DEF Windows
<1>4. QED
  BY <1>2, <1>3 DEF RateInv

(* When time passes no window opens, and some end. *)
LEMMA TickRate == RateInv /\ Adm!Tick => RateInv'
<1> SUFFICES ASSUME RateInv, Adm!Tick PROVE RateInv'
  OBVIOUS
<1>1. now' = now + 1 /\ now < MaxNow /\ arrived' = arrived /\ buckets' = buckets /\ now \in Nat
  BY DEF Adm!Tick, RateInv, RateTyped, Counted
<1>2. RateTyped'
  <2>1. \A j \in 1..Len(arrived) : arrived[j].at \in Nat /\ arrived[j].at <= now + 1
    <3> TAKE j \in 1..Len(arrived)
    <3>1. arrived[j] \in Arrivals /\ arrived[j].at <= now
      BY ElementOfSeq DEF RateInv, RateTyped, Counted
    <3>2. QED
      BY <1>1, <3>1 DEF Arrivals
  <2>2. QED
    BY <1>1, <2>1, ApiAssumption DEF RateInv, RateTyped, Counted
<1>3. ASSUME RateLimit > 0, Window > 0, NEW f, Windows(f, now, arrived, buckets)
      PROVE  Windows(f, now + 1, arrived, buckets)
  <2>1. \A k \in DOMAIN buckets : buckets[k].resetAt \in Int
    BY DEF RateInv, RateTyped, Counted
  <2>2. \A j \in 1..Len(arrived) : f[j] \in Int
    BY <1>3 DEF Windows
  <2>3. \A x \in Int : x <= now => x <= now + 1
    BY <1>1
  <2>4. \A x \in Int : x > now + 1 => x > now
    BY <1>1
  <2>5. \A x \in Int : x <= now + Window => x <= now + 1 + Window
    BY <1>1, ApiAssumption
  <2>6. QED
    BY <1>3, <2>1, <2>2, <2>3, <2>4, <2>5 DEF Windows
<1>4. QED
  BY <1>1, <1>2, <1>3 DEF RateInv

(* A restart forgets what was counted. *)
LEMMA RestartRate == RateInv /\ Adm!Restart => RateInv'
<1> SUFFICES ASSUME RateInv, Adm!Restart PROVE RateInv'
  OBVIOUS
<1> DEFINE later == [j \in DOMAIN arrived |-> [arrived[j] EXCEPT !.allowed = FALSE]]
<1>1. /\ now' = now /\ arrived' = later /\ DOMAIN buckets' = {} /\ RateTyped
  BY DEF Adm!Restart, RateInv
<1>2. arrived \in Seq(Arrivals) /\ Len(arrived) \in Nat /\ DOMAIN arrived = 1..Len(arrived)
  BY <1>1, LenProperties DEF RateTyped, Counted
<1>3. \A j \in 1..Len(arrived) : later[j] \in Arrivals /\ ~later[j].allowed /\ later[j].at = arrived[j].at
  <2> TAKE j \in 1..Len(arrived)
  <2>1. arrived[j] \in Arrivals
    BY <1>2, ElementOfSeq
  <2>2. QED
    BY <1>2, <2>1 DEF Arrivals
<1>4. later \in Seq(Arrivals) /\ Len(later) = Len(arrived)
  <2>1. later \in [1..Len(arrived) -> Arrivals]
    BY <1>2, <1>3
  <2>2. QED
    BY <1>2, <2>1, SeqDef, LenProperties
<1> HIDE DEF later
<1>5. RateTyped'
  BY <1>1, <1>3, <1>4 DEF RateTyped, Counted
<1>6. Windows([j \in 1..Len(later) |-> 0], now, later, buckets')
  BY <1>1, <1>2, <1>3, <1>4 DEF Windows
<1>7. QED
  BY <1>1, <1>5, <1>6 DEF RateInv

(* A request: counted, unless it is for OPTIONS. *)
LEMMA RequestRate ==
  ASSUME RateInv, NEW r \in ApiRequests, Adm!Request(r)
  PROVE  RateInv'
<1> DEFINE key == Adm!rateLimitKey(r)
           d == Adm!consumeRateLimit(r)
           a == [key |-> key, at |-> now, allowed |-> d.allowed]
<1>1. now' = now /\ now \in Nat /\ RateTyped
  BY DEF Adm!Request, RateInv, RateTyped, Counted
<1>2. CASE r.method = "OPTIONS"
  <2>1. arrived' = arrived /\ buckets' = buckets
    BY <1>2 DEF Adm!Request
  <2>2. QED
    BY <1>1, <2>1 DEF RateInv, RateTyped
<1>3. CASE r.method # "OPTIONS"
  <2>1. buckets' = d.buckets /\ arrived' = Append(arrived, a)
    BY <1>3 DEF Adm!Request
  <2>2. ASSUME a \in Arrivals PROVE /\ arrived' \in Seq(Arrivals)
                                     /\ \A j \in 1..Len(arrived') : arrived'[j].at <= now
    <3>1. arrived \in Seq(Arrivals) /\ Len(arrived) \in Nat
      BY <1>1, LenProperties DEF RateTyped, Counted
    <3>2. /\ arrived' \in Seq(Arrivals) /\ Len(arrived') = Len(arrived) + 1
          /\ \A j \in 1..Len(arrived) : arrived'[j] = arrived[j]
          /\ arrived'[Len(arrived) + 1] = a
      BY <2>1, <2>2, <3>1, AppendProperties
    <3>3. a.at = now
      OBVIOUS
    <3> HIDE DEF a
    <3>4. QED
      BY <1>1, <3>1, <3>2, <3>3 DEF RateTyped, Counted
  <2>3. CASE RateLimit > 0
    <3>1. /\ key \in Keys /\ key \in DOMAIN d.buckets
          /\ d.allowed \in BOOLEAN
          /\ \A k \in DOMAIN d.buckets : k # key => k \in DOMAIN buckets /\ d.buckets[k] = buckets[k]
          /\ \A k \in DOMAIN buckets : k # key /\ buckets[k].resetAt > now => k \in DOMAIN d.buckets
          /\ d.allowed <=> d.buckets[key].count <= RateLimit
          /\ \/ /\ key \in DOMAIN buckets /\ buckets[key].resetAt > now
                /\ d.buckets[key] = [count |-> buckets[key].count + 1, resetAt |-> buckets[key].resetAt]
             \/ /\ key \notin DOMAIN buckets \/ buckets[key].resetAt <= now
                /\ d.buckets[key] = [count |-> 1, resetAt |-> now + Window]
      BY <1>1, <2>3, Consumed
    <3>2. PICK allowed \in BOOLEAN : allowed = d.allowed
      BY <3>1
    <3>3. a = [key |-> key, at |-> now, allowed |-> allowed] /\ a \in Arrivals
      BY <3>1, <3>2, <1>1 DEF Arrivals
    <3> HIDE DEF key, d
    <3>4. Counted(now, arrived', buckets')
      <4>1. ASSUME NEW k \in DOMAIN d.buckets PROVE k \in Keys /\ d.buckets[k] \in [count : Nat, resetAt : Int]
        <5>1. CASE k # key
          BY <5>1, <3>1, <1>1 DEF RateTyped, Counted
        <5>2. CASE k = key
          <6>1. key \in DOMAIN buckets => buckets[key].count + 1 \in Nat /\ buckets[key].resetAt \in Int
            BY <1>1 DEF RateTyped, Counted
          <6>2. now + Window \in Int
            BY <1>1, ApiAssumption
          <6>3. QED
            BY <5>2, <3>1, <6>1, <6>2
        <5>3. QED
          BY <5>1, <5>2
      <4>2. QED
        BY <1>1, <2>1, <2>2, <3>3, <4>1 DEF Counted
    <3>5. RateTyped'
      BY <1>1, <3>4 DEF RateTyped
    <3>6. ASSUME Window > 0, NEW f, Windows(f, now, arrived, buckets)
          PROVE  \E g : Windows(g, now, arrived', buckets')
      <4>1. allowed <=> d.buckets[key].count <= RateLimit
        BY <3>1, <3>2
      <4>2. arrived' = Append(arrived, [key |-> key, at |-> now, allowed |-> allowed])
        BY <2>1, <3>3
      <4>3. Counted(now, arrived, buckets)
        BY <1>1 DEF RateTyped
      <4> HIDE DEF a
      <4>4. QED
        BY <1>1, <2>1, <2>3, <3>1, <3>4, <3>6, <4>1, <4>2, <4>3, CountedKeepsWindows
    <3>7. QED
      BY <1>1, <3>5, <3>6 DEF RateInv
  <2>4. CASE ~(RateLimit > 0)
    <3>1. d.allowed = TRUE /\ d.buckets = buckets
      BY <2>4 DEF Adm!consumeRateLimit, Adm!rateLimitConfig
    <3>2. key \in Keys
      BY KeyTyped
    <3>3. a \in Arrivals
      BY <1>1, <3>1, <3>2 DEF Arrivals
    <3>4. QED
      BY <1>1, <2>1, <2>2, <2>4, <3>1, <3>3 DEF RateInv, RateTyped, Counted
  <2>5. QED
    BY <2>3, <2>4
<1>4. QED
  BY <1>2, <1>3

(* A stretch of time as long as a window meets at most two windows of a key. *)
LEMMA AtMostTwice ==
  ASSUME RateInv, RateLimit > 0, NEW k, NEW t \in Nat
  PROVE  Cardinality({j \in 1..Len(arrived) :
           arrived[j].key = k /\ arrived[j].allowed /\ arrived[j].at \in t..(t + Window - 1)}) <= 2 * RateLimit
<1> DEFINE S == {j \in 1..Len(arrived) :
                  arrived[j].key = k /\ arrived[j].allowed /\ arrived[j].at \in t..(t + Window - 1)}
<1>1. RateLimit \in Nat /\ Window \in Nat /\ RateTyped
  BY ApiAssumption DEF RateInv
<1>2. \A j \in 1..Len(arrived) : arrived[j].at \in Nat
  <2> TAKE j \in 1..Len(arrived)
  <2>1. arrived[j] \in Arrivals
    BY <1>1, ElementOfSeq DEF RateTyped, Counted
  <2>2. QED
    BY <2>1 DEF Arrivals
<1>3. CASE S = {}
  BY <1>1, <1>3, FS_EmptySet
<1>4. CASE S # {}
  <2>1. PICK i \in S : TRUE
    BY <1>4
  <2>2. Window > 0
    BY <1>1, <1>2, <2>1
  <2>3. PICK f : Windows(f, now, arrived, buckets)
    BY <2>2 DEF RateInv
  <2>4. \A j \in S : f[j] \in Int /\ t < f[j] /\ f[j] < t + Window + Window
    <3> TAKE j \in S
    <3>1. f[j] \in Int /\ arrived[j].at < f[j] /\ f[j] <= arrived[j].at + Window
      BY <2>3 DEF Windows
    <3>2. arrived[j].at \in Nat /\ t <= arrived[j].at /\ arrived[j].at <= t + Window - 1
      BY <1>1, <1>2
    <3>3. PICK a \in Nat, e \in Int, w \in Nat : a = arrived[j].at /\ e = f[j] /\ w = Window
      BY <1>1, <3>1, <3>2
    <3>4. a < e /\ e <= a + w /\ t <= a /\ a <= t + w - 1
      BY <3>1, <3>2, <3>3
    <3>5. t < e /\ e < t + w + w
      BY <3>4
    <3>6. QED
      BY <3>3, <3>5
  <2>5. \A x, y \in S : f[x] = f[y] \/ f[x] + Window <= f[y] \/ f[y] + Window <= f[x]
    BY <2>3 DEF Windows
  <2> DEFINE T(e) == Through(f, arrived, k, e)
  <2>6. \A j \in S : j \in T(f[j])
    BY DEF Through
  <2>7. \A j \in S : Cardinality(T(f[j])) <= RateLimit
    BY <2>3 DEF Windows
  <2>8. \A e : IsFiniteSet(T(e)) /\ Cardinality(T(e)) \in Nat
    BY <1>1, ThroughFinite DEF RateTyped, Counted
  <2> HIDE DEF S, T
  <2>9. CASE S \subseteq T(f[i])
    <3>1. Cardinality(S) \in Nat /\ Cardinality(S) <= Cardinality(T(f[i]))
      BY <2>8, <2>9, FS_Subset, FS_CardinalityType
    <3>2. QED
      BY <1>1, <2>1, <2>7, <2>8, <3>1 DEF S
  <2>10. CASE ~(S \subseteq T(f[i]))
    <3>1. PICK j \in S : f[j] # f[i]
      BY <2>6, <2>10
    <3>2. \A x \in S : f[x] = f[i] \/ f[x] = f[j]
      BY <1>1, <2>1, <2>2, <2>4, <2>5, <3>1
    <3>3. S \subseteq T(f[i]) \cup T(f[j])
      BY <2>6, <3>2
    <3>4. /\ IsFiniteSet(T(f[i]) \cup T(f[j]))
          /\ Cardinality(T(f[i]) \cup T(f[j])) =
               Cardinality(T(f[i])) + Cardinality(T(f[j])) - Cardinality(T(f[i]) \cap T(f[j]))
      BY <2>8, FS_Union
    <3>5. Cardinality(T(f[i]) \cap T(f[j])) \in Nat
      BY <2>8, FS_Intersection, FS_CardinalityType
    <3>6. Cardinality(S) \in Nat /\ Cardinality(S) <= Cardinality(T(f[i]) \cup T(f[j]))
      BY <3>3, <3>4, FS_Subset, FS_CardinalityType
    <3>7. Cardinality(T(f[i])) <= RateLimit /\ Cardinality(T(f[j])) <= RateLimit
      BY <2>1, <2>7, <3>1
    <3>8. QED
      BY <1>1, <2>8, <3>4, <3>5, <3>6, <3>7 DEF S
  <2>11. QED
    BY <2>9, <2>10
<1>5. QED
  BY <1>3, <1>4

(* The rate limit's invariant holds of the API. *)
THEOREM RateInvHolds == Spec => [](unit = "admin" => RateInv)
<1>1. Starts => (unit = "admin" => RateInv)
  BY InitRate DEF Starts
<1>2. ASSUME RateInv, [Adm!Next]_(Adm!vars) PROVE RateInv'
  <2>1. CASE Adm!Tick
    BY <1>2, <2>1, TickRate
  <2>2. CASE Adm!Restart
    BY <1>2, <2>2, RestartRate
  <2>3. CASE \E r \in ApiRequests : Adm!Request(r)
    BY <1>2, <2>3, RequestRate
  <2>4. CASE UNCHANGED Adm!vars
    BY <1>2, <2>4 DEF Adm!vars, RateInv, RateTyped
  <2>5. QED
    BY <1>2, <2>1, <2>2, <2>3, <2>4 DEF Adm!Next
<1>3. (unit = "admin" => RateInv) /\ [UNCHANGED unit /\ Steps]_vars => (unit = "admin" => RateInv)'
  BY <1>2 DEF Steps, vars, Adm!vars
<1>4. QED
  BY <1>1, <1>3, PTL DEF Spec

(* consumeRateLimit: in no stretch of a window's length is a peer served more   *)
(* than twice the limit, whatever other peers do and whenever buckets are       *)
(* pruned: with any limit, window, bound on the buckets and environments.       *)
THEOREM RateKeptHolds == Spec => []RateKept
<1>1. ASSUME RateInv PROVE Adm!RateKept
  <2> SUFFICES ASSUME NEW k, NEW t \in 0..MaxNow, RateLimit > 0
        PROVE  Adm!Cardinality({j \in 1..Len(arrived) :
                 arrived[j].key = k /\ arrived[j].allowed /\ arrived[j].at \in t..(t + Window - 1)}) <= 2 * RateLimit
    BY DEF Adm!RateKept, Adm!rateLimitConfig
  <2>1. t \in Nat
    OBVIOUS
  <2>2. QED
    BY <1>1, <2>1, AtMostTwice, SameCardinality
<1>2. (unit = "admin" => RateInv) => RateKept
  BY <1>1 DEF RateKept
<1>3. QED
  BY <1>2, RateInvHolds, PTL

-----------------------------------------------------------------------------
(* Sessions *)

(* A cookie was issued to a caller with an older one, whose role it has, or to
   one with a token; what was served was within the role of the caller, and of
   his cookie, which was not over. *)
Scoped(method, path, role) ==
  Adm!requiredScopeForRequest(method, path) \in {""} \cup Adm!ROLE_SCOPES[role]
Signed ==
  /\ cookies \in Seq({cookies[c] : c \in 1..Len(cookies)})
  /\ \A c \in 1..Len(cookies) :
       /\ cookies[c].from \in 0..(c - 1)
       /\ cookies[c].from # 0 => cookies[cookies[c].from].role = cookies[c].role
Served ==
  \A act \in acts :
    /\ act.cookie \in 0..Len(cookies)
    /\ act.cookie # 0 => act.role = cookies[act.cookie].role /\ act.at < cookies[act.cookie].expiresAt
    /\ Scoped(act.method, act.path, act.role)
SessionInv == Signed /\ Served

(* What a role may do is no matter of state. *)
LEMMA ScopesFixed ==
  ASSUME NEW method, NEW path, NEW role
  PROVE  Scoped(method, path, role)' <=> Scoped(method, path, role)
<1>1. Adm!requiredScopeForRequest(method, path)' = Adm!requiredScopeForRequest(method, path)
  BY Zenon DEF Adm!requiredScopeForRequest, Adm!isUnsafeWriteMethod, Adm!Under, Adm!IsPrefix, Adm!Range
<1>2. Adm!ROLE_SCOPES' = Adm!ROLE_SCOPES
  BY Zenon DEF Adm!ROLE_SCOPES, Adm!ALL_SCOPES, Adm!configScopes
<1>3. QED
  BY <1>1, <1>2 DEF Scoped

(* Who is let in has a valid cookie, or a token and no cookie. *)
LEMMA WhoIsLetIn ==
  ASSUME NEW r, NEW c \in Adm!Authorized(r)
  PROVE  /\ \/ c.cookie = 0
            \/ /\ c.cookie \in 1..Len(cookies) /\ c.role = cookies[c.cookie].role
               /\ now < cookies[c.cookie].expiresAt
         /\ Scoped(r.method, r.path, c.role)
<1>1. /\ c \in Adm!Authenticated(r)
      /\ Scoped(r.method, r.path, c.role)
  BY DEF Adm!Authorized, Scoped
<1>2. CASE Adm!verifySessionToken(r)
  <2>1. /\ c = Adm!Context(cookies[r.cookie].role, cookies[r.cookie].principal, r.cookie)
        /\ r.cookie \in 1..Len(cookies) /\ now < cookies[r.cookie].expiresAt
    BY <1>1, <1>2 DEF Adm!Authenticated, Adm!verifySessionToken
  <2>2. QED
    BY <1>1, <2>1 DEF Adm!Context
<1>3. CASE ~Adm!verifySessionToken(r)
  <2>1. c \in Adm!TokenAuth(r)
    BY <1>1, <1>3 DEF Adm!Authenticated
  <2>2. \A role, principal : \A x \in Adm!resolveAdminAuthContext(role, principal) : x.cookie = 0
    BY DEF Adm!resolveAdminAuthContext, Adm!Context
  <2>3. c.cookie = 0
    <3>1. CASE env.bootstrap = "" /\ Adm!parseRoleApiTokens = <<>>
      <4>1. env.bootstrap = ""
        BY <3>1, Zenon
      <4>2. QED
        BY <2>1, <2>2, <3>1, <4>1, Zenon DEF Adm!TokenAuth
    <3>2. CASE env.bootstrap = "" /\ ~(Adm!parseRoleApiTokens = <<>>)
      BY <2>1, <2>2, <3>2, Zenon DEF Adm!TokenAuth
    <3>3. CASE ~(env.bootstrap = "")
      BY <2>1, <2>2, <3>3, Zenon DEF Adm!TokenAuth
    <3>4. QED
      BY <3>1, <3>2, <3>3
  <2>4. QED
    BY <1>1, <2>3
<1>4. QED
  BY <1>2, <1>3

(* Every step keeps it: PostSession is the only one that adds a cookie. *)
LEMMA SessionStep == SessionInv /\ [Adm!Next]_(Adm!vars) => SessionInv'
<1> SUFFICES ASSUME SessionInv, [Adm!Next]_(Adm!vars) PROVE SessionInv'
  OBVIOUS
<1>1. ASSUME cookies' = cookies, acts' = acts PROVE SessionInv'
  BY <1>1, ScopesFixed DEF SessionInv, Signed, Served
<1>2. CASE UNCHANGED Adm!vars \/ Adm!Tick \/ Adm!Restart
  BY <1>1, <1>2 DEF Adm!vars, Adm!Tick, Adm!Restart
<1>3. ASSUME NEW r \in ApiRequests, Adm!Request(r) PROVE SessionInv'
  <2>1. CASE UNCHANGED <<cookies, acts>>
    BY <1>1, <2>1
  <2>2. CASE ~UNCHANGED <<cookies, acts>>
    <3> DEFINE n == Len(cookies)
    <3>1. PICK c \in Adm!Authorized(r) :
            /\ acts' = acts \cup {[method |-> r.method, path |-> r.path, role |-> c.role, cookie |-> c.cookie, at |-> now]}
            /\ cookies' = cookies \/ cookies' = Append(cookies, Adm!createSessionToken(c))
      BY <1>3, <2>2 DEF Adm!Request, Adm!Serve, Adm!PostSession
    <3>2. /\ \/ c.cookie = 0
             \/ /\ c.cookie \in 1..n /\ c.role = cookies[c.cookie].role
                /\ now < cookies[c.cookie].expiresAt
          /\ Scoped(r.method, r.path, c.role)
      BY WhoIsLetIn
    <3>3. n \in Nat
      BY LenProperties DEF SessionInv, Signed
    <3>4. CASE cookies' = cookies
      <4>1. Signed'
        BY <3>4 DEF SessionInv, Signed
      <4>2. Served'
        BY <3>1, <3>2, <3>3, <3>4, ScopesFixed DEF SessionInv, Served
      <4>3. QED
        BY <4>1, <4>2 DEF SessionInv
    <3>5. CASE cookies' = Append(cookies, Adm!createSessionToken(c))
      <4> DEFINE S == {cookies[i] : i \in 1..n}
                 new == Adm!createSessionToken(c)
      <4>1. new.from = c.cookie /\ new.role = c.role
        BY DEF Adm!createSessionToken
      <4> HIDE DEF new
      <4>2. /\ cookies' \in Seq(S \cup {new}) /\ Len(cookies') = n + 1
            /\ \A i \in 1..n : cookies'[i] = cookies[i]
            /\ cookies'[n + 1] = new
        <5>1. cookies \in Seq(S \cup {new})
          BY SeqMonotonic DEF SessionInv, Signed
        <5>2. new \in S \cup {new}
          OBVIOUS
        <5> HIDE DEF S
        <5>3. QED
          BY <3>5, <5>1, <5>2, AppendProperties DEF new
      <4>3. cookies' \in Seq({cookies'[i] : i \in 1..Len(cookies')})
        <5> DEFINE T == {cookies'[i] : i \in 1..Len(cookies')}
        <5>1. cookies' \in [1..(n + 1) -> T]
          BY <4>2, LenProperties
        <5> HIDE DEF T
        <5>2. cookies' \in Seq(T)
          BY <3>3, <5>1, SeqDef
        <5>3. QED
          BY <5>2 DEF T
      <4>4. \A i \in 1..(n + 1) : i \in 1..n \/ i = n + 1
        BY <3>3
      <4>5. Signed'
        <5>1. ASSUME NEW i \in 1..(n + 1)
              PROVE  /\ cookies'[i].from \in 0..(i - 1)
                     /\ cookies'[i].from # 0 => cookies'[cookies'[i].from].role = cookies'[i].role
          <6>1. CASE i \in 1..n
            <7>1. /\ cookies[i].from \in 0..(i - 1)
                  /\ cookies[i].from # 0 => cookies[cookies[i].from].role = cookies[i].role
              BY <6>1 DEF SessionInv, Signed
            <7>2. cookies[i].from # 0 => cookies[i].from \in 1..n
              BY <3>3, <6>1, <7>1
            <7>3. QED
              BY <4>2, <6>1, <7>1, <7>2
          <6>2. CASE i = n + 1
            BY <3>2, <3>3, <4>1, <4>2, <6>2
          <6>3. QED
            BY <4>4, <6>1, <6>2
        <5>2. QED
          BY <4>2, <4>3, <5>1 DEF Signed
      <4>6. Served'
        <5>1. ASSUME NEW act \in acts'
              PROVE  /\ act.cookie \in 0..n
                     /\ act.cookie # 0 => act.role = cookies[act.cookie].role /\ act.at < cookies[act.cookie].expiresAt
                     /\ Scoped(act.method, act.path, act.role)
          BY <3>1, <3>2, <3>3 DEF SessionInv, Served
        <5>2. \A i \in 0..n : i \in 0..(n + 1) /\ (i # 0 => i \in 1..n)
          BY <3>3
        <5>3. QED
          BY <4>2, <5>1, <5>2, ScopesFixed DEF Served
      <4>7. QED
        BY <4>5, <4>6 DEF SessionInv
    <3>6. QED
      BY <3>1, <3>4, <3>5
  <2>3. QED
    BY <2>1, <2>2
<1>4. QED
  BY <1>2, <1>3 DEF Adm!Next

(* A set of numbers that is not empty has a least one. *)
LEMMA LeastOf ==
  ASSUME NEW T \in SUBSET Nat, T # {}
  PROVE  \E k \in T : \A j \in Nat : j < k => j \notin T
<1> DEFINE R == OpToRel(<, Nat)
<1>1. IsWellFoundedOn(R, Nat)
  BY NatLessThanWellFounded
<1>2. \A x, y \in Nat : x < y => <<x, y>> \in R
  BY DEF OpToRel
<1> HIDE DEF R
<1>3. PICK k \in T : \A j \in T : ~ (<<j, k>> \in R)
  BY <1>1, WFMin
<1>4. QED
  BY <1>2, <1>3

(* The cookie that a chain of renewals began with is well defined... *)
LEMMA FirstDefined ==
  ASSUME Signed, NEW n \in Nat, n <= Len(cookies)
  PROVE  \E f : f = [c \in 0..n |->
           IF c = 0 THEN 0 ELSE IF cookies[c].from = 0 THEN c ELSE f[cookies[c].from]]
<1> DEFINE Solves(f, m) == f = [c \in 0..m |->
             IF c = 0 THEN 0 ELSE IF cookies[c].from = 0 THEN c ELSE f[cookies[c].from]]
           T == {m \in 0..n : ~\E f : Solves(f, m)}
<1>1. \E f : Solves(f, 0)
  <2>1. Solves([c \in 0..0 |-> 0], 0)
    OBVIOUS
  <2>2. QED
    BY <2>1
<1>2. ASSUME NEW m \in Nat, m + 1 <= n, NEW f, Solves(f, m)
      PROVE  \E g : Solves(g, m + 1)
  <2> DEFINE g == [c \in 0..(m + 1) |->
                IF c = m + 1 THEN (IF cookies[c].from = 0 THEN c ELSE f[cookies[c].from]) ELSE f[c]]
  <2>1. Len(cookies) \in Nat
    BY LenProperties DEF Signed
  <2>2. \A c \in 1..(m + 1) : cookies[c].from \in 0..(c - 1)
    <3> TAKE c \in 1..(m + 1)
    <3>1. c \in 1..Len(cookies)
      BY <1>2, <2>1
    <3>2. QED
      BY <3>1 DEF Signed
  <2>3. \A c \in 0..m : f[c] = IF c = 0 THEN 0 ELSE IF cookies[c].from = 0 THEN c ELSE f[cookies[c].from]
    BY <1>2
  <2>4. \A c \in 0..(m + 1) : c = 0 \/ c \in 1..(m + 1)
    OBVIOUS
  <2>5. ASSUME NEW c \in 0..(m + 1)
        PROVE  g[c] = IF c = 0 THEN 0 ELSE IF cookies[c].from = 0 THEN c ELSE g[cookies[c].from]
    <3>1. CASE c = 0
      BY <3>1, <2>3
    <3>2. CASE c # 0 /\ cookies[c].from = 0
      <4>1. CASE c = m + 1
        BY <3>2, <4>1
      <4>2. CASE c # m + 1
        BY <3>2, <4>2, <2>3
      <4>3. QED
        BY <4>1, <4>2
    <3>3. CASE c # 0 /\ cookies[c].from # 0
      <4>1. cookies[c].from \in 0..m /\ g[cookies[c].from] = f[cookies[c].from]
        BY <3>3, <2>2, <2>4
      <4>2. CASE c = m + 1
        BY <3>3, <4>1, <4>2
      <4>3. CASE c # m + 1
        BY <3>3, <4>1, <4>3, <2>3
      <4>4. QED
        BY <4>2, <4>3
    <3>4. QED
      BY <3>1, <3>2, <3>3
  <2>6. g = [c \in 0..(m + 1) |-> g[c]]
    OBVIOUS
  <2> HIDE DEF g
  <2>7. Solves(g, m + 1)
    BY <2>5, <2>6
  <2>8. QED
    BY <2>7
<1> HIDE DEF Solves
<1>3. T = {}
  <2> SUFFICES ASSUME T # {} PROVE FALSE
    OBVIOUS
  <2> HIDE DEF T
  <2>1. PICK k \in T : \A j \in Nat : j < k => j \notin T
    <3>1. T \in SUBSET Nat
      BY DEF T
    <3>2. QED
      BY <3>1, LeastOf
  <2>2. k \in Nat /\ k <= n /\ k # 0
    BY <1>1 DEF T
  <2>3. k - 1 \in Nat /\ k - 1 \in 0..n /\ k - 1 \notin T
    BY <2>1, <2>2
  <2>4. PICK f : Solves(f, k - 1)
    BY <2>3 DEF T
  <2>5. \E g : Solves(g, (k - 1) + 1)
    BY <1>2, <2>2, <2>3, <2>4
  <2>6. (k - 1) + 1 = k
    BY <2>2
  <2>7. QED
    BY <2>5, <2>6 DEF T
<1>4. \E f : Solves(f, n)
  BY <1>3
<1>5. QED
  BY <1>4 DEF Solves

(* ... and has the role of the cookie it led to. *)
LEMMA FirstHasRole ==
  ASSUME Signed, NEW f,
         f = [c \in 0..Len(cookies) |->
               IF c = 0 THEN 0 ELSE IF cookies[c].from = 0 THEN c ELSE f[cookies[c].from]],
         NEW x \in 1..Len(cookies)
  PROVE  cookies[f[x]].role = cookies[x].role
<1> DEFINE n == Len(cookies)
           T == {c \in 1..n : cookies[f[c]].role # cookies[c].role}
<1>1. n \in Nat
  BY LenProperties DEF Signed
<1>2. \A c \in 1..n : f[c] = IF cookies[c].from = 0 THEN c ELSE f[cookies[c].from]
  BY <1>1
<1>3. T = {}
  <2> SUFFICES ASSUME T # {} PROVE FALSE
    OBVIOUS
  <2>1. T \in SUBSET Nat
    BY <1>1
  <2> HIDE DEF T
  <2>2. PICK k \in T : \A j \in Nat : j < k => j \notin T
    BY <2>1, LeastOf
  <2>3. k \in 1..n /\ cookies[f[k]].role # cookies[k].role
    BY DEF T
  <2>4. /\ cookies[k].from \in 0..(k - 1)
        /\ cookies[k].from # 0 => cookies[cookies[k].from].role = cookies[k].role
    BY <2>3 DEF Signed
  <2>5. cookies[k].from # 0
    BY <1>2, <2>3
  <2>6. cookies[k].from \in 1..n /\ cookies[k].from < k
    BY <1>1, <2>3, <2>4, <2>5
  <2>7. cookies[k].from \notin T
    BY <1>1, <2>2, <2>6
  <2>8. f[k] = f[cookies[k].from]
    BY <1>2, <2>3, <2>5
  <2> HIDE DEF n
  <2>9. QED
    BY <2>3, <2>4, <2>5, <2>6, <2>7, <2>8 DEF T
<1>4. QED
  BY <1>3

(* The sessions' invariant holds of the API. *)
THEOREM SessionInvHolds == Spec => [](unit = "admin" => SessionInv)
<1>1. Starts => (unit = "admin" => SessionInv)
  <2> SUFFICES ASSUME Adm!Init PROVE SessionInv
    BY DEF Starts
  <2>1. cookies = <<>> /\ Len(cookies) = 0 /\ acts = {}
    BY EmptySeq DEF Adm!Init
  <2>2. cookies \in Seq({cookies[c] : c \in 1..Len(cookies)})
    BY <2>1, EmptySeq
  <2>3. QED
    BY <2>1, <2>2 DEF SessionInv, Signed, Served
<1>2. (unit = "admin" => SessionInv) /\ [UNCHANGED unit /\ Steps]_vars => (unit = "admin" => SessionInv)'
  BY SessionStep DEF Steps, vars, Adm!vars
<1>3. QED
  BY <1>1, <1>2, PTL DEF Spec

(* The middleware and POST /api/auth/session: what is served is within the      *)
(* scopes of the role of the token that opened the session, through any number  *)
(* of renewals and restarts with other tokens, and no cookie is used past its   *)
(* time: for all requests, environments, principals and lifetimes.              *)
THEOREM ActsWithinRoleHolds == Spec => []ActsWithinRole
<1>1. ASSUME SessionInv PROVE Adm!ActsWithinRole
  <2> SUFFICES ASSUME NEW act \in acts
        PROVE LET first[c \in 0..Len(cookies)] ==
                    IF c = 0 THEN 0 ELSE IF cookies[c].from = 0 THEN c ELSE first[cookies[c].from]
                  role == IF act.cookie = 0 THEN act.role ELSE cookies[first[act.cookie]].role
              IN  /\ Adm!requiredScopeForRequest(act.method, act.path) \in {""} \cup Adm!ROLE_SCOPES[role]
                  /\ act.cookie # 0 => act.at < cookies[act.cookie].expiresAt
    BY DEF Adm!ActsWithinRole
  <2> DEFINE first == CHOOSE f : f = [c \in 0..Len(cookies) |->
                        IF c = 0 THEN 0 ELSE IF cookies[c].from = 0 THEN c ELSE f[cookies[c].from]]
  <2>1. Len(cookies) \in Nat
    BY <1>1, LenProperties DEF SessionInv, Signed
  <2>2. first = [c \in 0..Len(cookies) |->
                  IF c = 0 THEN 0 ELSE IF cookies[c].from = 0 THEN c ELSE first[cookies[c].from]]
    <3>1. Len(cookies) <= Len(cookies)
      BY <2>1
    <3>2. \E f : f = [c \in 0..Len(cookies) |->
                  IF c = 0 THEN 0 ELSE IF cookies[c].from = 0 THEN c ELSE f[cookies[c].from]]
      BY <1>1, <2>1, <3>1, FirstDefined DEF SessionInv
    <3>3. QED
      BY <3>2, Zenon
  <2> HIDE DEF first
  <2>3. act.cookie \in 1..Len(cookies) => cookies[first[act.cookie]].role = cookies[act.cookie].role
    BY <1>1, <2>2, FirstHasRole DEF SessionInv
  <2>4. /\ act.cookie \in 0..Len(cookies)
        /\ act.cookie # 0 => act.role = cookies[act.cookie].role /\ act.at < cookies[act.cookie].expiresAt
        /\ Scoped(act.method, act.path, act.role)
    BY <1>1 DEF SessionInv, Served
  <2>5. (IF act.cookie = 0 THEN act.role ELSE cookies[first[act.cookie]].role) = act.role
    BY <2>1, <2>3, <2>4
  <2>6. QED
    BY <2>4, <2>5 DEF first, Scoped
<1>2. (unit = "admin" => SessionInv) => ActsWithinRole
  BY <1>1 DEF ActsWithinRole
<1>3. QED
  BY <1>2, SessionInvHolds, PTL

-----------------------------------------------------------------------------
(* Draft pull requests: the inductive invariant *)

(* A sequence of something. *)
IsSeq(s) == s \in Seq({s[i] : i \in 1..Len(s)})

(* From the moment a writer knows the base until it has moved the branch. *)
Holding == {"ref", "existing", "head", "commit", "patch"}
Labelling == {"label", "review", "get"}

RepoTyped ==
  /\ repo = [base |-> repo.base, head |-> repo.head, commits |-> repo.commits, prs |-> repo.prs, deleted |-> repo.deleted]
  /\ repo.deleted \in Nat
  /\ IsSeq(repo.commits)
  /\ \A c \in 1..Len(repo.commits) : repo.commits[c].parent \in 0..(c - 1)
  /\ IsSeq(repo.prs)
  /\ \A k \in 1..Len(repo.prs) :
       repo.prs[k] = [by |-> repo.prs[k].by, open |-> repo.prs[k].open,
                      labels |-> repo.prs[k].labels, reviewers |-> repo.prs[k].reviewers]

Shape(q) == q = [pc |-> q.pc, plan |-> q.plan, base |-> q.base, parent |-> q.parent, commit |-> q.commit, pr |-> q.pr]
WriterTyped(q, commits, prs) ==
  /\ Shape(q)
  /\ q.pc \in {"commit", "patch"} => q.parent = q.base
  /\ q.pc = "patch" => q.commit \in 1..Len(commits) /\ commits[q.commit].parent = q.parent
  /\ q.pc \in Labelling => q.pr \in 1..Len(prs)

WritersTyped ==
  /\ writer = [w \in PullWorkers |-> writer[w]]
  /\ \A w \in PullWorkers : WriterTyped(writer[w], repo.commits, repo.prs)
  /\ \A v, w \in PullWorkers :
       v # w /\ writer[v].pc = "patch" /\ writer[w].pc = "patch" => writer[v].commit # writer[w].commit

(* The branch has got a commit that nobody can add another one to. *)
Patched ==
  /\ repo.head # 0 /\ repo.head # repo.base
  /\ \A w \in PullWorkers : writer[w].pc \in Holding => writer[w].base # repo.head

ByBek(K) == {c \in K : repo.commits[c].by = "bek"}

(* All that was ever on the branch or the base: it is closed under parents, what
   a writer is going to publish is not in it, and each deletion of the branch
   accounts for one commit of Bek's. *)
Publishes(K) ==
  /\ K \subseteq 1..Len(repo.commits)
  /\ \A c \in K : repo.commits[c].parent # 0 => repo.commits[c].parent \in K
  /\ repo.base \in K
  /\ repo.head # 0 => repo.head \in K
  /\ \A w \in PullWorkers :
       /\ writer[w].pc \in Holding => writer[w].base \in K
       /\ writer[w].pc = "patch" => writer[w].commit \notin K
  /\ Cardinality(ByBek(K)) <= repo.deleted + (IF Patched THEN 1 ELSE 0)

Opened == Len(repo.prs) <= repo.deleted + (IF \E k \in 1..Len(repo.prs) : repo.prs[k].open THEN 1 ELSE 0)

OnceInv == RepoTyped /\ WritersTyped /\ Opened /\ \E K : Publishes(K)

(* The plan that was shown, hashed and approved is the one that is carried out. *)
Agreed ==
  /\ run = [proposal |-> run.proposal, binding |-> run.binding, approval |-> run.approval, allowed |-> run.allowed]
  /\ run.approval = [status |-> run.approval.status, payloadHash |-> run.approval.payloadHash,
                     payloadMetadata |-> run.approval.payloadMetadata]
  /\ run.approval.status \in {"none", "pending", "approved"}
  /\ run.approval.status # "none" => run.approval.payloadHash.commit.changes = run.proposal.changes
  /\ \A w \in PullWorkers :
       /\ writer[w].pc \in {"idle", "failed"} \/ writer[w].plan # {}
       /\ writer[w].plan # {} => run.approval.status = "approved"
       /\ \A p \in writer[w].plan : p.commit.changes = run.approval.payloadHash.commit.changes
  /\ \A c \in 1..Len(repo.commits) : repo.commits[c].by = "bek" =>
       /\ run.approval.status = "approved"
       /\ repo.commits[c].changes = run.approval.payloadHash.commit.changes

PullInv == OnceInv /\ Agreed

-----------------------------------------------------------------------------
(* Lemmas about sequences and commits *)

(* What Append makes of a sequence of something. *)
LEMMA Appended ==
  ASSUME NEW s, IsSeq(s), NEW e
  PROVE  /\ IsSeq(Append(s, e)) /\ Len(s) \in Nat /\ Len(Append(s, e)) = Len(s) + 1
         /\ \A i \in 1..Len(s) : Append(s, e)[i] = s[i]
         /\ Append(s, e)[Len(s) + 1] = e
<1> DEFINE S == {s[i] : i \in 1..Len(s)}
           n == Len(s)
           t == Append(s, e)
<1>1. n \in Nat
  BY LenProperties DEF IsSeq
<1>2. s \in Seq(S \cup {e}) /\ e \in S \cup {e}
  BY SeqMonotonic DEF IsSeq
<1> HIDE DEF S
<1>3. /\ t \in Seq(S \cup {e}) /\ Len(t) = n + 1
      /\ \A i \in 1..n : t[i] = s[i]
      /\ t[n + 1] = e
  BY <1>2, AppendProperties
<1> HIDE DEF t
<1>4. t \in Seq({t[i] : i \in 1..Len(t)})
  <2> DEFINE T == {t[i] : i \in 1..Len(t)}
  <2>1. t \in [1..(n + 1) -> T]
    BY <1>3, LenProperties
  <2> HIDE DEF T
  <2>2. t \in Seq(T)
    BY <1>1, <2>1, SeqDef
  <2>3. QED
    BY <2>2 DEF T
<1>5. QED
  BY <1>1, <1>3, <1>4 DEF IsSeq, t

(* The published commits of Bek's are finitely many. *)
LEMMA ByBekFinite ==
  ASSUME RepoTyped, NEW K, K \subseteq 1..Len(repo.commits)
  PROVE  IsFiniteSet(ByBek(K)) /\ Cardinality(ByBek(K)) \in Nat
<1>1. Len(repo.commits) \in Nat
  BY LenProperties DEF RepoTyped, IsSeq
<1>2. IsFiniteSet(1..Len(repo.commits))
  BY <1>1, FS_Interval
<1>3. ByBek(K) \subseteq 1..Len(repo.commits)
  BY DEF ByBek
<1>4. QED
  BY <1>2, <1>3, FS_Subset, FS_CardinalityType

(* The commits of one state are commits of the next. *)
Extends == /\ Len(repo'.commits) >= Len(repo.commits)
           /\ \A c \in 1..Len(repo.commits) : repo'.commits[c] = repo.commits[c]

(* Who holds a base held it before, or has read the base; whoever has a commit
   to publish had it before, or it is a new one. *)
Holds ==
  \A w \in PullWorkers :
    /\ writer'[w].pc \in Holding =>
         writer'[w].base = repo.base \/ (writer[w].pc \in Holding /\ writer'[w].base = writer[w].base)
    /\ writer'[w].pc = "patch" =>
         writer'[w].commit > Len(repo.commits) \/ (writer[w].pc = "patch" /\ writer'[w].commit = writer[w].commit)

(* A step that publishes nothing. *)
LEMMA NothingPublished ==
  ASSUME RepoTyped, Extends, Holds, NEW K, Publishes(K),
         repo'.base = repo.base, repo'.head = repo.head, repo'.deleted = repo.deleted
  PROVE  Publishes(K)'
<1>1. Len(repo.commits) \in Nat /\ repo.deleted \in Nat
  BY LenProperties DEF RepoTyped, IsSeq
<1>2. K \subseteq 1..Len(repo.commits) /\ \A c \in K : repo'.commits[c] = repo.commits[c]
  BY DEF Publishes, Extends
<1>3. ByBek(K)' = ByBek(K)
  BY <1>2 DEF ByBek
<1>4. Cardinality(ByBek(K)) \in Nat
  BY <1>2, ByBekFinite
<1>5. Patched => Patched'
  BY DEF Patched, Holds
<1>6. Cardinality(ByBek(K)') <= repo'.deleted + (IF Patched' THEN 1 ELSE 0)
  <2>1. Cardinality(ByBek(K)) <= repo.deleted + (IF Patched THEN 1 ELSE 0)
    BY DEF Publishes
  <2> HIDE DEF repo, writer
  <2>2. CASE Patched
    BY <1>3, <1>5, <2>1, <2>2
  <2>3. CASE ~Patched
    BY <1>1, <1>3, <1>4, <2>1, <2>3
  <2>4. QED
    BY <2>2, <2>3
<1>7. K \subseteq 1..Len(repo'.commits)
  BY <1>1, <1>2, LenProperties DEF Extends
<1>8. \A c \in K : repo'.commits[c].parent # 0 => repo'.commits[c].parent \in K
  BY <1>2 DEF Publishes
<1>9. ASSUME NEW w \in PullWorkers
      PROVE  /\ writer'[w].pc \in Holding => writer'[w].base \in K
             /\ writer'[w].pc = "patch" => writer'[w].commit \notin K
  <2>1. \A c \in K : c \in Int /\ ~(c > Len(repo.commits))
    BY <1>1, <1>2
  <2>2. QED
    BY <2>1 DEF Publishes, Holds
<1>10. QED
  BY <1>6, <1>7, <1>8, <1>9 DEF Publishes

(* A step that makes or moves the branch within what was published, when nobody
   has published a commit on it. *)
LEMMA BranchMade ==
  ASSUME RepoTyped, Extends, Holds, NEW K, Publishes(K), repo.head = 0, repo'.head \in K,
         repo'.base = repo.base, repo'.deleted = repo.deleted
  PROVE  Publishes(K)'
<1>1. Len(repo.commits) \in Nat /\ repo.deleted \in Nat
  BY LenProperties DEF RepoTyped, IsSeq
<1>2. K \subseteq 1..Len(repo.commits) /\ \A c \in K : repo'.commits[c] = repo.commits[c]
  BY DEF Publishes, Extends
<1>3. ByBek(K)' = ByBek(K)
  BY <1>2 DEF ByBek
<1>4. Cardinality(ByBek(K)) \in Nat
  BY <1>2, ByBekFinite
<1>5. ~Patched
  BY DEF Patched
<1>6. Cardinality(ByBek(K)') <= repo'.deleted + (IF Patched' THEN 1 ELSE 0)
  <2>1. Cardinality(ByBek(K)) <= repo.deleted
    BY <1>1, <1>5 DEF Publishes
  <2> HIDE DEF repo, writer
  <2>2. QED
    BY <1>1, <1>3, <1>4, <2>1
<1>7. K \subseteq 1..Len(repo'.commits)
  BY <1>1, <1>2, LenProperties DEF Extends
<1>8. \A c \in K : repo'.commits[c].parent # 0 => repo'.commits[c].parent \in K
  BY <1>2 DEF Publishes
<1>9. ASSUME NEW w \in PullWorkers
      PROVE  /\ writer'[w].pc \in Holding => writer'[w].base \in K
             /\ writer'[w].pc = "patch" => writer'[w].commit \notin K
  <2>1. \A c \in K : c \in Int /\ ~(c > Len(repo.commits))
    BY <1>1, <1>2
  <2>2. QED
    BY <2>1 DEF Publishes, Holds
<1>10. QED
  BY <1>6, <1>7, <1>8, <1>9 DEF Publishes

(* A step that publishes one commit more on the branch, from its head. *)
LEMMA BranchMoved ==
  ASSUME RepoTyped, Extends, Holds, NEW K, Publishes(K), ~Patched, Len(repo'.commits) \in Nat,
         NEW h, repo'.head = h, repo.head # 0, repo'.base = repo.base, repo'.deleted = repo.deleted,
         h \in 1..Len(repo'.commits), h \notin K, repo'.commits[h].parent = repo.head,
         \A w \in PullWorkers : writer'[w].pc = "patch" => writer'[w].commit # h
  PROVE  Publishes(K \cup {h})'
<1> DEFINE L == K \cup {h}
<1>1. Len(repo.commits) \in Nat /\ repo.deleted \in Nat
  BY LenProperties DEF RepoTyped, IsSeq
<1>2. K \subseteq 1..Len(repo.commits) /\ \A c \in K : repo'.commits[c] = repo.commits[c]
  BY DEF Publishes, Extends
<1>3. {c \in L : repo'.commits[c].by = "bek"} \subseteq ByBek(K) \cup {h}
  BY <1>2 DEF ByBek
<1>4. IsFiniteSet(ByBek(K)) /\ Cardinality(ByBek(K)) \in Nat
  BY <1>2, ByBekFinite
<1>5. Cardinality(ByBek(K)) <= repo.deleted
  BY <1>1 DEF Publishes
<1>6. Cardinality(ByBek(K) \cup {h}) <= repo.deleted + 1
  <2>1. h \notin ByBek(K)
    BY DEF ByBek
  <2>2. IsFiniteSet(ByBek(K) \cup {h}) /\ Cardinality(ByBek(K) \cup {h}) = Cardinality(ByBek(K)) + 1
    BY <1>4, <2>1, FS_AddElement
  <2> HIDE DEF repo, writer
  <2>3. QED
    BY <1>1, <1>4, <1>5, <2>2
<1>7. Cardinality({c \in L : repo'.commits[c].by = "bek"}) <= repo.deleted + 1
  <2>1. IsFiniteSet(ByBek(K) \cup {h})
    BY <1>4, FS_AddElement
  <2> DEFINE B == {c \in L : repo'.commits[c].by = "bek"}
             C == ByBek(K) \cup {h}
  <2>2. B \subseteq C
    BY <1>3
  <2> HIDE DEF B, C
  <2>3. IsFiniteSet(B) /\ Cardinality(B) <= Cardinality(C)
    BY <2>1, <2>2, FS_Subset DEF C
  <2>4. Cardinality(B) \in Nat /\ Cardinality(C) \in Nat
    BY <2>1, <2>3, FS_CardinalityType DEF C
  <2> HIDE DEF repo, writer
  <2>5. QED
    BY <1>1, <1>6, <2>3, <2>4 DEF B, C
<1>8. L \subseteq 1..Len(repo'.commits)
  <2>1. Len(repo'.commits) >= Len(repo.commits)
    BY DEF Extends
  <2>2. PICK m, n : m = Len(repo.commits) /\ n = Len(repo'.commits)
    OBVIOUS
  <2>3. m \in Nat /\ n \in Nat /\ m <= n /\ h \in 1..n
    BY <1>1, <2>1, <2>2
  <2>4. 1..m \subseteq 1..n
    BY <2>3
  <2>5. K \subseteq 1..m
    BY <1>2, <2>2
  <2>6. QED
    BY <2>2, <2>3, <2>4, <2>5
<1>9. \A c \in L : repo'.commits[c].parent # 0 => repo'.commits[c].parent \in L
  BY <1>2 DEF Publishes
<1>10. ASSUME NEW w \in PullWorkers
       PROVE  /\ writer'[w].pc \in Holding => writer'[w].base \in K
              /\ writer'[w].pc = "patch" => writer'[w].commit \notin L
  <2>1. \A c \in K : c \in Int /\ ~(c > Len(repo.commits))
    BY <1>1, <1>2
  <2>2. writer'[w].pc = "patch" => writer'[w].commit \notin K
    BY <2>1 DEF Publishes, Holds
  <2>3. QED
    BY <2>2 DEF Publishes, Holds
<1>11. Patched'
  <2>1. h # 0 /\ h # repo'.base
    BY <1>1 DEF Publishes
  <2>2. QED
    BY <1>10, <2>1 DEF Patched
<1>12. QED
  <2>1. repo'.base \in L /\ repo'.head \in L
    BY DEF Publishes
  <2>2. Cardinality(ByBek(L)') <= repo'.deleted + (IF Patched' THEN 1 ELSE 0)
    BY <1>7, <1>11 DEF ByBek
  <2> HIDE DEF L
  <2>3. Publishes(L)'
    BY <1>8, <1>9, <1>10, <2>1, <2>2 DEF Publishes, L
  <2>4. QED
    BY <2>3 DEF L

(* A push of somebody else's to the base. *)
LEMMA BasePushed ==
  ASSUME RepoTyped, WritersTyped, NEW K, Publishes(K), writer' = writer, NEW e, NEW h, h = Len(repo.commits) + 1, e.by # "bek", e.parent = repo.base,
         repo' = [repo EXCEPT !.base = h, !.commits = Append(@, e)]
  PROVE  Publishes(K \cup {h})'
<1> DEFINE n == Len(repo.commits)
           L == K \cup {h}
<1>1. n \in Nat /\ repo.deleted \in Nat
  BY LenProperties DEF RepoTyped, IsSeq
<1>2. /\ repo'.base = n + 1 /\ repo'.base = h /\ repo'.head = repo.head /\ repo'.deleted = repo.deleted
      /\ repo'.commits = Append(repo.commits, e)
  BY DEF RepoTyped
<1>3. /\ Len(repo'.commits) = n + 1 /\ repo'.commits[n + 1] = e
      /\ \A c \in 1..n : repo'.commits[c] = repo.commits[c]
  BY <1>2, Appended DEF RepoTyped
<1>4. K \subseteq 1..n /\ (n + 1) \notin K /\ L \subseteq 1..(n + 1) /\ n + 1 # 0
  <2>1. K \subseteq 1..n
    BY DEF Publishes
  <2>2. QED
    BY <1>1, <2>1
<1>5. {c \in L : repo'.commits[c].by = "bek"} = ByBek(K)
  BY <1>3, <1>4 DEF ByBek
<1>6. Cardinality(ByBek(K)) \in Nat
  BY <1>4, ByBekFinite
<1>7. Patched => Patched'
  BY <1>2, <1>4 DEF Patched, Publishes
<1>8. Cardinality({c \in L : repo'.commits[c].by = "bek"}) <= repo'.deleted + (IF Patched' THEN 1 ELSE 0)
  <2>1. Cardinality(ByBek(K)) <= repo.deleted + (IF Patched THEN 1 ELSE 0)
    BY DEF Publishes
  <2> HIDE DEF repo, writer
  <2>2. Cardinality(ByBek(K)) <= repo'.deleted + (IF Patched' THEN 1 ELSE 0)
    <3>1. CASE Patched
      BY <1>2, <1>7, <2>1, <3>1
    <3>2. CASE ~Patched
      BY <1>1, <1>2, <1>6, <2>1, <3>2
    <3>3. QED
      BY <3>1, <3>2
  <2>3. QED
    BY <1>5, <2>2
<1>9. \A c \in L : repo'.commits[c].parent # 0 => repo'.commits[c].parent \in L
  BY <1>3, <1>4 DEF Publishes
<1>10. ASSUME NEW w \in PullWorkers
       PROVE  /\ writer'[w].pc \in Holding => writer'[w].base \in L
              /\ writer'[w].pc = "patch" => writer'[w].commit \notin L
  <2>1. ~(writer[w].pc = "patch" /\ writer[w].commit = n + 1)
    BY <1>1 DEF WritersTyped, WriterTyped
  <2>2. QED
    BY <2>1 DEF Publishes
<1>11. QED
  <2>1. repo'.base \in L /\ (repo'.head # 0 => repo'.head \in L)
    BY <1>2 DEF Publishes
  <2>2. Cardinality(ByBek(L)') <= repo'.deleted + (IF Patched' THEN 1 ELSE 0)
    BY <1>8 DEF ByBek
  <2>3. L \subseteq 1..Len(repo'.commits)
    BY <1>3, <1>4
  <2> HIDE DEF L
  <2>4. Publishes(L)'
    BY <1>9, <1>10, <2>1, <2>2, <2>3 DEF Publishes
  <2>5. QED
    BY <2>4 DEF L

(* A merge, which deletes the branch: one commit of Bek's more is accounted for. *)
LEMMA BranchMerged ==
  ASSUME RepoTyped, NEW K, Publishes(K), writer' = writer, repo.head # 0,
         repo'.base = repo.head, repo'.head = 0, repo'.deleted = repo.deleted + 1,
         repo'.commits = repo.commits
  PROVE  Publishes(K)'
<1>1. repo.deleted \in Nat
  BY DEF RepoTyped
<1>2. K \subseteq 1..Len(repo.commits)
  BY DEF Publishes
<1>3. ByBek(K)' = ByBek(K)
  BY DEF ByBek
<1>4. Cardinality(ByBek(K)) \in Nat
  BY <1>2, ByBekFinite
<1>5. ~Patched'
  BY DEF Patched
<1>6. Cardinality(ByBek(K)') <= repo'.deleted + (IF Patched' THEN 1 ELSE 0)
  <2>1. Cardinality(ByBek(K)) <= repo.deleted + (IF Patched THEN 1 ELSE 0)
    BY DEF Publishes
  <2> HIDE DEF repo, writer
  <2>2. Cardinality(ByBek(K)) <= repo.deleted + 1
    BY <1>1, <1>4, <2>1
  <2>3. QED
    BY <1>1, <1>3, <1>5, <2>2
<1>7. QED
  BY <1>6 DEF Publishes

(* What one worker's step makes of its record. *)
Moves(w, q) ==
  /\ writer' = [writer EXCEPT ![w] = q]
  /\ WriterTyped(q, repo'.commits, repo'.prs)
  /\ q.plan = writer[w].plan
  /\ q.pc \in {"idle", "failed"} \/ writer[w].pc \notin {"idle", "failed"}
  /\ q.pc \in Holding => q.base = repo.base \/ (writer[w].pc \in Holding /\ q.base = writer[w].base)
  /\ q.pc = "patch" => q.commit = Len(repo.commits) + 1

(* The pull requests of one state are pull requests of the next. *)
KeepsPrs == Len(repo'.prs) >= Len(repo.prs)

(* What a writer relies on stays, as commits and pull requests only get more. *)
LEMMA WriterKept ==
  ASSUME RepoTyped, Extends, KeepsPrs, Len(repo'.commits) \in Nat, Len(repo'.prs) \in Nat,
         NEW q, WriterTyped(q, repo.commits, repo.prs)
  PROVE  WriterTyped(q, repo'.commits, repo'.prs)
<1>1. Len(repo.commits) \in Nat /\ Len(repo.prs) \in Nat
  BY LenProperties DEF RepoTyped, IsSeq
<1>2. \A c \in 1..Len(repo.commits) : c \in 1..Len(repo'.commits) /\ repo'.commits[c] = repo.commits[c]
  <2>1. /\ Len(repo'.commits) >= Len(repo.commits)
        /\ \A c \in 1..Len(repo.commits) : repo'.commits[c] = repo.commits[c]
    BY DEF Extends
  <2> HIDE DEF repo
  <2>2. QED
    BY <1>1, <2>1
<1>3. \A k \in 1..Len(repo.prs) : k \in 1..Len(repo'.prs)
  <2>1. Len(repo'.prs) >= Len(repo.prs)
    BY DEF KeepsPrs
  <2> HIDE DEF repo
  <2>2. QED
    BY <1>1, <2>1
<1>4. QED
  BY <1>2, <1>3 DEF WriterTyped

(* A worker's step keeps what is said of the writers. *)
LEMMA WritersKept ==
  ASSUME RepoTyped, Extends, KeepsPrs, Len(repo'.commits) \in Nat, Len(repo'.prs) \in Nat,
         WritersTyped, NEW w \in PullWorkers, NEW q, Moves(w, q)
  PROVE  WritersTyped' /\ Holds
<1>1. Len(repo.commits) \in Nat
  BY LenProperties DEF RepoTyped, IsSeq
<1>2. /\ writer'[w] = q /\ \A v \in PullWorkers \ {w} : writer'[v] = writer[v]
      /\ writer' = [v \in PullWorkers |-> writer'[v]]
  BY DEF WritersTyped, Moves
<1>3. \A v \in PullWorkers : WriterTyped(writer'[v], repo'.commits, repo'.prs)
  <2>1. WriterTyped(q, repo'.commits, repo'.prs)
    BY DEF Moves
  <2>2. ASSUME NEW v \in PullWorkers \ {w}
        PROVE  WriterTyped(writer[v], repo'.commits, repo'.prs)
    <3>1. WriterTyped(writer[v], repo.commits, repo.prs)
      BY DEF WritersTyped
    <3>2. QED
      BY <3>1, WriterKept
  <2>3. QED
    BY <1>2, <2>1, <2>2
<1>4. q.pc = "patch" => q.commit = Len(repo.commits) + 1
  BY DEF Moves
<1>5. \A v \in PullWorkers : writer[v].pc = "patch" => writer[v].commit \in 1..Len(repo.commits)
  BY DEF WritersTyped, WriterTyped
<1>6. q.pc = "patch" => /\ q.commit > Len(repo.commits)
                        /\ \A v \in PullWorkers : writer[v].pc = "patch" => writer[v].commit # q.commit
  <2> HIDE DEF repo, writer
  <2>1. QED
    BY <1>1, <1>4, <1>5
<1>7. \A u, v \in PullWorkers :
        u # v /\ writer'[u].pc = "patch" /\ writer'[v].pc = "patch" => writer'[u].commit # writer'[v].commit
  BY <1>2, <1>6 DEF WritersTyped
<1>8. WritersTyped'
  BY <1>2, <1>3, <1>7 DEF WritersTyped
<1>9. Holds
  BY <1>2, <1>6 DEF Holds, Moves
<1>10. QED
  BY <1>8, <1>9

(* The repository's fields are all of it. *)
Fields == repo' = [base |-> repo'.base, head |-> repo'.head, commits |-> repo'.commits,
                   prs |-> repo'.prs, deleted |-> repo'.deleted]
Keeps == Extends /\ KeepsPrs /\ Len(repo'.commits) \in Nat /\ Len(repo'.prs) \in Nat

(* A step that makes no commit and leaves the pull requests alone. *)
LEMMA NothingMade ==
  ASSUME RepoTyped, Opened, Fields, repo'.commits = repo.commits, repo'.prs = repo.prs,
         repo'.deleted = repo.deleted
  PROVE  RepoTyped' /\ Keeps /\ Opened'
<1>1. Len(repo.commits) \in Nat /\ Len(repo.prs) \in Nat
  BY LenProperties DEF RepoTyped, IsSeq
<1>2. RepoTyped' /\ Opened'
  BY DEF RepoTyped, Opened, Fields
<1>3. Len(repo'.commits) = Len(repo.commits) /\ Len(repo'.prs) = Len(repo.prs)
  OBVIOUS
<1>4. Keeps
  <2>1. Len(repo'.commits) >= Len(repo.commits) /\ Len(repo'.prs) >= Len(repo.prs)
    <3> HIDE DEF repo
    <3>1. QED
      BY <1>1, <1>3
  <2>2. QED
    BY <1>1, <1>3, <2>1 DEF Keeps, Extends, KeepsPrs
<1>5. QED
  BY <1>2, <1>4

(* A step that makes a commit, on one that is there. *)
LEMMA CommitMade ==
  ASSUME RepoTyped, Opened, Fields, NEW e, e.parent \in 1..Len(repo.commits),
         repo'.commits = Append(repo.commits, e), repo'.prs = repo.prs, repo'.deleted = repo.deleted
  PROVE  /\ RepoTyped' /\ Keeps /\ Opened'
         /\ Len(repo'.commits) = Len(repo.commits) + 1
         /\ repo'.commits[Len(repo.commits) + 1] = e
<1> DEFINE n == Len(repo.commits)
<1>1. n \in Nat /\ Len(repo.prs) \in Nat
  BY LenProperties DEF RepoTyped, IsSeq
<1>2. /\ IsSeq(repo'.commits) /\ Len(repo'.commits) = n + 1
      /\ \A c \in 1..n : repo'.commits[c] = repo.commits[c]
      /\ repo'.commits[n + 1] = e
  BY Appended DEF RepoTyped
<1>3. \A c \in 1..Len(repo'.commits) : repo'.commits[c].parent \in 0..(c - 1)
  <2>1. \A c \in 1..n : repo'.commits[c].parent \in 0..(c - 1)
    BY <1>2 DEF RepoTyped
  <2>2. repo'.commits[n + 1].parent \in 1..n
    BY <1>2
  <2>3. repo'.commits[n + 1].parent \in 0..((n + 1) - 1)
    <3> HIDE DEF repo
    <3>1. QED
      BY <1>1, <2>2
  <2>4. \A c \in 1..(n + 1) : c \in 1..n \/ c = n + 1
    BY <1>1
  <2>5. QED
    BY <1>2, <2>1, <2>3, <2>4
<1>4. RepoTyped' /\ Opened'
  BY <1>2, <1>3 DEF RepoTyped, Opened, Fields
<1>5. Keeps
  <2>1. Len(repo'.commits) >= n /\ Len(repo'.prs) >= Len(repo.prs) /\ Len(repo'.commits) \in Nat
    <3>1. Len(repo'.prs) = Len(repo.prs)
      OBVIOUS
    <3> HIDE DEF repo
    <3>2. QED
      BY <1>1, <1>2, <3>1
  <2>2. QED
    BY <1>1, <1>2, <2>1 DEF Keeps, Extends, KeepsPrs
<1>6. QED
  BY <1>2, <1>4, <1>5

PrTyped(e) == e = [by |-> e.by, open |-> e.open, labels |-> e.labels, reviewers |-> e.reviewers]

(* A step that opens a pull request when none is open. *)
LEMMA PrOpened ==
  ASSUME RepoTyped, Opened, Fields, NEW e, PrTyped(e), e.open = TRUE,
         \A k \in 1..Len(repo.prs) : ~ repo.prs[k].open,
         repo'.prs = Append(repo.prs, e), repo'.commits = repo.commits, repo'.deleted = repo.deleted
  PROVE  RepoTyped' /\ Keeps /\ Opened' /\ Len(repo'.prs) = Len(repo.prs) + 1
<1> DEFINE n == Len(repo.prs)
<1>1. n \in Nat /\ Len(repo.commits) \in Nat /\ repo.deleted \in Nat
  BY LenProperties DEF RepoTyped, IsSeq
<1>2. /\ IsSeq(repo'.prs) /\ Len(repo'.prs) = n + 1
      /\ \A c \in 1..n : repo'.prs[c] = repo.prs[c]
      /\ repo'.prs[n + 1] = e
  BY Appended DEF RepoTyped
<1>3. \A k \in 1..(n + 1) : k \in 1..n \/ k = n + 1
  BY <1>1
<1>4. \A k \in 1..Len(repo'.prs) : PrTyped(repo'.prs[k])
  BY <1>2, <1>3 DEF RepoTyped, PrTyped
<1>5. RepoTyped'
  BY <1>2, <1>4 DEF RepoTyped, Fields, PrTyped
<1>6. Opened'
  <2>1. n + 1 \in 1..(n + 1)
    BY <1>1
  <2>2. \E k \in 1..Len(repo'.prs) : repo'.prs[k].open
    BY <1>2, <2>1
  <2>3. n <= repo.deleted
    BY <1>1 DEF Opened
  <2> HIDE DEF repo
  <2>4. Len(repo'.prs) <= repo'.deleted + 1
    BY <1>1, <1>2, <2>3
  <2>5. QED
    BY <2>2, <2>4 DEF Opened
<1>7. Keeps
  <2>1. Len(repo'.prs) >= n /\ Len(repo'.prs) \in Nat /\ Len(repo'.commits) >= Len(repo.commits)
    <3>1. Len(repo'.commits) = Len(repo.commits)
      OBVIOUS
    <3> HIDE DEF repo
    <3>2. QED
      BY <1>1, <1>2, <3>1
  <2>2. QED
    BY <1>1, <1>2, <2>1 DEF Keeps, Extends, KeepsPrs
<1>8. QED
  BY <1>2, <1>5, <1>6, <1>7

(* A function on 1..n is a sequence of length n. *)
LEMMA FunctionSeq ==
  ASSUME NEW n \in Nat, NEW t, t = [i \in 1..n |-> t[i]]
  PROVE  IsSeq(t) /\ Len(t) = n
<1> DEFINE T == {t[i] : i \in 1..n}
<1>1. t \in [1..n -> T]
  OBVIOUS
<1> HIDE DEF T
<1>2. t \in Seq(T)
  BY <1>1, SeqDef
<1>3. Len(t) \in Nat /\ DOMAIN t = 1..Len(t) /\ DOMAIN t = 1..n
  BY <1>1, <1>2, LenProperties
<1>4. Len(t) = n
  BY <1>3
<1>5. QED
  BY <1>2, <1>4 DEF T, IsSeq

(* A step that labels a pull request or asks for its review. *)
LEMMA PrChanged ==
  ASSUME RepoTyped, Opened, Fields, NEW k \in 1..Len(repo.prs), NEW e, PrTyped(e),
         e.open = repo.prs[k].open, repo'.prs = [repo.prs EXCEPT ![k] = e],
         repo'.commits = repo.commits, repo'.deleted = repo.deleted
  PROVE  RepoTyped' /\ Keeps /\ Opened'
<1> DEFINE n == Len(repo.prs)
<1>1. n \in Nat /\ Len(repo.commits) \in Nat
  BY LenProperties DEF RepoTyped, IsSeq
<1>2. repo.prs \in [1..n -> {repo.prs[i] : i \in 1..n}]
  BY LenProperties DEF RepoTyped, IsSeq
<1>3. \A i \in 1..n : repo'.prs[i] = IF i = k THEN e ELSE repo.prs[i]
  BY <1>2
<1>4. repo'.prs = [i \in 1..n |-> repo'.prs[i]]
  BY <1>2
<1>5. IsSeq(repo'.prs) /\ Len(repo'.prs) = n
  BY <1>1, <1>4, FunctionSeq
<1>6. \A i \in 1..n : PrTyped(repo'.prs[i]) /\ repo'.prs[i].open = repo.prs[i].open
  BY <1>3 DEF RepoTyped, PrTyped
<1>7. RepoTyped' /\ Opened'
  BY <1>5, <1>6 DEF RepoTyped, Opened, Fields, PrTyped
<1>8. Keeps
  <2>1. Len(repo'.prs) >= n /\ Len(repo'.commits) >= Len(repo.commits)
    <3>1. Len(repo'.commits) = Len(repo.commits)
      OBVIOUS
    <3> HIDE DEF repo
    <3>2. QED
      BY <1>1, <1>5, <3>1
  <2>2. QED
    BY <1>1, <1>5, <2>1 DEF Keeps, Extends, KeepsPrs
<1>9. QED
  BY <1>7, <1>8

(* What a worker's step makes of the repository. *)
Posts(w) ==
  /\ repo.head = 0
  /\ \/ repo' = [repo EXCEPT !.head = repo.base]
     \/ writer[w].pc \in Holding /\ repo' = [repo EXCEPT !.head = writer[w].base]
Commits(w) ==
  /\ writer[w].pc = "commit"
  /\ repo' = [repo EXCEPT !.commits = Append(repo.commits,
                [by |-> "bek", parent |-> writer[w].parent, changes |-> Pr!Plan(w).commit.changes])]
Patches(w) ==
  /\ writer[w].pc = "patch" /\ repo.head = writer[w].parent
  /\ repo' = [repo EXCEPT !.head = writer[w].commit]
CommitsAtOnce(w) ==
  /\ writer[w].pc = "head" /\ repo.head = writer[w].base
  /\ repo' = [repo EXCEPT !.head = Len(repo.commits) + 1, !.commits = Append(repo.commits,
                [by |-> "bek", parent |-> repo.head, changes |-> Pr!Plan(w).commit.changes])]
Opens(e) ==
  /\ PrTyped(e) /\ e.open = TRUE
  /\ \A k \in 1..Len(repo.prs) : ~ repo.prs[k].open
  /\ repo' = [repo EXCEPT !.prs = Append(repo.prs, e)]
Changes(k, e) ==
  /\ k \in 1..Len(repo.prs) /\ PrTyped(e) /\ e.open = repo.prs[k].open
  /\ repo' = [repo EXCEPT !.prs = [repo.prs EXCEPT ![k] = e]]
Works(w, q) ==
  \/ UNCHANGED repo
  \/ Posts(w)
  \/ Commits(w)
  \/ Patches(w) /\ q.pc # "patch"
  \/ CommitsAtOnce(w) /\ q.pc # "patch"
  \/ \E e : Opens(e)
  \/ \E k, e : Changes(k, e)

(* The same, as what the lemmas above ask for. *)
LEMMA RepoKept ==
  ASSUME RepoTyped, WritersTyped, Opened, NEW K, Publishes(K),
         NEW w \in PullWorkers, NEW q, Works(w, q)
  PROVE  /\ RepoTyped' /\ Keeps /\ Opened'
         /\ repo'.base = repo.base /\ repo'.deleted = repo.deleted
<1>1. CASE UNCHANGED repo
  <2>1. Fields /\ repo'.base = repo.base /\ repo'.commits = repo.commits /\ repo'.prs = repo.prs /\ repo'.deleted = repo.deleted
    BY <1>1 DEF RepoTyped, Fields
  <2>2. QED
    BY <2>1, NothingMade
<1>2. CASE Posts(w)
  <2>1. Fields /\ repo'.base = repo.base /\ repo'.commits = repo.commits /\ repo'.prs = repo.prs /\ repo'.deleted = repo.deleted
    BY <1>2 DEF RepoTyped, Fields, Posts
  <2>2. QED
    BY <2>1, NothingMade
<1>3. CASE Commits(w)
  <2> DEFINE e == [by |-> "bek", parent |-> writer[w].parent, changes |-> Pr!Plan(w).commit.changes]
  <2>1. /\ Fields /\ repo'.base = repo.base /\ repo'.prs = repo.prs /\ repo'.deleted = repo.deleted
        /\ repo'.commits = Append(repo.commits, e)
    BY <1>3 DEF RepoTyped, Fields, Commits
  <2>2. e.parent \in 1..Len(repo.commits)
    <3>1. writer[w].parent = writer[w].base /\ writer[w].pc \in Holding
      BY <1>3 DEF Commits, WritersTyped, WriterTyped, Holding
    <3>2. QED
      BY <3>1 DEF Publishes
  <2> HIDE DEF e
  <2>3. QED
    BY <2>1, <2>2, CommitMade
<1>4. CASE Patches(w)
  <2>1. Fields /\ repo'.base = repo.base /\ repo'.commits = repo.commits /\ repo'.prs = repo.prs /\ repo'.deleted = repo.deleted
    BY <1>4 DEF RepoTyped, Fields, Patches
  <2>2. QED
    BY <2>1, NothingMade
<1>5. CASE CommitsAtOnce(w)
  <2> DEFINE e == [by |-> "bek", parent |-> repo.head, changes |-> Pr!Plan(w).commit.changes]
  <2>1. /\ Fields /\ repo'.base = repo.base /\ repo'.prs = repo.prs /\ repo'.deleted = repo.deleted
        /\ repo'.commits = Append(repo.commits, e)
    BY <1>5 DEF RepoTyped, Fields, CommitsAtOnce
  <2>2. e.parent \in 1..Len(repo.commits)
    BY <1>5 DEF CommitsAtOnce, Publishes, Holding
  <2> HIDE DEF e
  <2>3. QED
    BY <2>1, <2>2, CommitMade
<1>6. ASSUME NEW e, Opens(e)
      PROVE  /\ RepoTyped' /\ Keeps /\ Opened'
             /\ repo'.base = repo.base /\ repo'.deleted = repo.deleted
  <2>1. /\ Fields /\ repo'.base = repo.base /\ repo'.commits = repo.commits /\ repo'.deleted = repo.deleted
        /\ repo'.prs = Append(repo.prs, e)
    BY <1>6 DEF RepoTyped, Fields, Opens
  <2>2. QED
    BY <1>6, <2>1, PrOpened DEF Opens
<1>7. ASSUME NEW k, NEW e, Changes(k, e)
      PROVE  /\ RepoTyped' /\ Keeps /\ Opened'
             /\ repo'.base = repo.base /\ repo'.deleted = repo.deleted
  <2>1. /\ Fields /\ repo'.base = repo.base /\ repo'.commits = repo.commits /\ repo'.deleted = repo.deleted
        /\ repo'.prs = [repo.prs EXCEPT ![k] = e]
    BY <1>7 DEF RepoTyped, Fields, Changes
  <2>2. QED
    BY <1>7, <2>1, PrChanged DEF Changes
<1>8. QED
  BY <1>1, <1>2, <1>3, <1>4, <1>5, <1>6, <1>7 DEF Works

(* A worker's step publishes nothing, or one commit more on a branch that nobody
   had published one on. *)
LEMMA WorkPublishes ==
  ASSUME RepoTyped, WritersTyped, Opened, NEW K, Publishes(K),
         NEW w \in PullWorkers, NEW q, Works(w, q), Moves(w, q)
  PROVE  \E L : Publishes(L)'
<1>1. /\ RepoTyped' /\ Keeps /\ repo'.base = repo.base /\ repo'.deleted = repo.deleted
  BY RepoKept
<1>2. Extends /\ Len(repo'.commits) \in Nat /\ Holds
  BY <1>1, WritersKept DEF Keeps
<1>3. repo.head # 0 => repo.head \in 1..Len(repo.commits)
  BY DEF Publishes
<1>4. Len(repo.commits) \in Nat
  BY LenProperties DEF RepoTyped, IsSeq
<1>5. writer'[w] = q /\ \A v \in PullWorkers \ {w} : writer'[v] = writer[v]
  BY DEF WritersTyped, Moves
<1>6. CASE repo'.head = repo.head
  BY <1>1, <1>2, <1>6, NothingPublished
<1>7. CASE Posts(w)
  <2>1. repo.head = 0 /\ repo'.head \in K
    BY <1>7 DEF RepoTyped, Posts, Publishes
  <2>2. QED
    BY <1>1, <1>2, <2>1, BranchMade
<1>8. ASSUME Patches(w), q.pc # "patch"
      PROVE  \E L : Publishes(L)'
  <2>1. writer[w].commit \in 1..Len(repo.commits) /\ repo'.head = writer[w].commit /\ repo'.commits = repo.commits
    BY <1>8 DEF Patches, RepoTyped, WritersTyped, WriterTyped
  <2>2. repo.commits[writer[w].commit].parent = repo.head /\ writer[w].commit \notin K
    BY <1>8 DEF Patches, WritersTyped, WriterTyped, Publishes
  <2>3. writer[w].base = repo.head /\ writer[w].pc \in Holding
    BY <1>8 DEF Patches, WritersTyped, WriterTyped, Holding
  <2>4. ~Patched
    BY <2>3 DEF Patched
  <2>5. repo.head # 0
    BY <1>4, <2>3 DEF Publishes
  <2>6. \A v \in PullWorkers : writer'[v].pc = "patch" => writer'[v].commit # writer[w].commit
    BY <1>5, <1>8 DEF Patches, WritersTyped
  <2>7. PICK h : h = writer[w].commit
    OBVIOUS
  <2>8. Publishes(K \cup {h})'
    BY <1>1, <1>2, <2>1, <2>2, <2>4, <2>5, <2>6, <2>7, BranchMoved
  <2>9. QED
    BY <2>8
<1>9. ASSUME CommitsAtOnce(w), q.pc # "patch"
      PROVE  \E L : Publishes(L)'
  <2> DEFINE e == [by |-> "bek", parent |-> repo.head, changes |-> Pr!Plan(w).commit.changes]
  <2>1. writer[w].base = repo.head /\ writer[w].pc \in Holding
    BY <1>9 DEF CommitsAtOnce, Holding
  <2>2. repo.head # 0 /\ repo.head \in 1..Len(repo.commits)
    BY <1>3, <1>4, <2>1 DEF Publishes
  <2>3. /\ Fields /\ repo'.prs = repo.prs /\ repo'.commits = Append(repo.commits, e)
        /\ repo'.head = Len(repo.commits) + 1
    BY <1>9 DEF RepoTyped, Fields, CommitsAtOnce
  <2>4. PICK h : h = Len(repo.commits) + 1
    OBVIOUS
  <2>5. e.parent = repo.head
    OBVIOUS
  <2> HIDE DEF e
  <2>6. Len(repo'.commits) = h /\ repo'.commits[h] = e
    BY <1>1, <2>2, <2>3, <2>4, <2>5, CommitMade
  <2>7. h \in 1..Len(repo'.commits) /\ h \notin K /\ \A c \in 1..Len(repo.commits) : c # h
    <3>1. K \subseteq 1..Len(repo.commits)
      BY DEF Publishes
    <3> HIDE DEF repo
    <3>2. QED
      BY <1>4, <2>4, <2>6, <3>1
  <2>8. ~Patched
    BY <2>1 DEF Patched
  <2>9. \A v \in PullWorkers : writer'[v].pc = "patch" => writer'[v].commit # h
    BY <1>5, <1>9, <2>7 DEF WritersTyped, WriterTyped
  <2>10. Publishes(K \cup {h})'
    BY <1>1, <1>2, <2>2, <2>3, <2>4, <2>5, <2>6, <2>7, <2>8, <2>9, BranchMoved
  <2>11. QED
    BY <2>10
<1>10. UNCHANGED repo \/ Commits(w) \/ (\E e : Opens(e)) \/ (\E k, e : Changes(k, e)) => repo'.head = repo.head
  BY DEF RepoTyped, Commits, Opens, Changes
<1>11. QED
  BY <1>6, <1>7, <1>8, <1>9, <1>10 DEF Works

Done(w) == \E q : Works(w, q) /\ Moves(w, q)

(* A worker that goes on, or fails, knows no more than before. *)
LEMMA Gone ==
  ASSUME RepoTyped, WritersTyped, Opened, NEW K, Publishes(K),
         NEW w \in PullWorkers, writer[w].pc \notin {"idle", "failed"},
         NEW q0, Works(w, q0), NEW pc, Pr!Goto(w, pc),
         pc \notin {"patch", "commit", "ref"},
         pc \in Holding => writer[w].pc \in Holding,
         pc \in Labelling => writer[w].pc \in Labelling
  PROVE  Done(w)
<1> DEFINE q == [writer[w] EXCEPT !.pc = pc]
<1>1. Works(w, q)
  <2>1. q.pc = pc
    BY DEF WritersTyped, WriterTyped
  <2> HIDE DEF q
  <2>2. q.pc # "patch"
    BY <2>1
  <2>3. QED
    BY <2>2 DEF Works
<1>2. Keeps
  BY RepoKept
<1>3. WriterTyped(writer[w], repo'.commits, repo'.prs)
  BY <1>2, WriterKept DEF WritersTyped, Keeps
<1>4. WriterTyped(q, repo'.commits, repo'.prs) /\ q.base = writer[w].base /\ q.plan = writer[w].plan /\ q.pc = pc
  BY <1>3 DEF WriterTyped, Shape
<1>5. writer' = [writer EXCEPT ![w] = q]
  BY DEF Pr!Goto
<1> HIDE DEF q
<1>6. Moves(w, q)
  BY <1>4, <1>5 DEF Moves
<1>7. QED
  BY <1>1, <1>6 DEF Done

LEMMA Reads ==
  ASSUME NEW w, NEW q, UNCHANGED repo
  PROVE  Works(w, q)
BY DEF Works

(* The token, and the requests that only read. *)
LEMMA TokenDone ==
  ASSUME RepoTyped, WritersTyped, Opened, NEW K, Publishes(K), NEW w \in PullWorkers, Pr!getInstallationToken(w)
  PROVE  Done(w)
<1>1. UNCHANGED repo /\ writer[w].pc = "token" /\ (Pr!Goto(w, "base") \/ Pr!Goto(w, "failed"))
  BY DEF Pr!getInstallationToken, Pr!requestJson, Pr!tryRequestJson
<1>2. QED
  BY <1>1, Reads, Gone DEF Holding, Labelling

LEMMA BranchReadDone ==
  ASSUME RepoTyped, WritersTyped, Opened, NEW K, Publishes(K), NEW w \in PullWorkers, Pr!createBranch_read(w)
  PROVE  Done(w)
<1>1. UNCHANGED repo /\ writer[w].pc = "base"
  BY DEF Pr!createBranch_read, Pr!requestJson, Pr!tryRequestJson
<1>2. CASE Pr!Goto(w, "failed")
  BY <1>1, <1>2, Reads, Gone DEF Holding, Labelling
<1>3. CASE writer' = [writer EXCEPT ![w].pc = "ref", ![w].base = repo.base]
  <2>11. PICK x, b, q : x = writer[w] /\ b = repo.base /\ q = [x EXCEPT !.pc = "ref", !.base = b]
    OBVIOUS
  <2>1. writer' = [writer EXCEPT ![w] = q]
    BY <1>3, <2>11 DEF WritersTyped
  <2>10. Shape(q) /\ q.pc = "ref" /\ q.plan = writer[w].plan /\ q.base = repo.base /\ q.parent = writer[w].parent /\ q.commit = writer[w].commit /\ q.pr = writer[w].pr
    <3>1. Shape(writer[w])
      BY DEF WritersTyped, WriterTyped
    <3>2. Shape(x)
      BY <2>11, <3>1
    <3>3. q = [x EXCEPT !.pc = "ref", !.base = b] /\ x = writer[w] /\ b = repo.base
      BY <2>11
    <3> HIDE DEF repo, writer
    <3>4. Shape(q) /\ q.pc = "ref" /\ q.plan = x.plan /\ q.base = b /\ q.parent = x.parent /\ q.commit = x.commit /\ q.pr = x.pr
      BY <3>2, <3>3 DEF Shape
    <3>5. QED
      BY <3>3, <3>4
  <2>2. WriterTyped(q, repo'.commits, repo'.prs) /\ q.base = repo.base /\ q.plan = writer[w].plan /\ q.pc = "ref"
    BY <2>10 DEF WriterTyped, Labelling
  <2>3. Moves(w, q)
    BY <1>1, <2>1, <2>2 DEF Moves
  <2>4. QED
    BY <1>1, <2>3, Reads DEF Done
<1>4. QED
  BY <1>2, <1>3 DEF Pr!createBranch_read, Pr!requestJson, Pr!tryRequestJson

LEMMA BranchPostDone ==
  ASSUME RepoTyped, WritersTyped, Opened, NEW K, Publishes(K), NEW w \in PullWorkers, Pr!createBranch_post(w)
  PROVE  Done(w)
<1>1. writer[w].pc = "ref" /\ (Pr!Goto(w, "existing") \/ Pr!Goto(w, "head") \/ Pr!Goto(w, "failed"))
  BY DEF Pr!createBranch_post, Pr!requestJson, Pr!tryRequestJson
<1>2. UNCHANGED repo \/ Posts(w)
  BY DEF Pr!createBranch_post, Pr!requestJson, Pr!tryRequestJson, Posts, Holding
<1>3. Works(w, writer[w])
  BY <1>2 DEF Works
<1>4. QED
  BY <1>1, <1>3, Gone DEF Holding, Labelling

LEMMA ExistingDone ==
  ASSUME RepoTyped, WritersTyped, Opened, NEW K, Publishes(K), NEW w \in PullWorkers, Pr!createBranch_existing(w)
  PROVE  Done(w)
<1>1. UNCHANGED repo /\ writer[w].pc = "existing" /\ (Pr!Goto(w, "head") \/ Pr!Goto(w, "failed"))
  BY DEF Pr!createBranch_existing, Pr!requestJson, Pr!tryRequestJson
<1>2. QED
  BY <1>1, Reads, Gone DEF Holding, Labelling

LEMMA CommitReadDone ==
  ASSUME RepoTyped, WritersTyped, Opened, NEW K, Publishes(K), NEW w \in PullWorkers, Pr!commitFiles_read(w)
  PROVE  Done(w)
<1>1. UNCHANGED repo /\ writer[w].pc = "head"
  BY DEF Pr!commitFiles_read, Pr!requestJson, Pr!tryRequestJson
<1>2. CASE Pr!Goto(w, "failed")
  BY <1>1, <1>2, Reads, Gone DEF Holding, Labelling
<1>3. CASE repo.head = writer[w].base /\ writer' = [writer EXCEPT ![w].pc = "commit", ![w].parent = repo.head]
  <2>11. PICK x, b, q : x = writer[w] /\ b = repo.head /\ q = [x EXCEPT !.pc = "commit", !.parent = b]
    OBVIOUS
  <2>1. writer' = [writer EXCEPT ![w] = q]
    BY <1>3, <2>11 DEF WritersTyped
  <2>10. Shape(q) /\ q.pc = "commit" /\ q.plan = writer[w].plan /\ q.base = writer[w].base /\ q.parent = repo.head /\ q.commit = writer[w].commit /\ q.pr = writer[w].pr
    <3>1. Shape(writer[w])
      BY DEF WritersTyped, WriterTyped
    <3>2. Shape(x)
      BY <2>11, <3>1
    <3>3. q = [x EXCEPT !.pc = "commit", !.parent = b] /\ x = writer[w] /\ b = repo.head
      BY <2>11
    <3> HIDE DEF repo, writer
    <3>4. Shape(q) /\ q.pc = "commit" /\ q.plan = x.plan /\ q.base = x.base /\ q.parent = b /\ q.commit = x.commit /\ q.pr = x.pr
      BY <3>2, <3>3 DEF Shape
    <3>5. QED
      BY <3>3, <3>4
  <2>2. /\ WriterTyped(q, repo'.commits, repo'.prs)
        /\ q.base = writer[w].base /\ q.plan = writer[w].plan /\ q.pc = "commit"
    BY <1>3, <2>10 DEF WriterTyped, Labelling
  <2>3. Moves(w, q)
    BY <1>1, <2>1, <2>2 DEF Moves, Holding
  <2>4. QED
    BY <1>1, <2>3, Reads DEF Done
<1>4. QED
  BY <1>2, <1>3 DEF Pr!commitFiles_read, Pr!requestJson, Pr!tryRequestJson

LEMMA CommitPostDone ==
  ASSUME RepoTyped, WritersTyped, Opened, NEW K, Publishes(K), NEW w \in PullWorkers, Pr!commitFiles_post(w)
  PROVE  Done(w)
<1>1. writer[w].pc = "commit" /\ (UNCHANGED repo \/ Commits(w))
  BY DEF Pr!commitFiles_post, Pr!tryRequestJson, Commits
<1>2. \A q : Works(w, q)
  BY <1>1 DEF Works
<1>3. CASE Pr!Goto(w, "failed")
  BY <1>1, <1>2, <1>3, Gone DEF Holding, Labelling
<1>4. CASE Commits(w) /\ writer' = [writer EXCEPT ![w].pc = "patch", ![w].commit = Len(repo.commits) + 1]
  <2>11. PICK x, b, q : x = writer[w] /\ b = Len(repo.commits) + 1 /\ q = [x EXCEPT !.pc = "patch", !.commit = b]
    OBVIOUS
  <2> DEFINE n == Len(repo.commits)
             e == [by |-> "bek", parent |-> writer[w].parent, changes |-> Pr!Plan(w).commit.changes]
  <2>1. writer' = [writer EXCEPT ![w] = q]
    BY <1>4, <2>11 DEF WritersTyped
  <2>2. writer[w].parent = writer[w].base
    BY <1>1 DEF WritersTyped, WriterTyped
  <2>3. repo'.commits = Append(repo.commits, e)
    BY <1>4 DEF Commits, RepoTyped
  <2>4. e.parent = writer[w].parent
    OBVIOUS
  <2> HIDE DEF e
  <2>5. n \in Nat /\ Len(repo'.commits) = n + 1 /\ repo'.commits[n + 1].parent = writer[w].parent
    BY <2>3, <2>4, Appended DEF RepoTyped
  <2>6. n + 1 \in 1..Len(repo'.commits)
    BY <2>5
  <2>10. Shape(q) /\ q.pc = "patch" /\ q.plan = writer[w].plan /\ q.base = writer[w].base /\ q.parent = writer[w].parent /\ q.commit = n + 1 /\ q.pr = writer[w].pr
    <3>1. Shape(writer[w])
      BY DEF WritersTyped, WriterTyped
    <3>2. Shape(x)
      BY <2>11, <3>1
    <3>3. q = [x EXCEPT !.pc = "patch", !.commit = b] /\ x = writer[w] /\ b = Len(repo.commits) + 1
      BY <2>11
    <3> HIDE DEF repo, writer
    <3>4. Shape(q) /\ q.pc = "patch" /\ q.plan = x.plan /\ q.base = x.base /\ q.parent = x.parent /\ q.commit = b /\ q.pr = x.pr
      BY <3>2, <3>3 DEF Shape
    <3>5. QED
      BY <3>3, <3>4
  <2>7. /\ WriterTyped(q, repo'.commits, repo'.prs)
        /\ q.base = writer[w].base /\ q.plan = writer[w].plan /\ q.pc = "patch" /\ q.commit = n + 1
    BY <2>2, <2>5, <2>6, <2>10 DEF WriterTyped, Labelling
  <2>8. Moves(w, q)
    BY <1>1, <2>1, <2>7 DEF Moves, Holding
  <2>9. QED
    BY <1>2, <2>8 DEF Done
<1>5. QED
  BY <1>3, <1>4 DEF Pr!commitFiles_post, Pr!tryRequestJson, Commits

LEMMA CommitPatchDone ==
  ASSUME RepoTyped, WritersTyped, Opened, NEW K, Publishes(K), NEW w \in PullWorkers, Pr!commitFiles_patch(w)
  PROVE  Done(w)
<1>1. writer[w].pc = "patch" /\ (Pr!Goto(w, "pulls") \/ Pr!Goto(w, "failed"))
  BY DEF Pr!commitFiles_patch, Pr!requestJson, Pr!tryRequestJson
<1>2. UNCHANGED repo \/ Patches(w)
  BY DEF Pr!commitFiles_patch, Pr!requestJson, Pr!tryRequestJson, Patches
<1>3. Works(w, [pc |-> "pulls"])
  BY <1>2 DEF Works
<1>4. QED
  BY <1>1, <1>3, Gone DEF Holding, Labelling

LEMMA PullsPostCases ==
  ASSUME NEW w, Pr!createDraftPullRequest_post(w)
  PROVE  \/ UNCHANGED repo /\ (Pr!Goto(w, "failed") \/ Pr!Goto(w, "find"))
         \/ /\ Pr!OpenPrs = {}
            /\ repo' = [repo EXCEPT !.prs = Append(repo.prs, [by |-> "bek", open |-> TRUE, labels |-> {}, reviewers |-> {}])]
            /\ \/ Pr!Goto(w, "failed")
               \/ writer' = [writer EXCEPT ![w].pc = "label", ![w].pr = Len(repo.prs) + 1]
<1>1. CASE repo.head = 0 \/ Pr!OpenPrs # {}
  BY <1>1 DEF Pr!createDraftPullRequest_post, Pr!requestJson, Pr!tryRequestJson
<1>2. CASE repo.head # 0 /\ Pr!OpenPrs = {}
  BY <1>2 DEF Pr!createDraftPullRequest_post, Pr!requestJson, Pr!tryRequestJson
<1>3. QED
  BY <1>1, <1>2

LEMMA PullsPostDone ==
  ASSUME RepoTyped, WritersTyped, Opened, NEW K, Publishes(K), NEW w \in PullWorkers, Pr!createDraftPullRequest_post(w)
  PROVE  Done(w)
<1> DEFINE e == [by |-> "bek", open |-> TRUE, labels |-> {}, reviewers |-> {}]
<1>1. writer[w].pc = "pulls"
  BY DEF Pr!createDraftPullRequest_post
<1>2. PrTyped(e) /\ e.open = TRUE
  BY DEF PrTyped
<1>3. Pr!OpenPrs = {} => \A k \in 1..Len(repo.prs) : ~ repo.prs[k].open
  BY DEF Pr!OpenPrs
<1>4. CASE UNCHANGED repo /\ (Pr!Goto(w, "failed") \/ Pr!Goto(w, "find"))
  BY <1>1, <1>4, Reads, Gone DEF Holding, Labelling
<1>5. CASE Pr!OpenPrs = {} /\ repo' = [repo EXCEPT !.prs = Append(repo.prs, e)]
  <2>1. Opens(e)
    BY <1>2, <1>3, <1>5 DEF Opens
  <2> HIDE DEF e
  <2>2. \A q : Works(w, q)
    BY <2>1 DEF Works
  <2>3. CASE Pr!Goto(w, "failed")
    BY <1>1, <2>2, <2>3, Gone DEF Holding, Labelling
  <2>4. CASE writer' = [writer EXCEPT ![w].pc = "label", ![w].pr = Len(repo.prs) + 1]
    <3>1. repo'.prs = Append(repo.prs, e) /\ Len(repo'.prs) = Len(repo.prs) + 1 /\ Len(repo.prs) \in Nat
      <4>1. repo'.prs = Append(repo.prs, e)
        BY <1>5 DEF RepoTyped
      <4>2. QED
        BY <4>1, Appended DEF RepoTyped
    <3>2. Len(repo.prs) + 1 \in 1..Len(repo'.prs)
      BY <3>1
    <3>3. PICK x, b, q : x = writer[w] /\ b = Len(repo.prs) + 1 /\ q = [x EXCEPT !.pc = "label", !.pr = b]
      OBVIOUS
    <3>4. writer' = [writer EXCEPT ![w] = q]
      BY <2>4, <3>3 DEF WritersTyped
    <3>5. Shape(writer[w])
      BY DEF WritersTyped, WriterTyped
    <3>6. Shape(q) /\ q.pc = "label" /\ q.plan = writer[w].plan /\ q.pr = Len(repo.prs) + 1
      <4>1. q = [x EXCEPT !.pc = "label", !.pr = b] /\ x = writer[w] /\ b = Len(repo.prs) + 1 /\ Shape(x)
        BY <3>3, <3>5
      <4> HIDE DEF repo, writer
      <4>2. Shape(q) /\ q.pc = "label" /\ q.plan = x.plan /\ q.pr = b
        BY <4>1 DEF Shape
      <4>3. QED
        BY <4>1, <4>2
    <3>7. WriterTyped(q, repo'.commits, repo'.prs)
      BY <3>2, <3>6 DEF WriterTyped
    <3>8. Moves(w, q)
      BY <1>1, <3>4, <3>6, <3>7 DEF Moves, Holding
    <3>9. QED
      BY <2>2, <3>8 DEF Done
  <2>5. QED
    BY <1>4, <2>3, <2>4, PullsPostCases
<1>6. QED
  BY <1>4, <1>5, PullsPostCases

LEMMA FindDone ==
  ASSUME RepoTyped, WritersTyped, Opened, NEW K, Publishes(K), NEW w \in PullWorkers,
         Pr!findOpenPullRequestForBranchPair(w)
  PROVE  Done(w)
<1>1. UNCHANGED repo /\ writer[w].pc = "find"
  BY DEF Pr!findOpenPullRequestForBranchPair, Pr!requestJson, Pr!tryRequestJson
<1>2. CASE Pr!Goto(w, "failed")
  BY <1>1, <1>2, Reads, Gone DEF Holding, Labelling
<1>3. CASE /\ Pr!OpenPrs # {}
           /\ writer' = [writer EXCEPT ![w].pc = "label", ![w].pr = CHOOSE k \in Pr!OpenPrs : TRUE]
  <2>1. PICK x, b, q : x = writer[w] /\ b = (CHOOSE k \in Pr!OpenPrs : TRUE) /\ q = [x EXCEPT !.pc = "label", !.pr = b]
    OBVIOUS
  <2>2. b \in 1..Len(repo'.prs)
    <3>1. b \in Pr!OpenPrs
      BY <1>3, <2>1
    <3>2. QED
      BY <1>1, <3>1 DEF Pr!OpenPrs
  <2>3. writer' = [writer EXCEPT ![w] = q]
    BY <1>3, <2>1 DEF WritersTyped
  <2>4. Shape(writer[w])
    BY DEF WritersTyped, WriterTyped
  <2>5. Shape(q) /\ q.pc = "label" /\ q.plan = writer[w].plan /\ q.pr = b
    <3>1. q = [x EXCEPT !.pc = "label", !.pr = b] /\ x = writer[w] /\ Shape(x)
      BY <2>1, <2>4
    <3> HIDE DEF repo, writer
    <3>2. Shape(q) /\ q.pc = "label" /\ q.plan = x.plan /\ q.pr = b
      BY <3>1 DEF Shape
    <3>3. QED
      BY <3>1, <3>2
  <2>6. WriterTyped(q, repo'.commits, repo'.prs)
    BY <2>2, <2>5 DEF WriterTyped
  <2>7. Moves(w, q)
    BY <1>1, <2>3, <2>5, <2>6 DEF Moves, Holding
  <2>8. QED
    BY <1>1, <2>7, Reads DEF Done
<1>4. QED
  BY <1>2, <1>3 DEF Pr!findOpenPullRequestForBranchPair, Pr!requestJson, Pr!tryRequestJson

LEMMA LabelDone ==
  ASSUME RepoTyped, WritersTyped, Opened, NEW K, Publishes(K), NEW w \in PullWorkers, Pr!createDraftPullRequest_label(w)
  PROVE  Done(w)
<1> DEFINE k == writer[w].pr
           e == [repo.prs[k] EXCEPT !.labels = repo.prs[k].labels \cup Pr!Plan(w).pullRequest.labels]
<1>1. writer[w].pc = "label" /\ (Pr!Goto(w, "review") \/ Pr!Goto(w, "failed"))
  BY DEF Pr!createDraftPullRequest_label, Pr!tryRequestJson
<1>2. k \in 1..Len(repo.prs)
  BY <1>1 DEF WritersTyped, WriterTyped, Labelling
<1>3. PrTyped(repo.prs[k])
  BY <1>2 DEF RepoTyped, PrTyped
<1>4. PrTyped(e) /\ e.open = repo.prs[k].open
  <2>1. PICK x, y : x = repo.prs[k] /\ y = repo.prs[k].labels \cup Pr!Plan(w).pullRequest.labels
    OBVIOUS
  <2>2. e = [x EXCEPT !.labels = y] /\ PrTyped(x)
    BY <1>3, <2>1
  <2> HIDE DEF e, repo, writer
  <2>3. PrTyped(e) /\ e.open = x.open
    BY <2>2 DEF PrTyped
  <2>4. QED
    BY <2>1, <2>3
<1>5. UNCHANGED repo \/ repo' = [repo EXCEPT !.prs = [repo.prs EXCEPT ![k] = e]]
  BY DEF Pr!createDraftPullRequest_label, Pr!tryRequestJson
<1> HIDE DEF e
<1>6. UNCHANGED repo \/ Changes(k, e)
  BY <1>2, <1>4, <1>5 DEF Changes
<1>7. \A q : Works(w, q)
  BY <1>6 DEF Works
<1>8. QED
  BY <1>1, <1>7, Gone DEF Holding, Labelling

LEMMA ReviewDone ==
  ASSUME RepoTyped, WritersTyped, Opened, NEW K, Publishes(K), NEW w \in PullWorkers, Pr!createDraftPullRequest_review(w)
  PROVE  Done(w)
<1> DEFINE k == writer[w].pr
           e == [repo.prs[k] EXCEPT !.reviewers = repo.prs[k].reviewers \cup Pr!Plan(w).pullRequest.reviewers]
<1>1. writer[w].pc = "review" /\ (Pr!Goto(w, "get") \/ Pr!Goto(w, "failed"))
  BY DEF Pr!createDraftPullRequest_review, Pr!tryRequestJson
<1>2. k \in 1..Len(repo.prs)
  BY <1>1 DEF WritersTyped, WriterTyped, Labelling
<1>3. PrTyped(repo.prs[k])
  BY <1>2 DEF RepoTyped, PrTyped
<1>4. PrTyped(e) /\ e.open = repo.prs[k].open
  <2>1. PICK x, y : x = repo.prs[k] /\ y = repo.prs[k].reviewers \cup Pr!Plan(w).pullRequest.reviewers
    OBVIOUS
  <2>2. e = [x EXCEPT !.reviewers = y] /\ PrTyped(x)
    BY <1>3, <2>1
  <2> HIDE DEF e, repo, writer
  <2>3. PrTyped(e) /\ e.open = x.open
    BY <2>2 DEF PrTyped
  <2>4. QED
    BY <2>1, <2>3
<1>5. UNCHANGED repo \/ repo' = [repo EXCEPT !.prs = [repo.prs EXCEPT ![k] = e]]
  BY DEF Pr!createDraftPullRequest_review, Pr!tryRequestJson
<1> HIDE DEF e
<1>6. UNCHANGED repo \/ Changes(k, e)
  BY <1>2, <1>4, <1>5 DEF Changes
<1>7. \A q : Works(w, q)
  BY <1>6 DEF Works
<1>8. QED
  BY <1>1, <1>7, Gone DEF Holding, Labelling

LEMMA GetDone ==
  ASSUME RepoTyped, WritersTyped, Opened, NEW K, Publishes(K), NEW w \in PullWorkers, Pr!getPullRequest(w)
  PROVE  Done(w)
<1>1. UNCHANGED repo /\ writer[w].pc = "get" /\ (Pr!Goto(w, "done") \/ Pr!Goto(w, "failed"))
  BY DEF Pr!getPullRequest, Pr!requestJson, Pr!tryRequestJson
<1>2. QED
  BY <1>1, Reads, Gone DEF Holding, Labelling

(* The fake client's three steps. *)
LEMMA FakeDone ==
  ASSUME RepoTyped, WritersTyped, Opened, NEW K, Publishes(K), NEW w \in PullWorkers, Pr!FakeStep(w)
  PROVE  Done(w)
<1>1. CASE Pr!Fake_createBranch(w)
  <2>1. writer[w].pc = "base"
    BY <1>1 DEF Pr!Fake_createBranch
  <2>2. CASE Pr!Goto(w, "failed") /\ UNCHANGED repo
    BY <2>1, <2>2, Reads, Gone DEF Holding, Labelling
  <2>3. CASE /\ repo.head = 0 /\ repo' = [repo EXCEPT !.head = repo.base]
             /\ writer' = [writer EXCEPT ![w].pc = "head", ![w].base = repo.base]
    <3>1. \A q : Works(w, q)
      BY <2>3 DEF Works, Posts
    <3>2. PICK x, b, q : x = writer[w] /\ b = repo.base /\ q = [x EXCEPT !.pc = "head", !.base = b]
      OBVIOUS
    <3>3. writer' = [writer EXCEPT ![w] = q]
      BY <2>3, <3>2 DEF WritersTyped
    <3>4. Shape(writer[w])
      BY DEF WritersTyped, WriterTyped
    <3>5. Shape(q) /\ q.pc = "head" /\ q.plan = writer[w].plan /\ q.base = repo.base
      <4>1. q = [x EXCEPT !.pc = "head", !.base = b] /\ x = writer[w] /\ b = repo.base /\ Shape(x)
        BY <3>2, <3>4
      <4> HIDE DEF repo, writer
      <4>2. Shape(q) /\ q.pc = "head" /\ q.plan = x.plan /\ q.base = b
        BY <4>1 DEF Shape
      <4>3. QED
        BY <4>1, <4>2
    <3>6. WriterTyped(q, repo'.commits, repo'.prs)
      BY <3>5 DEF WriterTyped, Labelling
    <3>7. Moves(w, q)
      BY <2>1, <3>3, <3>5, <3>6 DEF Moves
    <3>8. QED
      BY <3>1, <3>7 DEF Done
  <2>4. QED
    BY <1>1, <2>2, <2>3 DEF Pr!Fake_createBranch
<1>2. CASE Pr!Fake_commitFiles(w)
  <2>1. writer[w].pc = "head" /\ (Pr!Goto(w, "failed") \/ Pr!Goto(w, "pulls"))
    BY <1>2 DEF Pr!Fake_commitFiles
  <2>2. UNCHANGED repo \/ CommitsAtOnce(w)
    BY <1>2 DEF Pr!Fake_commitFiles, CommitsAtOnce
  <2>3. Works(w, [pc |-> "pulls"])
    BY <2>2 DEF Works
  <2>4. QED
    BY <2>1, <2>3, Gone DEF Holding, Labelling
<1>3. CASE Pr!Fake_createDraftPullRequest(w)
  <2> DEFINE e == [by |-> "bek", open |-> TRUE, labels |-> Pr!Plan(w).pullRequest.labels,
                   reviewers |-> Pr!Plan(w).pullRequest.reviewers]
  <2>1. writer[w].pc = "pulls" /\ (Pr!Goto(w, "failed") \/ Pr!Goto(w, "done"))
    BY <1>3 DEF Pr!Fake_createDraftPullRequest
  <2>2. PrTyped(e) /\ e.open = TRUE
    BY DEF PrTyped
  <2>3. UNCHANGED repo \/ (repo.prs = <<>> /\ repo' = [repo EXCEPT !.prs = Append(repo.prs, e)])
    BY <1>3 DEF Pr!Fake_createDraftPullRequest
  <2> HIDE DEF e
  <2>4. UNCHANGED repo \/ Opens(e)
    BY <2>2, <2>3 DEF Opens
  <2>5. \A q : Works(w, q)
    BY <2>4 DEF Works
  <2>6. QED
    BY <2>1, <2>5, Gone DEF Holding, Labelling
<1>4. QED
  BY <1>1, <1>2, <1>3 DEF Pr!FakeStep

(* A worker's step, whichever it is. *)
LEMMA WorkerDone ==
  ASSUME RepoTyped, WritersTyped, Opened, NEW K, Publishes(K), NEW w \in PullWorkers,
         Pr!getInstallationToken(w) \/ Pr!RestStep(w) \/ Pr!FakeStep(w)
  PROVE  Done(w)
BY TokenDone, BranchReadDone, BranchPostDone, ExistingDone, CommitReadDone, CommitPostDone, CommitPatchDone,
   PullsPostDone, FindDone, LabelDone, ReviewDone, GetDone, FakeDone DEF Pr!RestStep

(* Whoever works on it carries out a plan that was approved. *)
LEMMA PlanApproved ==
  ASSUME Agreed, NEW w \in PullWorkers, writer[w].pc \notin {"idle", "failed"}
  PROVE  /\ run.approval.status = "approved"
         /\ Pr!Plan(w).commit.changes = run.approval.payloadHash.commit.changes
<1>1. writer[w].plan # {}
  BY DEF Agreed
<1>2. Pr!Plan(w) \in writer[w].plan
  BY <1>1 DEF Pr!Plan
<1>3. QED
  BY <1>1, <1>2 DEF Agreed

AgreedWriter(q) ==
  /\ q.pc \in {"idle", "failed"} \/ q.plan # {}
  /\ q.plan # {} => run.approval.status = "approved"
  /\ \A p \in q.plan : p.commit.changes = run.approval.payloadHash.commit.changes
AgreedCommit(c) ==
  c.by = "bek" => run.approval.status = "approved" /\ c.changes = run.approval.payloadHash.commit.changes

(* A worker's step is within what was agreed. *)
LEMMA AgreedKept ==
  ASSUME RepoTyped, WritersTyped, Opened, Agreed, NEW K, Publishes(K), UNCHANGED run,
         NEW w \in PullWorkers, NEW q, Works(w, q), Moves(w, q)
  PROVE  Agreed'
<1>1. \A v \in PullWorkers : AgreedWriter(writer'[v])
  <2>1. writer'[w] = q /\ \A v \in PullWorkers \ {w} : writer'[v] = writer[v]
    BY DEF WritersTyped, Moves
  <2>2. \A v \in PullWorkers : AgreedWriter(writer[v])
    BY DEF Agreed, AgreedWriter
  <2>3. AgreedWriter(q)
    BY <2>2 DEF AgreedWriter, Moves
  <2>4. QED
    BY <2>1, <2>2, <2>3
<1>2. \A c \in 1..Len(repo.commits) : AgreedCommit(repo.commits[c])
  BY DEF Agreed, AgreedCommit
<1>3. \A c \in 1..Len(repo'.commits) : AgreedCommit(repo'.commits[c])
  <2>1. CASE repo'.commits = repo.commits
    BY <1>2, <2>1
  <2>2. ASSUME NEW e, AgreedCommit(e), repo'.commits = Append(repo.commits, e)
        PROVE  \A c \in 1..Len(repo'.commits) : AgreedCommit(repo'.commits[c])
    <3>1. /\ Len(repo.commits) \in Nat /\ Len(repo'.commits) = Len(repo.commits) + 1
          /\ \A c \in 1..Len(repo.commits) : repo'.commits[c] = repo.commits[c]
          /\ repo'.commits[Len(repo.commits) + 1] = e
      BY <2>2, Appended DEF RepoTyped
    <3>2. \A c \in 1..Len(repo'.commits) : c \in 1..Len(repo.commits) \/ c = Len(repo.commits) + 1
      <4> HIDE DEF repo
      <4>1. QED
        BY <3>1
    <3>3. QED
      BY <1>2, <2>2, <3>1, <3>2
  <2>3. CASE Commits(w)
    <3> DEFINE e == [by |-> "bek", parent |-> writer[w].parent, changes |-> Pr!Plan(w).commit.changes]
    <3>1. AgreedCommit(e)
      BY <2>3, PlanApproved DEF AgreedCommit, Commits
    <3>2. repo'.commits = Append(repo.commits, e)
      BY <2>3 DEF Commits, RepoTyped
    <3> HIDE DEF e
    <3>3. QED
      BY <2>2, <3>1, <3>2
  <2>4. CASE CommitsAtOnce(w)
    <3> DEFINE e == [by |-> "bek", parent |-> repo.head, changes |-> Pr!Plan(w).commit.changes]
    <3>1. AgreedCommit(e)
      BY <2>4, PlanApproved DEF AgreedCommit, CommitsAtOnce
    <3>2. repo'.commits = Append(repo.commits, e)
      BY <2>4 DEF CommitsAtOnce, RepoTyped
    <3> HIDE DEF e
    <3>3. QED
      BY <2>2, <3>1, <3>2
  <2>5. UNCHANGED repo \/ Posts(w) \/ Patches(w) \/ (\E e : Opens(e)) \/ (\E k, e : Changes(k, e))
          => repo'.commits = repo.commits
    BY DEF RepoTyped, Posts, Patches, Opens, Changes
  <2>6. QED
    BY <2>1, <2>3, <2>4, <2>5 DEF Works
<1>4. QED
  BY <1>1, <1>3 DEF Agreed, AgreedWriter, AgreedCommit

(* What a plan commits is what it was made from. *)
LEMMA PlannedChanges ==
  ASSUME NEW input, NEW binding, NEW p \in Pr!createGitHubDraftPullRequestWorkflowPlan(input, binding)
  PROVE  p.commit.changes = input.changes
<1>1. PICK branch \in Pr!createGitHubBranchWorkflowPlan(input), commit \in Pr!createGitHubCommitWorkflowPlan(input),
           proposal \in Pr!createGitHubPullRequestProposal(input) :
        p = [binding |-> binding, tokenRequest |-> Pr!createGitHubInstallationTokenRequest(binding),
             branch |-> branch, commit |-> commit, pullRequest |-> proposal]
  BY DEF Pr!createGitHubDraftPullRequestWorkflowPlan
<1>2. commit.changes = input.changes
  BY DEF Pr!createGitHubCommitWorkflowPlan, Pr!Throw
<1>3. QED
  BY <1>1, <1>2

(* The approval is asked for what was proposed. *)
LEMMA AskAgreed ==
  ASSUME Agreed, Pr!AskApproval
  PROVE  Agreed'
<1>1. PICK plan \in Pr!approvalPlanProvider :
        run' = [run EXCEPT !.approval =
                  Pr!createApprovalRequest(Pr!createGitHubDraftPullRequestWorkflowApprovalPayload(plan))]
  BY DEF Pr!AskApproval
<1>2. plan.commit.changes = run.proposal.changes
  <2>1. \E b : plan \in Pr!createGitHubDraftPullRequestWorkflowPlan(run.proposal, b)
    BY DEF Pr!approvalPlanProvider, Pr!createGitHubDraftPullRequestPlanProviderFromStore,
           Pr!createDefaultGitHubDraftPullRequestPlanProvider
  <2>2. QED
    BY <2>1, PlannedChanges
<1> DEFINE payload == Pr!createGitHubDraftPullRequestWorkflowApprovalPayload(plan)
           approval == Pr!createApprovalRequest(payload)
<1>3. payload.commit.changes = run.proposal.changes
  BY <1>2 DEF Pr!createGitHubDraftPullRequestWorkflowApprovalPayload
<1> HIDE DEF payload
<1>4. /\ approval = [status |-> approval.status, payloadHash |-> approval.payloadHash,
                     payloadMetadata |-> approval.payloadMetadata]
      /\ approval.status = "pending" /\ approval.payloadHash = payload
  BY DEF Pr!createApprovalRequest, Pr!hashPayload
<1> HIDE DEF approval
<1>5. /\ run' = [proposal |-> run'.proposal, binding |-> run'.binding, approval |-> run'.approval, allowed |-> run'.allowed]
      /\ run'.approval = approval /\ run'.proposal = run.proposal
  BY <1>1 DEF Agreed, approval, payload
<1>6. run.approval.status = "none" /\ UNCHANGED <<repo, writer>>
  BY DEF Pr!AskApproval
<1>7. /\ \A w \in PullWorkers : writer[w].plan = {} /\ writer[w].pc \in {"idle", "failed"}
      /\ \A c \in 1..Len(repo.commits) : repo.commits[c].by # "bek"
  BY <1>6 DEF Agreed
<1>8. QED
  BY <1>3, <1>4, <1>5, <1>6, <1>7 DEF Agreed

LEMMA ApproveAgreed ==
  ASSUME Agreed, Pr!Approve
  PROVE  Agreed'
<1>1. /\ run' = [proposal |-> run'.proposal, binding |-> run'.binding, approval |-> run'.approval, allowed |-> run'.allowed]
      /\ run'.approval = [status |-> "approved", payloadHash |-> run.approval.payloadHash,
                          payloadMetadata |-> run.approval.payloadMetadata]
      /\ run'.proposal = run.proposal
  BY DEF Pr!Approve, Agreed
<1>2. run.approval.status = "pending" /\ UNCHANGED <<repo, writer>>
  BY DEF Pr!Approve
<1>3. QED
  BY <1>1, <1>2 DEF Agreed

(* An attempt carries out a plan whose payload hashes to what was approved. *)
LEMMA StartAgreed ==
  ASSUME Agreed, NEW w \in PullWorkers, Pr!Start(w), WritersTyped
  PROVE  Agreed'
<1> DEFINE plan == Pr!approvedGitHubDraftPullRequestPlanFromApproval(run.approval)
           ok == run.allowed /\ \E p \in plan : Pr!validateApprovedGitHubDraftPullRequestPlan(p, run.approval)
<1>1. /\ run.approval.status = "approved" /\ UNCHANGED <<run, repo>>
      /\ writer' = [writer EXCEPT ![w] = [Pr!Idle EXCEPT !.pc = IF ok THEN "token" ELSE "failed",
                                                         !.plan = IF ok THEN plan ELSE {}]]
  BY DEF Pr!Start
<1>2. ASSUME ok
      PROVE  plan # {} /\ \A p \in plan : p.commit.changes = run.approval.payloadHash.commit.changes
  <2>1. PICK p \in plan : Pr!validateApprovedGitHubDraftPullRequestPlan(p, run.approval)
    BY <1>2
  <2>2. p.commit = run.approval.payloadHash.commit
    BY <2>1 DEF Pr!validateApprovedGitHubDraftPullRequestPlan, Pr!hashPayload,
                Pr!createGitHubDraftPullRequestWorkflowApprovalPayload
  <2>3. \E i : \A r \in plan : r.commit.changes = i.changes
    <3>1. \E i, b : plan = Pr!createGitHubDraftPullRequestWorkflowPlan(i, b)
      BY DEF Pr!approvedGitHubDraftPullRequestPlanFromApproval,
             Pr!createGitHubDraftPullRequestWorkflowPlanFromApprovalPayload
    <3>2. QED
      BY <3>1, PlannedChanges
  <2> HIDE DEF plan
  <2>4. QED
    BY <2>1, <2>2, <2>3
<1> HIDE DEF plan, ok
<1>3. PICK q : q = [Pr!Idle EXCEPT !.pc = IF ok THEN "token" ELSE "failed", !.plan = IF ok THEN plan ELSE {}]
  OBVIOUS
<1>4. q.pc = (IF ok THEN "token" ELSE "failed") /\ q.plan = (IF ok THEN plan ELSE {})
  BY <1>3 DEF Pr!Idle
<1>5. writer'[w] = q /\ \A v \in PullWorkers \ {w} : writer'[v] = writer[v]
  BY <1>1, <1>3 DEF WritersTyped
<1>6. AgreedWriter(q)
  BY <1>1, <1>2, <1>4 DEF AgreedWriter
<1>7. \A v \in PullWorkers : AgreedWriter(writer[v])
  BY DEF Agreed, AgreedWriter
<1>8. \A v \in PullWorkers : AgreedWriter(writer'[v])
  BY <1>5, <1>6, <1>7
<1>9. QED
  BY <1>1, <1>8 DEF Agreed, AgreedWriter

LEMMA StartOnce ==
  ASSUME RepoTyped, WritersTyped, Opened, NEW K, Publishes(K), NEW w \in PullWorkers, Pr!Start(w)
  PROVE  RepoTyped' /\ WritersTyped' /\ Opened' /\ Publishes(K)'
<1>1. UNCHANGED repo
  BY DEF Pr!Start
<1>2. PICK q : /\ writer' = [writer EXCEPT ![w] = q]
               /\ Shape(q) /\ q.pc \in {"token", "failed"}
  <2> DEFINE plan == Pr!approvedGitHubDraftPullRequestPlanFromApproval(run.approval)
             ok == run.allowed /\ \E p \in plan : Pr!validateApprovedGitHubDraftPullRequestPlan(p, run.approval)
  <2>1. writer' = [writer EXCEPT ![w] = [Pr!Idle EXCEPT !.pc = IF ok THEN "token" ELSE "failed",
                                                        !.plan = IF ok THEN plan ELSE {}]]
    BY DEF Pr!Start
  <2> HIDE DEF plan, ok
  <2>2. PICK a, b, q : /\ a = (IF ok THEN "token" ELSE "failed") /\ b = (IF ok THEN plan ELSE {})
                       /\ q = [Pr!Idle EXCEPT !.pc = a, !.plan = b]
    OBVIOUS
  <2>3. Shape(q) /\ q.pc = a
    BY <2>2 DEF Pr!Idle, Shape
  <2>4. QED
    BY <2>1, <2>2, <2>3
<1>3. writer'[w] = q /\ writer' = [v \in PullWorkers |-> writer'[v]] /\ \A v \in PullWorkers \ {w} : writer'[v] = writer[v]
  BY <1>2 DEF WritersTyped
<1>4. RepoTyped' /\ Opened'
  BY <1>1 DEF RepoTyped, Opened
<1>5. WriterTyped(q, repo'.commits, repo'.prs)
  BY <1>2 DEF WriterTyped, Labelling
<1>6. WritersTyped'
  BY <1>1, <1>2, <1>3, <1>5 DEF WritersTyped
<1>7. Len(repo.commits) \in Nat
  BY LenProperties DEF RepoTyped, IsSeq
<1>8. Extends /\ Holds
  BY <1>1, <1>2, <1>3, <1>7 DEF Extends, Holds, Holding
<1>9. Publishes(K)'
  BY <1>1, <1>8, NothingPublished
<1>10. QED
  BY <1>4, <1>6, <1>9

(* Other people's steps publish no commit of Bek's, and a merge is counted. *)
LEMMA ElsewhereOnce ==
  ASSUME RepoTyped, WritersTyped, Opened, NEW K, Publishes(K), Pr!Elsewhere
  PROVE  RepoTyped' /\ WritersTyped' /\ Opened' /\ \E L : Publishes(L)'
<1>1. writer' = writer
  BY DEF Pr!Elsewhere, Pr!Outside
<1>2. Len(repo.commits) \in Nat /\ Len(repo.prs) \in Nat /\ repo.deleted \in Nat
  BY LenProperties DEF RepoTyped, IsSeq
<1>3. ASSUME RepoTyped', Keeps
      PROVE  WritersTyped' /\ Holds
  <2>1. \A w \in PullWorkers : WriterTyped(writer[w], repo'.commits, repo'.prs)
    BY <1>3, WriterKept DEF WritersTyped, Keeps
  <2>2. WritersTyped'
    BY <1>1, <2>1 DEF WritersTyped
  <2>3. QED
    BY <1>1, <2>2 DEF Holds
<1>4. CASE repo' = [repo EXCEPT !.base = Len(repo.commits) + 1, !.commits =
                      Append(repo.commits, [by |-> "other", parent |-> repo.base, changes |-> <<>>])]
  <2> DEFINE e == [by |-> "other", parent |-> repo.base, changes |-> <<>>]
  <2>1. e.by # "bek" /\ e.parent = repo.base
    OBVIOUS
  <2>2. /\ Fields /\ repo'.prs = repo.prs /\ repo'.deleted = repo.deleted
        /\ repo'.commits = Append(repo.commits, e)
    BY <1>4 DEF RepoTyped, Fields
  <2>3. PICK h : h = Len(repo.commits) + 1
    OBVIOUS
  <2>4. repo' = [repo EXCEPT !.base = h, !.commits = Append(repo.commits, e)]
    BY <1>4, <2>3
  <2>5. e.parent \in 1..Len(repo.commits)
    BY <2>1 DEF Publishes
  <2> HIDE DEF e
  <2>6. RepoTyped' /\ Keeps /\ Opened'
    BY <2>2, <2>5, CommitMade
  <2>7. Publishes(K \cup {h})'
    BY <1>1, <2>1, <2>3, <2>4, BasePushed
  <2>8. QED
    BY <1>3, <2>6, <2>7
<1>5. CASE /\ repo.head # 0
           /\ repo' = [repo EXCEPT !.base = repo.head, !.head = 0, !.deleted = repo.deleted + 1,
                          !.prs = [k \in 1..Len(repo.prs) |-> [repo.prs[k] EXCEPT !.open = FALSE]]]
  <2> DEFINE n == Len(repo.prs)
             t == [k \in 1..n |-> [repo.prs[k] EXCEPT !.open = FALSE]]
  <2>1. /\ Fields /\ repo'.base = repo.head /\ repo'.head = 0 /\ repo'.deleted = repo.deleted + 1
        /\ repo'.commits = repo.commits /\ repo'.prs = t
    BY <1>5 DEF RepoTyped, Fields
  <2>2. t = [k \in 1..n |-> t[k]]
    OBVIOUS
  <2>3. \A k \in 1..n : PrTyped(t[k])
    <3> SUFFICES ASSUME NEW k \in 1..n
                 PROVE  PrTyped(t[k])
      OBVIOUS
    <3>1. PrTyped(repo.prs[k])
      BY DEF RepoTyped, PrTyped
    <3>2. PICK x, q : x = repo.prs[k] /\ q = [x EXCEPT !.open = FALSE]
      OBVIOUS
    <3>3. t[k] = q /\ PrTyped(x)
      BY <3>1, <3>2
    <3> HIDE DEF t, repo
    <3>4. PrTyped(q)
      BY <3>2, <3>3 DEF PrTyped
    <3>5. QED
      BY <3>3, <3>4
  <2> HIDE DEF t
  <2>4. IsSeq(t) /\ Len(t) = n
    BY <1>2, <2>2, FunctionSeq
  <2>5. repo'.deleted \in Nat /\ n <= repo'.deleted
    <3>1. n <= repo.deleted + (IF \E k \in 1..n : repo.prs[k].open THEN 1 ELSE 0)
      BY DEF Opened
    <3> HIDE DEF repo
    <3>2. QED
      BY <1>2, <2>1, <3>1
  <2>6. RepoTyped'
    BY <2>1, <2>3, <2>4, <2>5 DEF RepoTyped, Fields, PrTyped
  <2>7. Opened'
    <3>1. Len(repo'.prs) = n
      BY <2>1, <2>4
    <3> HIDE DEF repo
    <3>2. QED
      BY <1>2, <2>5, <3>1 DEF Opened
  <2>8. Keeps
    <3>1. Len(repo'.prs) = n /\ Len(repo'.commits) = Len(repo.commits)
      BY <2>1, <2>4
    <3>2. Len(repo'.prs) >= n /\ Len(repo'.commits) >= Len(repo.commits)
      <4> HIDE DEF repo
      <4>1. QED
        BY <1>2, <3>1
    <3>3. QED
      BY <1>2, <2>1, <3>1, <3>2 DEF Keeps, Extends, KeepsPrs
  <2>9. Publishes(K)'
    BY <1>1, <1>5, <2>1, BranchMerged
  <2>10. QED
    BY <1>3, <2>6, <2>7, <2>8, <2>9
<1>6. CASE /\ Pr!OpenPrs = {}
           /\ repo' = [repo EXCEPT !.prs =
                Append(repo.prs, [by |-> "other", open |-> TRUE, labels |-> {}, reviewers |-> {}])]
  <2> DEFINE e == [by |-> "other", open |-> TRUE, labels |-> {}, reviewers |-> {}]
  <2>1. PrTyped(e) /\ e.open = TRUE
    BY DEF PrTyped
  <2>2. \A k \in 1..Len(repo.prs) : ~ repo.prs[k].open
    BY <1>6 DEF Pr!OpenPrs
  <2>3. /\ Fields /\ repo'.base = repo.base /\ repo'.head = repo.head /\ repo'.deleted = repo.deleted
        /\ repo'.commits = repo.commits /\ repo'.prs = Append(repo.prs, e)
    BY <1>6 DEF RepoTyped, Fields
  <2> HIDE DEF e
  <2>4. RepoTyped' /\ Keeps /\ Opened'
    BY <2>1, <2>2, <2>3, PrOpened
  <2>5. Publishes(K)'
    BY <1>3, <2>3, <2>4, NothingPublished DEF Keeps
  <2>6. QED
    BY <1>3, <2>4, <2>5
<1>7. CASE UNCHANGED repo
  BY <1>1, <1>7 DEF RepoTyped, WritersTyped, Opened, Publishes, Patched, ByBek
<1>8. QED
  BY <1>4, <1>5, <1>6, <1>7 DEF Pr!Elsewhere

LEMMA ElsewhereAgreed ==
  ASSUME RepoTyped, Agreed, Pr!Elsewhere
  PROVE  Agreed'
<1>1. writer' = writer
  BY DEF Pr!Elsewhere, Pr!Outside
<1>2. \A c \in 1..Len(repo.commits) : AgreedCommit(repo.commits[c])
  BY DEF Agreed, AgreedCommit
<1>3. CASE UNCHANGED run
  <2>1. CASE repo'.commits = repo.commits
    BY <1>1, <1>3, <2>1 DEF Agreed
  <2>2. CASE repo' = [repo EXCEPT !.base = Len(repo.commits) + 1, !.commits =
                        Append(repo.commits, [by |-> "other", parent |-> repo.base, changes |-> <<>>])]
    <3> DEFINE e == [by |-> "other", parent |-> repo.base, changes |-> <<>>]
    <3>1. AgreedCommit(e) /\ repo'.commits = Append(repo.commits, e)
      BY <2>2 DEF RepoTyped, AgreedCommit
    <3> HIDE DEF e
    <3>2. /\ Len(repo.commits) \in Nat /\ Len(repo'.commits) = Len(repo.commits) + 1
          /\ \A c \in 1..Len(repo.commits) : repo'.commits[c] = repo.commits[c]
          /\ repo'.commits[Len(repo.commits) + 1] = e
      BY <3>1, Appended DEF RepoTyped
    <3>3. \A c \in 1..Len(repo'.commits) : c \in 1..Len(repo.commits) \/ c = Len(repo.commits) + 1
      <4> HIDE DEF repo
      <4>1. QED
        BY <3>2
    <3>4. \A c \in 1..Len(repo'.commits) : AgreedCommit(repo'.commits[c])
      BY <1>2, <3>1, <3>2, <3>3
    <3>5. QED
      BY <1>1, <1>3, <3>4 DEF Agreed, AgreedCommit
  <2>3. \/ repo'.commits = repo.commits
        \/ repo' = [repo EXCEPT !.base = Len(repo.commits) + 1, !.commits =
                      Append(repo.commits, [by |-> "other", parent |-> repo.base, changes |-> <<>>])]
    BY DEF Pr!Elsewhere, RepoTyped
  <2>4. QED
    BY <2>1, <2>2, <2>3
<1>4. CASE UNCHANGED repo /\ \E b : run' = [run EXCEPT !.binding = b] \/ run' = [run EXCEPT !.allowed = FALSE]
  <2>1. /\ run' = [proposal |-> run'.proposal, binding |-> run'.binding, approval |-> run'.approval, allowed |-> run'.allowed]
        /\ run'.approval = run.approval /\ run'.proposal = run.proposal
    BY <1>4 DEF Agreed
  <2>2. QED
    BY <1>1, <1>4, <2>1 DEF Agreed
<1>5. QED
  BY <1>3, <1>4 DEF Pr!Elsewhere

(* The inductive invariant. *)
LEMMA PullInit == Pr!Init => PullInv
<1> SUFFICES ASSUME Pr!Init
             PROVE  PullInv
  OBVIOUS
<1> DEFINE e == [by |-> "other", parent |-> 0, changes |-> <<>>]
<1>1. /\ repo = [base |-> 1, head |-> 0, prs |-> <<>>, deleted |-> 0, commits |-> <<e>>]
      /\ writer = [w \in PullWorkers |-> Pr!Idle]
  BY DEF Pr!Init
<1>2. e.by # "bek" /\ e.parent = 0
  OBVIOUS
<1>3. IsSeq(<<e>>) /\ Len(<<e>>) = 1 /\ <<e>>[1] = e
  <2> HIDE DEF e
  <2>1. QED
    BY DEF IsSeq
<1>4. IsSeq(<<>>) /\ Len(<<>>) = 0
  BY DEF IsSeq
<1> HIDE DEF e
<1>5. RepoTyped
  BY <1>1, <1>2, <1>3, <1>4 DEF RepoTyped
<1>6. Shape(Pr!Idle) /\ Pr!Idle.pc = "idle" /\ Pr!Idle.plan = {}
  BY DEF Pr!Idle, Shape
<1>7. WritersTyped
  BY <1>1, <1>6 DEF WritersTyped, WriterTyped, Labelling
<1>8. Opened
  BY <1>1, <1>4 DEF Opened
<1>9. Publishes({1})
  <2>1. ByBek({1}) = {}
    BY <1>1, <1>2, <1>3 DEF ByBek
  <2>2. Cardinality(ByBek({1})) = 0
    BY <2>1, FS_EmptySet
  <2>3. ~Patched
    BY <1>1 DEF Patched
  <2>4. QED
    BY <1>1, <1>2, <1>3, <1>6, <2>2, <2>3 DEF Publishes, Holding
<1>10. Agreed
  BY <1>1, <1>2, <1>3, <1>6 DEF Agreed, Pr!Init
<1>11. QED
  BY <1>5, <1>7, <1>8, <1>9, <1>10 DEF PullInv, OnceInv

LEMMA PullKept == PullInv /\ [Pr!Next]_(Pr!vars) => PullInv'
<1> SUFFICES ASSUME PullInv, [Pr!Next]_(Pr!vars)
             PROVE  PullInv'
  OBVIOUS
<1>1. RepoTyped /\ WritersTyped /\ Opened /\ Agreed
  BY DEF PullInv, OnceInv
<1>2. PICK K : Publishes(K)
  BY DEF PullInv, OnceInv
<1>3. ASSUME UNCHANGED <<repo, writer>>
      PROVE  OnceInv'
  BY <1>1, <1>2, <1>3 DEF RepoTyped, WritersTyped, Opened, Publishes, Patched, ByBek, OnceInv
<1>4. CASE Pr!AskApproval
  <2>1. UNCHANGED <<repo, writer>>
    BY <1>4 DEF Pr!AskApproval
  <2>2. QED
    BY <1>1, <1>3, <1>4, <2>1, AskAgreed DEF PullInv
<1>5. CASE Pr!Approve
  <2>1. UNCHANGED <<repo, writer>>
    BY <1>5 DEF Pr!Approve
  <2>2. QED
    BY <1>1, <1>3, <1>5, <2>1, ApproveAgreed DEF PullInv
<1>6. CASE Pr!Elsewhere
  BY <1>1, <1>2, <1>6, ElsewhereOnce, ElsewhereAgreed DEF PullInv, OnceInv
<1>7. ASSUME NEW w \in PullWorkers, Pr!Start(w)
      PROVE  PullInv'
  BY <1>1, <1>2, <1>7, StartOnce, StartAgreed DEF PullInv, OnceInv
<1>8. ASSUME NEW w \in PullWorkers, Pr!getInstallationToken(w) \/ Pr!RestStep(w) \/ Pr!FakeStep(w)
      PROVE  PullInv'
  <2>1. PICK q : Works(w, q) /\ Moves(w, q)
    BY <1>1, <1>2, <1>8, WorkerDone DEF Done
  <2>2. RepoTyped' /\ Keeps /\ Opened'
    BY <1>1, <1>2, <2>1, RepoKept
  <2>3. WritersTyped'
    BY <1>1, <2>1, <2>2, WritersKept DEF Keeps
  <2>4. \E L : Publishes(L)'
    BY <1>1, <1>2, <2>1, WorkPublishes
  <2>5. UNCHANGED run
    BY <1>8 DEF Pr!getInstallationToken, Pr!RestStep, Pr!FakeStep
  <2>6. Agreed'
    BY <1>1, <1>2, <2>1, <2>5, AgreedKept
  <2>7. QED
    BY <2>2, <2>3, <2>4, <2>6 DEF PullInv, OnceInv
<1>9. CASE UNCHANGED Pr!vars
  <2>1. UNCHANGED <<run, repo, writer>>
    BY <1>9 DEF Pr!vars
  <2>2. QED
    BY <1>1, <1>3, <2>1 DEF PullInv, Agreed
<1>10. QED
  BY <1>4, <1>5, <1>6, <1>7, <1>8, <1>9 DEF Pr!Next

(* The commits under a commit are well defined... *)
LEMMA ReachedDefined ==
  ASSUME RepoTyped, NEW n \in Nat, n <= Len(repo.commits)
  PROVE  \E f : f = [c \in 0..n |-> IF c = 0 THEN {} ELSE {c} \cup f[repo.commits[c].parent]]
<1> DEFINE Solves(f, m) == f = [c \in 0..m |-> IF c = 0 THEN {} ELSE {c} \cup f[repo.commits[c].parent]]
           T == {m \in 0..n : ~\E f : Solves(f, m)}
<1>1. \E f : Solves(f, 0)
  <2>1. Solves([c \in 0..0 |-> {}], 0)
    OBVIOUS
  <2>2. QED
    BY <2>1
<1>2. ASSUME NEW m \in Nat, m + 1 <= n, NEW f, Solves(f, m)
      PROVE  \E g : Solves(g, m + 1)
  <2> DEFINE g == [c \in 0..(m + 1) |-> IF c = m + 1 THEN {c} \cup f[repo.commits[c].parent] ELSE f[c]]
  <2>1. Len(repo.commits) \in Nat
    BY LenProperties DEF RepoTyped, IsSeq
  <2>2. \A c \in 1..(m + 1) : repo.commits[c].parent \in 0..(c - 1)
    <3> TAKE c \in 1..(m + 1)
    <3>1. c \in 1..Len(repo.commits)
      BY <1>2, <2>1
    <3>2. QED
      BY <3>1 DEF RepoTyped
  <2>3. \A c \in 0..m : f[c] = IF c = 0 THEN {} ELSE {c} \cup f[repo.commits[c].parent]
    BY <1>2
  <2>8. \A c \in 0..(m + 1) : g[c] = IF c = m + 1 THEN {c} \cup f[repo.commits[c].parent] ELSE f[c]
    OBVIOUS
  <2>5. g = [c \in 0..(m + 1) |-> g[c]]
    OBVIOUS
  <2> HIDE DEF g, repo
  <2>4. ASSUME NEW c \in 0..(m + 1)
        PROVE  g[c] = IF c = 0 THEN {} ELSE {c} \cup g[repo.commits[c].parent]
    <3>1. CASE c = 0
      <4>1. c \in 0..m /\ c # m + 1
        BY <3>1
      <4>2. g[c] = f[c]
        BY <2>8, <4>1
      <4>3. f[c] = {}
        BY <2>3, <3>1, <4>1
      <4>4. QED
        BY <3>1, <4>2, <4>3
    <3>2. CASE c # 0
      <4>1. c \in 1..(m + 1)
        BY <3>2
      <4>2. PICK p : p = repo.commits[c].parent
        OBVIOUS
      <4>3. p \in 0..(c - 1)
        BY <2>2, <4>1, <4>2
      <4>4. p \in 0..(m + 1) /\ p # m + 1
        BY <4>1, <4>3
      <4>5. g[p] = f[p]
        BY <2>8, <4>4
      <4>6. CASE c = m + 1
        <5>1. g[c] = {c} \cup f[p]
          BY <2>8, <4>2, <4>6
        <5>2. QED
          BY <3>2, <4>2, <4>5, <5>1
      <4>7. CASE c # m + 1
        <5>1. c \in 0..m
          BY <4>1, <4>7
        <5>2. g[c] = f[c] /\ f[c] = {c} \cup f[p]
          BY <2>3, <2>8, <3>2, <4>2, <4>7, <5>1
        <5>3. QED
          BY <3>2, <4>2, <4>5, <5>2
      <4>8. QED
        BY <4>6, <4>7
    <3>3. QED
      BY <3>1, <3>2
  <2>6. Solves(g, m + 1)
    BY <2>4, <2>5
  <2>7. QED
    BY <2>6
<1> HIDE DEF Solves
<1>3. T = {}
  <2> SUFFICES ASSUME T # {} PROVE FALSE
    OBVIOUS
  <2> HIDE DEF T
  <2>1. PICK k \in T : \A j \in Nat : j < k => j \notin T
    <3>1. T \in SUBSET Nat
      BY DEF T
    <3>2. QED
      BY <3>1, LeastOf
  <2>2. k \in Nat /\ k <= n /\ k # 0
    BY <1>1 DEF T
  <2>3. k - 1 \in Nat /\ k - 1 \in 0..n /\ k - 1 \notin T
    BY <2>1, <2>2
  <2>4. PICK f : Solves(f, k - 1)
    BY <2>3 DEF T
  <2>5. \E g : Solves(g, (k - 1) + 1)
    BY <1>2, <2>2, <2>3, <2>4
  <2>6. (k - 1) + 1 = k
    BY <2>2
  <2>7. QED
    BY <2>5, <2>6 DEF T
<1>4. \E f : Solves(f, n)
  <2>1. n \in 0..n
    OBVIOUS
  <2>2. n \notin T
    <3> HIDE DEF T
    <3>1. QED
      BY <1>3
  <2>3. QED
    BY <2>1, <2>2
<1>5. QED
  BY <1>4 DEF Solves

(* ... and were published with it. *)
LEMMA ReachedPublished ==
  ASSUME RepoTyped, NEW K, Publishes(K), NEW f,
         f = [c \in 0..Len(repo.commits) |-> IF c = 0 THEN {} ELSE {c} \cup f[repo.commits[c].parent]],
         NEW x \in K \cup {0}
  PROVE  f[x] \subseteq K
<1> DEFINE n == Len(repo.commits)
           T == {c \in K : ~ (f[c] \subseteq K)}
<1>1. n \in Nat
  BY LenProperties DEF RepoTyped, IsSeq
<1>2. K \subseteq 1..n
  BY DEF Publishes
<1>3. \A c \in 1..n : f[c] = {c} \cup f[repo.commits[c].parent]
  BY <1>1
<1>4. f[0] = {}
  BY <1>1
<1>5. T = {}
  <2> SUFFICES ASSUME T # {} PROVE FALSE
    OBVIOUS
  <2>1. T \in SUBSET Nat
    <3>1. K \subseteq Nat /\ T \subseteq K
      BY <1>1, <1>2
    <3> HIDE DEF T
    <3>2. QED
      BY <3>1
  <2> HIDE DEF T
  <2>2. PICK k \in T : \A j \in Nat : j < k => j \notin T
    BY <2>1, LeastOf
  <2>3. k \in K /\ k \in 1..n /\ ~ (f[k] \subseteq K)
    BY <1>2 DEF T
  <2>4. repo.commits[k].parent \in 0..(k - 1)
    BY <2>3 DEF RepoTyped
  <2>5. ~ (f[repo.commits[k].parent] \subseteq K)
    BY <1>3, <2>3
  <2>6. repo.commits[k].parent \in K
    BY <1>4, <2>3, <2>5 DEF Publishes
  <2>7. repo.commits[k].parent \in Nat /\ repo.commits[k].parent < k
    BY <1>1, <2>3, <2>4
  <2>8. QED
    BY <2>2, <2>5, <2>6, <2>7 DEF T
<1>6. QED
  BY <1>4, <1>5

LEMMA PullCardinality == \A S : Pr!Cardinality(S) = Cardinality(S)
BY DEF Pr!Cardinality, Cardinality

(* The pull requests' invariant holds of the workers, GitHub and the others. *)
THEOREM PullInvHolds == Spec => [](unit = "pull" => PullInv)
<1>1. Starts => (unit = "pull" => PullInv)
  BY PullInit DEF Starts
<1>2. (unit = "pull" => PullInv) /\ [UNCHANGED unit /\ Steps]_vars => (unit = "pull" => PullInv)'
  <2> SUFFICES ASSUME unit = "pull" => PullInv, [UNCHANGED unit /\ Steps]_vars, unit' = "pull"
               PROVE  PullInv'
    OBVIOUS
  <2>1. unit = "pull"
    BY DEF vars
  <2>2. [Pr!Next]_(Pr!vars)
    BY <2>1 DEF Steps, vars, Pr!vars
  <2>3. QED
    BY <2>1, <2>2, PullKept
<1>3. QED
  BY <1>1, <1>2, PTL DEF Spec

(* createDraftPullRequest: what Bek commits is, to the letter, what was planned *)
(* and approved, although every attempt builds the plan again from a payload    *)
(* that redaction may have changed: for all proposals, redactions, answers and  *)
(* numbers of workers, attempts and faults.                                     *)
THEOREM CommitsAsApprovedHolds == Spec => []CommitsAsApproved
<1>1. PullInv => Pr!CommitsAsApproved
  BY DEF PullInv, Agreed, Pr!CommitsAsApproved
<1>2. (unit = "pull" => PullInv) => CommitsAsApproved
  BY <1>1 DEF CommitsAsApproved
<1>3. QED
  BY <1>2, PullInvHolds, PTL

(* createBranch, commitFiles and createDraftPullRequest: however many workers   *)
(* and attempts there are, and whichever requests fail before or after they     *)
(* took effect, the branch receives one commit of Bek's and Bek opens one pull  *)
(* request, and one more for each time somebody merges and deletes the branch.  *)
THEOREM OneCommitOnePullRequestHolds == Spec => []OneCommitOnePullRequest
<1>1. ASSUME PullInv PROVE Pr!OneCommitOnePullRequest
  <2>1. RepoTyped /\ Opened
    BY <1>1 DEF PullInv, OnceInv
  <2>2. PICK K : Publishes(K)
    BY <1>1 DEF PullInv, OnceInv
  <2>3. Len(repo.commits) \in Nat /\ Len(repo.prs) \in Nat /\ repo.deleted \in Nat
    BY <2>1, LenProperties DEF RepoTyped, IsSeq
  <2>4. Pr!Published \subseteq K
    <3> DEFINE reached == CHOOSE f : f = [c \in 0..Len(repo.commits) |->
                            IF c = 0 THEN {} ELSE {c} \cup f[repo.commits[c].parent]]
    <3>1. reached = [c \in 0..Len(repo.commits) |->
                      IF c = 0 THEN {} ELSE {c} \cup reached[repo.commits[c].parent]]
      <4>1. Len(repo.commits) <= Len(repo.commits)
        BY <2>3
      <4>2. \E f : f = [c \in 0..Len(repo.commits) |-> IF c = 0 THEN {} ELSE {c} \cup f[repo.commits[c].parent]]
        BY <2>1, <2>3, <4>1, ReachedDefined
      <4>3. QED
        BY <4>2, Zenon
    <3>2. Pr!Published = reached[repo.head] \cup reached[repo.base]
      BY DEF Pr!Published
    <3> HIDE DEF reached
    <3>3. repo.base \in K \cup {0} /\ repo.head \in K \cup {0}
      BY <2>2 DEF Publishes
    <3>4. reached[repo.base] \subseteq K /\ reached[repo.head] \subseteq K
      BY <2>1, <2>2, <3>1, <3>3, ReachedPublished
    <3>5. QED
      BY <3>2, <3>4
  <2>5. Pr!Cardinality({c \in Pr!Published : repo.commits[c].by = "bek"}) <= 1 + repo.deleted
    <3> DEFINE B == {c \in Pr!Published : repo.commits[c].by = "bek"}
    <3>1. K \subseteq 1..Len(repo.commits) /\ Cardinality(ByBek(K)) <= repo.deleted + (IF Patched THEN 1 ELSE 0)
      BY <2>2 DEF Publishes
    <3>2. IsFiniteSet(ByBek(K)) /\ Cardinality(ByBek(K)) \in Nat
      BY <2>1, <3>1, ByBekFinite
    <3>3. B \subseteq ByBek(K)
      BY <2>4 DEF ByBek
    <3> HIDE DEF B
    <3>4. Cardinality(B) <= Cardinality(ByBek(K)) /\ Cardinality(B) \in Nat
      BY <3>2, <3>3, FS_Subset, FS_CardinalityType
    <3>5. Cardinality(B) <= 1 + repo.deleted
      <4> HIDE DEF repo
      <4>1. QED
        BY <2>3, <3>1, <3>2, <3>4
    <3>6. QED
      BY <3>5, PullCardinality DEF B
  <2>6. Pr!Cardinality({k \in 1..Len(repo.prs) : repo.prs[k].by = "bek"}) <= 1 + repo.deleted
    <3> DEFINE B == {k \in 1..Len(repo.prs) : repo.prs[k].by = "bek"}
    <3>1. IsFiniteSet(1..Len(repo.prs)) /\ Cardinality(1..Len(repo.prs)) = Len(repo.prs)
      <4> DEFINE n == Len(repo.prs)
      <4> HIDE DEF n
      <4>1. n \in Nat
        BY <2>3 DEF n
      <4>2. IsFiniteSet(1..n) /\ Cardinality(1..n) = n
        BY <4>1, FS_Interval
      <4>3. QED
        BY <4>2 DEF n
    <3>2. B \subseteq 1..Len(repo.prs)
      OBVIOUS
    <3> HIDE DEF B
    <3>3. Cardinality(B) <= Len(repo.prs) /\ Cardinality(B) \in Nat
      BY <3>1, <3>2, FS_Subset, FS_CardinalityType
    <3>4. Len(repo.prs) <= repo.deleted + (IF \E k \in 1..Len(repo.prs) : repo.prs[k].open THEN 1 ELSE 0)
      BY <2>1 DEF Opened
    <3>5. Cardinality(B) <= 1 + repo.deleted
      <4> HIDE DEF repo
      <4>1. QED
        BY <2>3, <3>3, <3>4
    <3>6. QED
      BY <3>5, PullCardinality DEF B
  <2>7. QED
    BY <2>5, <2>6 DEF Pr!OneCommitOnePullRequest
<1>2. (unit = "pull" => PullInv) => OneCommitOnePullRequest
  BY <1>1 DEF OneCommitOnePullRequest
<1>3. QED
  BY <1>2, PullInvHolds, PTL

-----------------------------------------------------------------------------
(* The save chain *)

Flushers == SaveFlushers
MaxChanges == SaveMaxChanges
chain == s1
made == s2
flushers == s3
told == s4
USE DEF Flushers, MaxChanges, chain, made, flushers, told

(* The pending links keep their order when one is added or settled. *)
LEMMA PendingOrder ==
  ASSUME NEW p \in Seq(Nat), NEW n \in Nat, \A k \in DOMAIN p : p[k] = n + k
  PROVE  /\ Len(Append(p, n + Len(p) + 1)) = Len(p) + 1
         /\ \A k \in DOMAIN Append(p, n + Len(p) + 1) : Append(p, n + Len(p) + 1)[k] = n + k
         /\ p # <<>> =>
              /\ Head(p) = n + 1
              /\ Tail(p) \in Seq(Nat) /\ Len(Tail(p)) = Len(p) - 1
              /\ \A k \in DOMAIN Tail(p) : Tail(p)[k] = n + 1 + k
<1>1. /\ Len(Append(p, n + Len(p) + 1)) = Len(p) + 1
      /\ \A k \in DOMAIN Append(p, n + Len(p) + 1) : Append(p, n + Len(p) + 1)[k] = n + k
  OBVIOUS
<1>2. ASSUME p # <<>> PROVE Head(p) = n + 1 /\ Tail(p) \in Seq(Nat) /\ Len(Tail(p)) = Len(p) - 1
  BY <1>2
<1>3. ASSUME p # <<>>, NEW k \in DOMAIN Tail(p) PROVE Tail(p)[k] = n + 1 + k
  BY <1>3
<1> QED BY <1>1, <1>2, <1>3

(* Recording a change adds a link and leaves the rest of the chain alone. *)
LEMMA RecordFields ==
  ASSUME NEW c \in Sav!Chains, NEW s \in Nat
  PROVE  /\ Sav!Record(c, s) \in Sav!Chains
         /\ Sav!Record(c, s).pending = Append(c.pending, s)
         /\ Sav!Record(c, s).settled = c.settled /\ Sav!Record(c, s).saved = c.saved
         /\ Sav!Record(c, s).failed = c.failed
BY DEF Sav!Chains, Sav!Record, Sav!Chain

(* A settled link is counted, and leaves the snapshot of the change it was  *)
(* made for in the database, or the old snapshot and an error.              *)
LEMMA SettledLink ==
  ASSUME NEW c \in Sav!Chains, c.pending # <<>>, NEW d \in Sav!Outcomes(c)
  PROVE  /\ d \in Sav!Chains
         /\ d.settled = c.settled + 1 /\ d.pending = Tail(c.pending)
         /\ (~d.failed /\ d.saved = Head(c.pending)) \/ (d.failed /\ d.saved = c.saved)
<1>1. Tail(c.pending) \in Seq(Nat) /\ Head(c.pending) \in Nat
  BY DEF Sav!Chains
<1>2. CASE c.failed
  <2>1. d = Sav!Chain(Tail(c.pending), c.settled + 1, c.saved, TRUE)
    BY <1>2 DEF Sav!Outcomes, Sav!Settle
  <2> QED BY <1>1, <2>1 DEF Sav!Chains, Sav!Chain
<1>3. CASE ~c.failed
  <2>1. \/ d = Sav!Chain(Tail(c.pending), c.settled + 1, Head(c.pending), FALSE)
        \/ d = Sav!Chain(Tail(c.pending), c.settled + 1, c.saved, TRUE)
    BY <1>3 DEF Sav!Outcomes, Sav!Settle
  <2>2. CASE d = Sav!Chain(Tail(c.pending), c.settled + 1, Head(c.pending), FALSE)
    BY <1>1, <2>2 DEF Sav!Chains, Sav!Chain
  <2>3. CASE d = Sav!Chain(Tail(c.pending), c.settled + 1, c.saved, TRUE)
    BY <1>1, <2>3 DEF Sav!Chains, Sav!Chain
  <2> QED BY <2>1, <2>2, <2>3
<1> QED BY <1>2, <1>3

(* The inductive invariant: the errors not told are still in the chain. *)
SaveInv == Sav!TypeOK /\ Sav!NoSilentLoss /\ Sav!ReturnedIsSavedOrTold

(* The invariant holds of a chain that nothing was recorded in. *)
LEMMA InitSaveInv == Sav!Init => SaveInv
BY SaveAssumption DEF Sav!Init, SaveInv, Sav!TypeOK, Sav!ChainOK, Sav!FlushersOK, Sav!Chains, Sav!NoSilentLoss, Sav!ReturnedIsSavedOrTold, Sav!NewChain, Sav!Chain, Sav!Last

(* Every step keeps the invariant. *)
LEMMA NextSaveInv == SaveInv /\ [Sav!Next]_(Sav!vars) => SaveInv'
<1> SUFFICES ASSUME SaveInv, [Sav!Next]_(Sav!vars) PROVE SaveInv'
  OBVIOUS
<1> USE SaveAssumption
<1> DEFINE p == chain.pending
<1>0. /\ chain \in Sav!Chains /\ p \in Seq(Nat) /\ chain.settled \in Nat /\ chain.saved \in Nat
      /\ made = chain.settled + Len(p) /\ chain.saved <= chain.settled
      /\ \A k \in DOMAIN p : p[k] = chain.settled + k
      /\ made \in Nat /\ made <= MaxChanges /\ told \in Nat /\ told <= chain.settled
  BY DEF SaveInv, Sav!TypeOK, Sav!ChainOK, Sav!Chains, Sav!Last
<1>1. ASSUME NEW f \in Flushers, Sav!RecordChange(f) PROVE SaveInv'
  <2>1. made' = made + 1 /\ made' <= MaxChanges /\ chain' = Sav!Record(chain, made + 1) /\ told' = told
    BY <1>1, <1>0 DEF Sav!RecordChange
  <2>2. /\ chain' \in Sav!Chains /\ chain'.pending = Append(p, made + 1)
        /\ chain'.settled = chain.settled /\ chain'.saved = chain.saved
        /\ chain'.failed = chain.failed
    <3>1. made + 1 \in Nat /\ chain \in Sav!Chains
      BY <1>0
    <3> QED BY <2>1, <3>1, RecordFields
  <2>3. /\ Len(chain'.pending) = Len(p) + 1
        /\ \A k \in DOMAIN chain'.pending : chain'.pending[k] = chain.settled + k
    <3>1. chain'.pending = Append(p, chain.settled + Len(p) + 1)
      BY <1>0, <2>2
    <3> HIDE DEF p
    <3>2. /\ Len(Append(p, chain.settled + Len(p) + 1)) = Len(p) + 1
          /\ \A k \in DOMAIN Append(p, chain.settled + Len(p) + 1) :
               Append(p, chain.settled + Len(p) + 1)[k] = chain.settled + k
      BY <1>0, PendingOrder
    <3> QED BY <3>1, <3>2
  <2>4. Sav!ChainOK'
    BY <1>0, <2>1, <2>2, <2>3 DEF Sav!ChainOK, Sav!Last
  <2>5. Sav!FlushersOK'
    BY <1>0, <1>1, <2>1 DEF Sav!RecordChange, SaveInv, Sav!TypeOK, Sav!FlushersOK
  <2>6. Sav!NoSilentLoss'
    BY <2>1, <2>2 DEF SaveInv, Sav!NoSilentLoss
  <2>7. Sav!ReturnedIsSavedOrTold'
    BY <1>1, <2>1, <2>2 DEF Sav!RecordChange, SaveInv, Sav!TypeOK, Sav!FlushersOK, Sav!ReturnedIsSavedOrTold
  <2> QED BY <1>0, <2>1, <2>2, <2>4, <2>5, <2>6, <2>7 DEF SaveInv, Sav!TypeOK
<1>2. ASSUME NEW f \in Flushers, Sav!Flush(f) PROVE SaveInv'
  <2>1. UNCHANGED <<chain, made, told>> /\ Sav!Last(chain) = made
    BY <1>0, <1>2 DEF Sav!Flush, Sav!Last
  <2>2. Sav!FlushersOK'
    <3>1. /\ flushers' = [flushers EXCEPT ![f].pc = "waiting", ![f].target = made]
          /\ flushers[f].mine <= made
      BY <1>2, <2>1 DEF Sav!Flush, SaveInv, Sav!TypeOK, Sav!FlushersOK
    <3>2. flushers \in [Flushers -> [pc : {"idle", "changed", "waiting", "returned", "threw"},
                                     target : Nat, mine : Nat]]
      BY DEF SaveInv, Sav!TypeOK, Sav!FlushersOK
    <3>3. /\ flushers' \in [Flushers -> [pc : {"idle", "changed", "waiting", "returned", "threw"},
                                         target : Nat, mine : Nat]]
          /\ flushers'[f].target = made /\ flushers'[f].mine = flushers[f].mine
          /\ \A g \in Flushers : g # f => flushers'[g] = flushers[g]
      BY <1>0, <3>1, <3>2
    <3>4. made <= made
      BY <1>0
    <3> QED BY <2>1, <3>1, <3>3, <3>4 DEF SaveInv, Sav!TypeOK, Sav!FlushersOK
  <2>3. Sav!ReturnedIsSavedOrTold'
    BY <1>2, <2>1 DEF Sav!Flush, SaveInv, Sav!TypeOK, Sav!FlushersOK, Sav!ReturnedIsSavedOrTold
  <2>4. Sav!ChainOK' /\ Sav!NoSilentLoss'
    BY <2>1 DEF SaveInv, Sav!TypeOK, Sav!ChainOK, Sav!NoSilentLoss, Sav!Last
  <2> QED BY <1>0, <2>1, <2>2, <2>3, <2>4 DEF SaveInv, Sav!TypeOK
<1>3. ASSUME NEW f \in Flushers, Sav!FlushReturns(f) PROVE SaveInv'
  <2>1. flushers[f].mine <= chain.settled
    BY <1>0, <1>3 DEF Sav!FlushReturns, Sav!Resumed, SaveInv, Sav!TypeOK, Sav!FlushersOK
  <2>2. chain' = [pending |-> p, settled |-> chain.settled, saved |-> chain.saved, failed |-> FALSE]
    BY <1>0, <1>3 DEF Sav!FlushReturns, Sav!Chains
  <2>3. Sav!ChainOK' /\ made' = made
    BY <1>0, <1>3, <2>2 DEF Sav!FlushReturns, Sav!ChainOK, Sav!Chains, Sav!Last
  <2>4. Sav!FlushersOK'
    BY <1>0, <1>3, <2>3 DEF Sav!FlushReturns, SaveInv, Sav!TypeOK, Sav!FlushersOK
  <2>5. told' = IF chain.failed THEN chain.settled ELSE told
    BY <1>3 DEF Sav!FlushReturns
  <2>6. Sav!NoSilentLoss'
    BY <2>2, <2>5 DEF SaveInv, Sav!NoSilentLoss
  <2>7. \A g \in Flushers : flushers'[g].mine = flushers[g].mine
                          /\ (g # f => flushers'[g].pc = flushers[g].pc)
                          /\ (flushers'[f].pc = "returned" => ~chain.failed)
    BY <1>3 DEF Sav!FlushReturns, SaveInv, Sav!TypeOK, Sav!FlushersOK
  <2>8. \A g \in Flushers : flushers[g].mine \in Nat
    BY DEF SaveInv, Sav!TypeOK, Sav!FlushersOK
  <2>9. Sav!ReturnedIsSavedOrTold'
    <3> SUFFICES ASSUME NEW g \in Flushers, flushers'[g].pc = "returned"
                 PROVE  flushers'[g].mine <= chain'.saved \/ flushers'[g].mine <= told'
      BY DEF Sav!ReturnedIsSavedOrTold
    <3>1. chain'.saved = chain.saved
      BY <2>2
    <3>2. CASE g = f
      <4>1. ~chain.failed /\ flushers'[g].mine <= chain.settled
        BY <2>1, <2>7, <3>2
      <4>2. chain.settled = chain.saved \/ chain.settled = told
        BY <4>1 DEF SaveInv, Sav!NoSilentLoss
      <4>3. told' = told
        BY <2>5, <4>1
      <4>4. flushers'[g].mine \in Nat
        BY <2>7, <2>8
      <4>5. QED
        BY <1>0, <3>1, <4>1, <4>2, <4>3, <4>4
    <3>3. CASE g # f
      <4>1. flushers[g].pc = "returned" /\ flushers'[g].mine = flushers[g].mine
        BY <2>7, <3>3
      <4>2. flushers[g].mine <= chain.saved \/ flushers[g].mine <= told
        BY <4>1 DEF SaveInv, Sav!ReturnedIsSavedOrTold
      <4>3. told \in Nat /\ told' \in Nat /\ told <= told'
        <5>1. told \in Nat /\ told <= chain.settled /\ chain.settled \in Nat
          BY <1>0 DEF SaveInv, Sav!TypeOK
        <5>2. told' = told \/ told' = chain.settled
          BY <2>5
        <5>3. QED
          BY <5>1, <5>2
      <4>4. QED
        BY <1>0, <2>8, <3>1, <4>1, <4>2, <4>3
    <3>4. QED
      BY <3>2, <3>3
  <2> QED BY <1>0, <2>2, <2>3, <2>4, <2>5, <2>6, <2>9 DEF SaveInv, Sav!TypeOK
<1>4. ASSUME NEW f \in Flushers, Sav!Again(f) PROVE SaveInv'
  <2>1. UNCHANGED <<chain, made, told>>
    BY <1>4 DEF Sav!Again
  <2>2. Sav!FlushersOK' /\ Sav!ReturnedIsSavedOrTold'
    BY <1>4, <2>1 DEF Sav!Again, SaveInv, Sav!TypeOK, Sav!FlushersOK, Sav!ReturnedIsSavedOrTold
  <2> QED BY <2>1, <2>2 DEF SaveInv, Sav!TypeOK, Sav!ChainOK, Sav!NoSilentLoss, Sav!Last
<1>5. ASSUME Sav!LinkSettles PROVE SaveInv'
  <2>1. UNCHANGED <<made, flushers, told>> /\ p # <<>> /\ chain' \in Sav!Outcomes(chain)
    BY <1>5 DEF Sav!LinkSettles
  <2>2. /\ chain' \in Sav!Chains /\ chain'.settled = chain.settled + 1 /\ chain'.pending = Tail(p)
        /\ \/ ~chain'.failed /\ chain'.saved = Head(p)
           \/ chain'.failed /\ chain'.saved = chain.saved
    BY <1>0, <2>1, SettledLink
  <2>3. /\ Head(p) = chain.settled + 1 /\ Len(Tail(p)) = Len(p) - 1
        /\ \A k \in DOMAIN Tail(p) : Tail(p)[k] = chain.settled + 1 + k
    <3> HIDE DEF p
    <3>1. p \in Seq(Nat) /\ p # <<>> /\ chain.settled \in Nat /\ \A k \in DOMAIN p : p[k] = chain.settled + k
      BY <1>0, <2>1 DEF p
    <3>2. PICK n \in Nat, q \in Seq(Nat) : n = chain.settled /\ q = p
      BY <3>1
    <3>3. q # <<>> /\ \A k \in DOMAIN q : q[k] = n + k
      BY <3>1, <3>2, Zenon
    <3>4. Head(q) = n + 1 /\ Len(Tail(q)) = Len(q) - 1 /\ \A k \in DOMAIN Tail(q) : Tail(q)[k] = n + 1 + k
      BY <3>3, PendingOrder, Zenon
    <3>5. QED
      BY <3>2, <3>4, Zenon
  <2>4. Sav!ChainOK'
    <3>1. Sav!Last(chain') = made' /\ chain'.saved <= chain'.settled
      <4>1. PICK n \in Nat, l \in Nat : n = chain.settled /\ l = Len(p)
        BY <1>0
      <4>2. /\ made' = n + l /\ Len(chain'.pending) = l - 1 /\ chain'.settled = n + 1
            /\ chain'.saved = n + 1 \/ chain'.saved = chain.saved
        BY <1>0, <2>1, <2>2, <2>3, <4>1
      <4>3. chain.saved \in Nat /\ chain.saved <= n
        BY <1>0, <4>1
      <4>4. Sav!Last(chain') = chain'.settled + Len(chain'.pending)
        BY DEF Sav!Last
      <4>5. QED
        BY <4>1, <4>2, <4>3, <4>4
    <3>2. \A k \in DOMAIN chain'.pending : chain'.pending[k] = chain'.settled + k
      BY <2>2, <2>3
    <3>3. QED
      BY <2>2, <3>1, <3>2 DEF Sav!ChainOK
  <2>5. Sav!FlushersOK'
    BY <2>1 DEF SaveInv, Sav!TypeOK, Sav!FlushersOK
  <2>6. chain'.saved >= chain.saved /\ Sav!NoSilentLoss'
    BY <1>0, <2>2, <2>3 DEF Sav!NoSilentLoss
  <2>7. chain'.saved \in Nat /\ \A g \in Flushers : flushers[g].mine \in Nat
    BY <2>2 DEF SaveInv, Sav!TypeOK, Sav!FlushersOK, Sav!Chains
  <2>8. Sav!ReturnedIsSavedOrTold'
    BY <1>0, <2>1, <2>6, <2>7 DEF SaveInv, Sav!ReturnedIsSavedOrTold
  <2> QED BY <1>0, <2>1, <2>2, <2>4, <2>5, <2>6, <2>8 DEF SaveInv, Sav!TypeOK
<1>6. CASE UNCHANGED Sav!vars
  BY <1>6 DEF Sav!vars, SaveInv, Sav!TypeOK, Sav!ChainOK, Sav!FlushersOK, Sav!NoSilentLoss, Sav!ReturnedIsSavedOrTold, Sav!Last
<1>7. QED
  BY <1>1, <1>2, <1>3, <1>4, <1>5, <1>6 DEF Sav!Next

(* The chain, its database and its requests are of the stated types, the        *)
(* pending links stand in the order of the changes, no save fails in silence,   *)
(* and a flush that returned was right to (recordChange, flushChanges).         *)
THEOREM SaveInvHolds == Spec => [](unit = "save" => SaveInv)
<1>1. Starts => (unit = "save" => SaveInv)
  BY InitSaveInv DEF Starts
<1>2. (unit = "save" => SaveInv) /\ [UNCHANGED unit /\ Steps]_vars => (unit = "save" => SaveInv)'
  BY NextSaveInv DEF Steps, vars, Sav!vars
<1>3. QED
  BY <1>1, <1>2, PTL DEF Spec

(* No save fails in silence (recordChange, flushChanges). *)
THEOREM NoSilentLossHolds == Spec => []NoSilentLoss
<1>1. (unit = "save" => SaveInv) => NoSilentLoss
  BY DEF NoSilentLoss, SaveInv
<1>2. QED
  BY <1>1, SaveInvHolds, PTL

(* A flush that returned stands for a save, or for an error that another        *)
(* request was given (flushChanges).                                            *)
THEOREM ReturnedHolds == Spec => []ReturnedIsSavedOrTold
<1>1. (unit = "save" => SaveInv) => ReturnedIsSavedOrTold
  BY DEF ReturnedIsSavedOrTold, SaveInv
<1>2. QED
  BY <1>1, SaveInvHolds, PTL

(* The database never goes back to an older snapshot (recordChange). *)
THEOREM SavedGrowsHolds == Spec => SavedGrows
<1>1. ASSUME SaveInv, Sav!LinkSettles PROVE chain'.saved >= chain.saved
  <2>1. /\ chain \in Sav!Chains /\ chain.pending \in Seq(Nat) /\ chain.settled \in Nat
        /\ chain.saved \in Nat /\ chain.saved <= chain.settled
        /\ \A k \in DOMAIN chain.pending : chain.pending[k] = chain.settled + k
    BY <1>1 DEF SaveInv, Sav!TypeOK, Sav!ChainOK, Sav!Chains
  <2>2. chain'.saved = Head(chain.pending) \/ chain'.saved = chain.saved
    BY <1>1, <2>1, SettledLink DEF Sav!LinkSettles
  <2>3. Head(chain.pending) = chain.settled + 1
    BY <1>1, <2>1, PendingOrder DEF Sav!LinkSettles
  <2> QED BY <2>1, <2>2, <2>3
<1>2. ASSUME SaveInv, NEW f \in Flushers, Sav!RecordChange(f) \/ Sav!Flush(f) \/ Sav!FlushReturns(f) \/ Sav!Again(f)
      PROVE  chain'.saved >= chain.saved
  <2>1. chain \in Sav!Chains /\ chain.saved \in Nat /\ made + 1 \in Nat
    BY <1>2, SaveAssumption DEF SaveInv, Sav!TypeOK, Sav!ChainOK, Sav!Chains
  <2>2. CASE Sav!RecordChange(f)
    BY <2>1, <2>2, RecordFields DEF Sav!RecordChange
  <2>3. CASE Sav!FlushReturns(f)
    BY <2>1, <2>3 DEF Sav!FlushReturns, Sav!Chains
  <2>4. CASE Sav!Flush(f) \/ Sav!Again(f)
    BY <2>1, <2>4 DEF Sav!Flush, Sav!Again
  <2> QED BY <1>2, <2>2, <2>3, <2>4
<1>3. (unit = "save" => SaveInv) /\ [UNCHANGED unit /\ Steps]_vars => [unit = "save" => chain'.saved >= chain.saved]_vars
  BY <1>1, <1>2 DEF Steps, Sav!Next
<1>4. QED
  BY <1>3, SaveInvHolds, PTL DEF Spec, SavedGrows
=============================================================================
