------------------------------- MODULE Sandbox -------------------------------
(***************************************************************************)
(* The life of the containers of one run: DockerSandboxProvider with the   *)
(* worker that creates, uses and destroys them.  Two workers may be at the *)
(* same attempt, since an expired queue lease makes the work claimable     *)
(* again without a new attempt number, and a container is named after run  *)
(* and attempt.  Every docker call is awaited: it starts in one step and   *)
(* answers in another, and it may fail or time out.                        *)
(***************************************************************************)
EXTENDS SandboxPolicy

CONSTANTS
  Workers,      \* worker processes
  MaxAttempts,  \* attempts of the queue's retry policy
  MaxExpired,   \* bound: queue leases that expire
  Policies,     \* the policies a sandboxPolicyProvider may return
  Targets,      \* what the configured command is expected to reach
  Paths         \* the working directories it may be configured with

VARIABLES
  policy,      \* the policy of the run's profile
  config,      \* the adapter's options: [target, cwd]
  queue,       \* the work: [status, attempt, holder, expired]
  docker,      \* containers by attempt: the worker that created it, or "none"
  worker,      \* what each worker is at, with the state of its sandbox lease
  faults       \* whether a docker call failed or a worker crashed on the way

vars == <<policy, config, queue, docker, worker, faults>>

Attempts == 1..MaxAttempts
Idle     == [at |-> "idle", attempt |-> 0, destroyed |-> TRUE, ok |-> FALSE]

Init ==
  /\ policy \in Policies
  /\ config \in [target : Targets, cwd : Paths]
  /\ queue = [status |-> "queued", attempt |-> 1, holder |-> "none", expired |-> 0]
  /\ docker = [n \in Attempts |-> "none"]
  /\ worker = [w \in Workers |-> Idle]
  /\ faults = FALSE

Same == UNCHANGED <<policy, config>>

-----------------------------------------------------------------------------
(* The worker queue, as far as it matters here *)

ClaimNext(w) ==
  /\ queue.status = "queued" /\ worker[w].at = "idle"
  /\ queue' = [queue EXCEPT !.status = "claimed", !.holder = w]
  /\ worker' = [worker EXCEPT ![w] = [Idle EXCEPT !.at = "planned", !.attempt = queue.attempt]]
  /\ Same /\ UNCHANGED <<docker, faults>>

(* The worker goes on without knowing. *)
LeaseExpires ==
  /\ queue.status = "claimed" /\ queue.expired < MaxExpired
  /\ queue' = [queue EXCEPT !.status = "queued", !.holder = "none", !.expired = @ + 1]
  /\ Same /\ UNCHANGED <<docker, worker, faults>>

(* Only the holder's result counts. *)
Settle(w) ==
  /\ worker[w].at = "ended"
  /\ worker' = [worker EXCEPT ![w] = Idle]
  /\ queue' = IF queue.holder # w THEN queue
              ELSE IF worker[w].ok THEN [queue EXCEPT !.status = "done", !.holder = "none"]
              ELSE IF queue.attempt < MaxAttempts
              THEN [queue EXCEPT !.status = "queued", !.holder = "none", !.attempt = @ + 1]
              ELSE [queue EXCEPT !.status = "dead", !.holder = "none"]
  /\ Same /\ UNCHANGED <<docker, faults>>

-----------------------------------------------------------------------------
(* create, exec, download, destroy *)

End(w, ok) == [worker[w] EXCEPT !.at = "ended", !.ok = ok]

(* buildDockerRunCommand throws when the policy is not one Bek allows. *)
RefusePolicy(w) ==
  /\ worker[w].at = "planned" /\ ~AssertSandboxPolicy(policy)
  /\ worker' = [worker EXCEPT ![w] = End(w, FALSE)]
  /\ Same /\ UNCHANGED <<queue, docker, faults>>

(* docker run answers: the container is there and the lease is recorded. *)
CreateOk(w) ==
  /\ worker[w].at = "planned" /\ AssertSandboxPolicy(policy)
  /\ docker[worker[w].attempt] = "none"
  /\ docker' = [docker EXCEPT ![worker[w].attempt] = w]
  /\ worker' = [worker EXCEPT ![w].at = "created", ![w].destroyed = FALSE]
  /\ Same /\ UNCHANGED <<queue, faults>>

CreateFails_CleansUp(w) ==
  /\ worker[w].at = "planned" /\ AssertSandboxPolicy(policy)
  /\ docker[worker[w].attempt] # "none"
  /\ docker' = [docker EXCEPT ![worker[w].attempt] = "none"]
  /\ worker' = [worker EXCEPT ![w] = End(w, FALSE)]
  /\ Same /\ UNCHANGED <<queue, faults>>

(* The name is taken (by the worker whose lease expired, or by what an earlier
   attempt left), or docker fails or times out, perhaps after the container was
   started: create throws before a lease is recorded, and nobody destroys it. *)
CreateFails(w) ==
  /\ worker[w].at = "planned" /\ AssertSandboxPolicy(policy)
  /\ worker' = [worker EXCEPT ![w] = End(w, FALSE)]
  /\ \/ docker[worker[w].attempt] # "none" /\ UNCHANGED <<docker, faults>>
     \/ /\ docker[worker[w].attempt] = "none" /\ faults' = TRUE
        /\ docker' \in {docker, [docker EXCEPT ![worker[w].attempt] = w]}
  /\ Same /\ UNCHANGED queue

(* The checks of the sandbox adapter, which end the attempt without running
   anything: a target or the working directory is denied. *)
Denied ==
  \/ EvaluateEgressPolicy(policy.network, config.target) # "allowlisted"
  \/ /\ policy.targets["worktree"] # <<>> \/ policy.targets["artifact"] # <<>>
     /\ EvaluateFilesystemAccess(FilesystemPolicyFromMounts(policy.targets),
                                 config.cwd, "write", 0, 0) # "allowed"

AdapterDenies_Returns(w) ==
  /\ worker[w].at = "created" /\ Denied
  /\ worker' = [worker EXCEPT ![w] = End(w, FALSE)]
  /\ Same /\ UNCHANGED <<queue, docker, faults>>

AdapterDenies(w) ==
  /\ worker[w].at = "created" /\ Denied
  /\ worker' = [worker EXCEPT ![w].at = "destroying", ![w].ok = FALSE]
  /\ Same /\ UNCHANGED <<queue, docker, faults>>

ExecStarts(w) ==
  /\ worker[w].at = "created" /\ ~Denied
  /\ worker' = [worker EXCEPT ![w].at = "running"]
  /\ Same /\ UNCHANGED <<queue, docker, faults>>

(* How a docker process ends for its caller: the first of exit and error counts,
   and an exit after the timer is a timeout. *)
DockerAnswers == {"zero", "nonzero", "timed_out"}

(* The command exits; with zero, the artifact is downloaded. *)
ExecReturns(w) ==
  /\ worker[w].at = "running"
  /\ \E answer \in DockerAnswers \ {"timed_out"} :
       worker' = [worker EXCEPT ![w].at = IF answer = "zero" THEN "downloading"
                                          ELSE "destroying"]
  /\ Same /\ UNCHANGED <<queue, docker, faults>>

Download(w) ==
  /\ worker[w].at = "downloading"
  /\ \E answer \in DockerAnswers :
       worker' = [worker EXCEPT ![w].at = "destroying", ![w].ok = answer = "zero"]
  /\ Same /\ UNCHANGED <<queue, docker, faults>>

(* It times out: the container is killed, and the lease is done for even when
   docker kill fails. *)
ExecTimesOut(w) ==
  /\ worker[w].at = "running"
  /\ worker' = [worker EXCEPT ![w].at = "destroying", ![w].ok = FALSE, ![w].destroyed = TRUE]
  /\ \/ docker' = [docker EXCEPT ![worker[w].attempt] = "none"] /\ UNCHANGED faults
     \/ UNCHANGED docker /\ faults' = TRUE
  /\ Same /\ UNCHANGED queue

(* The finally of the attempt.  A destroy that fails throws, which makes the
   attempt a failed one, and is not tried again. *)
Destroy(w) ==
  /\ worker[w].at = "destroying"
  /\ IF worker[w].destroyed
     THEN worker' = [worker EXCEPT ![w].at = "ended"] /\ UNCHANGED <<docker, faults>>
     ELSE \/ /\ docker' = [docker EXCEPT ![worker[w].attempt] = "none"]
             /\ worker' = [worker EXCEPT ![w].at = "ended", ![w].destroyed = TRUE]
             /\ UNCHANGED faults
          \/ /\ worker' = [worker EXCEPT ![w] = [End(w, FALSE) EXCEPT !.destroyed = TRUE]]
             /\ faults' = TRUE /\ UNCHANGED docker
  /\ Same /\ UNCHANGED queue

(* The process dies; what it knew of its containers was in memory. *)
Crash(w) ==
  /\ worker[w].at # "idle" /\ ~faults
  /\ worker' = [worker EXCEPT ![w] = Idle]
  /\ faults' = TRUE
  /\ Same /\ UNCHANGED <<queue, docker>>

Next ==
  \/ LeaseExpires
  \/ \E w \in Workers :
       \/ ClaimNext(w) \/ Settle(w)
       \/ RefusePolicy(w) \/ CreateOk(w) \/ CreateFails(w)
       \/ AdapterDenies(w) \/ ExecStarts(w) \/ ExecReturns(w) \/ ExecTimesOut(w) \/ Download(w)
       \/ Destroy(w) \/ Crash(w)

Spec == Init /\ [][Next]_vars

-----------------------------------------------------------------------------
(* Properties *)

(* A command runs in the container its own worker created, and nobody has
   removed it underneath, although another worker may be at the same attempt
   and use the same container name. *)
RunsInOwnContainer ==
  \A w \in Workers : worker[w].at \in {"created", "running", "downloading"} => docker[worker[w].attempt] = w

(* A container that no attempt at work still has to destroy is one a failed
   docker call or a crash left: a denial, a failed command, a failed download
   or a lost lease never leaves one behind. *)
LeftBehindOnlyByFaults ==
  ~faults => \A n \in Attempts :
    docker[n] # "none" => /\ worker[docker[n]].attempt = n
                          /\ worker[docker[n]].at \in {"created", "running", "downloading", "destroying"}

(* What the adapter lets a command reach under a policy that Bek accepts is
   covered by the list its container is started with, and is neither a metadata
   service nor a private address: allowlist and target are read by two parsers
   that treat ports differently. *)
EgressNeverWider ==
  AssertSandboxPolicy(policy)
    /\ EvaluateEgressPolicy(policy.network, config.target) = "allowlisted"
      => LET t == ParseEgressTarget(config.target)
         IN /\ ~IsMetadataNetworkTarget(t.host)
            /\ policy.network.blockPrivate => ~IsPrivateNetworkTarget(t.host)
            /\ \E raw \in policy.network.allowlist :
                 LET entry == ParseNetworkAllowlistEntry(raw)
                 IN entry.host = t.host /\ entry.port \in {0, t.port}

(* However the mounts are nested, no write is let into what is mounted as
   source, and none outside the mounts. *)
SourceNeverWritten ==
  LET roots == FilesystemPolicyFromMounts(policy.targets)
  IN (policy.targets["worktree"] # <<>> \/ policy.targets["artifact"] # <<>>)
     /\ EvaluateFilesystemAccess(roots, config.cwd, "write", 0, 0) = "allowed"
       => /\ ~IsWithinRoot(roots["source"], Normalize(config.cwd))
          /\ \/ IsWithinRoot(roots["worktree"], Normalize(config.cwd))
             \/ IsWithinRoot(roots["artifact"], Normalize(config.cwd))
=============================================================================
