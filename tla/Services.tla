------------------------------ MODULE Services ------------------------------
(***************************************************************************)
(* Services around the queue, side by side.  They share no state: `unit'   *)
(* says which of them a behaviour is about, and the variables s1, s2, ...  *)
(* stand for that one's own (0 where it has fewer).  These are the ones    *)
(* whose theorems are proved; MCServices adds the others.                  *)
(***************************************************************************)
EXTENDS Integers, Sequences, FiniteSets

CONSTANTS
  \* of Sandbox
  SandboxWorkers, SandboxAttempts, SandboxExpired, SandboxPolicies, SandboxTargets, SandboxPaths,
  \* of AdminAuth
  ApiRequests, ApiConfigs, ApiPrincipals, ApiWeakTokens, ApiMaxBody, ApiRateLimit, ApiWindow, ApiMaxBuckets,
  ApiSessionTtl, ApiMaxNow, ApiMaxRequests,
  \* of Credentials
  CredentialTeams, CredentialVaults, CredentialRecords, CredentialScopes, CredentialTtls,
  CredentialDefaultTtl, CredentialMaxTtl, CredentialMaxAttempts, CredentialMaxNow, CredentialMaxOps,
  \* of GitHubDraftPr
  PullWorkers, PullProposals, PullTokenAnswers, PullRedacted, PullMaxAttempts, PullMaxFaults, PullMaxOutside,
  \* of SlackIngress
  SlackOps, SlackMapped, SlackDisabled, SlackMaxOps, SlackMaxTries, SlackMaxFaults,
  \* of Workspace
  WorkHome, WorkExternals, WorkLowerCase, WorkResources, WorkServers, WorkBudgets, WorkPolicies,
  WorkBodies, WorkKeys, WorkMaxOps,
  \* of SaveChain
  SaveFlushers, SaveMaxChanges

(* "none" stands for no worker, and a run is attempted at all. *)
ASSUME SandboxAssumption == "none" \notin SandboxWorkers /\ SandboxAttempts \in Nat \ {0}

(* Both limits are read by parsePositiveInteger, which lets zero through. *)
ASSUME ApiAssumption == ApiRateLimit \in Nat /\ ApiWindow \in Nat /\ ApiMaxNow \in Nat

(* A credential has one of the code's statuses and expires at a time or never;
   the broker refuses a default lifetime that is not within its limit. *)
ASSUME CredentialAssumption ==
  /\ \A c \in CredentialRecords :
       /\ c.status \in {"active", "disabled", "rotation_due", "revoked"}
       /\ \A at \in c.expiresAt : at \in Nat /\ c.expiresAt = {at}
  /\ \A ttl \in CredentialTtls : ttl \subseteq Int
  /\ CredentialMaxTtl \in Nat /\ CredentialDefaultTtl \in 1..CredentialMaxTtl

ASSUME SaveAssumption == SaveMaxChanges \in Nat

VARIABLES unit, s1, s2, s3, s4, s5, s6

vars == <<unit, s1, s2, s3, s4, s5, s6>>

-----------------------------------------------------------------------------
(* Sandbox *)

Sbx == INSTANCE Sandbox WITH
  Workers <- SandboxWorkers, MaxAttempts <- SandboxAttempts, MaxExpired <- SandboxExpired,
  Policies <- SandboxPolicies, Targets <- SandboxTargets, Paths <- SandboxPaths,
  policy <- s1, config <- s2, queue <- s3, docker <- s4, worker <- s5, faults <- s6

(* A command runs in the container its own worker created and nobody removed
   (DockerSandboxProvider.create and destroy, which go by name). *)
RunsInOwnContainer == unit = "sandbox" => Sbx!RunsInOwnContainer
(* Only a failed docker call or a crash leaves a container that nobody is going
   to destroy (the paths through the worker's sandbox adapter). *)
LeftBehindOnlyByFaults == unit = "sandbox" => Sbx!LeftBehindOnlyByFaults
(* What evaluateEgressPolicy allows is covered by the container's allowlist and
   is no metadata service or private address. *)
EgressNeverWider == unit = "sandbox" => Sbx!EgressNeverWider
(* evaluateFilesystemAccess lets no write into what is mounted as source,
   however mounts are nested, nor outside of them. *)
SourceNeverWritten == unit = "sandbox" => Sbx!SourceNeverWritten

-----------------------------------------------------------------------------
(* The API's middleware *)

Adm == INSTANCE AdminAuth WITH
  Requests <- ApiRequests, Configs <- ApiConfigs, Principals <- ApiPrincipals, WeakTokens <- ApiWeakTokens,
  MaxBody <- ApiMaxBody, RateLimit <- ApiRateLimit, Window <- ApiWindow, MaxBuckets <- ApiMaxBuckets,
  SessionTtl <- ApiSessionTtl, MaxNow <- ApiMaxNow, MaxRequests <- ApiMaxRequests,
  env <- s1, now <- s2, buckets <- s3, cookies <- s4, arrived <- s5, acts <- s6

(* In no stretch of a window's length is a peer served more than twice the
   limit, although other peers' requests prune the buckets (consumeRateLimit). *)
RateKept == unit = "admin" => Adm!RateKept
(* What is served is within the scopes of the role of the token that opened the
   session, through any number of renewals, and no cookie is used past its time. *)
ActsWithinRole == unit = "admin" => Adm!ActsWithinRole

-----------------------------------------------------------------------------
(* Credentials *)

Crd == INSTANCE Credentials WITH
  Teams <- CredentialTeams, Vaults <- CredentialVaults, Records <- CredentialRecords,
  RequiredScopes <- CredentialScopes, Ttls <- CredentialTtls, DefaultTtl <- CredentialDefaultTtl,
  MaxTtl <- CredentialMaxTtl, MaxAttempts <- CredentialMaxAttempts, MaxNow <- CredentialMaxNow, MaxOps <- CredentialMaxOps,
  now <- s1, env <- s2, store <- s3, leases <- s4, hist <- s5, retries <- s6

(* A message is posted with the token Slack last issued to the workspace, if it
   is not revoked, or with the environment's; sent again, with the one it was
   first sent with (latestActiveSlackCredential, postMessageWithRetry). *)
PostsCurrentToken == unit = "credentials" => Crd!PostsCurrentToken
(* A lease found over stays over, ends with its credential, and is handed out at
   no time at which it has ended (the lease broker's renewals and sweeps). *)
LeasesEnd == unit = "credentials" => Crd!LeasesEnd
(* deriveCredentialHealth calls a credential leaseable exactly when the broker
   would lease it, and lists exactly the leases it would hand out. *)
HealthMatchesBroker == unit = "credentials" => Crd!HealthMatchesBroker

-----------------------------------------------------------------------------
(* Draft pull requests *)

Pr == INSTANCE GitHubDraftPr WITH
  Workers <- PullWorkers, Proposals <- PullProposals, TokenAnswers <- PullTokenAnswers,
  Redacted <- PullRedacted, MaxAttempts <- PullMaxAttempts, MaxFaults <- PullMaxFaults,
  MaxOutside <- PullMaxOutside,
  client <- s1, run <- s2, repo <- s3, worker <- s4, counts <- s5

(* What Bek commits is, to the letter, what was planned and approved, although
   the plan is built again from a redacted payload. *)
CommitsAsApproved == unit = "pull" => Pr!CommitsAsApproved
(* Attempts one after another or side by side, with answers lost, make one
   commit on the branch and one pull request, until it is merged and the branch
   deleted (the REST client's steps). *)
OneCommitOnePullRequest == unit = "pull" => Pr!OneCommitOnePullRequest

-----------------------------------------------------------------------------
(* Slack callbacks *)

Ing == INSTANCE SlackIngress WITH
  Ops <- SlackOps, Mapped <- SlackMapped, DisabledPlaces <- SlackDisabled,
  MaxOps <- SlackMaxOps, MaxTries <- SlackMaxTries, MaxFaults <- SlackMaxFaults,
  store <- s1, saved <- s2, chain <- s3, inbox <- s4, requests <- s5, seen <- s6

(* However often Slack delivers a callback it starts one run, and one more only
   for each request whose flush failed or a restart cut short. *)
OneRunPerCallback == unit = "slack" => Ing!OneRunPerCallback
(* The code of an OAuth redirect is exchanged once, whatever the browser repeats
   and whenever the process stops, unless a save fails. *)
StateExchangedOnce == unit = "slack" => Ing!StateExchangedOnce
(* What a callback caused is persisted before it is acknowledged
   (docs/setup/slack.md). *)
AnsweredIsWritten == unit = "slack" => Ing!AnsweredIsWritten
(* Mentions in a channel Bek has left create no run until it rejoins
   (docs/setup/slack.md). *)
LeftChannelsStayQuiet ==
  [][unit = "slack" => Ing!QuietStep]_vars

-----------------------------------------------------------------------------
(* The workspace *)

Ws == INSTANCE Workspace WITH
  Home <- WorkHome, Externals <- WorkExternals, LowerCase <- WorkLowerCase, Resources <- WorkResources,
  Servers <- WorkServers, Budgets <- WorkBudgets, Policies <- WorkPolicies, Bodies <- WorkBodies,
  Keys <- WorkKeys, MaxOps <- WorkMaxOps,
  places <- s1, bundles <- s2, runs <- s3, connectors <- s4, memory <- s5, ops <- s6

(* Deleting channels leaves no bundle and no run that points at one
   (deletePlace); external ids in a bundle are set aside. *)
ReferencesResolve == unit = "workspace" => Ws!ReferencesResolve
(* Memory kept for one place and no identity is given to no other place, and a
   restricted channel is given nothing that is the workspace's (evaluateChunk). *)
MemoryConfined == unit = "workspace" => Ws!MemoryConfined
(* Requests with the same Idempotency-Key make one run (POST /api/runs). *)
OneRunPerKey == unit = "workspace" => Ws!OneRunPerKey

-----------------------------------------------------------------------------
(* Saving: the queue's and the store's promise chains *)

Sav == INSTANCE SaveChain WITH
  Flushers <- SaveFlushers, MaxChanges <- SaveMaxChanges,
  chain <- s1, made <- s2, flushers <- s3, told <- s4

(* A change that is not in the database has left an error for the next flush, or
   some request was given it (recordChange, flushChanges). *)
NoSilentLoss == unit = "save" => Sav!NoSilentLoss
(* A request whose flush returned has its changes in the database, unless the
   error went to another that flushed at the same time (flushChanges). *)
ReturnedIsSavedOrTold == unit = "save" => Sav!ReturnedIsSavedOrTold
(* A flush that returned has its changes in the database (docs/setup/slack.md). *)
ReturnedIsSaved == unit = "save" => Sav!ReturnedIsSaved
(* The database never goes back to an older snapshot (recordChange). *)
SavedGrows == [][unit = "save" => s1'.saved >= s1.saved]_vars

-----------------------------------------------------------------------------

Starts ==
  \/ unit = "sandbox" /\ Sbx!Init
  \/ unit = "admin" /\ Adm!Init
  \/ unit = "credentials" /\ Crd!Init
  \/ unit = "pull" /\ Pr!Init /\ s6 = 0
  \/ unit = "slack" /\ Ing!Init
  \/ unit = "workspace" /\ Ws!Init
  \/ unit = "save" /\ Sav!Init /\ s5 = 0 /\ s6 = 0

Steps ==
  \/ unit = "sandbox" /\ Sbx!Next
  \/ unit = "admin" /\ Adm!Next
  \/ unit = "credentials" /\ Crd!Next
  \/ unit = "pull" /\ Pr!Next /\ UNCHANGED s6
  \/ unit = "slack" /\ Ing!Next
  \/ unit = "workspace" /\ Ws!Next
  \/ unit = "save" /\ Sav!Next /\ UNCHANGED <<s5, s6>>

Spec == Starts /\ [][UNCHANGED unit /\ Steps]_vars
=============================================================================
