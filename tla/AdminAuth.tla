------------------------------ MODULE AdminAuth ------------------------------
(***************************************************************************)
(* What stands before every API route: the limits on a request's size and  *)
(* on a peer's rate, and who may do what: the bootstrap token, tokens with *)
(* a role, and signed session cookies that a signed-in caller obtains.     *)
(* A request passes the middleware in one step; time passes in between.    *)
(***************************************************************************)
EXTENDS Integers, Sequences, FiniteSets, SequencesExt, FiniteSetsExt

CONSTANTS
  Requests,     \* [method, path, peer, size, token, cookie, csrf]: what callers send
  Configs,      \* the environments the API may be started with
  Principals,   \* human principals of the workspace
  WeakTokens,   \* placeholders, and tokens too short for production
  MaxBody, RateLimit, Window, MaxBuckets, SessionTtl,
  MaxNow, MaxRequests

VARIABLES
  env,       \* [bootstrap, roleTokens, sessions, local, production, trustProxy]
  now,
  buckets,   \* rate limit: key -> [count, resetAt]
  cookies,   \* session cookies issued, oldest first
  arrived,   \* history: [key, at, allowed] of the requests the rate limit looked at
  acts       \* history: [path, method, role, cookie] of the requests that were served

vars == <<env, now, buckets, cookies, arrived, acts>>

-----------------------------------------------------------------------------
(* Roles *)

configScopes ==
  {"slack.manage", "github.manage", "models.manage", "mcp.manage", "credentials.manage",
   "connectors.manage", "channels.manage", "access.manage", "runtime.manage", "settings.manage"}
ALL_SCOPES ==
  configScopes \cup {"worker.operate", "writes.approve", "runs.create", "runs.cancel",
                     "audit.view", "audit.export", "billing.manage"}
ROLE_SCOPES ==
  [ owner         |-> ALL_SCOPES,
    admin         |-> ALL_SCOPES \ {"billing.manage"},
    operator      |-> {"worker.operate", "writes.approve", "runs.create", "runs.cancel", "audit.view"},
    approver      |-> {"writes.approve", "audit.view"},
    developer     |-> {"runs.create", "audit.view"},
    viewer        |-> {"audit.view"},
    billing_admin |-> {"billing.manage", "audit.view"} ]
isRole(role) == role \in DOMAIN ROLE_SCOPES
roleHasScope(role, scope) == scope \in ROLE_SCOPES[role]

(* The scope a request needs, "" when any role will do.  Paths are without *)
(* their first part, /api.                                                 *)
isUnsafeWriteMethod(method) == method \in {"POST", "PATCH", "PUT", "DELETE"}
Under(path, prefix) == IsPrefix(prefix, path)
requiredScopeForRequest(method, path) ==
  CASE Under(path, <<"auth">>) -> ""
    [] Under(path, <<"audit-events", "export">>) -> "audit.export"
    [] OTHER ->
  CASE ~isUnsafeWriteMethod(method) -> ""
    [] Len(path) = 3 /\ path[1] = "approvals" /\ path[3] \in {"approve", "deny"} -> "writes.approve"
    [] Len(path) = 3 /\ path[1] = "runs" /\ path[3] = "cancel" -> "runs.cancel"
    [] path = <<"runs">> -> "runs.create"
    [] (path[1] \in {"worker", "outbound"} /\ Len(path) > 1) \/ "dead-letter" \in Range(path) -> "worker.operate"
    [] Under(path, <<"connectors", "mcp">>) -> "mcp.manage"
    [] path[1] = "connectors" /\ ~Under(path, <<"connectors", "mcp">>) -> "connectors.manage"
    [] path[1] = "slack" -> "slack.manage"
    [] path[1] = "github" -> "github.manage"
    [] path[1] = "channels" -> "channels.manage"
    [] path[1] = "access-bundles" -> "access.manage"
    [] path[1] = "model-policies" -> "models.manage"
    [] path[1] = "runtime-profiles" -> "runtime.manage"
    [] OTHER -> "settings.manage"

isSlackPublicCallback(path) ==
  path \in {<<"slack", "events">>, <<"slack", "oauth", "callback">>,
            <<"slack", "interactivity">>, <<"slack", "commands">>}
isGitHubPublicWebhookCallback(path) == path = <<"github", "webhooks">>
isPublicApiCallback(path) == isSlackPublicCallback(path) \/ isGitHubPublicWebhookCallback(path)

-----------------------------------------------------------------------------
(* Size and rate *)

(* The size a caller declares may be missing (0) or wrong: what is read is *)
(* counted too.                                                            *)
readRequestBodyWithinLimit(r) == r.declared <= MaxBody /\ r.size <= MaxBody

requestPeerKey(r) == IF env.trustProxy THEN r.peer ELSE "direct"
rateLimitKey(r) ==
  [class |-> CASE isSlackPublicCallback(r.path) -> "slack"
               [] isGitHubPublicWebhookCallback(r.path) -> "github"
               [] OTHER -> "api",
   peer |-> requestPeerKey(r)]

Drop(keys) == [k \in DOMAIN buckets \ keys |-> buckets[k]]
(* Pruning that makes room whatever the buckets still count.               *)
pruneExpiredRateLimitBuckets_All == Drop(DOMAIN buckets)
pruneExpiredRateLimitBuckets == Drop({k \in DOMAIN buckets : buckets[k].resetAt <= now})

(* A limit of zero switches the limit off.                                 *)
rateLimitConfig == [enabled |-> RateLimit > 0, maxRequests |-> RateLimit, windowMs |-> Window]

consumeRateLimit(r) ==
  LET key    == rateLimitKey(r)
      left   == IF Cardinality(DOMAIN buckets) > MaxBuckets THEN pruneExpiredRateLimitBuckets ELSE buckets
      bucket == IF key \in DOMAIN left /\ left[key].resetAt > now THEN left[key]
                ELSE [count |-> 0, resetAt |-> now + rateLimitConfig.windowMs]
      next   == [bucket EXCEPT !.count = @ + 1]
  IN  IF ~rateLimitConfig.enabled THEN [allowed |-> TRUE, buckets |-> buckets]
      ELSE [allowed |-> next.count <= rateLimitConfig.maxRequests,
            buckets |-> [k \in DOMAIN left \cup {key} |-> IF k = key THEN next ELSE left[k]]]

-----------------------------------------------------------------------------
(* Who is calling.  {} is a refusal; otherwise the one context.            *)

Context(role, principal, cookie) == [role |-> role, principal |-> principal, cookie |-> cookie]

(* A signed cookie holds its role, its principal and its CSRF value, which *)
(* is the cookie's own number here.                                        *)
createSessionToken(context) ==
  [role |-> context.role, principal |-> context.principal, issuedAt |-> now,
   expiresAt |-> now + SessionTtl, from |-> context.cookie]
verifySessionToken(r) ==
  env.sessions /\ r.cookie \in 1..Len(cookies) /\ now < cookies[r.cookie].expiresAt

resolveAdminAuthContext(role, principal) ==
  IF principal \in Principals THEN {Context(role, principal, 0)} ELSE {}

(* Entries without a token or with an unknown role are left out.           *)
parseRoleApiTokens == SelectSeq(env.roleTokens, LAMBDA t : t.token # "" /\ isRole(t.role))
matchRoleApiToken(r) ==
  LET matches == SelectSeq(parseRoleApiTokens, LAMBDA t : t.token = r.token)
  IN  IF matches = <<>> THEN {} ELSE {Head(matches)}

allowsUnauthenticatedLocalAdminApi == env.local /\ ~env.production
unsafeAdminApiTokenReason(token) == env.production /\ token \in WeakTokens

TokenAuth(r) ==
  CASE env.bootstrap = "" /\ parseRoleApiTokens = <<>> ->
         IF allowsUnauthenticatedLocalAdminApi THEN resolveAdminAuthContext("owner", "admin") ELSE {}
    [] env.bootstrap # "" /\ unsafeAdminApiTokenReason(env.bootstrap) -> {}
    [] env.bootstrap # "" /\ ~unsafeAdminApiTokenReason(env.bootstrap) /\ r.token = env.bootstrap ->
         resolveAdminAuthContext("owner", "admin")
    [] OTHER -> UNION {resolveAdminAuthContext(t.role, t.principal) : t \in matchRoleApiToken(r)}

(* With a valid cookie a write needs the cookie's own CSRF value, and no   *)
(* token is looked at.                                                     *)
Authenticated(r) ==
  IF verifySessionToken(r)
    THEN IF isUnsafeWriteMethod(r.method) /\ r.path[1] # "auth" /\ r.csrf # r.cookie THEN {}
         ELSE {Context(cookies[r.cookie].role, cookies[r.cookie].principal, r.cookie)}
    ELSE TokenAuth(r)

(* Any caller who is known may act.                                        *)
Authorized_AnyRole(r) == Authenticated(r)
Authorized(r) ==
  {c \in Authenticated(r) :
     requiredScopeForRequest(r.method, r.path) \in {""} \cup ROLE_SCOPES[c.role]}

-----------------------------------------------------------------------------

(* POST /api/auth/session: a cookie for the caller, however authenticated. *)
PostSession(c) == cookies' = Append(cookies, createSessionToken(c))

Serve(r) ==
  IF isPublicApiCallback(r.path) THEN UNCHANGED <<cookies, acts>>
  ELSE /\ \/ Authorized(r) = {} /\ UNCHANGED <<cookies, acts>>
          \/ \E c \in Authorized(r) :
               /\ acts' = acts \cup {[method |-> r.method, path |-> r.path, role |-> c.role, cookie |-> c.cookie, at |-> now]}
               /\ IF r.path = <<"auth", "session">> /\ r.method = "POST" /\ env.sessions
                    THEN PostSession(c) ELSE UNCHANGED cookies

(* The middleware in its order: size, rate (not for OPTIONS), caller.      *)
Request(r) ==
  /\ Len(arrived) < MaxRequests
  /\ readRequestBodyWithinLimit(r)
  /\ IF r.method = "OPTIONS" THEN UNCHANGED <<buckets, cookies, arrived, acts>>
     ELSE LET decision == consumeRateLimit(r)
          IN  /\ buckets' = decision.buckets
              /\ arrived' = Append(arrived, [key |-> rateLimitKey(r), at |-> now, allowed |-> decision.allowed])
              /\ IF decision.allowed THEN Serve(r) ELSE UNCHANGED <<cookies, acts>>
  /\ UNCHANGED <<env, now>>

Tick == now < MaxNow /\ now' = now + 1 /\ UNCHANGED <<env, buckets, cookies, arrived, acts>>

(* The API is started again with another environment.  The rate limit is   *)
(* in memory only, so its history starts again too.                        *)
Restart ==
  /\ \E e \in Configs : e.sessions = env.sessions /\ env' = e /\ e # env
  /\ buckets' = <<>> /\ arrived' = [j \in DOMAIN arrived |-> [arrived[j] EXCEPT !.allowed = FALSE]]
  /\ UNCHANGED <<now, cookies, acts>>

Init ==
  /\ env \in Configs /\ now = 0 /\ buckets = <<>> /\ cookies = <<>>
  /\ arrived = <<>> /\ acts = {}

Next == Tick \/ Restart \/ \E r \in Requests : Request(r)

Spec == Init /\ [][Next]_vars

-----------------------------------------------------------------------------
(* In no stretch of time as long as the window does a peer get more than   *)
(* twice the limit through: the buckets of other peers, and pruning them   *)
(* when there are too many, change nothing about it.                       *)
RateKept ==
  \A k \in {arrived[j].key : j \in 1..Len(arrived)}, t \in 0..MaxNow :
    rateLimitConfig.enabled =>
      Cardinality({j \in 1..Len(arrived) :
        arrived[j].key = k /\ arrived[j].allowed /\ arrived[j].at \in t..(t + Window - 1)}) <= 2 * RateLimit

(* Whatever was served was within the scopes of the role the token that    *)
(* opened the session had, through any number of renewals, and no cookie   *)
(* was used past its time.                                                 *)
ActsWithinRole ==
  \A act \in acts :
    LET first[c \in 0..Len(cookies)] ==
          IF c = 0 THEN 0 ELSE IF cookies[c].from = 0 THEN c ELSE first[cookies[c].from]
        role == IF act.cookie = 0 THEN act.role ELSE cookies[first[act.cookie]].role
    IN  /\ requiredScopeForRequest(act.method, act.path) \in {""} \cup ROLE_SCOPES[role]
        /\ act.cookie # 0 => act.at < cookies[act.cookie].expiresAt
=============================================================================
