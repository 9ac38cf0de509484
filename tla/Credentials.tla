---------------------------- MODULE Credentials ----------------------------
(***************************************************************************)
(* Credentials: the Slack bot tokens the API keeps encrypted in its store  *)
(* and posts with, the health it derives for a credential, and the broker  *)
(* that leases credentials for a while.  Times are numbers; a value that   *)
(* may be absent is {} or {v}; a call that throws has no result ({}).      *)
(* One organisation.  Ciphers are modelled by what opens them: the key and *)
(* the additional data they were made with.                                *)
(***************************************************************************)
EXTENDS Integers, Sequences, FiniteSets, FiniteSetsExt

CONSTANTS
  Teams,          \* Slack workspaces
  Vaults,         \* configurations of the vault: {} or {[key, keyId]}
  Records,        \* credentials offered to the broker: [id, status, expiresAt, rotationDueAt, scopes]
  RequiredScopes, \* what health is asked to require
  Ttls,           \* requested lifetimes: {} or {n}
  DefaultTtl, MaxTtl,
  MaxAttempts,    \* how often one message is posted (maxPostAttempts)
  MaxNow, MaxOps  \* bounds on the clock and on the operations

VARIABLES
  now,
  env,      \* [vault, token]: what the process was started with
  store,    \* [installs, credential]: installs newest first, a credential per team
  leases,   \* the broker's map, a sequence: a lease's id is its index
  hist,     \* operations, tokens issued and revoked, requests sent, what the broker answered
  retries   \* messages about to be posted again: the client of each, and its attempts so far

vars == <<now, env, store, leases, hist, retries>>

EnvToken == 0   \* SLACK_BOT_TOKEN; the ones Slack issues are 1, 2, ...
None == [status |-> "none"]
AtMost(limit, n) == Min({n} \cup limit)

-----------------------------------------------------------------------------
(* The vault *)

credentialEncryptionContext(credentialId, team) ==
  [orgId |-> "org", credentialId |-> credentialId, provider |-> "slack", aad |-> team]
buildCredentialMetadataAad(context) ==
  {<<f, context[f]>> : f \in {"orgId", "credentialId", "provider", "aad"}}

encrypt(vault, token, context) ==
  [keyId |-> vault.keyId, sealed |-> [key |-> vault.key, aad |-> buildCredentialMetadataAad(context)],
   token |-> token, intact |-> TRUE]
assertSupportedEnvelope(envelope, keyId) == envelope.keyId = keyId
decrypt(vault, envelope, context) ==
  {envelope.token : x \in {v \in {vault} :
     /\ assertSupportedEnvelope(envelope, v.keyId) /\ envelope.intact
     /\ envelope.sealed = [key |-> v.key, aad |-> buildCredentialMetadataAad(context)]}}

credentialIdOf(team) == <<"credential_slack_bot", team>>
encryptSlackBotToken(vault, team, token) ==
  encrypt(vault, token, credentialEncryptionContext(credentialIdOf(team), team))
decryptSlackBotToken(vault, c) ==
  decrypt(vault, c.envelope, credentialEncryptionContext(c.id, c.externalAccountId))

-----------------------------------------------------------------------------
(* Slack installs *)

installOf(s, team) == {i \in {s.installs[k] : k \in DOMAIN s.installs} : i.team = team}
upsertInstall(s, team, status) ==
  IF installOf(s, team) = {}
    THEN [s EXCEPT !.installs = <<[team |-> team, status |-> status]>> \o @]
    ELSE [s EXCEPT !.installs = [k \in DOMAIN @ |-> IF @[k].team = team THEN [@[k] EXCEPT !.status = status] ELSE @[k]]]

(* The store redacts what looks like a secret in the metadata it is given, *)
(* the envelope's ciphertext included.                                     *)
persistSlackInstall(s, vault, team, token, looksSecret) ==
  [upsertInstall(s, team, "active") EXCEPT !.credential[team] =
     [id |-> credentialIdOf(team), externalAccountId |-> team, status |-> "active", lastUsedAt |-> {},
      envelope |-> [encryptSlackBotToken(vault, team, token) EXCEPT !.intact = ~looksSecret]]]

Tick == now < MaxNow /\ now' = now + 1 /\ UNCHANGED <<env, store, leases, hist, retries>>

Counted(h) == h.ops < MaxOps
Step(h) == [h EXCEPT !.ops = @ + 1]

(* The end of the OAuth callback; a vault is required.                     *)
OAuthInstalled(team, looksSecret) ==
  /\ Counted(hist)
  /\ \E vault \in env.vault :
       store' = persistSlackInstall(store, vault, team, hist.ops, looksSecret)
  /\ hist' = [Step(hist) EXCEPT !.latest[team] = {hist.ops}]
  /\ UNCHANGED <<now, env, leases, retries>>

ManualInstall(team) ==
  /\ Counted(hist)
  /\ store' = upsertInstall(store, team, "active")
  /\ hist' = Step(hist)
  /\ UNCHANGED <<now, env, leases, retries>>

revokeActiveSlackCredentials(s, team) ==
  IF s.credential[team].status # "active" THEN s ELSE [s EXCEPT !.credential[team].status = "revoked"]

WorkspaceLifecycleEvent(team, event) ==
  /\ Counted(hist) /\ installOf(store, team) # {}
  /\ store' = revokeActiveSlackCredentials(
                IF event = "app_uninstalled" THEN upsertInstall(store, team, "revoked") ELSE store, team)
  /\ hist' = [Step(hist) EXCEPT !.latest[team] = {}]
  /\ UNCHANGED <<now, env, leases, retries>>

(* Revoked tokens are found too.                                           *)
latestActiveSlackCredential_Any(s, team) == {c \in {s.credential[team]} : c.status # "none"}
latestActiveSlackCredential(s, team) == {c \in {s.credential[team]} : c.status = "active"}

resolveStoredSlackBotToken(team) ==
  UNION {UNION {decryptSlackBotToken(v, c) : v \in env.vault}
         : c \in UNION {latestActiveSlackCredential(store, i.team) : i \in {x \in installOf(store, team) : x.status = "active"}}}
resolveClient(team) == IF resolveStoredSlackBotToken(team) # {} THEN resolveStoredSlackBotToken(team) ELSE env.token

(* A message is sent with the client resolved in the same turn; while     *)
(* Slack's answer allows another attempt, this client sends it again, with *)
(* awaits and a sleep in between.                                          *)
Sent(h, d) ==
  [h EXCEPT !.posts = @ \cup {[token |-> d.token, latest |-> h.latest[d.team],
                               resolved |-> d.resolved, retry |-> d.attempts > 1]}]
Again(d) == SUBSET {x \in {d} : x.attempts < MaxAttempts}

Post(team) ==
  /\ Counted(hist)
  /\ \E t \in resolveClient(team) :
       LET d == [team |-> team, token |-> t, resolved |-> hist.latest[team], attempts |-> 1]
       IN  /\ hist' = Sent(Step(hist), d)
           /\ \E more \in Again(d) : retries' = retries \cup more
  /\ UNCHANGED <<now, env, store, leases>>

Retry(d) ==
  LET next == [d EXCEPT !.attempts = @ + 1]
  IN  /\ hist' = Sent(hist, next)
      /\ \E more \in Again(next) : retries' = (retries \ {d}) \cup more
      /\ UNCHANGED <<now, env, store, leases>>

(* Of the newest install only; here an envelope that does not open throws. *)
resolveSlackDiscoveryClient ==
  LET install == {i \in {store.installs[k] : k \in DOMAIN store.installs \cap {1}} : i.status = "active"}
      usable  == UNION {latestActiveSlackCredential(store, i.team) : i \in install}
      tokens  == UNION {UNION {decryptSlackBotToken(v, c) : v \in env.vault} : c \in usable}
  IN  IF usable # {} /\ env.vault # {} THEN tokens ELSE env.token

(* Channels are listed once, in the turn the client is resolved in.        *)
Discover ==
  /\ Counted(hist)
  /\ \E t \in resolveSlackDiscoveryClient :
       LET team == IF store.installs = <<>> THEN {} ELSE hist.latest[store.installs[1].team]
       IN  hist' = [Step(hist) EXCEPT !.posts =
             @ \cup {[token |-> t, latest |-> team, resolved |-> team, retry |-> FALSE]}]
  /\ UNCHANGED <<now, env, store, leases, retries>>

(* A restart with another configuration; the broker's leases and the       *)
(* messages that wait to be sent again are lost.                           *)
Restart(vault) ==
  /\ Counted(hist) /\ vault # env.vault
  /\ env' = [env EXCEPT !.vault = vault]
  /\ leases' = <<>> /\ retries' = {} /\ hist' = [Step(hist) EXCEPT !.ended = {}, !.answers = {}]
  /\ UNCHANGED <<now, store>>

-----------------------------------------------------------------------------
(* Health *)

parseScopeSummary(c) == c.scopes
computeMissingScopes(c, required) == required \ parseScopeSummary(c)
collectActiveLeaseIds(c, listed, at) ==
  {l \in DOMAIN listed : listed[l].credential.id = c.id /\ listed[l].status = "active" /\ listed[l].expiresAt > at}

(* Expired only after the moment it expires.                               *)
expiredAt_After(c, at) == \E e \in c.expiresAt : e < at
expiredAt(c, at) == \E e \in c.expiresAt : e <= at

deriveCredentialHealth(c, at, required) ==
  CASE c.status = "revoked"  -> "revoked"
    [] c.status = "disabled" -> "disabled"
    [] c.status \notin {"revoked", "disabled"} /\ expiredAt(c, at) -> "expired"
    [] OTHER -> IF computeMissingScopes(c, required) # {} THEN "missing_scopes"
                ELSE IF c.status = "rotation_due" \/ \E r \in c.rotationDueAt : r <= at THEN "rotation_due" ELSE "active"
isLeaseableCredentialHealthState(state) == state \in {"active", "rotation_due"}

(* POST /api/credentials/:id/lease marks the credential used, and hands    *)
(* out nothing.                                                            *)
PostLease(team) ==
  /\ Counted(hist) /\ store.credential[team].status # "none"
  /\ LET c == store.credential[team]
         record == [status |-> c.status, expiresAt |-> {}, rotationDueAt |-> {}, scopes |-> {}]
     IN  /\ isLeaseableCredentialHealthState(deriveCredentialHealth(record, now, {}))
         /\ store' = [store EXCEPT !.credential[team].lastUsedAt = {now}]
  /\ hist' = Step(hist)
  /\ UNCHANGED <<now, env, leases, retries>>

-----------------------------------------------------------------------------
(* The broker *)

isLeaseableCredentialStatus(status) == status \in {"active", "rotation_due"}
normalizeTtlMs(ttl) == {n \in (IF ttl = {} THEN {DefaultTtl} ELSE ttl) : 0 < n /\ n <= MaxTtl}

(* An audit reference is a copy of what the lease was when it was made.    *)
createLeaseAuditReference(lease) == [status |-> lease.status, expiresAt |-> lease.expiresAt]
Audited(lease) == [lease EXCEPT !.auditRef = createLeaseAuditReference(lease)]

issued(c, ttl, at) ==
  {Audited([credential |-> c, issuedAt |-> at, expiresAt |-> AtMost(c.expiresAt, at + n),
            renewedAt |-> at, status |-> "active", auditRef |-> {}])
   : n \in {x \in normalizeTtlMs(ttl) : isLeaseableCredentialStatus(c.status) /\ ~\E e \in c.expiresAt : e <= at}}

expireIfNeeded(lease, at) ==
  IF lease.status = "active" /\ lease.expiresAt <= at THEN Audited([lease EXCEPT !.status = "expired"]) ELSE lease

IssueLease(c, ttl) ==
  /\ Counted(hist)
  /\ \E lease \in issued(c, ttl, now) : leases' = Append(leases, lease)
  /\ hist' = Step(hist)
  /\ UNCHANGED <<now, env, store, retries>>

(* A renewed lease may outlive its credential.                             *)
renewed_Uncapped(lease, ttl, at) ==
  {Audited([lease EXCEPT !.expiresAt = at + n, !.renewedAt = at]) : n \in normalizeTtlMs(ttl)}
renewed(lease, ttl, at) ==
  {x \in {Audited([lease EXCEPT !.expiresAt = AtMost(lease.credential.expiresAt, at + n), !.renewedAt = at])
          : n \in normalizeTtlMs(ttl)} : x.expiresAt > at}

(* What a call told of a lease: it is over, or it holds at a time.         *)
Over(h, ids) == [Step(h) EXCEPT !.ended = @ \cup ids]

RenewLease(id, ttl) ==
  /\ Counted(hist)
  /\ LET lease == expireIfNeeded(leases[id], now)
     IN  IF lease.status # "active" THEN leases' = [leases EXCEPT ![id] = lease] /\ hist' = Over(hist, {id})
         ELSE \E x \in renewed(lease, ttl, now) : leases' = [leases EXCEPT ![id] = x] /\ hist' = Step(hist)
  /\ UNCHANGED <<now, env, store, retries>>

RevokeLease(id, at) ==
  /\ Counted(hist)
  /\ LET lease == expireIfNeeded(leases[id], at)
     IN  leases' = [leases EXCEPT ![id] =
           IF lease.status = "active" THEN Audited([lease EXCEPT !.status = "revoked"]) ELSE lease]
  /\ hist' = Over(hist, {id})
  /\ UNCHANGED <<now, env, store, retries>>

(* getLease, resolveLeaseTarget: the reader names the time it asks for.    *)
ResolveLeaseTarget(id, at) ==
  /\ Counted(hist)
  /\ LET lease == expireIfNeeded(leases[id], at)
     IN  /\ leases' = [leases EXCEPT ![id] = lease]
         /\ hist' = IF lease.status # "active" THEN Over(hist, {id})
                    ELSE [Step(hist) EXCEPT !.answers = @ \cup {[id |-> id, at |-> at, over |-> id \in hist.ended]}]
  /\ UNCHANGED <<now, env, store, retries>>

(* listActiveLeases, sweepExpired                                          *)
SweepExpired(at) ==
  /\ Counted(hist) /\ leases # <<>>
  /\ leases' = [id \in DOMAIN leases |-> expireIfNeeded(leases[id], at)]
  /\ hist' = Over(hist, {id \in DOMAIN leases : leases'[id].status # "active"})
  /\ UNCHANGED <<now, env, store, retries>>

-----------------------------------------------------------------------------

Init ==
  /\ now = 0 /\ leases = <<>> /\ retries = {}
  /\ env \in [vault : Vaults, token : {{}, {EnvToken}}]
  /\ store = [installs |-> <<>>, credential |-> [t \in Teams |-> None]]
  /\ hist = [ops |-> 1, latest |-> [t \in Teams |-> {}], posts |-> {}, ended |-> {}, answers |-> {}]

Next ==
  \/ Tick \/ Discover
  \/ \E t \in Teams :
       \/ \E b \in BOOLEAN : OAuthInstalled(t, b)
       \/ \E e \in {"app_uninstalled", "tokens_revoked"} : WorkspaceLifecycleEvent(t, e)
       \/ ManualInstall(t) \/ Post(t) \/ PostLease(t)
  \/ \E d \in retries : Retry(d)
  \/ \E v \in Vaults : Restart(v)
  \/ \E c \in Records, ttl \in Ttls : IssueLease(c, ttl)
  \/ \E id \in DOMAIN leases :
       \/ \E ttl \in Ttls : RenewLease(id, ttl)
       \/ \E at \in 0..MaxNow : RevokeLease(id, at) \/ ResolveLeaseTarget(id, at)
  \/ \E at \in 0..MaxNow : SweepExpired(at)

Spec == Init /\ [][Next]_vars

-----------------------------------------------------------------------------
(* A message is posted and channels are listed with the token Slack last   *)
(* issued to that workspace, if nothing has revoked it since, or with the  *)
(* environment's, whatever installs, revocations and restarts with other   *)
(* keys came before.  Only a message sent again may carry an older token,  *)
(* and then it is the one that was the last when the message was first     *)
(* sent: never another workspace's, and none that was revoked by then.     *)
PostsCurrentToken ==
  \A p \in hist.posts :
    \/ p.token = EnvToken
    \/ {p.token} = p.latest
    \/ p.retry /\ {p.token} = p.resolved

(* A lease some call has found revoked or expired is over for every later  *)
(* call; one that is not over ends with its credential and MaxTtl after it *)
(* was last renewed at the latest; none is handed out for a time at which  *)
(* it has ended; and its audit reference says what the lease is.           *)
LeasesEnd ==
  /\ \A id \in DOMAIN leases :
       LET lease == leases[id]
       IN  /\ lease.status = "active" =>
                /\ id \notin hist.ended
                /\ lease.expiresAt <= AtMost(lease.credential.expiresAt, lease.renewedAt + MaxTtl)
           /\ lease.auditRef = createLeaseAuditReference(lease)
  /\ \A a \in hist.answers : ~a.over /\ \A e \in leases[a.id].credential.expiresAt : a.at < e

(* Health calls a credential leaseable exactly when the broker would lease *)
(* it at that time, and lists as its active leases exactly those a call at *)
(* that time would hand out.                                               *)
HealthMatchesBroker ==
  \A c \in Records :
    /\ isLeaseableCredentialHealthState(deriveCredentialHealth(c, now, {})) <=> issued(c, {}, now) # {}
    /\ RequiredScopes \subseteq c.scopes =>
         deriveCredentialHealth(c, now, RequiredScopes) = deriveCredentialHealth(c, now, {})
    /\ collectActiveLeaseIds(c, leases, now) =
         {id \in DOMAIN leases : leases[id].credential.id = c.id /\ expireIfNeeded(leases[id], now).status = "active"}

=============================================================================
