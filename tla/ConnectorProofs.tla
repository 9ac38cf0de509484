---------------------------- MODULE ConnectorProofs ----------------------------
(* Theorems about the connectors and what they serve, as three of the Services:
   Credentials, for all workspaces, vaults, credentials and lifetimes;
   SlackIngress, for all callbacks, users and places, and any number of
   deliveries and faults; and Workspace, for all channels, grants and requests. *)
EXTENDS Services, SequenceTheorems, FiniteSetTheorems, WellFoundedInduction, TLAPS

(* The constants and variables of Credentials, by the names they have there. *)
Teams == CredentialTeams
Vaults == CredentialVaults
Records == CredentialRecords
RequiredScopes == CredentialScopes
Ttls == CredentialTtls
DefaultTtl == CredentialDefaultTtl
MaxTtl == CredentialMaxTtl
MaxAttempts == CredentialMaxAttempts
MaxNow == CredentialMaxNow
now == s1
env == s2
store == s3
leases == s4
hist == s5
retries == s6
USE DEF Teams, Vaults, Records, RequiredScopes, Ttls, DefaultTtl, MaxTtl, MaxAttempts, MaxNow
USE DEF now, env, store, leases, hist, retries

Statuses == {"active", "disabled", "rotation_due", "revoked"}
Maybe(S) == {{}} \cup {{x} : x \in S}

(* What the leases' theorems take of the constants: a credential expires at a
   time or never, and a requested lifetime is a number. *)
Offered ==
  /\ \A c \in Records : c.expiresAt \in Maybe(Nat)
  /\ \A ttl \in Ttls : ttl \subseteq Int
  /\ DefaultTtl \in Int /\ MaxTtl \in Int

(* The assumption on the constants says so. *)
LEMMA ConstantsOffered ==
  /\ Offered
  /\ \A c \in Records : c.status \in Statuses
  /\ DefaultTtl \in 1..MaxTtl
<1>1. ASSUME NEW c \in Records PROVE c.expiresAt \in Maybe(Nat)
  <2>1. CASE c.expiresAt = {}
    BY <2>1 DEF Maybe
  <2>2. CASE c.expiresAt # {}
    <3>1. PICK at \in c.expiresAt : TRUE
      BY <2>2
    <3>2. QED
      BY <3>1, CredentialAssumption DEF Maybe
  <2>3. QED
    BY <2>1, <2>2
<1>2. QED
  BY <1>1, CredentialAssumption DEF Offered, Statuses

-----------------------------------------------------------------------------
(* Lemmas about the operators *)

(* The least of a number and of a limit, if there is one. *)
LEMMA AtMostIs ==
  ASSUME NEW limit \in Maybe(Nat), NEW n \in Int
  PROVE  /\ Crd!AtMost(limit, n) \in Int
         /\ Crd!AtMost(limit, n) = n \/ Crd!AtMost(limit, n) \in limit
         /\ Crd!AtMost(limit, n) <= n
         /\ \A e \in limit : Crd!AtMost(limit, n) <= e
<1> DEFINE S == {n} \cup limit
<1>1. S \subseteq Int /\ \A e \in limit : limit = {e}
  BY DEF Maybe
<1>2. \E x \in S : \A y \in S : x =< y
  <2>1. CASE limit = {}
    BY <2>1
  <2>2. CASE limit # {}
    <3>1. PICK e \in limit : TRUE
      BY <2>2
    <3>2. limit = {e} /\ e \in Int
      BY <1>1, <3>1
    <3>3. e =< n \/ n =< e
      BY <3>2
    <3>4. QED
      BY <3>2, <3>3
  <2>3. QED
    BY <2>1, <2>2
<1>3. Crd!Min(S) \in S /\ \A y \in S : Crd!Min(S) =< y
  BY <1>2 DEF Crd!Min
<1>4. QED
  BY <1>1, <1>3 DEF Crd!AtMost

(* What a lifetime is normalised to. *)
LEMMA LifetimesBounded ==
  ASSUME Offered, NEW ttl \in Ttls \cup {{}}, NEW n \in Crd!normalizeTtlMs(ttl)
  PROVE  n \in Int /\ 0 < n /\ n <= MaxTtl
BY DEF Offered, Crd!normalizeTtlMs

-----------------------------------------------------------------------------
(* Leases *)

LeaseStates == {"active", "expired", "revoked"}

(* A lease that ends with its credential, MaxTtl after its last renewal at the
   latest, and whose audit reference is up to date. *)
Sound ==
  {l \in [credential : Records, issuedAt : Nat, expiresAt : Int, renewedAt : Nat,
          status : LeaseStates, auditRef : [status : LeaseStates, expiresAt : Int]] :
     /\ l.auditRef = Crd!createLeaseAuditReference(l)
     /\ l.expiresAt <= l.renewedAt + MaxTtl
     /\ \A e \in l.credential.expiresAt : l.expiresAt <= e}

(* The inductive invariant of the broker: a lease found over is not active. *)
Leasing ==
  /\ leases \in Seq(Sound)
  /\ \A id \in hist.ended : id \in DOMAIN leases /\ leases[id].status # "active"
  /\ \A a \in hist.answers :
       a.id \in DOMAIN leases /\ ~a.over /\ \A e \in leases[a.id].credential.expiresAt : a.at < e

(* expireIfNeeded changes the status of an active lease whose time is over, and nothing else. *)
LEMMA ExpireKeeps ==
  ASSUME NEW l \in Sound, NEW at \in Int
  PROVE  /\ Crd!expireIfNeeded(l, at) \in Sound
         /\ Crd!expireIfNeeded(l, at).credential = l.credential
         /\ l.status # "active" => Crd!expireIfNeeded(l, at) = l
         /\ Crd!expireIfNeeded(l, at).status = "active" <=> l.status = "active" /\ at < l.expiresAt
         /\ Crd!expireIfNeeded(l, at).status = "active" => Crd!expireIfNeeded(l, at) = l
<1>1. CASE l.status = "active" /\ l.expiresAt <= at
  <2> DEFINE x == [l EXCEPT !.status = "expired"]
             q == Crd!Audited(x)
  <2>1. /\ x \in [credential : Records, issuedAt : Nat, expiresAt : Int, renewedAt : Nat,
                  status : LeaseStates, auditRef : [status : LeaseStates, expiresAt : Int]]
        /\ x.status = "expired" /\ x.expiresAt = l.expiresAt /\ x.renewedAt = l.renewedAt
        /\ x.credential = l.credential
    BY DEF Sound, LeaseStates
  <2> HIDE DEF x
  <2>2. q \in Sound /\ q.credential = l.credential /\ q.status = "expired"
    BY <2>1 DEF Sound, LeaseStates, Crd!Audited, Crd!createLeaseAuditReference
  <2>3. Crd!expireIfNeeded(l, at) = q
    BY <1>1 DEF Crd!expireIfNeeded, x
  <2>4. l.expiresAt \in Int
    BY DEF Sound
  <2> HIDE DEF q
  <2>5. QED
    BY <1>1, <2>2, <2>3, <2>4
<1>2. CASE ~(l.status = "active" /\ l.expiresAt <= at)
  <2>1. Crd!expireIfNeeded(l, at) = l
    BY <1>2 DEF Crd!expireIfNeeded
  <2>2. l.expiresAt \in Int
    BY DEF Sound
  <2>3. QED
    BY <1>2, <2>1, <2>2
<1>3. QED
  BY <1>1, <1>2

(* What issueLease makes of a credential and an offered duration is a sound lease. *)
LEMMA IssuedSound ==
  ASSUME Offered, NEW c \in Records, NEW ttl \in Ttls, NEW at \in Nat, NEW x \in Crd!issued(c, ttl, at)
  PROVE  x \in Sound
<1>1. PICK n \in Crd!normalizeTtlMs(ttl) :
        x = Crd!Audited([credential |-> c, issuedAt |-> at, expiresAt |-> Crd!AtMost(c.expiresAt, at + n),
                     renewedAt |-> at, status |-> "active", auditRef |-> {}])
  BY DEF Crd!issued
<1>2. n \in Int /\ n <= MaxTtl /\ MaxTtl \in Int /\ c.expiresAt \in Maybe(Nat)
  BY LifetimesBounded DEF Offered
<1>3. at + n \in Int /\ at + n <= at + MaxTtl
  BY <1>2
<1> DEFINE m == Crd!AtMost(c.expiresAt, at + n)
<1>4. m \in Int /\ m <= at + n /\ \A e \in c.expiresAt : m <= e
  BY <1>2, <1>3, AtMostIs
<1>5. m <= at + MaxTtl
  BY <1>2, <1>3, <1>4
<1>6. x = Crd!Audited([credential |-> c, issuedAt |-> at, expiresAt |-> m,
                   renewedAt |-> at, status |-> "active", auditRef |-> {}])
  BY <1>1
<1> HIDE DEF m
<1>7. x = [credential |-> c, issuedAt |-> at, expiresAt |-> m, renewedAt |-> at, status |-> "active",
           auditRef |-> [status |-> "active", expiresAt |-> m]]
  BY <1>6 DEF Crd!Audited, Crd!createLeaseAuditReference
<1>8. QED
  BY <1>4, <1>5, <1>7 DEF Sound, LeaseStates, Crd!createLeaseAuditReference

(* A renewal keeps the credential and the status of the lease. *)
LEMMA RenewedSound ==
  ASSUME Offered, NEW l \in Sound, NEW ttl \in Ttls, NEW at \in Nat, NEW x \in Crd!renewed(l, ttl, at)
  PROVE  x \in Sound /\ x.credential = l.credential /\ x.status = l.status
<1>1. PICK n \in Crd!normalizeTtlMs(ttl) :
        x = Crd!Audited([l EXCEPT !.expiresAt = Crd!AtMost(l.credential.expiresAt, at + n), !.renewedAt = at])
  BY DEF Crd!renewed
<1>2. /\ n \in Int /\ n <= MaxTtl /\ MaxTtl \in Int
      /\ l.credential \in Records /\ l.credential.expiresAt \in Maybe(Nat)
  BY LifetimesBounded DEF Offered, Sound
<1>3. at + n \in Int /\ at + n <= at + MaxTtl
  BY <1>2
<1> DEFINE m == Crd!AtMost(l.credential.expiresAt, at + n)
           y == [l EXCEPT !.expiresAt = m, !.renewedAt = at]
<1>4. m \in Int /\ m <= at + n /\ \A e \in l.credential.expiresAt : m <= e
  BY <1>2, <1>3, AtMostIs
<1>5. m <= at + MaxTtl
  BY <1>2, <1>3, <1>4
<1>6. x = Crd!Audited(y)
  BY <1>1
<1> HIDE DEF m
<1>7. /\ y \in [credential : Records, issuedAt : Nat, expiresAt : Int, renewedAt : Nat,
                status : LeaseStates, auditRef : [status : LeaseStates, expiresAt : Int]]
      /\ y.expiresAt = m /\ y.renewedAt = at /\ y.status = l.status /\ y.credential = l.credential
  BY <1>4 DEF Sound
<1> HIDE DEF y
<1>8. /\ x \in [credential : Records, issuedAt : Nat, expiresAt : Int, renewedAt : Nat,
                status : LeaseStates, auditRef : [status : LeaseStates, expiresAt : Int]]
      /\ x.expiresAt = m /\ x.renewedAt = at /\ x.status = l.status /\ x.credential = l.credential
      /\ x.auditRef = [status |-> x.status, expiresAt |-> x.expiresAt]
  BY <1>6, <1>7 DEF Crd!Audited, Crd!createLeaseAuditReference
<1>9. QED
  BY <1>4, <1>5, <1>8 DEF Sound, Crd!createLeaseAuditReference

-----------------------------------------------------------------------------
(* The tokens *)

Installs == [team : Teams, status : {"active", "revoked"}]
Envelopes ==
  [keyId : {v.keyId : v \in UNION Vaults},
   sealed : {[key |-> v.key, aad |-> Crd!buildCredentialMetadataAad(Crd!credentialEncryptionContext(Crd!credentialIdOf(t), t))]
             : v \in UNION Vaults, t \in Teams},
   token : Nat, intact : BOOLEAN]
Stored ==
  [id : {Crd!credentialIdOf(t) : t \in Teams}, externalAccountId : Teams, status : {"active", "revoked"},
   lastUsedAt : SUBSET Nat, envelope : Envelopes]
Stores == [installs : Seq(Installs), credential : [Teams -> {Crd!None} \cup Stored]]

Shaped(h) ==
  h = [ops |-> h.ops, latest |-> h.latest, posts |-> h.posts, ended |-> h.ended, answers |-> h.answers]

Typed ==
  /\ now \in Nat
  /\ env \in [vault : Vaults, token : {{}, {Crd!EnvToken}}]
  /\ store \in Stores
  /\ Shaped(hist) /\ hist.ops \in Nat /\ hist.latest \in [Teams -> SUBSET Nat]

(* The credential a team has in use holds the token Slack issued it last. *)
HoldsLatest ==
  \A t \in Teams : store.credential[t].status = "active" =>
    hist.latest[t] = {store.credential[t].envelope.token}

(* A message that waits to be sent again keeps the token that was the last when
   its client was resolved, or the environment's. *)
Delivery(d) ==
  /\ d \in [team : Teams, token : Nat, resolved : SUBSET Nat, attempts : Nat \ {0}]
  /\ d.token = Crd!EnvToken \/ {d.token} = d.resolved
KeepsToken == \A d \in retries : Delivery(d)

(* The inductive invariant of the tokens. *)
Posting == Typed /\ HoldsLatest /\ KeepsToken /\ Crd!PostsCurrentToken

(* Recording an install keeps the credentials. *)
LEMMA UpsertTyped ==
  ASSUME NEW s \in Stores, NEW team \in Teams, NEW status \in {"active", "revoked"}
  PROVE  Crd!upsertInstall(s, team, status) \in Stores /\ Crd!upsertInstall(s, team, status).credential = s.credential
<1> DEFINE i == [team |-> team, status |-> status]
           longer == <<i>> \o s.installs
           changed == [k \in DOMAIN s.installs |->
                         IF s.installs[k].team = team THEN [s.installs[k] EXCEPT !.status = status] ELSE s.installs[k]]
<1>1. s.installs \in Seq(Installs) /\ i \in Installs
  BY DEF Stores, Installs
<1>2. longer \in Seq(Installs)
  <2> HIDE DEF i
  <2>1. <<i>> \in Seq(Installs)
    BY <1>1
  <2>2. QED
    BY <1>1, <2>1, ConcatProperties
<1>3. changed \in Seq(Installs)
  <2>1. DOMAIN s.installs = 1..Len(s.installs) /\ Len(s.installs) \in Nat
    BY <1>1, LenProperties
  <2>2. \A k \in 1..Len(s.installs) :
          /\ s.installs[k] \in Installs
          /\ [s.installs[k] EXCEPT !.status = status] \in Installs
    <3> SUFFICES ASSUME NEW k \in 1..Len(s.installs)
                 PROVE  /\ s.installs[k] \in Installs
                        /\ [s.installs[k] EXCEPT !.status = status] \in Installs
      OBVIOUS
    <3>1. s.installs[k] \in Installs
      BY <1>1, ElementOfSeq
    <3>2. QED
      BY <3>1 DEF Installs
  <2>3. QED
    BY <2>1, <2>2, IsASeq
<1>4. Crd!upsertInstall(s, team, status) =
        IF Crd!installOf(s, team) = {} THEN [s EXCEPT !.installs = longer] ELSE [s EXCEPT !.installs = changed]
  BY DEF Crd!upsertInstall
<1> HIDE DEF longer, changed
<1>5. QED
  BY <1>2, <1>3, <1>4 DEF Stores

(* Persisting an install stores its token for its team, and touches no other team's. *)
LEMMA PersistTyped ==
  ASSUME NEW s \in Stores, NEW v \in UNION Vaults, NEW team \in Teams, NEW token \in Nat, NEW b \in BOOLEAN
  PROVE  LET x == Crd!persistSlackInstall(s, v, team, token, b) IN
         /\ x \in Stores /\ x.credential[team].envelope.token = token
         /\ \A t \in Teams : t # team => x.credential[t] = s.credential[t]
<1> DEFINE u == Crd!upsertInstall(s, team, "active")
           sealed == [key |-> v.key, aad |-> Crd!buildCredentialMetadataAad(Crd!credentialEncryptionContext(Crd!credentialIdOf(team), team))]
           e == [keyId |-> v.keyId, sealed |-> sealed, token |-> token, intact |-> ~b]
           c == [id |-> Crd!credentialIdOf(team), externalAccountId |-> team, status |-> "active", lastUsedAt |-> {},
                 envelope |-> e]
           x == [u EXCEPT !.credential[team] = c]
<1>1. u \in Stores /\ u.credential = s.credential
  BY UpsertTyped
<1>2. e \in Envelopes
  <2>1. sealed \in {[key |-> w.key, aad |-> Crd!buildCredentialMetadataAad(Crd!credentialEncryptionContext(Crd!credentialIdOf(t), t))]
                    : w \in UNION Vaults, t \in Teams}
    OBVIOUS
  <2> HIDE DEF sealed
  <2>2. QED
    BY <2>1 DEF Envelopes
<1>3. [Crd!encryptSlackBotToken(v, team, token) EXCEPT !.intact = ~b] = e
  BY DEF Crd!encryptSlackBotToken, Crd!encrypt
<1>4. Crd!persistSlackInstall(s, v, team, token, b) = x
  BY <1>3 DEF Crd!persistSlackInstall
<1>5. c \in Stored /\ c.envelope.token = token
  <2> HIDE DEF e
  <2>1. c \in Stored
    BY <1>2 DEF Stored
  <2>2. QED
    BY <2>1 DEF e
<1> HIDE DEF u, c
<1>6. /\ x \in Stores /\ x.credential[team] = c
      /\ \A t \in Teams : t # team => x.credential[t] = u.credential[t]
  BY <1>1, <1>5 DEF Stores
<1>7. QED
  BY <1>1, <1>4, <1>5, <1>6

(* What a credential decrypts to is the token that was sealed in it. *)
LEMMA DecryptsToken ==
  ASSUME NEW v, NEW c, NEW x \in Crd!decryptSlackBotToken(v, c)
  PROVE  x = c.envelope.token
BY DEF Crd!decryptSlackBotToken, Crd!decrypt

(* A client resolved for a team carries the token installed last for it, or the environment's. *)
LEMMA ResolvesLatest ==
  ASSUME Posting, NEW team \in Teams, NEW x \in Crd!resolveClient(team)
  PROVE  {x} = hist.latest[team] \/ x = Crd!EnvToken
<1>1. CASE Crd!resolveStoredSlackBotToken(team) # {}
  <2>1. x \in Crd!resolveStoredSlackBotToken(team)
    BY <1>1 DEF Crd!resolveClient
  <2>2. PICK i \in Crd!installOf(store, team) : \E c \in Crd!latestActiveSlackCredential(store, i.team), v \in env.vault :
          x \in Crd!decryptSlackBotToken(v, c)
    BY <2>1 DEF Crd!resolveStoredSlackBotToken
  <2>3. PICK c \in Crd!latestActiveSlackCredential(store, i.team), v \in env.vault : x \in Crd!decryptSlackBotToken(v, c)
    BY <2>2
  <2>4. i.team = team /\ c = store.credential[team] /\ c.status = "active"
    BY <2>2, <2>3 DEF Crd!installOf, Crd!latestActiveSlackCredential
  <2>5. QED
    BY <2>3, <2>4, DecryptsToken DEF Posting, HoldsLatest
<1>2. CASE Crd!resolveStoredSlackBotToken(team) = {}
  BY <1>2 DEF Crd!resolveClient, Posting, Typed
<1>3. QED
  BY <1>1, <1>2

(* So does the client that channel discovery uses. *)
LEMMA DiscoversLatest ==
  ASSUME Posting, NEW x \in Crd!resolveSlackDiscoveryClient
  PROVE  \/ store.installs # <<>> /\ {x} = hist.latest[store.installs[1].team]
         \/ x = Crd!EnvToken
<1> DEFINE install == {i \in {store.installs[k] : k \in DOMAIN store.installs \cap {1}} : i.status = "active"}
           usable  == UNION {Crd!latestActiveSlackCredential(store, i.team) : i \in install}
           tokens  == UNION {UNION {Crd!decryptSlackBotToken(v, c) : v \in env.vault} : c \in usable}
<1>1. x \in tokens \/ x \in env.token
  BY DEF Crd!resolveSlackDiscoveryClient
<1>2. CASE x \in tokens
  <2>1. PICK c \in usable : \E v \in env.vault : x \in Crd!decryptSlackBotToken(v, c)
    BY <1>2
  <2>2. x = c.envelope.token
    BY <2>1, DecryptsToken
  <2>3. PICK i \in install : c \in Crd!latestActiveSlackCredential(store, i.team)
    BY <2>1
  <2>4. store.installs \in Seq(Installs) /\ 1 \in DOMAIN store.installs /\ i = store.installs[1]
    BY <2>3 DEF Posting, Typed, Stores
  <2>5. store.installs # <<>> /\ i.team \in Teams
    <3> DEFINE q == store.installs
    <3> HIDE DEF q
    <3>1. q \in Seq(Installs) /\ 1 \in DOMAIN q /\ i = q[1]
      BY <2>4 DEF q
    <3>2. q # <<>> /\ q[1] \in Installs
      BY <3>1
    <3>3. QED
      BY <3>1, <3>2 DEF q, Installs
  <2>6. c = store.credential[i.team] /\ c.status = "active"
    BY <2>3 DEF Crd!latestActiveSlackCredential
  <2>7. QED
    BY <2>2, <2>4, <2>5, <2>6 DEF Posting, HoldsLatest
<1>3. CASE x \in env.token
  BY <1>3 DEF Posting, Typed
<1>4. QED
  BY <1>1, <1>2, <1>3

(* Nothing is installed and nothing has been posted at first. *)
LEMMA InitPosting == Crd!Init => Posting
<1> SUFFICES ASSUME Crd!Init PROVE Posting
  OBVIOUS
<1>1. store \in Stores
  <2>1. <<>> \in Seq(Installs) /\ [t \in Teams |-> Crd!None] \in [Teams -> {Crd!None} \cup Stored]
    OBVIOUS
  <2>2. QED
    BY <2>1 DEF Crd!Init, Stores
<1>2. Typed
  BY <1>1 DEF Crd!Init, Typed, Shaped
<1>3. HoldsLatest /\ KeepsToken /\ Crd!PostsCurrentToken
  BY DEF Crd!Init, HoldsLatest, KeepsToken, Crd!PostsCurrentToken, Crd!None
<1>4. QED
  BY <1>2, <1>3 DEF Posting

(* A step that leaves the store, what was issued and what was posted alone, and
   sends no more messages again than before. *)
LEMMA AsidePosting ==
  ASSUME Posting, store' = store, retries' \subseteq retries, env' \in [vault : Vaults, token : {{}, {Crd!EnvToken}}], now' \in Nat,
         Shaped(hist'), hist'.ops \in Nat, hist'.latest = hist.latest, hist'.posts = hist.posts
  PROVE  Posting'
BY DEF Posting, Typed, HoldsLatest, KeepsToken, Crd!PostsCurrentToken, Shaped

(* A step that changes the credential of one team, and what it was issued. *)
LEMMA TeamPosting ==
  ASSUME Posting, NEW team \in Teams, store' \in Stores, env' = env, now' = now, retries' = retries,
         \A t \in Teams : t # team => store'.credential[t] = store.credential[t],
         NEW issue \in SUBSET Nat,
         store'.credential[team].status = "active" => issue = {store'.credential[team].envelope.token},
         Shaped(hist'), hist'.ops \in Nat, hist'.latest = [hist.latest EXCEPT ![team] = issue],
         hist'.posts = hist.posts
  PROVE  Posting'
<1>1. Typed'
  BY DEF Posting, Typed, Shaped
<1>2. HoldsLatest'
  BY DEF Posting, Typed, HoldsLatest
<1>3. KeepsToken' /\ Crd!PostsCurrentToken'
  BY DEF Posting, KeepsToken, Crd!PostsCurrentToken
<1>4. QED
  BY <1>1, <1>2, <1>3 DEF Posting

(* A step that sends one more request, with a token that is current or, sent
   again, was it at first, and may leave its message to be sent again. *)
LEMMA TokensPosting ==
  ASSUME Posting, UNCHANGED <<now, env, store>>, NEW p,
         \/ {p.token} = p.latest \/ p.token = Crd!EnvToken
         \/ p.retry /\ {p.token} = p.resolved,
         \A d \in retries' : d \in retries \/ Delivery(d),
         Shaped(hist'), hist'.ops \in Nat, hist'.latest = hist.latest, hist'.posts = hist.posts \cup {p}
  PROVE  Posting'
<1>1. Typed'
  BY DEF Posting, Typed, Shaped
<1>2. HoldsLatest' /\ KeepsToken' /\ Crd!PostsCurrentToken'
  BY DEF Posting, HoldsLatest, KeepsToken, Crd!PostsCurrentToken
<1>3. QED
  BY <1>1, <1>2 DEF Posting

(* Counting an operation changes the count. *)
LEMMA StepIs ==
  ASSUME Shaped(hist), hist.ops \in Nat
  PROVE  /\ Shaped(Crd!Step(hist)) /\ Crd!Step(hist).ops \in Nat
         /\ Crd!Step(hist).latest = hist.latest /\ Crd!Step(hist).posts = hist.posts
         /\ Crd!Step(hist).ended = hist.ended /\ Crd!Step(hist).answers = hist.answers
<1>1. hist.ops + 1 \in Nat
  OBVIOUS
<1> DEFINE n == hist.ops + 1
<1>2. Crd!Step(hist) = [hist EXCEPT !.ops = n]
  BY DEF Crd!Step
<1> HIDE DEF n
<1>3. Crd!Step(hist) = [ops |-> n, latest |-> hist.latest, posts |-> hist.posts, ended |-> hist.ended, answers |-> hist.answers]
  BY <1>2 DEF Shaped
<1>4. QED
  BY <1>1, <1>3 DEF Shaped, n

(* Marking leases as over changes the leases that are over, and the count. *)
LEMMA OverIs ==
  ASSUME Shaped(hist), hist.ops \in Nat, NEW ids
  PROVE  /\ Shaped(Crd!Over(hist, ids)) /\ Crd!Over(hist, ids).ops \in Nat
         /\ Crd!Over(hist, ids).latest = hist.latest /\ Crd!Over(hist, ids).posts = hist.posts
         /\ Crd!Over(hist, ids).ended = hist.ended \cup ids /\ Crd!Over(hist, ids).answers = hist.answers
<1> DEFINE h == Crd!Step(hist)
<1>1. /\ Shaped(h) /\ h.ops \in Nat /\ h.latest = hist.latest /\ h.posts = hist.posts
      /\ h.ended = hist.ended /\ h.answers = hist.answers
  BY StepIs
<1>2. Crd!Over(hist, ids) = [h EXCEPT !.ended = @ \cup ids]
  BY DEF Crd!Over
<1> HIDE DEF h
<1>3. QED
  BY <1>1, <1>2 DEF Shaped

(* What a history with another latest token, more posts or other ends is. *)
LEMMA ExceptIs ==
  ASSUME NEW h, Shaped(h), NEW x, NEW y
  PROVE  /\ [h EXCEPT !.latest = x] = [ops |-> h.ops, latest |-> x, posts |-> h.posts, ended |-> h.ended, answers |-> h.answers]
         /\ [h EXCEPT !.posts = x] = [ops |-> h.ops, latest |-> h.latest, posts |-> x, ended |-> h.ended, answers |-> h.answers]
         /\ [h EXCEPT !.answers = x] = [ops |-> h.ops, latest |-> h.latest, posts |-> h.posts, ended |-> h.ended, answers |-> x]
         /\ [h EXCEPT !.ended = x, !.answers = y] = [ops |-> h.ops, latest |-> h.latest, posts |-> h.posts, ended |-> x, answers |-> y]
<1>1. PICK a, b, c, d, e : h = [ops |-> a, latest |-> b, posts |-> c, ended |-> d, answers |-> e]
  BY DEF Shaped
<1>2. /\ h.ops = a /\ h.latest = b /\ h.posts = c /\ h.ended = d /\ h.answers = e
  BY <1>1
<1>3. [h EXCEPT !.latest = x] = [ops |-> a, latest |-> x, posts |-> c, ended |-> d, answers |-> e]
  BY <1>1
<1>4. [h EXCEPT !.posts = x] = [ops |-> a, latest |-> b, posts |-> x, ended |-> d, answers |-> e]
  BY <1>1
<1>5. [h EXCEPT !.answers = x] = [ops |-> a, latest |-> b, posts |-> c, ended |-> d, answers |-> x]
  BY <1>1
<1>6. [h EXCEPT !.ended = x, !.answers = y] = [ops |-> a, latest |-> b, posts |-> c, ended |-> x, answers |-> y]
  <2> DEFINE i == [h EXCEPT !.ended = x]
             k == [h EXCEPT !.ended = x, !.answers = y]
  <2>1. i = [ops |-> a, latest |-> b, posts |-> c, ended |-> x, answers |-> e]
    BY <1>1
  <2>2. k = [i EXCEPT !.answers = y]
    OBVIOUS
  <2> HIDE DEF i
  <2>3. k = [ops |-> a, latest |-> b, posts |-> c, ended |-> x, answers |-> y]
    <3> HIDE DEF k
    <3>1. QED
      BY <2>1, <2>2
  <2>4. QED
    BY <2>3
<1>7. QED
  BY <1>2, <1>3, <1>4, <1>5, <1>6

(* Installs, lifecycle events and posts under a lease keep the invariant. *)
LEMMA TokenSteps ==
  ASSUME Posting, NEW t \in Teams,
         \/ \E b \in BOOLEAN : Crd!OAuthInstalled(t, b)
         \/ \E e \in {"app_uninstalled", "tokens_revoked"} : Crd!WorkspaceLifecycleEvent(t, e)
         \/ Crd!ManualInstall(t) \/ Crd!PostLease(t)
  PROVE  Posting'
<1> DEFINE h == Crd!Step(hist)
<1>1. /\ Shaped(h) /\ h.ops \in Nat /\ h.latest = hist.latest /\ h.posts = hist.posts
      /\ store \in Stores /\ hist.latest \in [Teams -> SUBSET Nat] /\ hist.ops \in Nat /\ now \in Nat
      /\ env.vault \in Vaults /\ Shaped(hist)
  BY StepIs DEF Posting, Typed
<1>2. \A issue : [h EXCEPT !.latest[t] = issue] = [h EXCEPT !.latest = [h.latest EXCEPT ![t] = issue]]
  OBVIOUS
<1> HIDE DEF h
<1>3. ASSUME NEW issue \in SUBSET Nat, hist' = [h EXCEPT !.latest[t] = issue]
      PROVE  /\ Shaped(hist') /\ hist'.ops \in Nat /\ hist'.posts = hist.posts
             /\ hist'.latest = [hist.latest EXCEPT ![t] = issue]
  <2> DEFINE l == [h.latest EXCEPT ![t] = issue]
  <2>1. hist' = [h EXCEPT !.latest = l]
    BY <1>2, <1>3
  <2> HIDE DEF l
  <2>2. hist' = [ops |-> h.ops, latest |-> l, posts |-> h.posts, ended |-> h.ended, answers |-> h.answers]
    BY <1>1, <2>1, ExceptIs, Zenon
  <2>3. Shaped(hist') /\ hist'.ops \in Nat /\ hist'.posts = hist.posts /\ hist'.latest = l
    BY <1>1, <2>2 DEF Shaped
  <2>4. QED
    BY <1>1, <2>3 DEF l
<1>4. ASSUME NEW b \in BOOLEAN, Crd!OAuthInstalled(t, b) PROVE Posting'
  <2>1. PICK v \in env.vault : store' = Crd!persistSlackInstall(store, v, t, hist.ops, b)
    BY <1>4 DEF Crd!OAuthInstalled
  <2>2. v \in UNION Vaults /\ {hist.ops} \in SUBSET Nat
    BY <1>1
  <2>3. /\ store' \in Stores /\ store'.credential[t].envelope.token = hist.ops
        /\ \A u \in Teams : u # t => store'.credential[u] = store.credential[u]
    <3> DEFINE x == Crd!persistSlackInstall(store, v, t, hist.ops, b)
    <3>1. store \in Stores /\ hist.ops \in Nat /\ v \in UNION Vaults
      BY <1>1, <2>2
    <3>2. /\ x \in Stores /\ x.credential[t].envelope.token = hist.ops
          /\ \A u \in Teams : u # t => x.credential[u] = store.credential[u]
      BY <3>1, PersistTyped
    <3> HIDE DEF x
    <3>3. store' = x
      BY <2>1 DEF x
    <3>4. QED
      BY <3>2, <3>3
  <2>4. hist' = [h EXCEPT !.latest[t] = {hist.ops}] /\ env' = env /\ now' = now /\ retries' = retries
    BY <1>4 DEF Crd!OAuthInstalled, h
  <2>5. /\ Shaped(hist') /\ hist'.ops \in Nat /\ hist'.posts = hist.posts
        /\ hist'.latest = [hist.latest EXCEPT ![t] = {hist.ops}]
    BY <1>3, <2>2, <2>4
  <2>6. QED
    BY <2>2, <2>3, <2>4, <2>5, TeamPosting
<1>5. ASSUME NEW e \in {"app_uninstalled", "tokens_revoked"}, Crd!WorkspaceLifecycleEvent(t, e) PROVE Posting'
  <2> DEFINE s == IF e = "app_uninstalled" THEN Crd!upsertInstall(store, t, "revoked") ELSE store
  <2>1. s \in Stores /\ s.credential = store.credential
    BY <1>1, UpsertTyped
  <2>2. /\ store' = Crd!revokeActiveSlackCredentials(s, t) /\ env' = env /\ now' = now /\ retries' = retries
        /\ hist' = [h EXCEPT !.latest[t] = {}]
    BY <1>5 DEF Crd!WorkspaceLifecycleEvent, h
  <2> HIDE DEF s
  <2>3. /\ store' \in Stores /\ store'.credential[t].status # "active"
        /\ \A u \in Teams : u # t => store'.credential[u] = store.credential[u]
    <3>1. CASE s.credential[t].status # "active"
      BY <2>1, <2>2, <3>1 DEF Crd!revokeActiveSlackCredentials
    <3>2. CASE s.credential[t].status = "active"
      <4> DEFINE c == [s.credential[t] EXCEPT !.status = "revoked"]
      <4>1. s.credential[t] \in Stored
        BY <2>1, <3>2 DEF Stores, Crd!None
      <4>2. c \in Stored /\ c.status = "revoked"
        BY <4>1 DEF Stored
      <4>3. store' = [s EXCEPT !.credential[t] = c]
        BY <2>2, <3>2 DEF Crd!revokeActiveSlackCredentials
      <4> HIDE DEF c
      <4>4. QED
        BY <2>1, <4>2, <4>3 DEF Stores
    <3>3. QED
      BY <3>1, <3>2
  <2>4. /\ Shaped(hist') /\ hist'.ops \in Nat /\ hist'.posts = hist.posts
        /\ hist'.latest = [hist.latest EXCEPT ![t] = {}] /\ {} \in SUBSET Nat
    <3>1. {} \in SUBSET Nat
      OBVIOUS
    <3>2. QED
      BY <1>3, <2>2, <3>1
  <2>5. QED
    BY <2>2, <2>3, <2>4, TeamPosting
<1>6. ASSUME store' \in Stores, env' = env, now' = now, retries' = retries, hist' = h,
             \A u \in Teams : /\ store'.credential[u].status = store.credential[u].status
                              /\ store'.credential[u].envelope = store.credential[u].envelope
      PROVE  Posting'
  <2>1. Typed'
    BY <1>1, <1>6 DEF Posting, Typed
  <2>2. HoldsLatest' /\ KeepsToken' /\ Crd!PostsCurrentToken'
    BY <1>1, <1>6 DEF Posting, HoldsLatest, KeepsToken, Crd!PostsCurrentToken
  <2>3. QED
    BY <2>1, <2>2 DEF Posting
<1>7. CASE Crd!ManualInstall(t)
  BY <1>1, <1>6, <1>7, UpsertTyped DEF Crd!ManualInstall, h
<1>8. CASE Crd!PostLease(t)
  <2> DEFINE c == [store.credential[t] EXCEPT !.lastUsedAt = {now}]
  <2>1. store.credential[t] \in Stored
    BY <1>1, <1>8 DEF Crd!PostLease, Stores, Crd!None
  <2>2. c \in Stored /\ c.status = store.credential[t].status /\ c.envelope = store.credential[t].envelope
    BY <1>1, <2>1 DEF Stored
  <2>3. store' = [store EXCEPT !.credential[t] = c]
    BY <1>8 DEF Crd!PostLease
  <2> HIDE DEF c
  <2>4. /\ store' \in Stores /\ store'.credential[t] = c
        /\ \A u \in Teams : u # t => store'.credential[u] = store.credential[u]
    BY <1>1, <2>2, <2>3 DEF Stores
  <2>5. QED
    BY <1>6, <1>8, <2>2, <2>4 DEF Crd!PostLease, h
<1>9. QED
  BY <1>4, <1>5, <1>7, <1>8

(* What a request that is sent is recorded as. *)
LEMMA SentIs ==
  ASSUME NEW h, Shaped(h), h.ops \in Nat, NEW d
  PROVE  LET p == [token |-> d.token, latest |-> h.latest[d.team], resolved |-> d.resolved, retry |-> d.attempts > 1] IN
         /\ Shaped(Crd!Sent(h, d)) /\ Crd!Sent(h, d).ops \in Nat /\ Crd!Sent(h, d).latest = h.latest
         /\ Crd!Sent(h, d).posts = h.posts \cup {p}
         /\ Crd!Sent(h, d).ended = h.ended /\ Crd!Sent(h, d).answers = h.answers
<1> DEFINE p == [token |-> d.token, latest |-> h.latest[d.team], resolved |-> d.resolved, retry |-> d.attempts > 1]
           posts == h.posts \cup {p}
<1>1. Crd!Sent(h, d) = [h EXCEPT !.posts = posts]
  BY DEF Crd!Sent
<1> HIDE DEF posts
<1>2. Crd!Sent(h, d) = [ops |-> h.ops, latest |-> h.latest, posts |-> posts, ended |-> h.ended, answers |-> h.answers]
  BY <1>1, ExceptIs, Zenon
<1>3. /\ Shaped(Crd!Sent(h, d)) /\ Crd!Sent(h, d).ops \in Nat /\ Crd!Sent(h, d).latest = h.latest
      /\ Crd!Sent(h, d).posts = posts
      /\ Crd!Sent(h, d).ended = h.ended /\ Crd!Sent(h, d).answers = h.answers
  BY <1>2 DEF Shaped
<1>4. QED
  BY <1>3 DEF posts

(* Sending, sending again and discoveries keep the invariant. *)
LEMMA PostSteps ==
  ASSUME Posting, (\E t \in Teams : Crd!Post(t)) \/ (\E d \in retries : Crd!Retry(d)) \/ Crd!Discover
  PROVE  Posting'
<1> DEFINE h == Crd!Step(hist)
<1>1. /\ Shaped(h) /\ h.ops \in Nat /\ h.latest = hist.latest /\ h.posts = hist.posts
      /\ Shaped(hist) /\ hist.ops \in Nat /\ hist.latest \in [Teams -> SUBSET Nat]
  BY StepIs DEF Posting, Typed
<1> HIDE DEF h
<1>2. ASSUME NEW t \in Teams, Crd!Post(t) PROVE Posting'
  <2>1. PICK x \in Crd!resolveClient(t) :
          LET d == [team |-> t, token |-> x, resolved |-> hist.latest[t], attempts |-> 1]
          IN  hist' = Crd!Sent(h, d) /\ \E more \in Crd!Again(d) : retries' = retries \cup more
    BY <1>2 DEF Crd!Post, h
  <2> DEFINE d == [team |-> t, token |-> x, resolved |-> hist.latest[t], attempts |-> 1]
             p == [token |-> d.token, latest |-> h.latest[d.team], resolved |-> d.resolved, retry |-> d.attempts > 1]
  <2>2. {x} = hist.latest[t] \/ x = Crd!EnvToken
    BY <2>1, ResolvesLatest
  <2>3. x \in Nat /\ hist.latest[t] \in SUBSET Nat
    <3>1. hist.latest[t] \in SUBSET Nat
      BY <1>1
    <3>2. QED
      BY <2>2, <3>1 DEF Crd!EnvToken
  <2>4. Delivery(d)
    BY <2>2, <2>3 DEF Delivery
  <2>5. {p.token} = p.latest \/ p.token = Crd!EnvToken
    BY <1>1, <2>2
  <2>6. hist' = Crd!Sent(h, d) /\ \A e \in retries' : e \in retries \/ e = d
    BY <2>1 DEF Crd!Again
  <2>7. /\ Shaped(hist') /\ hist'.ops \in Nat /\ hist'.latest = hist.latest /\ hist'.posts = hist.posts \cup {p}
    <3>1. hist' = Crd!Sent(h, d) /\ Shaped(h) /\ h.ops \in Nat
      BY <1>1, <2>6
    <3> HIDE DEF d
    <3>2. /\ Shaped(hist') /\ hist'.ops \in Nat /\ hist'.latest = h.latest
          /\ hist'.posts = h.posts \cup {p}
      BY <3>1, SentIs
    <3> HIDE DEF p
    <3>3. QED
      BY <1>1, <3>2
  <2>8. UNCHANGED <<now, env, store>>
    BY <1>2 DEF Crd!Post
  <2> HIDE DEF d, p
  <2>9. \A e \in retries' : e \in retries \/ Delivery(e)
    BY <2>4, <2>6
  <2>10. QED
    BY <2>5, <2>7, <2>8, <2>9, TokensPosting
<1>3. ASSUME NEW e \in retries, Crd!Retry(e) PROVE Posting'
  <2> DEFINE n == e.attempts + 1
             d == [e EXCEPT !.attempts = n]
             p == [token |-> d.token, latest |-> hist.latest[d.team], resolved |-> d.resolved, retry |-> d.attempts > 1]
  <2>1. /\ hist' = Crd!Sent(hist, d) /\ UNCHANGED <<now, env, store>>
        /\ \A x \in retries' : x \in retries \/ x = d
    BY <1>3 DEF Crd!Retry, Crd!Again
  <2>2. Delivery(e)
    BY <1>3 DEF Posting, KeepsToken
  <2>3. n \in Nat \ {0} /\ n > 1
    BY <2>2 DEF Delivery
  <2>4. Delivery(d) /\ d.attempts = n
    <3> HIDE DEF n
    <3>1. QED
      BY <2>2, <2>3 DEF Delivery
  <2>5. \/ p.token = Crd!EnvToken
        \/ p.retry /\ {p.token} = p.resolved
    <3> HIDE DEF d, n
    <3>1. QED
      BY <2>3, <2>4 DEF Delivery
  <2>6. /\ Shaped(hist') /\ hist'.ops \in Nat /\ hist'.latest = hist.latest /\ hist'.posts = hist.posts \cup {p}
    <3> HIDE DEF d
    <3>1. QED
      BY <1>1, <2>1, SentIs
  <2> HIDE DEF d, p
  <2>7. \A x \in retries' : x \in retries \/ Delivery(x)
    BY <2>1, <2>4
  <2>8. QED
    BY <2>1, <2>5, <2>6, <2>7, TokensPosting
<1>4. ASSUME Crd!Discover PROVE Posting'
  <2> DEFINE team == IF store.installs = <<>> THEN {} ELSE hist.latest[store.installs[1].team]
  <2>1. PICK x \in Crd!resolveSlackDiscoveryClient :
          hist' = [h EXCEPT !.posts = @ \cup {[token |-> x, latest |-> team, resolved |-> team, retry |-> FALSE]}]
    BY <1>4 DEF Crd!Discover, h
  <2> DEFINE p == [token |-> x, latest |-> team, resolved |-> team, retry |-> FALSE]
             posts == h.posts \cup {p}
  <2>2. {p.token} = p.latest \/ p.token = Crd!EnvToken
    BY DiscoversLatest
  <2>3. hist' = [h EXCEPT !.posts = posts] /\ UNCHANGED <<now, env, store, retries>>
    BY <1>4, <2>1 DEF Crd!Discover
  <2> HIDE DEF p, posts
  <2>4. hist' = [ops |-> h.ops, latest |-> h.latest, posts |-> posts, ended |-> h.ended, answers |-> h.answers]
    BY <1>1, <2>3, ExceptIs, Zenon
  <2>5. Shaped(hist') /\ hist'.ops \in Nat /\ hist'.latest = hist.latest /\ hist'.posts = posts
    BY <1>1, <2>4 DEF Shaped
  <2>6. hist'.posts = hist.posts \cup {p}
    BY <1>1, <2>5 DEF posts
  <2>7. QED
    BY <2>2, <2>3, <2>5, <2>6, TokensPosting
<1>5. QED
  BY <1>2, <1>3, <1>4

(* The steps of the clock, of a restart and of the broker. *)
BrokerStep ==
  \/ \E c \in Records, ttl \in Ttls : Crd!IssueLease(c, ttl)
  \/ \E id \in DOMAIN leases :
       \/ \E ttl \in Ttls : Crd!RenewLease(id, ttl)
       \/ \E at \in 0..MaxNow : Crd!RevokeLease(id, at) \/ Crd!ResolveLeaseTarget(id, at)
  \/ \E at \in 0..MaxNow : Crd!SweepExpired(at)

(* Time, restarts and the broker leave tokens and posts as they are. *)
LEMMA AsideSteps ==
  ASSUME Posting, Crd!Tick \/ (\E v \in Vaults : Crd!Restart(v)) \/ BrokerStep \/ UNCHANGED Crd!vars
  PROVE  Posting'
<1> DEFINE h == Crd!Step(hist)
<1>1. /\ Shaped(h) /\ h.ops \in Nat /\ h.latest = hist.latest /\ h.posts = hist.posts
  BY StepIs DEF Posting, Typed
<1>2. /\ now \in Nat /\ Shaped(hist) /\ hist.ops \in Nat /\ env \in [vault : Vaults, token : {{}, {Crd!EnvToken}}]
  BY DEF Posting, Typed
<1>3. CASE Crd!Tick
  BY <1>2, <1>3, AsidePosting DEF Crd!Tick
<1>4. ASSUME NEW v \in Vaults, Crd!Restart(v) PROVE Posting'
  <2>1. hist' = [h EXCEPT !.ended = {}, !.answers = {}]
    BY <1>4 DEF Crd!Restart
  <2> HIDE DEF h
  <2>2. hist' = [ops |-> h.ops, latest |-> h.latest, posts |-> h.posts, ended |-> {}, answers |-> {}]
    <3>1. PICK a, b, c, d, e : h = [ops |-> a, latest |-> b, posts |-> c, ended |-> d, answers |-> e]
      BY <1>1, Zenon DEF Shaped
    <3>2. hist' = [ops |-> a, latest |-> b, posts |-> c, ended |-> {}, answers |-> {}]
      BY <2>1, <3>1
    <3>3. h.ops = a /\ h.latest = b /\ h.posts = c
      BY <3>1
    <3>4. QED
      BY <3>2, <3>3, Zenon
  <2>3. Shaped(hist') /\ hist'.ops \in Nat /\ hist'.latest = hist.latest /\ hist'.posts = hist.posts
    BY <1>1, <2>2 DEF Shaped
  <2>4. env' \in [vault : Vaults, token : {{}, {Crd!EnvToken}}] /\ store' = store /\ now' = now /\ retries' \subseteq retries
    BY <1>2, <1>4 DEF Crd!Restart
  <2>5. QED
    BY <1>2, <2>3, <2>4, AsidePosting
<1>5. ASSUME BrokerStep PROVE Posting'
  <2>1. UNCHANGED <<now, env, store, retries>>
    BY <1>5 DEF BrokerStep, Crd!IssueLease, Crd!RenewLease, Crd!RevokeLease, Crd!ResolveLeaseTarget, Crd!SweepExpired
  <2>2. \/ hist' = h
        \/ \E ids : hist' = Crd!Over(hist, ids)
        \/ \E x : hist' = [h EXCEPT !.answers = @ \cup x]
    BY <1>5 DEF BrokerStep, Crd!IssueLease, Crd!RenewLease, Crd!RevokeLease, Crd!ResolveLeaseTarget, Crd!SweepExpired
  <2>3. Shaped(hist') /\ hist'.ops \in Nat /\ hist'.latest = hist.latest /\ hist'.posts = hist.posts
    <3>1. CASE hist' = h
      BY <1>1, <3>1
    <3>2. CASE \E ids : hist' = Crd!Over(hist, ids)
      BY <1>2, <3>2, OverIs
    <3>3. ASSUME NEW x, hist' = [h EXCEPT !.answers = @ \cup x]
          PROVE  Shaped(hist') /\ hist'.ops \in Nat /\ hist'.latest = hist.latest /\ hist'.posts = hist.posts
      <4> HIDE DEF h
      <4>1. hist' = [ops |-> h.ops, latest |-> h.latest, posts |-> h.posts, ended |-> h.ended, answers |-> h.answers \cup x]
        BY <1>1, <3>3, ExceptIs, Zenon
      <4>2. QED
        BY <1>1, <4>1 DEF Shaped
    <3>4. QED
      BY <2>2, <3>1, <3>2, <3>3
  <2>4. QED
    BY <1>2, <2>1, <2>3, AsidePosting
<1>6. CASE UNCHANGED Crd!vars
  BY <1>2, <1>6, AsidePosting DEF Crd!vars
<1>7. QED
  BY <1>3, <1>4, <1>5, <1>6

(* Every step keeps the invariant of tokens and posts. *)
LEMMA NextPosting == Posting /\ [Crd!Next]_(Crd!vars) => Posting'
BY TokenSteps, PostSteps, AsideSteps DEF Crd!Next, BrokerStep

(* A message is posted, and channels are listed, with the token Slack last
   issued to that workspace and has not revoked, or with the environment's; sent
   again, with the one that was the last when it was first sent (resolveClient,
   postMessageWithRetry, resolveSlackDiscoveryClient); whatever the order of
   installs, revocations, attempts and restarts, and however many attempts. *)
THEOREM PostsCurrentTokenHolds == Spec => []PostsCurrentToken
<1>1. Starts => (unit = "credentials" => Posting)
  BY InitPosting DEF Starts
<1>2. (unit = "credentials" => Posting) /\ [UNCHANGED unit /\ Steps]_vars => (unit = "credentials" => Posting)'
  BY NextPosting DEF Steps, vars, Crd!vars
<1>3. (unit = "credentials" => Posting) => PostsCurrentToken
  BY DEF Posting, PostsCurrentToken
<1>4. QED
  BY <1>1, <1>2, <1>3, PTL DEF Spec

-----------------------------------------------------------------------------
(* The broker's steps *)

LEMMA InitLeasing == Crd!Init => Leasing
<1> SUFFICES ASSUME Crd!Init PROVE Leasing
  OBVIOUS
<1>1. leases \in Seq(Sound) /\ hist.ended = {} /\ hist.answers = {}
  BY DEF Crd!Init
<1>2. QED
  BY <1>1 DEF Leasing

(* A step that changes leases or adds to them, and takes no lease back from
   the ones that are over. *)
LEMMA LeaseStepKeeps ==
  ASSUME Leasing, leases' \in Seq(Sound), DOMAIN leases \subseteq DOMAIN leases',
         \A id \in DOMAIN leases :
           /\ leases'[id].credential = leases[id].credential
           /\ leases[id].status # "active" => leases'[id].status # "active",
         \A id \in hist'.ended : id \in hist.ended \/ (id \in DOMAIN leases' /\ leases'[id].status # "active"),
         \A a \in hist'.answers : a \in hist.answers \/
           (a.id \in DOMAIN leases /\ ~a.over /\ \A e \in leases[a.id].credential.expiresAt : a.at < e)
  PROVE  Leasing'
<1>1. \A id \in hist'.ended : id \in DOMAIN leases' /\ leases'[id].status # "active"
  BY DEF Leasing
<1>2. \A a \in hist'.answers :
        a.id \in DOMAIN leases' /\ ~a.over /\ \A e \in leases'[a.id].credential.expiresAt : a.at < e
  BY DEF Leasing
<1>3. QED
  BY <1>1, <1>2 DEF Leasing

(* A step that changes one lease. *)
LEMMA OneLeaseStepKeeps ==
  ASSUME Leasing, NEW id \in DOMAIN leases, NEW x \in Sound, leases' = [leases EXCEPT ![id] = x],
         x.credential = leases[id].credential, leases[id].status # "active" => x.status # "active",
         \A i \in hist'.ended : i \in hist.ended \/ (i = id /\ x.status # "active"),
         \A a \in hist'.answers : a \in hist.answers \/
           (a.id = id /\ ~a.over /\ \A e \in leases[id].credential.expiresAt : a.at < e)
  PROVE  Leasing'
<1>1. leases \in Seq(Sound) /\ id \in 1..Len(leases)
  BY DEF Leasing
<1>2. leases' \in Seq(Sound) /\ DOMAIN leases' = DOMAIN leases
  BY <1>1, ExceptSeq, LenProperties
<1>3. /\ leases'[id] = x
      /\ \A i \in DOMAIN leases : i # id => leases'[i] = leases[i]
  OBVIOUS
<1>4. QED
  <2>1. \A i \in DOMAIN leases :
          /\ leases'[i].credential = leases[i].credential
          /\ leases[i].status # "active" => leases'[i].status # "active"
    BY <1>3
  <2>2. \A i \in hist'.ended : i \in hist.ended \/ (i \in DOMAIN leases' /\ leases'[i].status # "active")
    BY <1>2, <1>3
  <2>3. \A a \in hist'.answers : a \in hist.answers \/
           (a.id \in DOMAIN leases /\ ~a.over /\ \A e \in leases[a.id].credential.expiresAt : a.at < e)
    OBVIOUS
  <2>4. QED
    BY <1>2, <2>1, <2>2, <2>3, LeaseStepKeeps

(* A new lease has an id of its own and has not ended. *)
LEMMA IssueKeeps ==
  ASSUME Offered, Posting, Leasing, NEW c \in Records, NEW ttl \in Ttls, Crd!IssueLease(c, ttl)
  PROVE  Leasing'
<1>1. PICK x \in Crd!issued(c, ttl, now) : leases' = Append(leases, x)
  BY DEF Crd!IssueLease
<1>2. x \in Sound /\ leases \in Seq(Sound)
  BY IssuedSound DEF Posting, Typed, Leasing
<1>3. /\ leases' \in Seq(Sound) /\ DOMAIN leases \subseteq DOMAIN leases'
      /\ \A id \in DOMAIN leases : leases'[id] = leases[id]
  <2>1. leases' \in Seq(Sound) /\ Len(leases') = Len(leases) + 1 /\ \A i \in 1..Len(leases) : leases'[i] = leases[i]
    BY <1>1, <1>2, AppendProperties
  <2>2. DOMAIN leases = 1..Len(leases) /\ DOMAIN leases' = 1..Len(leases') /\ Len(leases) \in Nat
    BY <1>2, <2>1, LenProperties
  <2>3. QED
    BY <2>1, <2>2
<1>4. hist'.ended = hist.ended /\ hist'.answers = hist.answers
  BY StepIs DEF Crd!IssueLease, Posting, Typed
<1>5. QED
  BY <1>3, <1>4, LeaseStepKeeps

(* Renewal never revives a lease that has ended. *)
LEMMA RenewKeeps ==
  ASSUME Offered, Posting, Leasing, NEW id \in DOMAIN leases, NEW ttl \in Ttls, Crd!RenewLease(id, ttl)
  PROVE  Leasing'
<1> DEFINE lease == Crd!expireIfNeeded(leases[id], now)
<1>1. leases[id] \in Sound /\ now \in Nat /\ now \in Int /\ Shaped(hist) /\ hist.ops \in Nat
  BY ElementOfSeq, LenProperties DEF Posting, Typed, Leasing
<1>2. /\ lease \in Sound /\ lease.credential = leases[id].credential
      /\ leases[id].status # "active" => lease.status # "active"
  BY <1>1, ExpireKeeps
<1>3. CASE lease.status # "active"
  <2>1. leases' = [leases EXCEPT ![id] = lease] /\ hist' = Crd!Over(hist, {id})
    BY <1>3 DEF Crd!RenewLease
  <2>2. hist'.ended = hist.ended \cup {id} /\ hist'.answers = hist.answers
    BY <1>1, <2>1, OverIs
  <2> HIDE DEF lease
  <2>3. QED
    BY <1>2, <1>3, <2>1, <2>2, OneLeaseStepKeeps
<1>4. CASE lease.status = "active"
  <2>1. PICK x \in Crd!renewed(lease, ttl, now) : leases' = [leases EXCEPT ![id] = x] /\ hist' = Crd!Step(hist)
    BY <1>4 DEF Crd!RenewLease
  <2>2. hist'.ended = hist.ended /\ hist'.answers = hist.answers
    BY <1>1, <2>1, StepIs
  <2> HIDE DEF lease
  <2>3. x \in Sound /\ x.credential = lease.credential /\ x.status = lease.status
    BY <1>1, <1>2, RenewedSound
  <2>4. QED
    BY <1>2, <2>1, <2>2, <2>3, OneLeaseStepKeeps
<1>5. QED
  BY <1>3, <1>4

(* A revoked lease is over. *)
LEMMA RevokeKeeps ==
  ASSUME Posting, Leasing, NEW id \in DOMAIN leases, NEW at \in Int, Crd!RevokeLease(id, at)
  PROVE  Leasing'
<1> DEFINE lease == Crd!expireIfNeeded(leases[id], at)
           y == [lease EXCEPT !.status = "revoked"]
           x == IF lease.status = "active" THEN Crd!Audited(y) ELSE lease
<1>1. leases[id] \in Sound /\ Shaped(hist) /\ hist.ops \in Nat
  BY ElementOfSeq, LenProperties DEF Posting, Typed, Leasing
<1>2. lease \in Sound /\ lease.credential = leases[id].credential
  BY <1>1, ExpireKeeps
<1>3. leases' = [leases EXCEPT ![id] = x] /\ hist' = Crd!Over(hist, {id})
  BY DEF Crd!RevokeLease
<1>4. hist'.ended = hist.ended \cup {id} /\ hist'.answers = hist.answers
  BY <1>1, <1>3, OverIs
<1> HIDE DEF lease
<1>5. x \in Sound /\ x.credential = lease.credential /\ x.status # "active"
  <2>1. CASE lease.status = "active"
    <3>1. /\ y \in [credential : Records, issuedAt : Nat, expiresAt : Int, renewedAt : Nat,
                    status : LeaseStates, auditRef : [status : LeaseStates, expiresAt : Int]]
          /\ y.status = "revoked" /\ y.expiresAt = lease.expiresAt /\ y.renewedAt = lease.renewedAt
          /\ y.credential = lease.credential
      BY <1>2 DEF Sound, LeaseStates
    <3>2. x = Crd!Audited(y)
      BY <2>1
    <3> HIDE DEF y, x
    <3>3. QED
      BY <1>2, <3>1, <3>2 DEF Sound, LeaseStates, Crd!Audited, Crd!createLeaseAuditReference
  <2>2. CASE lease.status # "active"
    BY <1>2, <2>2
  <2>3. QED
    BY <2>1, <2>2
<1> HIDE DEF x
<1>6. QED
  BY <1>2, <1>3, <1>4, <1>5, OneLeaseStepKeeps

(* Resolution answers only for a lease that has not ended, and may end it. *)
LEMMA ResolveKeeps ==
  ASSUME Offered, Posting, Leasing, NEW id \in DOMAIN leases, NEW at \in Int, Crd!ResolveLeaseTarget(id, at)
  PROVE  Leasing'
<1> DEFINE lease == Crd!expireIfNeeded(leases[id], at)
           h == Crd!Step(hist)
           a == [id |-> id, at |-> at, over |-> id \in hist.ended]
<1>1. leases[id] \in Sound /\ Shaped(hist) /\ hist.ops \in Nat
  BY ElementOfSeq, LenProperties DEF Posting, Typed, Leasing
<1>2. /\ lease \in Sound /\ lease.credential = leases[id].credential
      /\ leases[id].status # "active" => lease.status # "active"
      /\ lease.status = "active" => leases[id].status = "active" /\ at < leases[id].expiresAt
  BY <1>1, ExpireKeeps
<1>3. leases' = [leases EXCEPT ![id] = lease]
  BY DEF Crd!ResolveLeaseTarget
<1>4. CASE lease.status # "active"
  <2>1. hist' = Crd!Over(hist, {id})
    BY <1>4 DEF Crd!ResolveLeaseTarget
  <2>2. hist'.ended = hist.ended \cup {id} /\ hist'.answers = hist.answers
    BY <1>1, <2>1, OverIs
  <2> HIDE DEF lease
  <2>3. QED
    BY <1>2, <1>3, <1>4, <2>2, OneLeaseStepKeeps
<1>5. CASE lease.status = "active"
  <2>1. hist' = [h EXCEPT !.answers = @ \cup {a}]
    BY <1>5 DEF Crd!ResolveLeaseTarget
  <2>2. Shaped(h) /\ h.ended = hist.ended /\ h.answers = hist.answers
    BY <1>1, StepIs
  <2> HIDE DEF h
  <2>3. hist'.ended = hist.ended /\ hist'.answers = hist.answers \cup {a}
    <3> HIDE DEF a
    <3>1. hist' = [ops |-> h.ops, latest |-> h.latest, posts |-> h.posts, ended |-> h.ended, answers |-> h.answers \cup {a}]
      BY <2>1, <2>2, ExceptIs, Zenon
    <3>2. QED
      BY <2>2, <3>1
  <2>4. a.id = id /\ a.at = at /\ (a.over <=> id \in hist.ended)
    OBVIOUS
  <2>5. id \notin hist.ended
    BY <1>2, <1>5 DEF Leasing
  <2>6. \A e \in leases[id].credential.expiresAt : at < e
    <3>1. at < leases[id].expiresAt /\ leases[id].expiresAt \in Int
      BY <1>1, <1>2, <1>5 DEF Sound
    <3>2. \A e \in leases[id].credential.expiresAt : leases[id].expiresAt <= e /\ e \in Nat
      BY <1>1 DEF Sound, Offered, Maybe
    <3>3. QED
      BY <3>1, <3>2
  <2> HIDE DEF a
  <2>7. QED
    <3> HIDE DEF lease
    <3>1. \A b \in hist'.answers : b \in hist.answers \/
           (b.id = id /\ ~b.over /\ \A e \in leases[id].credential.expiresAt : b.at < e)
      BY <2>3, <2>4, <2>5, <2>6
    <3>2. QED
      BY <1>2, <1>3, <1>5, <2>3, <3>1, OneLeaseStepKeeps
<1>6. QED
  BY <1>4, <1>5

(* A sweep ends the leases whose time is over and no other. *)
LEMMA SweepKeeps ==
  ASSUME Posting, Leasing, NEW at \in Int, Crd!SweepExpired(at)
  PROVE  Leasing'
<1>1. Shaped(hist) /\ hist.ops \in Nat /\ leases \in Seq(Sound)
  BY DEF Posting, Typed, Leasing
<1>2. DOMAIN leases = 1..Len(leases) /\ Len(leases) \in Nat /\ \A id \in DOMAIN leases : leases[id] \in Sound
  BY <1>1, ElementOfSeq, LenProperties
<1>3. leases' = [id \in DOMAIN leases |-> Crd!expireIfNeeded(leases[id], at)]
  BY DEF Crd!SweepExpired
<1>4. \A id \in DOMAIN leases :
        /\ leases'[id] \in Sound /\ leases'[id].credential = leases[id].credential
        /\ leases[id].status # "active" => leases'[id].status # "active"
  BY <1>2, <1>3, ExpireKeeps
<1>5. leases' \in Seq(Sound) /\ DOMAIN leases' = DOMAIN leases
  <2>1. leases' = [id \in 1..Len(leases) |-> leases'[id]]
    BY <1>2, <1>3
  <2>2. \A id \in 1..Len(leases) : leases'[id] \in Sound
    BY <1>2, <1>4
  <2>3. QED
    BY <1>2, <1>3, <2>1, <2>2, IsASeq
<1> DEFINE ids == {id \in DOMAIN leases : leases'[id].status # "active"}
<1>6. hist'.ended = hist.ended \cup ids /\ hist'.answers = hist.answers
  <2>1. hist' = Crd!Over(hist, ids)
    BY DEF Crd!SweepExpired
  <2> HIDE DEF ids
  <2>2. QED
    BY <1>1, <2>1, OverIs
<1>7. QED
  BY <1>4, <1>5, <1>6, LeaseStepKeeps

(* Installs, posts and time leave the broker alone. *)
LEMMA AsideLeasing ==
  ASSUME Posting, Leasing,
         \/ Crd!Tick \/ Crd!Discover \/ UNCHANGED Crd!vars
         \/ \E t \in Teams :
              \/ \E b \in BOOLEAN : Crd!OAuthInstalled(t, b)
              \/ \E e \in {"app_uninstalled", "tokens_revoked"} : Crd!WorkspaceLifecycleEvent(t, e)
              \/ Crd!ManualInstall(t) \/ Crd!Post(t) \/ Crd!PostLease(t)
         \/ \E d \in retries : Crd!Retry(d)
  PROVE  Leasing'
<1> DEFINE h == Crd!Step(hist)
<1>1. /\ Shaped(hist) /\ Shaped(h) /\ h.ended = hist.ended /\ h.answers = hist.answers
      /\ hist.ops \in Nat /\ h.ops \in Nat
  BY StepIs DEF Posting, Typed
<1>2. leases' = leases
  BY DEF Crd!Tick, Crd!Discover, Crd!vars, Crd!OAuthInstalled, Crd!WorkspaceLifecycleEvent, Crd!ManualInstall, Crd!Post, Crd!Retry, Crd!PostLease
<1>3. \/ hist' = hist \/ hist' = h
      \/ \E x : hist' = [h EXCEPT !.posts = @ \cup x]
      \/ \E x : hist' = Crd!Sent(h, x) \/ hist' = Crd!Sent(hist, x)
      \/ \E t, x : hist' = [h EXCEPT !.latest[t] = x]
  BY DEF Crd!Tick, Crd!Discover, Crd!vars, Crd!OAuthInstalled, Crd!WorkspaceLifecycleEvent, Crd!ManualInstall, Crd!Post, Crd!Retry, Crd!PostLease
<1>4. hist'.ended = hist.ended /\ hist'.answers = hist.answers
  <2> HIDE DEF h
  <2>1. ASSUME NEW x, hist' = [h EXCEPT !.posts = @ \cup x]
        PROVE  hist'.ended = hist.ended /\ hist'.answers = hist.answers
    <3> DEFINE p == h.posts \cup x
    <3>1. hist' = [h EXCEPT !.posts = p]
      BY <2>1
    <3> HIDE DEF p
    <3>2. hist' = [ops |-> h.ops, latest |-> h.latest, posts |-> p, ended |-> h.ended, answers |-> h.answers]
      BY <1>1, <3>1, ExceptIs, Zenon
    <3>3. QED
      BY <1>1, <3>2
  <2>2. ASSUME NEW t, NEW x, hist' = [h EXCEPT !.latest[t] = x]
        PROVE  hist'.ended = hist.ended /\ hist'.answers = hist.answers
    <3> DEFINE l == [h.latest EXCEPT ![t] = x]
    <3>1. hist' = [h EXCEPT !.latest = l]
      BY <2>2
    <3> HIDE DEF l
    <3>2. hist' = [ops |-> h.ops, latest |-> l, posts |-> h.posts, ended |-> h.ended, answers |-> h.answers]
      BY <1>1, <3>1, ExceptIs, Zenon
    <3>3. QED
      BY <1>1, <3>2
  <2>3. \A x : /\ Crd!Sent(h, x).ended = hist.ended /\ Crd!Sent(h, x).answers = hist.answers
               /\ Crd!Sent(hist, x).ended = hist.ended /\ Crd!Sent(hist, x).answers = hist.answers
    BY <1>1, SentIs
  <2>4. QED
    BY <1>1, <1>3, <2>1, <2>2, <2>3
<1>5. QED
  BY <1>2, <1>4 DEF Leasing

(* A restart loses all leases, and with them what was told of them. *)
LEMMA RestartLeasing ==
  ASSUME Posting, NEW v \in Vaults, Crd!Restart(v)
  PROVE  Leasing'
<1> DEFINE h == Crd!Step(hist)
<1>1. Shaped(h)
  BY StepIs DEF Posting, Typed
<1>2. hist' = [h EXCEPT !.ended = {}, !.answers = {}] /\ leases' = <<>>
  BY DEF Crd!Restart
<1> HIDE DEF h
<1>3. hist'.ended = {} /\ hist'.answers = {}
  <2>1. PICK a, b, c, d, e : h = [ops |-> a, latest |-> b, posts |-> c, ended |-> d, answers |-> e]
    BY <1>1, Zenon DEF Shaped
  <2>2. hist' = [ops |-> a, latest |-> b, posts |-> c, ended |-> {}, answers |-> {}]
    BY <1>2, <2>1
  <2>3. QED
    BY <2>2
<1>4. leases' \in Seq(Sound)
  BY <1>2
<1>5. QED
  BY <1>3, <1>4 DEF Leasing

(* Every step keeps the invariant of the leases. *)
LEMMA NextLeasing == Offered /\ Posting /\ Leasing /\ [Crd!Next]_(Crd!vars) => Leasing'
<1> SUFFICES ASSUME Offered, Posting, Leasing, [Crd!Next]_(Crd!vars) PROVE Leasing'
  OBVIOUS
<1>1. 0..MaxNow \subseteq Int
  OBVIOUS
<1>2. CASE BrokerStep
  BY <1>1, <1>2, IssueKeeps, RenewKeeps, RevokeKeeps, ResolveKeeps, SweepKeeps DEF BrokerStep
<1>3. CASE \E v \in Vaults : Crd!Restart(v)
  BY <1>3, RestartLeasing
<1>4. CASE ~BrokerStep /\ ~\E v \in Vaults : Crd!Restart(v)
  BY <1>4, AsideLeasing DEF Crd!Next, BrokerStep
<1>5. QED
  BY <1>2, <1>3, <1>4

(* The invariant gives the property. *)
LEMMA LeasingEnds == Offered /\ Leasing => Crd!LeasesEnd
<1> SUFFICES ASSUME Offered, Leasing PROVE Crd!LeasesEnd
  OBVIOUS
<1>1. ASSUME NEW id \in DOMAIN leases
      PROVE  /\ leases[id].status = "active" => id \notin hist.ended
             /\ leases[id].expiresAt <= Crd!AtMost(leases[id].credential.expiresAt, leases[id].renewedAt + MaxTtl)
             /\ leases[id].auditRef = Crd!createLeaseAuditReference(leases[id])
  <2>1. leases[id] \in Sound
    BY <1>1, ElementOfSeq, LenProperties DEF Leasing
  <2> DEFINE c == leases[id].credential.expiresAt
             n == leases[id].renewedAt + MaxTtl
             m == Crd!AtMost(c, n)
  <2>2. /\ c \in Maybe(Nat) /\ n \in Int /\ leases[id].expiresAt <= n
        /\ \A e \in c : leases[id].expiresAt <= e
    BY <2>1 DEF Sound, Offered
  <2>3. m = n \/ m \in c
    <3> HIDE DEF c, n
    <3>1. QED
      BY <2>2, AtMostIs
  <2>4. leases[id].expiresAt <= m
    <3> HIDE DEF c, n, m
    <3>1. QED
      BY <2>2, <2>3
  <2>5. QED
    BY <2>1, <2>4 DEF Sound, Leasing
<1>2. QED
  BY <1>1 DEF Crd!LeasesEnd, Leasing

(* Posting and Leasing together are an invariant of the service. *)
LEMMA LeasingHolds == Spec => [](unit = "credentials" => Posting /\ Leasing)
<1> DEFINE Kept == unit = "credentials" => Posting /\ Leasing
<1>1. Starts => Kept
  BY InitPosting, InitLeasing DEF Starts
<1>2. Kept /\ [UNCHANGED unit /\ Steps]_vars => Kept'
  BY NextPosting, NextLeasing, ConstantsOffered DEF Steps, vars, Crd!vars
<1>3. QED
  BY <1>1, <1>2, PTL DEF Spec

(* A lease found over stays over, one that is not ends with its credential, and
   none is handed out for a time at which it has ended (the broker's issue,
   renew, revoke, getLease, resolveLeaseTarget and sweep), whatever credentials
   and lifetimes it is called with. *)
THEOREM LeasesEndHolds == Spec => []LeasesEnd
<1>1. (unit = "credentials" => Posting /\ Leasing) => LeasesEnd
  BY LeasingEnds, ConstantsOffered DEF LeasesEnd
<1>2. QED
  BY <1>1, LeasingHolds, PTL

-----------------------------------------------------------------------------
(* Health *)

(* A credential is called leaseable exactly when issueLease would lend it. *)
LEMMA LeaseableAsIssued ==
  ASSUME NEW c \in Records, c.status \in Statuses, DefaultTtl \in 1..MaxTtl, NEW at
  PROVE  Crd!isLeaseableCredentialHealthState(Crd!deriveCredentialHealth(c, at, {})) <=> Crd!issued(c, {}, at) # {}
<1>1. Crd!normalizeTtlMs({}) = {DefaultTtl}
  BY DEF Crd!normalizeTtlMs
<1>2. Crd!issued(c, {}, at) # {} <=> Crd!isLeaseableCredentialStatus(c.status) /\ ~\E e \in c.expiresAt : e <= at
  BY <1>1 DEF Crd!issued
<1>3. Crd!computeMissingScopes(c, {}) = {}
  BY DEF Crd!computeMissingScopes
<1>4. QED
  BY <1>2, <1>3 DEF Crd!deriveCredentialHealth, Crd!isLeaseableCredentialHealthState, Crd!expiredAt, Statuses,
       Crd!isLeaseableCredentialStatus

(* Health derived for a credential agrees with the broker: deriveCredentialHealth
   calls it leaseable exactly when issueLease would lend it for the default
   lifetime, scopes it has do not change that, and collectActiveLeaseIds lists
   the leases resolveLeaseTarget would hand out. *)
THEOREM HealthMatchesBrokerHolds == Spec => []HealthMatchesBroker
<1>1. ASSUME Posting, Leasing PROVE Crd!HealthMatchesBroker
  <2> SUFFICES ASSUME NEW c \in Records
        PROVE /\ Crd!isLeaseableCredentialHealthState(Crd!deriveCredentialHealth(c, now, {})) <=> Crd!issued(c, {}, now) # {}
              /\ RequiredScopes \subseteq c.scopes =>
                   Crd!deriveCredentialHealth(c, now, RequiredScopes) = Crd!deriveCredentialHealth(c, now, {})
              /\ Crd!collectActiveLeaseIds(c, leases, now) =
                   {id \in DOMAIN leases :
                      leases[id].credential.id = c.id /\ Crd!expireIfNeeded(leases[id], now).status = "active"}
    BY DEF Crd!HealthMatchesBroker
  <2>1. Crd!isLeaseableCredentialHealthState(Crd!deriveCredentialHealth(c, now, {})) <=> Crd!issued(c, {}, now) # {}
    BY LeaseableAsIssued, ConstantsOffered
  <2>2. ASSUME RequiredScopes \subseteq c.scopes
        PROVE  Crd!deriveCredentialHealth(c, now, RequiredScopes) = Crd!deriveCredentialHealth(c, now, {})
    <3>1. Crd!computeMissingScopes(c, RequiredScopes) = {} /\ Crd!computeMissingScopes(c, {}) = {}
      BY <2>2 DEF Crd!computeMissingScopes, Crd!parseScopeSummary
    <3>2. QED
      BY <3>1 DEF Crd!deriveCredentialHealth
  <2>3. \A id \in DOMAIN leases :
          leases[id].status = "active" /\ leases[id].expiresAt > now <=> Crd!expireIfNeeded(leases[id], now).status = "active"
    <3> SUFFICES ASSUME NEW id \in DOMAIN leases
          PROVE leases[id].status = "active" /\ leases[id].expiresAt > now
                  <=> Crd!expireIfNeeded(leases[id], now).status = "active"
      OBVIOUS
    <3>1. leases[id] \in Sound /\ now \in Int /\ leases[id].expiresAt \in Int
      BY <1>1, ElementOfSeq, LenProperties DEF Posting, Typed, Leasing, Sound
    <3>2. QED
      BY <3>1, ExpireKeeps
  <2>4. QED
    BY <2>1, <2>2, <2>3 DEF Crd!collectActiveLeaseIds
<1>2. (unit = "credentials" => Posting /\ Leasing) => HealthMatchesBroker
  BY <1>1 DEF HealthMatchesBroker
<1>3. QED
  BY <1>2, LeasingHolds, PTL

-----------------------------------------------------------------------------
(* Slack callbacks: sequences and snapshots *)

IsSeq(q) == Len(q) \in Nat /\ q = [k \in 1..Len(q) |-> q[k]]

LEMMA SeqOf == ASSUME NEW S, NEW q, IsSeq(q), \A k \in 1..Len(q) : q[k] \in S PROVE q \in Seq(S)
<1>1. PICK n \in Nat : n = Len(q)
  BY DEF IsSeq
<1>2. \A k \in 1..n : q[k] \in S
  BY <1>1
<1>3. q = [k \in 1..n |-> q[k]]
  BY <1>1 DEF IsSeq
<1>4. [k \in 1..n |-> q[k]] \in Seq(S)
  BY <1>2
<1>5. QED
  BY <1>3, <1>4, Zenon
LEMMA SeqIs == ASSUME NEW S, NEW q \in Seq(S) PROVE IsSeq(q)
BY LenProperties DEF IsSeq

(* What concatenation, Append and Tail make of sequences of anything. *)
LEMMA ConcatIs ==
  ASSUME NEW q, NEW p, IsSeq(q), IsSeq(p)
  PROVE  /\ IsSeq(q \o p) /\ Len(q \o p) = Len(q) + Len(p)
         /\ \A k \in 1..Len(q) : (q \o p)[k] = q[k]
         /\ \A k \in 1..Len(p) : (q \o p)[Len(q) + k] = p[k]
         /\ \A k \in 1..Len(q \o p) : k \in 1..Len(q) \/ k - Len(q) \in 1..Len(p)
<1> DEFINE S == {q[k] : k \in 1..Len(q)} \cup {p[k] : k \in 1..Len(p)}
<1>1. q \in Seq(S) /\ p \in Seq(S)
  BY SeqOf
<1> HIDE DEF S
<1>2. q \o p \in Seq(S) /\ Len(q \o p) = Len(q) + Len(p)
  BY <1>1, ConcatProperties
<1>3. PICK m \in Nat, n \in Nat : m = Len(q) /\ n = Len(p)
  BY DEF IsSeq
<1>4. \A k \in 1..m+n : (q \o p)[k] = IF k <= m THEN q[k] ELSE p[k - m]
  BY <1>1, <1>3, ConcatProperties
<1>5. ASSUME NEW k \in 1..n PROVE (q \o p)[m + k] = p[k]
  <2>1. PICK j \in 1..m+n : j = m + k /\ ~(j <= m) /\ j - m = k
    OBVIOUS
  <2>2. (q \o p)[j] = p[k]
    BY <1>4, <2>1
  <2>3. QED
    BY <2>1, <2>2
<1>6. ASSUME NEW k \in 1..m PROVE (q \o p)[k] = q[k]
  <2>1. k \in 1..m+n /\ k <= m
    OBVIOUS
  <2>2. QED
    BY <1>4, <2>1
<1>7. \A k \in 1..m+n : k \in 1..m \/ k - m \in 1..n
  OBVIOUS
<1>8. IsSeq(q \o p)
  BY <1>2, SeqIs
<1>9. QED
  BY <1>2, <1>3, <1>5, <1>6, <1>7, <1>8
LEMMA AppendIs ==
  ASSUME NEW q, NEW e, IsSeq(q)
  PROVE  /\ IsSeq(Append(q, e)) /\ Len(Append(q, e)) = Len(q) + 1
         /\ \A k \in 1..Len(q) : Append(q, e)[k] = q[k]
         /\ Append(q, e)[Len(q) + 1] = e
         /\ \A k \in 1..Len(q) + 1 : k \in 1..Len(q) \/ k = Len(q) + 1
<1> DEFINE S == {q[k] : k \in 1..Len(q)} \cup {e}
<1>1. q \in Seq(S) /\ e \in S /\ Len(q) \in Nat
  BY SeqOf DEF IsSeq
<1> HIDE DEF S
<1>2. Append(q, e) \in Seq(S)
  BY <1>1, AppendProperties
<1>3. IsSeq(Append(q, e))
  BY <1>2, SeqIs
<1>4. QED
  BY <1>1, <1>3, AppendProperties
LEMMA TailIs ==
  ASSUME NEW q, IsSeq(q), q # <<>>
  PROVE  /\ IsSeq(Tail(q)) /\ Len(q) # 0 /\ Len(Tail(q)) = Len(q) - 1 /\ Head(q) = q[1]
         /\ \A k \in 1..Len(Tail(q)) : Tail(q)[k] = q[k + 1] /\ k + 1 \in 1..Len(q)
<1> DEFINE S == {q[k] : k \in 1..Len(q)}
<1>1. q \in Seq(S)
  BY SeqOf
<1> HIDE DEF S
<1>2. Tail(q) \in Seq(S)
  BY <1>1, HeadTailProperties
<1>3. IsSeq(Tail(q))
  BY <1>2, SeqIs
<1>4. QED
  BY <1>1, <1>3, HeadTailProperties, LenProperties

(* A snapshot has these fields.  A handler's snapshots differ from the one it
   found in other fields than the keys and the runs, or have one more run. *)
Fields == {"install", "credential", "places", "approval", "keys", "runs"}
Alike(s, x) == DOMAIN x = Fields /\ x.keys = s.keys /\ x.runs = s.runs
Started(s, x, at) == DOMAIN x = Fields /\ x.keys = s.keys /\ \E run : run.at = at /\ x.runs = s.runs \cup {run}
Outcome(s, op, at, h) ==
  /\ h.status \in {"processed", "ignored", "error", "refused"}
  /\ IsSeq(h.steps)
  /\ \A k \in 1..Len(h.steps) :
       \/ Alike(s, h.steps[k])
       \/ Started(s, h.steps[k], at) /\ ~Ing!Admin(op) /\ h.status = "processed"

(* The updates of a handler, by field. *)
LEMMA Updates ==
  ASSUME NEW s, DOMAIN s = Fields, NEW c, NEW v, NEW w
  PROVE  /\ Alike(s, [s EXCEPT !.install[c] = v]) /\ Alike(s, [s EXCEPT !.install[c].status = v])
         /\ Alike(s, [s EXCEPT !.credential[c] = v]) /\ Alike(s, [s EXCEPT !.places[c] = v])
         /\ Alike(s, [s EXCEPT !.places[c].read = v]) /\ Alike(s, [s EXCEPT !.approval.status = v])
         /\ Alike(s, [s EXCEPT !.places[c].member = v, !.places[c].team = w])
         /\ Alike(s, [s EXCEPT !.places[c].team = v, !.places[c].member = w])
  BY DEF Alike, Fields
(* Of sequences of one, two and three. *)
LEMMA ShortSeqs ==
  ASSUME NEW a, NEW b, NEW c
  PROVE  /\ IsSeq(<<>>) /\ Len(<<>>) = 0
         /\ IsSeq(<<a>>) /\ Len(<<a>>) = 1 /\ <<a>>[1] = a
         /\ IsSeq(<<a, b>>) /\ Len(<<a, b>>) = 2 /\ <<a, b>>[1] = a /\ <<a, b>>[2] = b
         /\ IsSeq(<<a, b, c>>) /\ Len(<<a, b, c>>) = 3
         /\ <<a, b, c>>[1] = a /\ <<a, b, c>>[2] = b /\ <<a, b, c>>[3] = c
  BY DEF IsSeq
LEMMA PairIs == ASSUME NEW a, NEW b PROVE Append(<<a>>, b) = <<a, b>>
<1>1. IsSeq(<<a>>) /\ Len(<<a>>) = 1 /\ <<a>>[1] = a
  BY ShortSeqs
<1>2. PICK q : q = Append(<<a>>, b)
  OBVIOUS
<1>3. IsSeq(q) /\ Len(q) = 2 /\ q[1] = a /\ q[2] = b
  BY <1>1, <1>2, AppendIs
<1>4. q = [k \in 1..2 |-> q[k]]
  BY <1>3 DEF IsSeq
<1>5. q = <<a, b>>
  BY <1>3, <1>4
<1>6. QED
  BY <1>2, <1>5
LEMMA JoinsAre == ASSUME NEW a, NEW b PROVE <<a>> \o <<>> = <<a>> /\ <<a>> \o <<b>> = <<a, b>>
<1>1. IsSeq(<<>>) /\ Len(<<>>) = 0 /\ IsSeq(<<a>>) /\ Len(<<a>>) = 1 /\ <<a>>[1] = a
  BY ShortSeqs
<1>2. IsSeq(<<b>>) /\ Len(<<b>>) = 1 /\ <<b>>[1] = b
  BY ShortSeqs
<1>3. PICK p, q : p = <<a>> \o <<>> /\ q = <<a>> \o <<b>>
  OBVIOUS
<1>4. IsSeq(p) /\ Len(p) = 1 /\ p[1] = a
  BY <1>1, <1>3, ConcatIs
<1>5. IsSeq(q) /\ Len(q) = 2 /\ q[1] = a /\ q[2] = b
  <2>1. IsSeq(q) /\ Len(q) = 1 + 1
    BY <1>1, <1>2, <1>3, ConcatIs
  <2>2. \A k \in 1..1 : q[k] = <<a>>[k]
    BY <1>1, <1>2, <1>3, ConcatIs
  <2>3. \A k \in 1..1 : q[1 + k] = <<b>>[k]
    BY <1>1, <1>2, <1>3, ConcatIs
  <2>4. QED
    BY <1>1, <1>2, <2>1, <2>2, <2>3
<1>6. p = [k \in 1..1 |-> p[k]] /\ q = [k \in 1..2 |-> q[k]]
  BY <1>4, <1>5 DEF IsSeq
<1>7. p = <<a>> /\ q = <<a, b>>
  BY <1>4, <1>5, <1>6
<1>8. QED
  BY <1>3, <1>7


(* Every handler has such an outcome. *)
LEMMA HandlersOutcome ==
  ASSUME NEW s, DOMAIN s = Fields, NEW op, NEW at
  PROVE  Outcome(s, op, at, Ing!Handle(s, op, at))
<1> DEFINE Ends == {"processed", "ignored", "error", "refused"}
           Fine(h) == Outcome(s, op, at, h)
<1>0. ASSUME NEW status \in Ends, NEW q, IsSeq(q), \A k \in 1..Len(q) : Alike(s, q[k])
      PROVE  Fine(Ing!Done(status, q))
  <2>1. PICK h : h = Ing!Done(status, q)
    OBVIOUS
  <2>2. h.status = status /\ h.steps = q
    BY <2>1 DEF Ing!Done
  <2>3. IsSeq(h.steps) /\ h.status \in {"processed", "ignored", "error", "refused"}
    BY <1>0, <2>2
  <2>4. \A k \in 1..Len(h.steps) : Alike(s, h.steps[k])
    BY <1>0, <2>2, Zenon
  <2>5. Outcome(s, op, at, h)
    BY <2>3, <2>4 DEF Outcome
  <2>6. QED
    BY <2>1, <2>5
<1>1. ASSUME NEW status \in Ends PROVE Fine(Ing!Done(status, <<>>))
  <2>1. \A k \in 1..Len(<<>>) : Alike(s, <<>>[k])
    OBVIOUS
  <2>2. QED
    BY <1>0, <2>1, ShortSeqs
<1>2. ASSUME NEW status \in Ends, NEW x, Alike(s, x) PROVE Fine(Ing!Done(status, <<x>>))
  <2>1. \A k \in 1..Len(<<x>>) : Alike(s, <<x>>[k])
    BY <1>2
  <2>2. QED
    BY <1>0, <2>1, ShortSeqs
<1>3. ASSUME NEW status \in Ends, NEW x, NEW y, Alike(s, x), Alike(s, y)
      PROVE  Fine(Ing!Done(status, <<x, y>>))
  <2>1. \A k \in 1..Len(<<x, y>>) : Alike(s, <<x, y>>[k])
    BY <1>3
  <2>2. QED
    BY <1>0, <2>1, ShortSeqs
<1>4. ASSUME NEW t, Alike(s, t), NEW place
      PROVE  Started(s, Ing!createRunAndQueue(t, at, place), at)
  <2> DEFINE run == [n |-> Ing!Cardinality(t.runs) + 1, at |-> at, place |-> place]
  <2>1. Ing!createRunAndQueue(t, at, place) = [t EXCEPT !.runs = t.runs \cup {run}] /\ run.at = at
    BY DEF Ing!createRunAndQueue
  <2> HIDE DEF run
  <2>2. QED
    BY <1>4, <2>1 DEF Alike, Started, Fields
<1>5. ASSUME NEW q, IsSeq(q), Len(q) \in 1..3, \A k \in 1..Len(q) : k # Len(q) => Alike(s, q[k]),
             Started(s, q[Len(q)], at), ~Ing!Admin(op)
      PROVE  Fine(Ing!Done("processed", q))
  <2>1. PICK h : h = Ing!Done("processed", q)
    OBVIOUS
  <2>2. h.status = "processed" /\ h.steps = q
    BY <2>1 DEF Ing!Done
  <2>3. ASSUME NEW k \in 1..Len(q) PROVE Alike(s, q[k]) \/ Started(s, q[k], at)
    BY <1>5, <2>3
  <2>4. Outcome(s, op, at, h)
    BY <1>5, <2>2, <2>3 DEF Outcome
  <2>5. QED
    BY <2>1, <2>4
<1> HIDE DEF Fine
<1>6. \A x, y : Alike(s, x) /\ Alike(x, y) => Alike(s, y)
  BY DEF Alike
<1>7. \A x : Alike(s, x) => DOMAIN x = Fields
  BY DEF Alike
<1>8. Fine(Ing!Ignored)
  BY <1>1 DEF Ing!Ignored
(* Reading a channel: the grant is there, is added, or is refused. *)
<1>9. ASSUME NEW c, NEW x, Alike(s, x)
      PROVE  Fine(Ing!ensureSlackReadAccessForChannel(x, c, <<x>>))
  <2>1. PICK y : y = [x EXCEPT !.places[c].read = "allow"]
    OBVIOUS
  <2>0. DOMAIN x = Fields
    BY <1>7, <1>9
  <2>2. Alike(s, y)
    <3>1. Alike(x, [x EXCEPT !.places[c].read = "allow"])
      BY <2>0, Updates, Zenon
    <3>2. QED
      BY <1>6, <1>9, <2>1, <3>1, Zenon
  <2>3. /\ Fine(Ing!Done("processed", <<x>>)) /\ Fine(Ing!Done("error", <<x>>))
        /\ Fine(Ing!Done("processed", <<x, y>>))
    BY <1>2, <1>3, <1>9, <2>2
  <2>4. Append(<<x>>, y) = <<x, y>>
    BY PairIs
  <2>5. CASE x.places[c].read = "allow"
    BY <2>3, <2>5, Zenon DEF Ing!ensureSlackReadAccessForChannel
  <2>6. CASE x.places[c].read = "none"
    <3>1. Fine(Ing!Done("processed", Append(<<x>>, [x EXCEPT !.places[c].read = "allow"])))
      BY <2>1, <2>3, <2>4, Zenon
    <3>2. QED
      BY <2>3, <2>6, <3>1, Zenon DEF Ing!ensureSlackReadAccessForChannel
  <2>7. CASE ~(x.places[c].read = "allow") /\ ~(x.places[c].read = "none")
    BY <2>3, <2>7, Zenon DEF Ing!ensureSlackReadAccessForChannel
  <2>8. QED
    BY <2>5, <2>6, <2>7
<1>10. Fine(Ing!handleSlackChannelJoinedEvent(s, op))
  <2>1. PICK x, y : /\ x = [s EXCEPT !.places[op.channel].member = "yes", !.places[op.channel].team = op.team]
                    /\ y = [s EXCEPT !.places[op.channel] = Ing!Channel(op.team, "yes", "none")]
    OBVIOUS
  <2>2. Alike(s, x) /\ Alike(s, y)
    BY <2>1, Updates
  <2>3. /\ Fine(Ing!ensureSlackReadAccessForChannel(x, op.channel, <<x>>))
        /\ Fine(Ing!ensureSlackReadAccessForChannel(y, op.channel, <<y>>))
    BY <1>9, <2>2
  <2>4. QED
    BY <1>8, <2>1, <2>3, Zenon DEF Ing!handleSlackChannelJoinedEvent
<1>11. Fine(Ing!handleSlackChannelLeftEvent(s, op))
  <2>1. PICK x : x = [s EXCEPT !.places[op.channel].member = "no", !.places[op.channel].team = op.team]
    OBVIOUS
  <2>2. Fine(Ing!Done("processed", <<x>>))
    BY <1>2, <2>1, Updates
  <2>3. QED
    BY <1>8, <2>1, <2>2, Zenon DEF Ing!handleSlackChannelLeftEvent
(* Revoking: a step when there is a credential. *)
<1>12. Fine(Ing!handleSlackWorkspaceLifecycleEvent(s, op))
  <2>1. PICK x, y, z : /\ x = [s EXCEPT !.install[op.team].status = "revoked"]
                       /\ y = [s EXCEPT !.credential[op.team] = "revoked"]
                       /\ z = [x EXCEPT !.credential[op.team] = "revoked"]
    OBVIOUS
  <2>2. Alike(s, x) /\ Alike(s, y)
    BY <2>1, Updates, Zenon
  <2>3. Alike(x, z)
    BY <1>7, <2>1, <2>2, Updates, Zenon
  <2>4. Alike(s, z)
    BY <1>6, <2>2, <2>3, Zenon
  <2>5. <<x>> \o <<>> = <<x>> /\ <<x>> \o <<z>> = <<x, z>>
    BY JoinsAre, Zenon
  <2>6. /\ Fine(Ing!Done("processed", <<x>> \o <<>>)) /\ Fine(Ing!Done("processed", <<x>> \o <<z>>))
        /\ Fine(Ing!Done("processed", <<y>>)) /\ Fine(Ing!Done("processed", <<>>))
    BY <1>1, <1>2, <1>3, <2>2, <2>4, <2>5
  <2>7. /\ Fine(Ing!Done("processed", <<x>> \o Ing!revokeActiveSlackCredentials(x, op.team)))
        /\ Fine(Ing!Done("processed", Ing!revokeActiveSlackCredentials(s, op.team)))
    <3>1. Ing!revokeActiveSlackCredentials(x, op.team) = <<z>> \/ Ing!revokeActiveSlackCredentials(x, op.team) = <<>>
      BY <2>1, Zenon DEF Ing!revokeActiveSlackCredentials
    <3>2. Ing!revokeActiveSlackCredentials(s, op.team) = <<y>> \/ Ing!revokeActiveSlackCredentials(s, op.team) = <<>>
      BY <2>1, Zenon DEF Ing!revokeActiveSlackCredentials
    <3>3. QED
      BY <2>6, <3>1, <3>2, Zenon
  <2>8. QED
    BY <1>8, <2>1, <2>7, Zenon DEF Ing!handleSlackWorkspaceLifecycleEvent
<1>13. ASSUME NEW t, Alike(s, t), ~Ing!Admin(op), NEW place
       PROVE  Fine(Ing!Done("processed", << Ing!createRunAndQueue(t, at, place) >>))
  <2>1. PICK x : x = Ing!createRunAndQueue(t, at, place)
    OBVIOUS
  <2>2. Started(s, x, at)
    BY <1>4, <1>13, <2>1
  <2>3. Fine(Ing!Done("processed", <<x>>))
    <3>1. PICK q : q = <<x>>
      OBVIOUS
    <3>2. IsSeq(q) /\ Len(q) = 1 /\ q[1] = x
      BY <3>1, ShortSeqs
    <3>3. Len(q) \in 1..3 /\ (\A k \in 1..Len(q) : k # Len(q) => Alike(s, q[k])) /\ Started(s, q[Len(q)], at)
      BY <2>2, <3>2
    <3>4. Fine(Ing!Done("processed", q))
      BY <1>5, <1>13, <3>2, <3>3, Zenon
    <3>5. QED
      BY <3>1, <3>4
  <2>4. QED
    BY <2>1, <2>3
<1>14. ASSUME ~Ing!Admin(op) PROVE Fine(Ing!handleSlackDmEvent(s, op, at))
  <2>1. PICK x : x = Ing!getOrCreateSlackDmPlace(s, op)
    OBVIOUS
  <2>2. Alike(s, x)
    BY <2>1, Updates, Zenon DEF Ing!getOrCreateSlackDmPlace
  <2>3. PICK y : y = Ing!ensureSlackReadAccessForDm(x, op.channel)
    OBVIOUS
  <2>4. Alike(s, y)
    <3>1. Alike(x, [x EXCEPT !.places[op.channel].read = "allow"])
      BY <1>7, <2>2, Updates, Zenon
    <3>2. Alike(s, [x EXCEPT !.places[op.channel].read = "allow"])
      BY <1>6, <2>2, <3>1, Zenon
    <3>3. QED
      BY <2>2, <2>3, <3>2, Zenon DEF Ing!ensureSlackReadAccessForDm
  <2>5. PICK z : z = Ing!createRunAndQueue(y, at, op.channel)
    OBVIOUS
  <2>6. Started(s, z, at)
    BY <1>4, <2>4, <2>5
  <2>7. Fine(Ing!Done("error", <<x, y>>))
    BY <1>3, <2>2, <2>4
  <2>8. Fine(Ing!Done("processed", <<x, y, z>>))
    <3>1. PICK q : q = <<x, y, z>>
      OBVIOUS
    <3>2. IsSeq(q) /\ Len(q) = 3 /\ q[1] = x /\ q[2] = y /\ q[3] = z
      BY <3>1, ShortSeqs
    <3>3. Len(q) \in 1..3 /\ (\A k \in 1..Len(q) : k # Len(q) => Alike(s, q[k])) /\ Started(s, q[Len(q)], at)
      BY <2>2, <2>4, <2>6, <3>2
    <3>4. Fine(Ing!Done("processed", q))
      BY <1>5, <1>14, <3>2, <3>3, Zenon
    <3>5. QED
      BY <3>1, <3>4
  <2>9. QED
    BY <1>8, <2>1, <2>3, <2>5, <2>7, <2>8, Zenon DEF Ing!handleSlackDmEvent
<1>15. Alike(s, s)
  BY DEF Alike
<1>16. ASSUME ~Ing!Admin(op)
       PROVE  Fine(Ing!MentionOrReaction(s, op, at)) /\ Fine(Ing!SlackCommand(s, op, at))
  <2>1. /\ Fine(Ing!Done("processed", << Ing!createRunAndQueue(s, at, op.channel) >>))
        /\ Fine(Ing!Done("processed", <<>>)) /\ Fine(Ing!Done("error", <<>>))
    BY <1>1, <1>13, <1>15, <1>16
  <2>2. Fine(Ing!MentionOrReaction(s, op, at))
    BY <1>8, <2>1, Zenon DEF Ing!MentionOrReaction
  <2>3. Fine(Ing!SlackCommand(s, op, at))
    BY <1>8, <2>1, Zenon DEF Ing!SlackCommand
  <2>4. QED
    BY <2>2, <2>3
<1>17. Fine(Ing!SlackInteraction(s, op))
  <2>1. PICK x, y : /\ x = [s EXCEPT !.approval.status = "expired"]
                    /\ y = [s EXCEPT !.approval.status = op.decision]
    OBVIOUS
  <2>2. /\ Fine(Ing!Done("ignored", <<x>>)) /\ Fine(Ing!Done("processed", <<y>>))
        /\ Fine(Ing!Done("refused", <<>>))
    BY <1>1, <1>2, <2>1, Updates
  <2>3. QED
    BY <1>8, <2>1, <2>2, Zenon DEF Ing!SlackInteraction
<1>18. Fine(Ing!PatchChannel(s, op))
  <2>1. PICK x : x = [s EXCEPT !.places[op.channel].team = op.team, !.places[op.channel].member = "unset"]
    OBVIOUS
  <2>2. Alike(s, x)
    BY <2>1, Updates
  <2>3. Fine(Ing!ensureSlackReadAccessForChannel(x, op.channel, <<x>>)) /\ Fine(Ing!Done("error", <<>>))
    BY <1>1, <1>9, <2>2
  <2>4. QED
    BY <2>1, <2>3, Zenon DEF Ing!PatchChannel
<1>19. Fine(Ing!ManualInstall(s, op)) /\ Fine(Ing!OAuthCallback(op))
  <2>1. PICK v : v = [status |-> "active", scopes |-> TRUE, granted |-> s.install[op.team].granted]
    OBVIOUS
  <2>2. PICK x : x = [s EXCEPT !.install[op.team] = v]
    OBVIOUS
  <2>3. Fine(Ing!Done("processed", <<x>>)) /\ Fine(Ing!Done("processed", <<>>)) /\ Fine(Ing!Done("refused", <<>>))
    BY <1>1, <1>2, <2>2, Updates
  <2>4. Ing!ManualInstall(s, op) = Ing!Done("processed", <<x>>)
    BY <2>1, <2>2, Zenon DEF Ing!ManualInstall
  <2>5. QED
    BY <2>3, <2>4, Zenon DEF Ing!OAuthCallback
<1>20. Ing!Kind(op) \in {"dm", "mention", "reaction", "command"} => ~Ing!Admin(op)
  BY DEF Ing!Kind, Ing!Admin
<1>21. Fine(Ing!Handle(s, op, at))
  <2>1. CASE Ing!Kind(op) \in {"dm", "mention", "reaction", "command"}
    BY <1>14, <1>16, <1>20, <2>1, Zenon DEF Ing!Handle
  <2>2. CASE Ing!Kind(op) \notin {"dm", "mention", "reaction", "command"}
    BY <1>8, <1>10, <1>11, <1>12, <1>17, <1>18, <1>19, <2>2, Zenon DEF Ing!Handle
  <2>3. QED
    BY <2>1, <2>2
<1>22. QED
  BY <1>21 DEF Fine


-----------------------------------------------------------------------------
(* Slack callbacks: one run for each *)

(* The variables of SlackIngress, by the names they have there; its store is
   memory here. *)
memory == s1
saved == s2
chain == s3
inbox == s4
requests == s5
seen == s6
USE DEF memory, saved, chain, inbox, requests, seen

RunsAt(s, i) == {run \in s.runs : run.at = i}
Under(rs, i) == \E r \in rs : r.at = i

(* What holds of every snapshot, in memory, queued or written: the runs it has
   for a callback are one, and one for each request of the callback that was
   lost. *)
Snapshot(s, in, lost) ==
  /\ DOMAIN s = Fields /\ IsFiniteSet(s.runs)
  /\ \A run \in s.runs : run.at \in 1..Len(in)
  /\ \A i \in 1..Len(in) : Cardinality(RunsAt(s, i)) <= 1 + lost[i]

(* The next delivery of a callback makes a run, unless its key is recorded or
   Slack has its answer: so there must be room for one.  In a snapshot that is
   not in memory the room may be what a restart makes, when a request of the
   callback is under way. *)
Spare(s, i, lost) == Cardinality(RunsAt(s, i)) <= lost[i]
Owed(s, in, lost) == \A i \in 1..Len(in) : i \in s.keys \/ in[i].acked \/ Spare(s, i, lost)
Held(s, in, rs, lost) ==
  \A i \in 1..Len(in) : i \in s.keys \/ in[i].acked \/ Under(rs, i) \/ Spare(s, i, lost)

Lettered(in) ==
  /\ IsSeq(in)
  /\ \A i \in 1..Len(in) : DOMAIN in[i] = {"op", "acked", "tries"} /\ in[i].acked \in BOOLEAN
Counts(q, in) == IsSeq(q) /\ Len(q) = Len(in) /\ \A i \in 1..Len(in) : q[i] \in Nat
Requests(in) == [at : 1..Len(in), pc : {"flush", "exchange", "installed"}, waits : Nat]
Shapes ==
  /\ Lettered(inbox)
  /\ DOMAIN chain = {"queue", "error", "fails", "stops"} /\ IsSeq(chain.queue)
  /\ chain.error \in BOOLEAN /\ chain.fails \in Nat /\ chain.stops \in Nat
  /\ DOMAIN seen = {"lost", "exchanged", "left"}
  /\ Counts(seen.lost, inbox) /\ Counts(seen.exchanged, inbox)
  /\ IsFiniteSet(requests) /\ requests \subseteq Requests(inbox)
Ingressed ==
  /\ Shapes
  /\ Snapshot(memory, inbox, seen.lost) /\ Owed(memory, inbox, seen.lost)
  /\ Snapshot(saved, inbox, seen.lost) /\ Held(saved, inbox, requests, seen.lost)
  /\ \A k \in 1..Len(chain.queue) :
       Snapshot(chain.queue[k], inbox, seen.lost) /\ Held(chain.queue[k], inbox, requests, seen.lost)

LEMMA SeqDomain == ASSUME NEW q, IsSeq(q) PROVE DOMAIN q = 1..Len(q)
BY DEF IsSeq

LEMMA RunsCounted ==
  ASSUME NEW s, IsFiniteSet(s.runs), NEW i
  PROVE  IsFiniteSet(RunsAt(s, i)) /\ Cardinality(RunsAt(s, i)) \in Nat
BY FS_Subset, FS_CardinalityType DEF RunsAt

(* When callbacks are only added, answers and losses only grow, and a request
   that is over has left an answer or a loss, snapshots stay as they are. *)
Onward(in, rs, lost, in2, rs2, lost2) ==
  /\ Len(in) \in Nat /\ Len(in2) \in Nat /\ Len(in) <= Len(in2)
  /\ \A i \in 1..Len(in2) : lost2[i] \in Nat
  /\ \A i \in 1..Len(in) :
       /\ lost[i] \in Nat /\ lost[i] <= lost2[i]
       /\ in[i].acked => in2[i].acked
       /\ Under(rs, i) => Under(rs2, i) \/ in2[i].acked \/ lost[i] + 1 <= lost2[i]
LEMMA OnwardKeeps ==
  ASSUME NEW in, NEW rs, NEW lost, NEW in2, NEW rs2, NEW lost2, Onward(in, rs, lost, in2, rs2, lost2),
         NEW s, Snapshot(s, in, lost)
  PROVE  /\ Snapshot(s, in2, lost2)
         /\ Owed(s, in, lost) => Owed(s, in2, lost2)
         /\ Held(s, in, rs, lost) => Held(s, in2, rs2, lost2)
<1>1. ASSUME NEW i \in 1..Len(in2), i \notin 1..Len(in) PROVE Cardinality(RunsAt(s, i)) <= lost2[i]
  <2>1. RunsAt(s, i) = {}
    BY <1>1 DEF RunsAt, Snapshot
  <2>2. Cardinality(RunsAt(s, i)) = 0
    BY <2>1, FS_EmptySet
  <2>3. QED
    BY <2>2 DEF Onward
<1>2. ASSUME NEW i \in 1..Len(in)
      PROVE  /\ i \in 1..Len(in2) /\ lost[i] \in Nat /\ lost2[i] \in Nat /\ lost[i] <= lost2[i]
             /\ in[i].acked => in2[i].acked
             /\ Under(rs, i) => Under(rs2, i) \/ in2[i].acked \/ lost[i] + 1 <= lost2[i]
             /\ Cardinality(RunsAt(s, i)) \in Nat /\ Cardinality(RunsAt(s, i)) <= 1 + lost[i]
  <2>1. i \in 1..Len(in2)
    BY DEF Onward
  <2>2. QED
    BY <2>1, RunsCounted DEF Onward, Snapshot
<1>3. Snapshot(s, in2, lost2)
  <2>1. ASSUME NEW i \in 1..Len(in2) PROVE Cardinality(RunsAt(s, i)) <= 1 + lost2[i]
    <3>1. Cardinality(RunsAt(s, i)) \in Nat /\ lost2[i] \in Nat
      BY RunsCounted DEF Snapshot, Onward
    <3>2. CASE i \in 1..Len(in)
      BY <1>2, <3>1, <3>2
    <3>3. CASE i \notin 1..Len(in)
      BY <1>1, <3>1, <3>3
    <3>4. QED
      BY <3>2, <3>3
  <2>2. \A run \in s.runs : run.at \in 1..Len(in2)
    BY <1>2 DEF Snapshot
  <2>3. QED
    BY <2>1, <2>2 DEF Snapshot
<1>4. ASSUME Owed(s, in, lost), NEW i \in 1..Len(in2)
      PROVE  i \in s.keys \/ in2[i].acked \/ Spare(s, i, lost2)
  <2>1. CASE i \notin 1..Len(in)
    BY <1>1, <2>1 DEF Spare
  <2>2. CASE i \in 1..Len(in)
    <3>1. i \in s.keys \/ in[i].acked \/ Spare(s, i, lost)
      BY <1>4, <2>2 DEF Owed
    <3>2. Spare(s, i, lost) => Spare(s, i, lost2)
      BY <1>2, <2>2 DEF Spare
    <3>3. QED
      BY <1>2, <2>2, <3>1, <3>2
  <2>3. QED
    BY <2>1, <2>2
<1>5. ASSUME Held(s, in, rs, lost), NEW i \in 1..Len(in2)
      PROVE  i \in s.keys \/ in2[i].acked \/ Under(rs2, i) \/ Spare(s, i, lost2)
  <2>1. CASE i \notin 1..Len(in)
    BY <1>1, <2>1 DEF Spare
  <2>2. CASE i \in 1..Len(in)
    <3>1. i \in s.keys \/ in[i].acked \/ Under(rs, i) \/ Spare(s, i, lost)
      BY <1>5, <2>2 DEF Held
    <3>2. Spare(s, i, lost) => Spare(s, i, lost2)
      BY <1>2, <2>2 DEF Spare
    <3>3. lost[i] + 1 <= lost2[i] => Spare(s, i, lost2)
      BY <1>2, <2>2 DEF Spare
    <3>4. QED
      BY <1>2, <2>2, <3>1, <3>2, <3>3
  <2>3. QED
    BY <2>1, <2>2
<1>6. QED
  BY <1>3, <1>4, <1>5 DEF Owed, Held

LEMMA OwedHeld ==
  ASSUME NEW s, NEW in, NEW rs, NEW lost, Owed(s, in, lost) PROVE Held(s, in, rs, lost)
BY DEF Owed, Held

(* A handler's snapshots: those that are alike, and the one with the run. *)
LEMMA AlikeKeeps ==
  ASSUME NEW s, NEW x, NEW in, NEW lost, Alike(s, x), Snapshot(s, in, lost), Owed(s, in, lost)
  PROVE  Snapshot(x, in, lost) /\ Owed(x, in, lost)
<1>1. \A i : RunsAt(x, i) = RunsAt(s, i)
  BY DEF Alike, RunsAt
<1>2. x.keys = s.keys /\ x.runs = s.runs /\ DOMAIN x = Fields
  BY DEF Alike
<1>3. QED
  BY <1>1, <1>2 DEF Snapshot, Owed, Spare
(* All but one callback's. *)
OwedBut(s, at, in, lost) == \A i \in 1..Len(in) : i # at => i \in s.keys \/ in[i].acked \/ Spare(s, i, lost)
LEMMA StartedKeeps ==
  ASSUME NEW s, NEW x, NEW in, NEW lost, NEW at \in 1..Len(in), Started(s, x, at),
         \A i \in 1..Len(in) : lost[i] \in Nat,
         Snapshot(s, in, lost), Owed(s, in, lost), at \notin s.keys, ~in[at].acked
  PROVE  Snapshot(x, in, lost) /\ OwedBut(x, at, in, lost)
<1>1. PICK run : run.at = at /\ x.runs = s.runs \cup {run}
  BY DEF Started
<1>2. x.keys = s.keys /\ DOMAIN x = Fields
  BY DEF Started
<1>3. IsFiniteSet(x.runs)
  <2>1. IsFiniteSet(s.runs)
    BY DEF Snapshot
  <2>2. IsFiniteSet(s.runs \cup {run})
    BY <2>1, FS_AddElement
  <2>3. QED
    BY <1>1, <2>2
<1>4. ASSUME NEW i \in 1..Len(in), i # at PROVE RunsAt(x, i) = RunsAt(s, i)
  BY <1>1, <1>4 DEF RunsAt
<1>5. Cardinality(RunsAt(x, at)) <= 1 + lost[at]
  <2>1. RunsAt(x, at) = RunsAt(s, at) \cup {run}
    BY <1>1 DEF RunsAt
  <2>2. Cardinality(RunsAt(s, at)) \in Nat /\ IsFiniteSet(RunsAt(s, at))
    BY RunsCounted DEF Snapshot
  <2>3. Cardinality(RunsAt(s, at)) <= lost[at] /\ lost[at] \in Nat
    BY DEF Owed, Spare
  <2>4. Cardinality(RunsAt(x, at)) \in {Cardinality(RunsAt(s, at)), Cardinality(RunsAt(s, at)) + 1}
    BY <2>1, <2>2, FS_AddElement
  <2>5. QED
    BY <2>2, <2>3, <2>4
<1>6. Snapshot(x, in, lost)
  <2>1. \A i \in 1..Len(in) : Cardinality(RunsAt(x, i)) <= 1 + lost[i]
    BY <1>4, <1>5 DEF Snapshot
  <2>2. \A r \in x.runs : r.at \in 1..Len(in)
    BY <1>1 DEF Snapshot
  <2>3. QED
    BY <1>2, <1>3, <2>1, <2>2 DEF Snapshot
<1>7. QED
  BY <1>2, <1>4, <1>6 DEF OwedBut, Owed, Spare

(* Recording a key, and forgetting it. *)
LEMMA KeysOf ==
  ASSUME NEW s, DOMAIN s = Fields, NEW ks
  PROVE  LET x == [s EXCEPT !.keys = ks] IN DOMAIN x = Fields /\ x.keys = ks /\ x.runs = s.runs
BY DEF Fields
LEMMA KeyedKeeps ==
  ASSUME NEW s, NEW x, NEW in, NEW lost, NEW at, DOMAIN x = Fields, x.runs = s.runs,
         Snapshot(s, in, lost), OwedBut(s, at, in, lost)
  PROVE  /\ Snapshot(x, in, lost)
         /\ x.keys = s.keys \cup {at} => Owed(x, in, lost)
         /\ x.keys = s.keys \ {at} => OwedBut(x, at, in, lost)
<1>1. \A i : RunsAt(x, i) = RunsAt(s, i)
  BY DEF RunsAt
<1>2. QED
  BY <1>1 DEF Snapshot, Owed, OwedBut, Spare


(* The records a step changes. *)
LEMMA ChainIs ==
  ASSUME NEW c, DOMAIN c = {"queue", "error", "fails", "stops"}, NEW q, NEW e, NEW n
  PROVE  /\ LET x == [c EXCEPT !.queue = q]
            IN  DOMAIN x = DOMAIN c /\ x.queue = q /\ x.error = c.error /\ x.fails = c.fails /\ x.stops = c.stops
         /\ LET x == [c EXCEPT !.error = e]
            IN  DOMAIN x = DOMAIN c /\ x.queue = c.queue /\ x.error = e /\ x.fails = c.fails /\ x.stops = c.stops
         /\ LET x == [c EXCEPT !.queue = q, !.error = e, !.fails = n]
            IN  DOMAIN x = DOMAIN c /\ x.queue = q /\ x.error = e /\ x.fails = n /\ x.stops = c.stops
         /\ LET x == [c EXCEPT !.queue = q, !.error = e, !.stops = n]
            IN  DOMAIN x = DOMAIN c /\ x.queue = q /\ x.error = e /\ x.fails = c.fails /\ x.stops = n
OBVIOUS
LEMMA SeenIs ==
  ASSUME NEW h, DOMAIN h = {"lost", "exchanged", "left"}, NEW v, NEW w
  PROVE  /\ LET x == [h EXCEPT !.lost = v]
            IN  DOMAIN x = DOMAIN h /\ x.lost = v /\ x.exchanged = h.exchanged
         /\ LET x == [h EXCEPT !.exchanged = v]
            IN  DOMAIN x = DOMAIN h /\ x.lost = h.lost /\ x.exchanged = v
         /\ LET x == [h EXCEPT !.left = v]
            IN  DOMAIN x = DOMAIN h /\ x.lost = h.lost /\ x.exchanged = h.exchanged
         /\ LET x == [h EXCEPT !.lost = v, !.exchanged = w]
            IN  DOMAIN x = DOMAIN h /\ x.lost = v /\ x.exchanged = w
OBVIOUS
Updated(q, i, e) == [q EXCEPT ![i] = e]
LEMMA UpdatedSeq ==
  ASSUME NEW q, IsSeq(q), NEW i, i \in 1..Len(q), NEW e
  PROVE  LET x == Updated(q, i, e)
         IN  IsSeq(x) /\ Len(x) = Len(q) /\ x[i] = e /\ \A j \in 1..Len(q) : j # i => x[j] = q[j]
<1> DEFINE S == {q[k] : k \in 1..Len(q)} \cup {e}
<1>1. q \in Seq(S) /\ e \in S /\ DOMAIN q = 1..Len(q)
  BY SeqOf DEF IsSeq
<1> HIDE DEF S
<1>0. PICK x : x = Updated(q, i, e)
  OBVIOUS
<1>2. x \in Seq(S) /\ Len(x) = Len(q)
  BY <1>0, <1>1, ExceptSeq DEF Updated
<1>3. IsSeq(x)
  BY <1>2, SeqIs
<1>4. x[i] = e /\ \A j \in 1..Len(q) : j # i => x[j] = q[j]
  BY <1>0, <1>1 DEF Updated
<1>5. QED
  BY <1>0, <1>2, <1>3, <1>4

(* The letters of an inbox where one's answer or deliveries left changed. *)
Marked(in, x, i) ==
  /\ Lettered(x) /\ Len(x) = Len(in)
  /\ \A j \in 1..Len(in) : x[j].op = in[j].op /\ (j # i => x[j].acked = in[j].acked)
LEMMA LetterIs ==
  ASSUME NEW in, Lettered(in), NEW i \in 1..Len(in), NEW v
  PROVE  /\ LET x == [in EXCEPT ![i].acked = TRUE] IN Marked(in, x, i) /\ x[i].acked
         /\ LET x == [in EXCEPT ![i].tries = v] IN Marked(in, x, i) /\ x[i].acked = in[i].acked
         /\ LET x == [in EXCEPT ![i].tries = v, ![i].acked = TRUE] IN Marked(in, x, i) /\ x[i].acked
<1>1. IsSeq(in) /\ DOMAIN in = 1..Len(in) /\ DOMAIN in[i] = {"op", "acked", "tries"}
  BY DEF Lettered, IsSeq
<1>2. ASSUME NEW e, DOMAIN e = {"op", "acked", "tries"}, e.op = in[i].op, e.acked \in BOOLEAN,
             NEW x, x = [in EXCEPT ![i] = e]
      PROVE  Marked(in, x, i) /\ x[i].acked = e.acked
  <2>1. IsSeq(x) /\ Len(x) = Len(in) /\ x[i] = e /\ \A j \in 1..Len(in) : j # i => x[j] = in[j]
    <3>1. x = Updated(in, i, e)
      BY <1>2 DEF Updated
    <3>2. QED
      BY <1>1, <3>1, UpdatedSeq
  <2>2. \A j \in 1..Len(in) :
          x[j].op = in[j].op /\ DOMAIN x[j] = {"op", "acked", "tries"} /\ x[j].acked \in BOOLEAN
    BY <1>2, <2>1 DEF Lettered
  <2>3. QED
    BY <2>1, <2>2 DEF Marked, Lettered
<1>3. PICK a, b, c : /\ a = [in[i] EXCEPT !.acked = TRUE] /\ b = [in[i] EXCEPT !.tries = v]
                     /\ c = [b EXCEPT !.acked = TRUE]
  OBVIOUS
<1>4. /\ DOMAIN a = {"op", "acked", "tries"} /\ a.op = in[i].op /\ a.acked = TRUE
      /\ DOMAIN b = {"op", "acked", "tries"} /\ b.op = in[i].op /\ b.acked = in[i].acked
      /\ DOMAIN c = {"op", "acked", "tries"} /\ c.op = in[i].op /\ c.acked = TRUE
  BY <1>1, <1>3
<1>5. in[i].acked \in BOOLEAN
  BY DEF Lettered
<1>6. PICK x, y, z : x = [in EXCEPT ![i] = a] /\ y = [in EXCEPT ![i] = b] /\ z = [in EXCEPT ![i] = c]
  OBVIOUS
<1>7. /\ Marked(in, x, i) /\ x[i].acked = TRUE /\ Marked(in, y, i) /\ y[i].acked = in[i].acked
      /\ Marked(in, z, i) /\ z[i].acked = TRUE
  BY <1>2, <1>4, <1>5, <1>6
<1>8. /\ x = [in EXCEPT ![i].acked = TRUE] /\ y = [in EXCEPT ![i].tries = v]
      /\ z = [in EXCEPT ![i].tries = v, ![i].acked = TRUE]
  <2>1. x = [in EXCEPT ![i].acked = TRUE] /\ y = [in EXCEPT ![i].tries = v]
    BY <1>3, <1>6, Zenon
  <2>2. z = [in EXCEPT ![i].tries = v, ![i].acked = TRUE]
    <3>1. y[i] = b /\ DOMAIN y = DOMAIN in
      BY <1>1, <1>6
    <3>2. z = [y EXCEPT ![i] = c]
      BY <1>1, <1>6
    <3>3. z = [y EXCEPT ![i].acked = TRUE]
      BY <1>3, <3>1, <3>2, Zenon
    <3>4. QED
      BY <2>1, <3>3, Zenon
  <2>3. QED
    BY <2>1, <2>2
<1>9. QED
  BY <1>7, <1>8

(* Every wait is one save shorter. *)
Shorter(n) == IF n = 0 THEN 0 ELSE n - 1
LEMMA AdvanceIs ==
  ASSUME NEW in, NEW rs, IsFiniteSet(rs), rs \subseteq Requests(in)
  PROVE  /\ IsFiniteSet(Ing!Advance(rs)) /\ Ing!Advance(rs) \subseteq Requests(in)
         /\ \A x \in Ing!Advance(rs) : \E r \in rs : x = [at |-> r.at, pc |-> r.pc, waits |-> Shorter(r.waits)]
         /\ \A r \in rs : \E x \in Ing!Advance(rs) : x.at = r.at
<1> DEFINE f == [r \in rs |-> [r EXCEPT !.waits = IF @ = 0 THEN 0 ELSE @ - 1]]
<1>1. ASSUME NEW r \in rs
      PROVE  f[r] = [at |-> r.at, pc |-> r.pc, waits |-> Shorter(r.waits)] /\ f[r] \in Requests(in)
  BY DEF Requests, Shorter
<1>2. Ing!Advance(rs) = {f[r] : r \in rs}
  BY Zenon DEF Ing!Advance
<1> HIDE DEF f
<1>3. IsFiniteSet({f[r] : r \in rs})
  <2>1. PICK T : T = {f[r] : r \in rs}
    OBVIOUS
  <2>2. f \in Surjection(rs, T)
    <3>1. f \in [rs -> T]
      BY <2>1, Zenon DEF f
    <3>2. \A x \in T : \E r \in rs : f[r] = x
      BY <2>1
    <3>3. QED
      BY <3>1, <3>2 DEF Surjection
  <2>3. QED
    BY <2>1, <2>2, FS_Surjection
<1>4. Ing!Advance(rs) \subseteq Requests(in)
  BY <1>1, <1>2
<1>5. \A x \in Ing!Advance(rs) : \E r \in rs : x = [at |-> r.at, pc |-> r.pc, waits |-> Shorter(r.waits)]
  BY <1>1, <1>2
<1>6. ASSUME NEW r \in rs PROVE \E x \in Ing!Advance(rs) : x.at = r.at
  <2>1. f[r] \in Ing!Advance(rs)
    BY <1>2
  <2>2. f[r].at = r.at
    <3>1. f[r] = [at |-> r.at, pc |-> r.pc, waits |-> Shorter(r.waits)]
      BY <1>1
    <3>2. QED
      BY <3>1
  <2>3. QED
    BY <2>1, <2>2
<1>7. QED
  BY <1>2, <1>3, <1>4, <1>5, <1>6

(* The last snapshot of a sequence, or the one before it. *)
LEMMA LastIs ==
  ASSUME NEW q, IsSeq(q), NEW s
  PROVE  LET last == IF q = <<>> THEN s ELSE Ing!Last(q)
         IN  \/ Len(q) = 0 /\ last = s
             \/ Len(q) \in Nat \ {0} /\ Len(q) \in 1..Len(q) /\ last = q[Len(q)]
<1>1. CASE q = <<>>
  BY <1>1, ShortSeqs
<1>2. CASE q # <<>>
  <2>1. Len(q) # 0 /\ Len(q) \in Nat
    BY <1>2, TailIs DEF IsSeq
  <2>2. QED
    BY <1>2, <2>1 DEF Ing!Last
<1>3. QED
  BY <1>1, <1>2
LEMMA SameCardinality == ASSUME NEW S PROVE Ing!Cardinality(S) = Cardinality(S)
BY DEF Ing!Cardinality, Cardinality


(* What a step owes for the invariant: its records keep their shape, requests
   that are over have left an answer or a loss, the snapshot in memory is the
   old one or has room for every delivery to come, the written one is the old
   one or a queued one, and so is every queued one, unless it is as good. *)
LEMMA IngressedStep ==
  ASSUME Ingressed, Shapes', Onward(inbox, requests, seen.lost, inbox', requests', seen'.lost),
         \/ memory' = memory
         \/ Snapshot(memory', inbox', seen'.lost) /\ Owed(memory', inbox', seen'.lost),
         saved' = saved \/ \E j \in 1..Len(chain.queue) : saved' = chain.queue[j],
         \A k \in 1..Len(chain'.queue) :
           \/ \E j \in 1..Len(chain.queue) : chain'.queue[k] = chain.queue[j]
           \/ Snapshot(chain'.queue[k], inbox', seen'.lost) /\ Held(chain'.queue[k], inbox', requests', seen'.lost)
  PROVE  Ingressed'
<1>1. \A s : Snapshot(s, inbox, seen.lost) =>
        /\ Snapshot(s, inbox', seen'.lost)
        /\ Owed(s, inbox, seen.lost) => Owed(s, inbox', seen'.lost)
        /\ Held(s, inbox, requests, seen.lost) => Held(s, inbox', requests', seen'.lost)
  BY OnwardKeeps
<1>2. Snapshot(memory', inbox', seen'.lost) /\ Owed(memory', inbox', seen'.lost)
  BY <1>1 DEF Ingressed
<1>3. \A j \in 1..Len(chain.queue) : /\ Snapshot(chain.queue[j], inbox', seen'.lost)
                                     /\ Held(chain.queue[j], inbox', requests', seen'.lost)
  BY <1>1 DEF Ingressed
<1>4. Snapshot(saved', inbox', seen'.lost) /\ Held(saved', inbox', requests', seen'.lost)
  BY <1>1, <1>3 DEF Ingressed
<1>5. \A k \in 1..Len(chain'.queue) : /\ Snapshot(chain'.queue[k], inbox', seen'.lost)
                                      /\ Held(chain'.queue[k], inbox', requests', seen'.lost)
  BY <1>3
<1>6. QED
  BY <1>2, <1>4, <1>5 DEF Ingressed

LEMMA InitIngressed == Ing!Init => Ingressed
<1> SUFFICES ASSUME Ing!Init PROVE Ingressed
  OBVIOUS
<1>1. /\ DOMAIN memory = Fields /\ memory.runs = {} /\ memory.keys = {} /\ saved = memory
      /\ inbox = <<>> /\ requests = {} /\ chain = [queue |-> <<>>, error |-> FALSE, fails |-> 0, stops |-> 0]
      /\ seen = [lost |-> <<>>, exchanged |-> <<>>, left |-> {}]
  BY DEF Ing!Init, Fields
<1>2. IsSeq(<<>>) /\ Len(<<>>) = 0
  BY ShortSeqs
<1>3. IsFiniteSet({})
  BY FS_EmptySet
<1>4. Shapes
  BY <1>1, <1>2, <1>3 DEF Shapes, Lettered, Counts, Requests
<1>5. Snapshot(memory, inbox, seen.lost) /\ Owed(memory, inbox, seen.lost)
  BY <1>1, <1>2, <1>3 DEF Snapshot, Owed
<1>6. QED
  BY <1>1, <1>2, <1>4, <1>5 DEF Ingressed, Owed, Held

(* A callback is sent. *)
LEMMA SendKeeps == ASSUME Ingressed, NEW op, Ing!Send(op) PROVE Ingressed'
<1> DEFINE n == Len(inbox)
<1>1. PICK x : inbox' = Append(inbox, x) /\ DOMAIN x = {"op", "acked", "tries"} /\ x.acked = FALSE
  BY DEF Ing!Send
<1>2. n \in Nat /\ IsSeq(inbox) /\ IsSeq(seen.lost) /\ IsSeq(seen.exchanged) /\ Len(seen.lost) = n /\ Len(seen.exchanged) = n
  BY DEF Ingressed, Shapes, Lettered, Counts, IsSeq
<1>3. /\ IsSeq(inbox') /\ Len(inbox') = n + 1
      /\ \A i \in 1..n : inbox'[i] = inbox[i]
      /\ inbox'[n + 1] = x
  BY <1>1, <1>2, AppendIs
<1>4. PICK v, w : v = Append(seen.lost, 0) /\ w = Append(seen.exchanged, 0)
  OBVIOUS
<1>5. /\ IsSeq(v) /\ Len(v) = n + 1 /\ (\A i \in 1..n : v[i] = seen.lost[i]) /\ v[n + 1] = 0
      /\ IsSeq(w) /\ Len(w) = n + 1 /\ (\A i \in 1..n : w[i] = seen.exchanged[i]) /\ w[n + 1] = 0
  BY <1>2, <1>4, AppendIs
<1>6. seen' = [seen EXCEPT !.lost = v, !.exchanged = w]
  BY <1>4 DEF Ing!Send
<1>7. DOMAIN seen' = {"lost", "exchanged", "left"} /\ seen'.lost = v /\ seen'.exchanged = w
  BY <1>6, SeenIs DEF Ingressed, Shapes
<1>8. \A i \in 1..(n + 1) : i \in 1..n \/ i = n + 1
  BY <1>2
<1>9. memory' = memory /\ saved' = saved /\ chain' = chain /\ requests' = requests
  BY DEF Ing!Send
<1>10. Lettered(inbox') /\ Counts(seen'.lost, inbox') /\ Counts(seen'.exchanged, inbox')
  <2>1. ASSUME NEW i \in 1..Len(inbox')
        PROVE  /\ DOMAIN inbox'[i] = {"op", "acked", "tries"} /\ inbox'[i].acked \in BOOLEAN
               /\ v[i] \in Nat /\ w[i] \in Nat
    <3>1. CASE i \in 1..n
      BY <1>3, <1>5, <3>1 DEF Ingressed, Shapes, Lettered, Counts
    <3>2. CASE i = n + 1
      <4>1. inbox'[i] = x /\ v[i] = 0 /\ w[i] = 0
        BY <1>3, <1>5, <3>2
      <4>2. x.acked \in BOOLEAN
        BY <1>1
      <4>3. DOMAIN inbox'[i] = {"op", "acked", "tries"} /\ inbox'[i].acked \in BOOLEAN
        BY <1>1, <4>1, <4>2
      <4>4. QED
        BY <4>1, <4>3
    <3>3. QED
      BY <1>3, <1>8, <3>1, <3>2
  <2>2. QED
    BY <1>3, <1>5, <1>7, <2>1 DEF Lettered, Counts
<1>11. requests \subseteq Requests(inbox')
  BY <1>2, <1>3 DEF Requests, Ingressed, Shapes
<1>12. Shapes'
  BY <1>7, <1>9, <1>10, <1>11 DEF Ingressed, Shapes
<1>13. Onward(inbox, requests, seen.lost, inbox', requests', seen'.lost)
  <2>1. ASSUME NEW i \in 1..n
        PROVE  seen.lost[i] \in Nat /\ seen.lost[i] <= seen'.lost[i] /\ (inbox[i].acked => inbox'[i].acked)
    BY <1>3, <1>5, <1>7 DEF Ingressed, Shapes, Counts
  <2>2. QED
    BY <1>2, <1>3, <1>9, <1>10, <2>1 DEF Onward, Counts
<1>14. QED
  BY <1>9, <1>12, <1>13, IngressedStep

(* Steps that only answer, only count, or only drop what is queued. *)
LEMMA SameOnward ==
  ASSUME Shapes, NEW in2, NEW rs2, NEW lost2, Len(in2) = Len(inbox),
         \A i \in 1..Len(inbox) :
           /\ lost2[i] \in Nat /\ seen.lost[i] <= lost2[i]
           /\ inbox[i].acked => in2[i].acked
           /\ Under(requests, i) => Under(rs2, i) \/ in2[i].acked \/ seen.lost[i] + 1 <= lost2[i]
  PROVE  Onward(inbox, requests, seen.lost, in2, rs2, lost2)
BY DEF Onward, Shapes, Counts, Lettered, IsSeq
LEMMA SameInbox ==
  ASSUME NEW in, NEW x, Len(x) = Len(in)
  PROVE  Requests(x) = Requests(in) /\ \A q : Counts(q, x) = Counts(q, in)
BY DEF Requests, Counts


(* Shapes of the records after a step that leaves the inbox's length. *)
LEMMA SameShapes ==
  ASSUME Shapes, Lettered(inbox'), Len(inbox') = Len(inbox),
         DOMAIN chain' = DOMAIN chain, IsSeq(chain'.queue), chain'.error \in BOOLEAN,
         chain'.fails \in Nat, chain'.stops \in Nat,
         DOMAIN seen' = DOMAIN seen, Counts(seen'.lost, inbox), Counts(seen'.exchanged, inbox),
         IsFiniteSet(requests'), requests' \subseteq Requests(inbox)
  PROVE  Shapes'
<1>1. Requests(inbox') = Requests(inbox) /\ \A q : Counts(q, inbox') = Counts(q, inbox)
  BY SameInbox
<1>2. QED
  BY <1>1 DEF Shapes

(* A key already recorded answers. *)
LEMMA DedupedKeeps ==
  ASSUME Ingressed, NEW i \in 1..Len(inbox), Ing!Deduped(i) PROVE Ingressed'
<1>1. memory' = memory /\ saved' = saved /\ chain' = chain /\ requests' = requests /\ seen' = seen
  BY DEF Ing!Deduped
<1>2. PICK n : n = inbox[i].tries - 1
  OBVIOUS
<1>3. inbox' = [inbox EXCEPT ![i].tries = n, ![i].acked = TRUE]
  BY <1>2 DEF Ing!Deduped, Ing!Answer
<1>4. Marked(inbox, inbox', i) /\ inbox'[i].acked
  BY <1>3, LetterIs, Zenon DEF Ingressed, Shapes
<1>5. Shapes'
  BY <1>1, <1>4, SameShapes DEF Marked, Ingressed, Shapes
<1>6. Onward(inbox, requests, seen.lost, inbox', requests', seen'.lost)
  <2>1. \A j \in 1..Len(inbox) : seen.lost[j] \in Nat /\ (inbox[j].acked => inbox'[j].acked)
    BY <1>4 DEF Marked, Ingressed, Shapes, Counts
  <2>2. QED
    BY <1>1, <1>4, <2>1, SameOnward DEF Marked, Ingressed
<1>7. QED
  BY <1>1, <1>5, <1>6, IngressedStep

(* The queue is saved, or a save fails. *)
LEMMA SaveKeeps == Ingressed /\ (Ing!SaveNext \/ Ing!SaveFails) => Ingressed'
<1> SUFFICES ASSUME Ingressed, Ing!SaveNext \/ Ing!SaveFails PROVE Ingressed'
  OBVIOUS
<1>1. /\ memory' = memory /\ inbox' = inbox /\ seen' = seen /\ requests' = Ing!Advance(requests)
      /\ chain.queue # <<>>
  BY DEF Ing!SaveNext, Ing!SaveFails
<1>2. /\ DOMAIN chain' = DOMAIN chain /\ chain'.queue = Tail(chain.queue) /\ chain'.error \in BOOLEAN
      /\ chain'.fails \in Nat /\ chain'.stops \in Nat
  <2>1. PICK q, n : q = Tail(chain.queue) /\ n = chain.fails + 1
    OBVIOUS
  <2>2. n \in Nat
    BY <2>1 DEF Ingressed, Shapes
  <2>3. chain' = [chain EXCEPT !.queue = q] \/ chain' = [chain EXCEPT !.queue = q, !.error = TRUE, !.fails = n]
    BY <2>1 DEF Ing!SaveNext, Ing!SaveFails
  <2>4. DOMAIN chain = {"queue", "error", "fails", "stops"}
    BY DEF Ingressed, Shapes
  <2>5. CASE chain' = [chain EXCEPT !.queue = q]
    BY <2>1, <2>4, <2>5, ChainIs DEF Ingressed, Shapes
  <2>6. CASE chain' = [chain EXCEPT !.queue = q, !.error = TRUE, !.fails = n]
    <3>1. /\ DOMAIN chain' = DOMAIN chain /\ chain'.queue = q /\ chain'.error = TRUE
          /\ chain'.fails = n /\ chain'.stops = chain.stops
      BY <2>4, <2>6, ChainIs, Zenon
    <3>2. QED
      BY <2>1, <2>2, <3>1 DEF Ingressed, Shapes
  <2>7. QED
    BY <2>3, <2>5, <2>6
<1>3. /\ IsSeq(chain'.queue) /\ Head(chain.queue) = chain.queue[1] /\ 1 \in 1..Len(chain.queue)
      /\ \A k \in 1..Len(chain'.queue) : chain'.queue[k] = chain.queue[k + 1] /\ k + 1 \in 1..Len(chain.queue)
  <2>1. IsSeq(chain.queue) /\ Len(chain.queue) \in Nat
    BY DEF Ingressed, Shapes, IsSeq
  <2>2. Len(chain.queue) # 0 /\ Head(chain.queue) = chain.queue[1]
    BY <1>1, <2>1, TailIs
  <2>3. QED
    BY <1>1, <1>2, <2>1, <2>2, TailIs
<1>4. saved' = saved \/ saved' = chain.queue[1]
  BY <1>3 DEF Ing!SaveNext, Ing!SaveFails
<1>5. /\ IsFiniteSet(requests') /\ requests' \subseteq Requests(inbox)
      /\ \A i : Under(requests, i) => Under(requests', i)
  BY <1>1, AdvanceIs DEF Ingressed, Shapes, Under
<1>6. Shapes'
  BY <1>1, <1>2, <1>3, <1>5, SameShapes DEF Ingressed, Shapes
<1>7. Onward(inbox, requests, seen.lost, inbox', requests', seen'.lost)
  <2>1. \A j \in 1..Len(inbox) : seen.lost[j] \in Nat
    BY DEF Ingressed, Shapes, Counts
  <2>2. QED
    BY <1>1, <1>5, <2>1, SameOnward DEF Ingressed
<1>8. QED
  BY <1>1, <1>3, <1>4, <1>6, <1>7, IngressedStep

(* One more loss. *)
LEMMA LostIs ==
  ASSUME Shapes, NEW i \in 1..Len(inbox), seen' = [seen EXCEPT !.lost[i] = @ + 1]
  PROVE  /\ DOMAIN seen' = DOMAIN seen /\ seen'.exchanged = seen.exchanged /\ Counts(seen'.lost, inbox)
         /\ seen'.lost[i] = seen.lost[i] + 1
         /\ \A j \in 1..Len(inbox) : j # i => seen'.lost[j] = seen.lost[j]
<1>1. PICK n, v : n = seen.lost[i] + 1 /\ v = [seen.lost EXCEPT ![i] = n]
  OBVIOUS
<1>2. seen' = [seen EXCEPT !.lost = v]
  BY <1>1
<1>3. DOMAIN seen' = DOMAIN seen /\ seen'.lost = v /\ seen'.exchanged = seen.exchanged
  BY <1>2, SeenIs DEF Shapes
<1>4. IsSeq(seen.lost) /\ i \in 1..Len(seen.lost) /\ Len(seen.lost) = Len(inbox)
  BY DEF Shapes, Counts
<1>5. IsSeq(v) /\ Len(v) = Len(inbox) /\ v[i] = n /\ \A j \in 1..Len(inbox) : j # i => v[j] = seen.lost[j]
  <2>1. PICK q : q = seen.lost
    OBVIOUS
  <2>2. IsSeq(q) /\ i \in 1..Len(q) /\ v = Updated(q, i, n)
    BY <1>1, <1>4, <2>1 DEF Updated
  <2>3. IsSeq(v) /\ Len(v) = Len(q) /\ v[i] = n /\ \A j \in 1..Len(q) : j # i => v[j] = q[j]
    BY <2>2, UpdatedSeq
  <2>4. QED
    BY <1>4, <2>1, <2>3
<1>6. n \in Nat /\ \A j \in 1..Len(inbox) : seen.lost[j] \in Nat
  BY <1>1 DEF Shapes, Counts
<1>7. QED
  BY <1>1, <1>3, <1>5, <1>6 DEF Counts

(* The flush of a request: its error, or its answer. *)
LEMMA FlushKeeps ==
  ASSUME Ingressed, NEW r \in requests, Ing!flushChangesWithDeliveryRollback(r) PROVE Ingressed'
<1>1. /\ r.at \in 1..Len(inbox) /\ r.pc = "flush" /\ saved' = saved
      /\ \A j \in 1..Len(inbox) : seen.lost[j] \in Nat
  BY DEF Ingressed, Shapes, Requests, Counts, Ing!flushChangesWithDeliveryRollback
<1>2. CASE chain.error
  <2>1. /\ chain' = [chain EXCEPT !.error = FALSE]
        /\ memory' = IF Ing!Admin(inbox[r.at].op) THEN memory ELSE [memory EXCEPT !.keys = @ \ {r.at}]
        /\ requests' = requests \ {r} /\ seen' = [seen EXCEPT !.lost[r.at] = @ + 1] /\ inbox' = inbox
    BY <1>2 DEF Ing!flushChangesWithDeliveryRollback
  <2>2. /\ DOMAIN seen' = DOMAIN seen /\ seen'.exchanged = seen.exchanged /\ Counts(seen'.lost, inbox)
        /\ seen'.lost[r.at] = seen.lost[r.at] + 1
        /\ \A j \in 1..Len(inbox) : j # r.at => seen'.lost[j] = seen.lost[j]
    <3>1. PICK i \in 1..Len(inbox) : i = r.at
      BY <1>1
    <3>2. Shapes /\ seen' = [seen EXCEPT !.lost[i] = @ + 1]
      BY <2>1, <3>1 DEF Ingressed
    <3>3. QED
      BY <3>1, <3>2, LostIs
  <2>3. /\ DOMAIN chain' = DOMAIN chain /\ chain'.queue = chain.queue /\ chain'.error = FALSE
        /\ chain'.fails = chain.fails /\ chain'.stops = chain.stops
    BY <2>1, ChainIs DEF Ingressed, Shapes
  <2>4. IsFiniteSet(requests') /\ requests' \subseteq Requests(inbox)
    BY <2>1, FS_Subset DEF Ingressed, Shapes
  <2>5. Shapes'
    BY <2>1, <2>2, <2>3, <2>4, SameShapes DEF Ingressed, Shapes
  <2>6. Onward(inbox, requests, seen.lost, inbox', requests', seen'.lost)
    <3>1. ASSUME NEW j \in 1..Len(inbox)
          PROVE  /\ seen'.lost[j] \in Nat /\ seen.lost[j] <= seen'.lost[j]
                 /\ Under(requests, j) => Under(requests', j) \/ seen.lost[j] + 1 <= seen'.lost[j]
      <4>1. CASE j = r.at
        BY <1>1, <2>2, <4>1
      <4>2. CASE j # r.at
        <5>1. Under(requests, j) => Under(requests', j)
          BY <2>1, <4>2 DEF Under
        <5>2. QED
          BY <1>1, <2>2, <4>2, <5>1
      <4>3. QED
        BY <4>1, <4>2
    <3>2. QED
      BY <2>1, <3>1, SameOnward DEF Ingressed
  <2>7. memory' = memory \/ (Snapshot(memory', inbox', seen'.lost) /\ Owed(memory', inbox', seen'.lost))
    <3>1. CASE Ing!Admin(inbox[r.at].op)
      BY <2>1, <3>1
    <3>2. CASE ~Ing!Admin(inbox[r.at].op)
      <4>1. PICK ks : ks = memory.keys \ {r.at}
        OBVIOUS
      <4>2. memory' = [memory EXCEPT !.keys = ks]
        BY <2>1, <3>2, <4>1
      <4>3. DOMAIN memory' = Fields /\ memory'.keys = memory.keys \ {r.at} /\ memory'.runs = memory.runs
        BY <4>1, <4>2, KeysOf DEF Ingressed, Snapshot
      <4>4. Snapshot(memory, inbox', seen'.lost) /\ Owed(memory, inbox', seen'.lost)
        BY <2>6, OnwardKeeps DEF Ingressed
      <4>5. Snapshot(memory', inbox', seen'.lost) /\ OwedBut(memory', r.at, inbox', seen'.lost)
        BY <4>3, <4>4, KeyedKeeps DEF Owed, OwedBut
      <4>6. Spare(memory', r.at, seen'.lost)
        <5>1. RunsAt(memory', r.at) = RunsAt(memory, r.at)
          BY <4>3 DEF RunsAt
        <5>2. Cardinality(RunsAt(memory, r.at)) <= 1 + seen.lost[r.at]
          BY <1>1 DEF Ingressed, Snapshot
        <5>3. seen'.lost[r.at] = 1 + seen.lost[r.at]
          BY <1>1, <2>2
        <5>4. QED
          BY <5>1, <5>2, <5>3 DEF Spare
      <4>7. QED
        BY <4>5, <4>6 DEF Owed, OwedBut
    <3>3. QED
      BY <3>1, <3>2
  <2>8. QED
    BY <1>1, <2>3, <2>5, <2>6, <2>7, IngressedStep
<1>3. CASE ~chain.error
  <2>1. chain' = chain /\ memory' = memory /\ seen' = seen
    BY <1>3 DEF Ing!flushChangesWithDeliveryRollback
  <2>2. CASE Ing!Kind(inbox[r.at].op) = "oauth"
    <3>1. inbox' = inbox /\ requests' = (requests \ {r}) \cup {Ing!Waiting(r.at, "exchange", 0)}
      BY <1>3, <2>2 DEF Ing!flushChangesWithDeliveryRollback
    <3>2. PICK x : x = Ing!Waiting(r.at, "exchange", 0)
      OBVIOUS
    <3>3. x \in Requests(inbox) /\ x.at = r.at
      BY <1>1, <3>2 DEF Requests, Ing!Waiting
    <3>4. IsFiniteSet(requests') /\ requests' \subseteq Requests(inbox)
      BY <3>1, <3>2, <3>3, FS_Subset, FS_AddElement DEF Ingressed, Shapes
    <3>5. \A j : Under(requests, j) => Under(requests', j)
      BY <3>1, <3>2, <3>3 DEF Under
    <3>6. Shapes'
      BY <2>1, <3>1, <3>4, SameShapes DEF Ingressed, Shapes
    <3>7. Onward(inbox, requests, seen.lost, inbox', requests', seen'.lost)
      <4>1. ASSUME NEW j \in 1..Len(inbox)
            PROVE  /\ seen'.lost[j] \in Nat /\ seen.lost[j] <= seen'.lost[j]
                   /\ inbox[j].acked => inbox'[j].acked
                   /\ Under(requests, j) => Under(requests', j)
        <5>1. inbox[j].acked => inbox'[j].acked
          BY <3>1
        <5>2. seen'.lost[j] \in Nat /\ seen.lost[j] <= seen'.lost[j]
          BY <1>1, <2>1
        <5>3. Under(requests, j) => Under(requests', j)
          BY <3>5
        <5>4. QED
          BY <5>1, <5>2, <5>3
      <4>2. Shapes /\ Len(inbox') = Len(inbox)
        BY <3>1 DEF Ingressed
      <4>3. QED
        BY <4>1, <4>2, SameOnward
    <3>8. QED
      BY <1>1, <2>1, <3>6, <3>7, IngressedStep
  <2>3. CASE Ing!Kind(inbox[r.at].op) # "oauth"
    <3>1. inbox' = [inbox EXCEPT ![r.at].acked = TRUE] /\ requests' = requests \ {r}
      BY <1>3, <2>3 DEF Ing!flushChangesWithDeliveryRollback
    <3>2. Marked(inbox, inbox', r.at) /\ inbox'[r.at].acked
      BY <1>1, <3>1, LetterIs, Zenon DEF Ingressed, Shapes
    <3>3. IsFiniteSet(requests') /\ requests' \subseteq Requests(inbox)
      BY <3>1, FS_Subset DEF Ingressed, Shapes
    <3>4. Shapes'
      BY <2>1, <3>2, <3>3, SameShapes DEF Marked, Ingressed, Shapes
    <3>5. \A j : Under(requests, j) => Under(requests', j) \/ j = r.at
      BY <3>1 DEF Under
    <3>6. Onward(inbox, requests, seen.lost, inbox', requests', seen'.lost)
      BY <1>1, <2>1, <3>2, <3>5, SameOnward DEF Marked, Ingressed
    <3>7. QED
      BY <1>1, <2>1, <3>4, <3>6, IngressedStep
  <2>4. QED
    BY <2>2, <2>3
<1>4. QED
  BY <1>2, <1>3


(* What a request's snapshots do to memory and to the queue. *)
Queued(steps) ==
  /\ IsSeq(steps)
  /\ DOMAIN chain' = DOMAIN chain /\ chain'.queue = chain.queue \o steps
  /\ chain'.error = chain.error /\ chain'.fails = chain.fails /\ chain'.stops = chain.stops
  /\ Len(steps) = 0 => memory' = memory
  /\ Len(steps) # 0 => memory' = steps[Len(steps)]
LEMMA QueuedIs ==
  ASSUME Shapes, NEW steps, Queued(steps)
  PROVE  /\ DOMAIN chain' = DOMAIN chain /\ IsSeq(chain'.queue) /\ chain'.error \in BOOLEAN
         /\ chain'.fails \in Nat /\ chain'.stops \in Nat
         /\ Len(chain'.queue) = Len(chain.queue) + Len(steps)
         /\ Len(chain.queue) \in Nat /\ Len(steps) \in Nat
         /\ \A k \in 1..Len(chain.queue) : chain'.queue[k] = chain.queue[k]
         /\ \A k \in 1..Len(steps) : chain'.queue[Len(chain.queue) + k] = steps[k]
         /\ \A k \in 1..Len(chain'.queue) :
              k \in 1..Len(chain.queue) \/ k - Len(chain.queue) \in 1..Len(steps)
<1>1. IsSeq(chain.queue) /\ IsSeq(steps) /\ chain'.queue = chain.queue \o steps
  BY DEF Shapes, Queued
<1>2. /\ DOMAIN chain' = DOMAIN chain /\ chain'.error \in BOOLEAN /\ chain'.fails \in Nat /\ chain'.stops \in Nat
      /\ Len(chain.queue) \in Nat /\ Len(steps) \in Nat
  BY <1>1 DEF Shapes, Queued, IsSeq
<1>3. QED
  BY <1>1, <1>2, ConcatIs

(* A step whose snapshots hold, and whose last one has room for every delivery
   to come. *)
LEMMA QueuedKeeps ==
  ASSUME Ingressed, Shapes', Onward(inbox, requests, seen.lost, inbox', requests', seen'.lost), saved' = saved,
         NEW steps, Queued(steps),
         \A k \in 1..Len(steps) :
           /\ Snapshot(steps[k], inbox', seen'.lost) /\ Held(steps[k], inbox', requests', seen'.lost)
           /\ k = Len(steps) => Owed(steps[k], inbox', seen'.lost)
  PROVE  Ingressed'
<1>1. /\ Len(steps) \in Nat /\ Len(chain.queue) \in Nat
      /\ \A k \in 1..Len(chain.queue) : chain'.queue[k] = chain.queue[k]
      /\ \A k \in 1..Len(steps) : chain'.queue[Len(chain.queue) + k] = steps[k]
      /\ \A k \in 1..Len(chain'.queue) :
           k \in 1..Len(chain.queue) \/ k - Len(chain.queue) \in 1..Len(steps)
      /\ IsSeq(chain'.queue)
  BY QueuedIs DEF Ingressed
<1>2. ASSUME NEW k \in 1..Len(chain'.queue)
      PROVE  \/ \E j \in 1..Len(chain.queue) : chain'.queue[k] = chain.queue[j]
             \/ /\ Snapshot(chain'.queue[k], inbox', seen'.lost)
                /\ Held(chain'.queue[k], inbox', requests', seen'.lost)
  <2>1. CASE k \in 1..Len(chain.queue)
    BY <1>1, <2>1
  <2>2. CASE k - Len(chain.queue) \in 1..Len(steps)
    <3>1. PICK j \in 1..Len(steps) : j = k - Len(chain.queue)
      BY <2>2
    <3>2. Len(chain.queue) + j = k
      BY <1>1, <3>1
    <3>3. chain'.queue[k] = steps[j]
      BY <1>1, <3>2
    <3>4. QED
      BY <3>3
  <2>3. QED
    BY <1>1, <2>1, <2>2
<1>3. memory' = memory \/ (Snapshot(memory', inbox', seen'.lost) /\ Owed(memory', inbox', seen'.lost))
  <2>1. CASE Len(steps) = 0
    BY <2>1 DEF Queued
  <2>2. CASE Len(steps) # 0
    <3>1. Len(steps) \in 1..Len(steps)
      BY <1>1, <2>2
    <3>2. QED
      BY <2>2, <3>1 DEF Queued
  <2>3. QED
    BY <2>1, <2>2
<1>4. QED
  BY <1>2, <1>3, IngressedStep

(* The exchange of the code writes the install and its token, or nothing. *)
Installing(r) ==
  \E steps :
    /\ Queued(steps) /\ Len(steps) = 2 /\ \A k \in 1..2 : Alike(memory, steps[k])
    /\ requests' = (requests \ {r}) \cup
         {[at |-> r.at, pc |-> "installed", waits |-> Len(chain.queue) + Len(steps)]}
    /\ inbox' = inbox
Failing(r) ==
  /\ requests' = requests \ {r} /\ memory' = memory /\ chain' = chain
  /\ inbox' = [inbox EXCEPT ![r.at].acked = TRUE]
LEMMA ExchangeIs ==
  ASSUME Ingressed, NEW r, Ing!ExchangeCode(r)
  PROVE  /\ r.pc = "exchange" /\ saved' = saved /\ seen' = [seen EXCEPT !.exchanged[r.at] = @ + 1]
         /\ Installing(r) \/ Failing(r)
<1>1. r.pc = "exchange" /\ saved' = saved /\ seen' = [seen EXCEPT !.exchanged[r.at] = @ + 1]
  BY DEF Ing!ExchangeCode
<1>2. CASE Failing(r)
  BY <1>1, <1>2
<1>3. CASE ~Failing(r)
  <2>1. PICK steps : steps = Ing!persistSlackInstall(memory, inbox[r.at].op.team)
    OBVIOUS
  <2>2. /\ memory' = Ing!Last(steps) /\ chain' = [chain EXCEPT !.queue = @ \o steps] /\ inbox' = inbox
        /\ requests' = (requests \ {r}) \cup {Ing!Waiting(r.at, "installed", Len(chain.queue) + Len(steps))}
    BY <1>3, <2>1 DEF Ing!ExchangeCode, Failing
  <2>3. PICK x, y : steps = <<x, y>> /\ Alike(memory, x) /\ Alike(memory, y)
    <3>1. PICK v : v = [status |-> "active", scopes |-> TRUE, granted |-> TRUE]
      OBVIOUS
    <3>2. PICK x : x = [memory EXCEPT !.install[inbox[r.at].op.team] = v]
      OBVIOUS
    <3>3. PICK y : y = [x EXCEPT !.credential[inbox[r.at].op.team] = "active"]
      OBVIOUS
    <3>4. steps = <<x, y>>
      BY <2>1, <3>1, <3>2, <3>3, Zenon DEF Ing!persistSlackInstall
    <3>5. Alike(memory, x)
      BY <3>2, Updates, Zenon DEF Ingressed, Snapshot
    <3>6. Alike(x, y)
      <4>1. DOMAIN x = Fields
        BY <3>5 DEF Alike
      <4>2. QED
        BY <3>3, <4>1, Updates, Zenon
    <3>7. Alike(memory, y)
      BY <3>5, <3>6 DEF Alike
    <3>8. QED
      BY <3>4, <3>5, <3>7
  <2>4. IsSeq(steps) /\ Len(steps) = 2 /\ steps[1] = x /\ steps[2] = y
    BY <2>3, ShortSeqs
  <2>5. \A k \in 1..2 : Alike(memory, steps[k])
    BY <2>3, <2>4
  <2>6. Ing!Last(steps) = steps[2]
    BY <2>4 DEF Ing!Last
  <2>7. PICK q : q = chain.queue \o steps
    OBVIOUS
  <2>8. chain' = [chain EXCEPT !.queue = q]
    BY <2>2, <2>7
  <2>9. Queued(steps)
    BY <2>2, <2>4, <2>6, <2>7, <2>8, ChainIs DEF Queued, Ingressed, Shapes
  <2>10. Installing(r)
    BY <2>2, <2>4, <2>5, <2>9 DEF Installing, Ing!Waiting
  <2>11. QED
    BY <1>1, <2>10
<1>4. QED
  BY <1>2, <1>3
LEMMA ExchangedIs ==
  ASSUME Shapes, NEW i \in 1..Len(inbox), seen' = [seen EXCEPT !.exchanged[i] = @ + 1]
  PROVE  /\ DOMAIN seen' = DOMAIN seen /\ seen'.lost = seen.lost /\ Counts(seen'.exchanged, inbox)
         /\ seen'.exchanged[i] = seen.exchanged[i] + 1
         /\ \A j \in 1..Len(inbox) : j # i => seen'.exchanged[j] = seen.exchanged[j]
<1>1. PICK n, v : n = seen.exchanged[i] + 1 /\ v = [seen.exchanged EXCEPT ![i] = n]
  OBVIOUS
<1>2. seen' = [seen EXCEPT !.exchanged = v]
  BY <1>1
<1>3. DOMAIN seen' = DOMAIN seen /\ seen'.exchanged = v /\ seen'.lost = seen.lost
  BY <1>2, SeenIs DEF Shapes
<1>4. IsSeq(seen.exchanged) /\ i \in 1..Len(seen.exchanged) /\ Len(seen.exchanged) = Len(inbox)
  BY DEF Shapes, Counts
<1>5. IsSeq(v) /\ Len(v) = Len(inbox) /\ v[i] = n /\ \A j \in 1..Len(inbox) : j # i => v[j] = seen.exchanged[j]
  <2>1. PICK q : q = seen.exchanged
    OBVIOUS
  <2>2. IsSeq(q) /\ i \in 1..Len(q) /\ v = Updated(q, i, n)
    BY <1>1, <1>4, <2>1 DEF Updated
  <2>3. IsSeq(v) /\ Len(v) = Len(q) /\ v[i] = n /\ \A j \in 1..Len(q) : j # i => v[j] = q[j]
    BY <2>2, UpdatedSeq
  <2>4. QED
    BY <1>4, <2>1, <2>3
<1>6. n \in Nat /\ \A j \in 1..Len(inbox) : seen.exchanged[j] \in Nat
  BY <1>1 DEF Shapes, Counts
<1>7. QED
  BY <1>1, <1>3, <1>5, <1>6 DEF Counts
LEMMA ExchangeKeeps ==
  ASSUME Ingressed, NEW r \in requests, Ing!ExchangeCode(r) PROVE Ingressed'
<1>1. /\ r.at \in 1..Len(inbox) /\ \A j \in 1..Len(inbox) : seen.lost[j] \in Nat
  BY DEF Ingressed, Shapes, Requests, Counts
<1>2. saved' = saved /\ seen' = [seen EXCEPT !.exchanged[r.at] = @ + 1] /\ (Installing(r) \/ Failing(r))
  BY ExchangeIs
<1>3. DOMAIN seen' = DOMAIN seen /\ seen'.lost = seen.lost /\ Counts(seen'.exchanged, inbox)
  <2>1. PICK i \in 1..Len(inbox) : i = r.at
    BY <1>1
  <2>2. Shapes /\ seen' = [seen EXCEPT !.exchanged[i] = @ + 1]
    BY <1>2, <2>1 DEF Ingressed
  <2>3. QED
    BY <2>2, ExchangedIs
<1>4. CASE Failing(r)
  <2>1. requests' = requests \ {r} /\ memory' = memory /\ chain' = chain
    BY <1>4 DEF Failing
  <2>2. Marked(inbox, inbox', r.at) /\ inbox'[r.at].acked
    BY <1>1, <1>4, LetterIs, Zenon DEF Failing, Ingressed, Shapes
  <2>3. IsFiniteSet(requests') /\ requests' \subseteq Requests(inbox)
    BY <2>1, FS_Subset DEF Ingressed, Shapes
  <2>4. Shapes'
    BY <1>3, <2>1, <2>2, <2>3, SameShapes DEF Marked, Ingressed, Shapes
  <2>5. \A j : Under(requests, j) => Under(requests', j) \/ j = r.at
    BY <2>1 DEF Under
  <2>6. Onward(inbox, requests, seen.lost, inbox', requests', seen'.lost)
    BY <1>1, <1>3, <2>2, <2>5, SameOnward DEF Marked, Ingressed
  <2>7. QED
    BY <1>2, <2>1, <2>4, <2>6, IngressedStep
<1>5. CASE Installing(r)
  <2>1. PICK steps :
          /\ Queued(steps) /\ Len(steps) = 2 /\ \A k \in 1..2 : Alike(memory, steps[k])
          /\ requests' = (requests \ {r}) \cup
               {[at |-> r.at, pc |-> "installed", waits |-> Len(chain.queue) + Len(steps)]}
          /\ inbox' = inbox
    BY <1>5 DEF Installing
  <2>2. PICK x : x = [at |-> r.at, pc |-> "installed", waits |-> Len(chain.queue) + Len(steps)]
    OBVIOUS
  <2>3. /\ DOMAIN chain' = DOMAIN chain /\ IsSeq(chain'.queue) /\ chain'.error \in BOOLEAN
        /\ chain'.fails \in Nat /\ chain'.stops \in Nat /\ Len(chain.queue) \in Nat
    BY <2>1, QueuedIs DEF Ingressed
  <2>4. x \in Requests(inbox) /\ x.at = r.at
    BY <1>1, <2>1, <2>2, <2>3 DEF Requests
  <2>5. IsFiniteSet(requests') /\ requests' \subseteq Requests(inbox)
    BY <2>1, <2>2, <2>4, FS_Subset, FS_AddElement DEF Ingressed, Shapes
  <2>6. \A j : Under(requests, j) => Under(requests', j)
    BY <2>1, <2>2, <2>4 DEF Under
  <2>7. Shapes'
    BY <1>3, <2>1, <2>3, <2>5, SameShapes DEF Ingressed, Shapes
  <2>8. Onward(inbox, requests, seen.lost, inbox', requests', seen'.lost)
    <3>1. ASSUME NEW j \in 1..Len(inbox)
          PROVE  /\ seen'.lost[j] \in Nat /\ seen.lost[j] <= seen'.lost[j]
                 /\ inbox[j].acked => inbox'[j].acked
                 /\ Under(requests, j) => Under(requests', j)
      <4>1. inbox[j].acked => inbox'[j].acked
        BY <2>1
      <4>2. seen'.lost[j] \in Nat /\ seen.lost[j] <= seen'.lost[j]
        BY <1>1, <1>3
      <4>3. QED
        BY <2>6, <4>1, <4>2
    <3>2. Shapes /\ Len(inbox') = Len(inbox)
      BY <2>1 DEF Ingressed
    <3>3. QED
      BY <3>1, <3>2, SameOnward
  <2>9. ASSUME NEW k \in 1..Len(steps)
        PROVE  /\ Snapshot(steps[k], inbox', seen'.lost) /\ Held(steps[k], inbox', requests', seen'.lost)
               /\ Owed(steps[k], inbox', seen'.lost)
    <3>1. Snapshot(memory, inbox', seen'.lost) /\ Owed(memory, inbox', seen'.lost)
      BY <2>8, OnwardKeeps DEF Ingressed
    <3>2. Alike(memory, steps[k])
      BY <2>1
    <3>3. Snapshot(steps[k], inbox', seen'.lost) /\ Owed(steps[k], inbox', seen'.lost)
      BY <3>1, <3>2, AlikeKeeps
    <3>4. QED
      BY <3>3, OwedHeld
  <2>10. QED
    BY <1>2, <2>1, <2>7, <2>8, <2>9, QueuedKeeps
<1>6. QED
  BY <1>2, <1>4, <1>5

(* The answer after the install. *)
LEMMA InstalledKeeps ==
  ASSUME Ingressed, NEW r \in requests, Ing!Installed(r) PROVE Ingressed'
<1>1. /\ r.at \in 1..Len(inbox) /\ \A j \in 1..Len(inbox) : seen.lost[j] \in Nat
  BY DEF Ingressed, Shapes, Requests, Counts
<1>2. /\ requests' = requests \ {r} /\ chain' = [chain EXCEPT !.error = FALSE]
      /\ inbox' = [inbox EXCEPT ![r.at].acked = TRUE]
      /\ memory' = memory /\ saved' = saved /\ seen' = seen
  BY DEF Ing!Installed
<1>3. Marked(inbox, inbox', r.at) /\ inbox'[r.at].acked
  BY <1>1, <1>2, LetterIs, Zenon DEF Ingressed, Shapes
<1>4. IsFiniteSet(requests') /\ requests' \subseteq Requests(inbox)
  BY <1>2, FS_Subset DEF Ingressed, Shapes
<1>5. /\ DOMAIN chain' = DOMAIN chain /\ chain'.queue = chain.queue /\ chain'.error = FALSE
      /\ chain'.fails = chain.fails /\ chain'.stops = chain.stops
  BY <1>2, ChainIs DEF Ingressed, Shapes
<1>6. Shapes'
  BY <1>2, <1>3, <1>4, <1>5, SameShapes DEF Marked, Ingressed, Shapes
<1>7. \A j : Under(requests, j) => Under(requests', j) \/ j = r.at
  BY <1>2 DEF Under
<1>8. Onward(inbox, requests, seen.lost, inbox', requests', seen'.lost)
  <2>1. ASSUME NEW j \in 1..Len(inbox)
        PROVE  /\ seen'.lost[j] \in Nat /\ seen.lost[j] <= seen'.lost[j]
               /\ inbox[j].acked => inbox'[j].acked
               /\ Under(requests, j) => Under(requests', j) \/ inbox'[j].acked
    <3>1. inbox[j].acked => inbox'[j].acked
      BY <1>3 DEF Marked
    <3>2. seen'.lost[j] \in Nat /\ seen.lost[j] <= seen'.lost[j]
      BY <1>1, <1>2
    <3>3. Under(requests, j) => Under(requests', j) \/ inbox'[j].acked
      BY <1>3, <1>7
    <3>4. QED
      BY <3>1, <3>2, <3>3
  <2>2. Shapes /\ Len(inbox') = Len(inbox)
    BY <1>3 DEF Marked, Ingressed
  <2>3. QED
    BY <2>1, <2>2, SameOnward
<1>9. QED
  BY <1>2, <1>5, <1>6, <1>8, IngressedStep

(* A restart loses the requests under way, and memory is what was written. *)
LEMMA RestartKeepsIngress == Ingressed /\ Ing!Restart => Ingressed'
<1> SUFFICES ASSUME Ingressed, Ing!Restart PROVE Ingressed'
  OBVIOUS
<1>1. memory' = saved /\ saved' = saved /\ inbox' = inbox /\ requests' = {}
  BY DEF Ing!Restart
<1>2. PICK n : n = chain.stops + 1
  OBVIOUS
<1>3. chain' = [chain EXCEPT !.queue = <<>>, !.error = FALSE, !.stops = n]
  BY <1>2 DEF Ing!Restart
<1>4. /\ DOMAIN chain' = DOMAIN chain /\ chain'.queue = <<>> /\ chain'.error = FALSE
      /\ chain'.fails = chain.fails /\ chain'.stops = n /\ n \in Nat
  <2>1. /\ DOMAIN chain' = DOMAIN chain /\ chain'.queue = <<>> /\ chain'.error = FALSE
        /\ chain'.fails = chain.fails /\ chain'.stops = n
    BY <1>3, ChainIs, Zenon DEF Ingressed, Shapes
  <2>2. QED
    BY <1>2, <2>1 DEF Ingressed, Shapes
<1>5. PICK v : v = [i \in DOMAIN seen.lost |-> seen.lost[i] + Ing!Cardinality({r \in requests : r.at = i})]
  OBVIOUS
<1>6. seen' = [seen EXCEPT !.lost = v]
  BY <1>5 DEF Ing!Restart
<1>7. DOMAIN seen' = DOMAIN seen /\ seen'.lost = v /\ seen'.exchanged = seen.exchanged
  BY <1>6, SeenIs DEF Ingressed, Shapes
<1>8. ASSUME NEW i \in 1..Len(inbox)
      PROVE  /\ seen.lost[i] \in Nat /\ v[i] \in Nat /\ seen.lost[i] <= v[i]
             /\ Under(requests, i) => seen.lost[i] + 1 <= v[i]
  <2>1. PICK rs : rs = {r \in requests : r.at = i}
    OBVIOUS
  <2>2. IsFiniteSet(rs) /\ Cardinality(rs) \in Nat /\ (rs # {} => Cardinality(rs) # 0)
    BY <2>1, FS_Subset, FS_CardinalityType, FS_EmptySet DEF Ingressed, Shapes
  <2>3. Under(requests, i) => rs # {}
    BY <2>1 DEF Under
  <2>4. DOMAIN seen.lost = 1..Len(inbox) /\ seen.lost[i] \in Nat
    BY SeqDomain DEF Ingressed, Shapes, Counts
  <2>5. v[i] = seen.lost[i] + Cardinality(rs)
    BY <1>5, <2>1, <2>4, SameCardinality
  <2>6. QED
    BY <2>2, <2>3, <2>4, <2>5
<1>9. Counts(v, inbox)
  <2>1. Len(inbox) \in Nat /\ DOMAIN seen.lost = 1..Len(inbox)
    BY SeqDomain DEF Ingressed, Shapes, Counts, Lettered, IsSeq
  <2>2. v = [i \in 1..Len(inbox) |-> v[i]]
    BY <1>5, <2>1
  <2>3. [i \in 1..Len(inbox) |-> v[i]] \in Seq(Nat)
    BY <1>8, <2>1
  <2>4. v \in Seq(Nat) /\ Len(v) = Len(inbox)
    BY <2>1, <2>2, <2>3, LenProperties
  <2>5. QED
    BY <1>8, <2>4, SeqIs DEF Counts
<1>10. IsFiniteSet(requests') /\ requests' \subseteq Requests(inbox) /\ IsSeq(<<>>) /\ Len(<<>>) = 0
  BY <1>1, FS_EmptySet, ShortSeqs
<1>11. Shapes'
  BY <1>1, <1>4, <1>7, <1>9, <1>10, SameShapes DEF Ingressed, Shapes
<1>12. Onward(inbox, requests, seen.lost, inbox', requests', seen'.lost)
  <2>1. ASSUME NEW j \in 1..Len(inbox)
        PROVE  /\ seen'.lost[j] \in Nat /\ seen.lost[j] <= seen'.lost[j]
               /\ inbox[j].acked => inbox'[j].acked
               /\ Under(requests, j) => seen.lost[j] + 1 <= seen'.lost[j]
    <3>1. inbox[j].acked => inbox'[j].acked
      BY <1>1
    <3>2. QED
      BY <1>7, <1>8, <3>1
  <2>2. Shapes /\ Len(inbox') = Len(inbox)
    BY <1>1 DEF Ingressed
  <2>3. QED
    BY <2>1, <2>2, SameOnward
<1>13. Snapshot(memory', inbox', seen'.lost) /\ Owed(memory', inbox', seen'.lost)
  <2>1. Snapshot(saved, inbox', seen'.lost) /\ Held(saved, inbox', requests', seen'.lost)
    BY <1>12, OnwardKeeps DEF Ingressed
  <2>2. \A i : ~Under(requests', i)
    BY <1>1 DEF Under
  <2>3. Owed(saved, inbox', seen'.lost)
    BY <2>1, <2>2 DEF Held, Owed
  <2>4. QED
    BY <1>1, <2>1, <2>3
<1>14. QED
  BY <1>1, <1>4, <1>10, <1>11, <1>12, <1>13, IngressedStep


(* What a delivery that is handled does.  Its snapshots are those of the
   handler, which change neither the keys nor, but for one run of the callback,
   the runs; and one that records the key, unless the handler threw or an admin
   sent it. *)
Keyed(s, x, at) == DOMAIN x = Fields /\ x.keys = s.keys \cup {at} /\ x.runs = s.runs
Waits(i, n) == [at |-> i, pc |-> "flush", waits |-> n]
Handled(i) ==
  \E steps, last :
    /\ Queued(steps)
    /\ \A k \in 1..Len(steps) :
         \/ Alike(memory, steps[k])
         \/ /\ Started(memory, steps[k], i) /\ ~Ing!Admin(inbox[i].op) /\ Under(requests', i)
            /\ k # Len(steps)
         \/ k = Len(steps) /\ Keyed(last, steps[k], i)
    /\ Alike(memory, last) \/ Started(memory, last, i)
    /\ \/ requests' = requests
       \/ /\ requests' = requests \cup {Waits(i, Len(chain.queue) + Len(steps))}
          /\ ~Ing!Admin(inbox[i].op) => Len(steps) # 0 /\ Keyed(last, steps[Len(steps)], i)
Received(i) ==
  /\ i \notin memory.keys /\ saved' = saved
  /\ \E v : seen' = [seen EXCEPT !.left = v]
  /\ \/ \E n : inbox' = [inbox EXCEPT ![i].tries = n]
     \/ \E n : inbox' = [inbox EXCEPT ![i].tries = n, ![i].acked = TRUE]
  /\ Handled(i)

LEMMA ReceiveIs ==
  ASSUME Ingressed, NEW i \in 1..Len(inbox), Ing!Receive(i) PROVE Received(i)
<1> DEFINE op == inbox[i].op
<1>1. PICK h : h = Ing!Handle(memory, op, i)
  OBVIOUS
<1>2. DOMAIN memory = Fields /\ Outcome(memory, op, i, h)
  BY <1>1, HandlersOutcome DEF Ingressed, Snapshot
<1>3. PICK last : last = IF h.steps = <<>> THEN memory ELSE Ing!Last(h.steps)
  OBVIOUS
<1>4. PICK keyed : keyed = Ing!recordIngressDelivery(last, i)
  OBVIOUS
<1>5. PICK steps : steps = IF Ing!HasKey(op, h.status) THEN Append(h.steps, keyed) ELSE h.steps
  OBVIOUS
<1>6. /\ i \notin memory.keys /\ saved' = saved
      /\ \E v : seen' = [seen EXCEPT !.left = v]
  BY Zenon DEF Ing!Receive
<1>7. \/ /\ h.status = "error" /\ requests' = requests
         /\ memory' = IF steps = <<>> THEN memory ELSE Ing!Last(steps)
         /\ chain' = [chain EXCEPT !.queue = @ \o steps]
         /\ inbox' = [inbox EXCEPT ![i].tries = @ - 1]
      \/ /\ h.status = "refused" /\ memory' = memory /\ chain' = chain /\ requests' = requests
         /\ Ing!Answer(i)
      \/ /\ h.status # "error" /\ h.status # "refused"
         /\ requests' = requests \cup {Ing!Waiting(i, "flush", Len(chain.queue) + Len(steps))}
         /\ memory' = IF steps = <<>> THEN memory ELSE Ing!Last(steps)
         /\ chain' = [chain EXCEPT !.queue = @ \o steps]
         /\ inbox' = [inbox EXCEPT ![i].tries = @ - 1]
  <2>1. CASE h.status = "error"
    BY <1>1, <1>3, <1>4, <1>5, <2>1 DEF Ing!Receive, Ing!Apply
  <2>2. CASE h.status = "refused"
    BY <1>1, <1>3, <1>4, <1>5, <2>2 DEF Ing!Receive, Ing!Apply
  <2>3. CASE h.status # "error" /\ h.status # "refused"
    BY <1>1, <1>3, <1>4, <1>5, <2>3 DEF Ing!Receive, Ing!Apply
  <2>4. QED
    BY <2>1, <2>2, <2>3
<1>8. /\ \/ \E n : inbox' = [inbox EXCEPT ![i].tries = n]
         \/ \E n : inbox' = [inbox EXCEPT ![i].tries = n, ![i].acked = TRUE]
  <2>1. PICK n : n = inbox[i].tries - 1
    OBVIOUS
  <2>2. \/ inbox' = [inbox EXCEPT ![i].tries = n]
        \/ inbox' = [inbox EXCEPT ![i].tries = n, ![i].acked = TRUE]
    BY <1>7, <2>1 DEF Ing!Answer
  <2>3. QED
    BY <2>2, Zenon
<1>9. /\ h.status \in {"processed", "ignored", "error", "refused"} /\ IsSeq(h.steps) /\ Len(h.steps) \in Nat
      /\ \A k \in 1..Len(h.steps) :
           \/ Alike(memory, h.steps[k])
           \/ Started(memory, h.steps[k], i) /\ ~Ing!Admin(op) /\ h.status = "processed"
  BY <1>2 DEF Outcome, IsSeq
(* The last snapshot of the handler, or the one it found. *)
<1>10. /\ Alike(memory, last) \/ Started(memory, last, i)
       /\ Alike(memory, last) \/ (~Ing!Admin(op) /\ h.status = "processed")
  <2>1. \/ Len(h.steps) = 0 /\ last = memory
        \/ Len(h.steps) \in Nat \ {0} /\ Len(h.steps) \in 1..Len(h.steps) /\ last = h.steps[Len(h.steps)]
    BY <1>3, <1>9, LastIs, Zenon
  <2>2. Alike(memory, memory)
    BY <1>2 DEF Alike
  <2>3. QED
    BY <1>9, <2>1, <2>2
<1>11. Keyed(last, keyed, i)
  <2>1. DOMAIN last = Fields
    BY <1>10 DEF Alike, Started
  <2>2. PICK ks : ks = last.keys \cup {i}
    OBVIOUS
  <2>3. keyed = [last EXCEPT !.keys = ks]
    BY <1>4, <2>2 DEF Ing!recordIngressDelivery
  <2>4. DOMAIN keyed = Fields /\ keyed.keys = ks /\ keyed.runs = last.runs
    BY <2>1, <2>3, KeysOf, Zenon
  <2>5. last.keys = memory.keys
    BY <1>10 DEF Alike, Started
  <2>6. QED
    BY <2>2, <2>4 DEF Keyed
(* With the key or without it. *)
<1>12. /\ IsSeq(steps) /\ Len(steps) \in Nat
       /\ Ing!HasKey(op, h.status) => Len(steps) # 0 /\ Keyed(last, steps[Len(steps)], i)
       /\ ~Ing!HasKey(op, h.status) => steps = h.steps
       /\ \A k \in 1..Len(steps) :
            \/ k \in 1..Len(h.steps) /\ steps[k] = h.steps[k] /\ (Ing!HasKey(op, h.status) => k # Len(steps))
            \/ Ing!HasKey(op, h.status) /\ k = Len(steps)
  <2>1. CASE Ing!HasKey(op, h.status)
    <3>1. steps = Append(h.steps, keyed)
      BY <1>5, <2>1
    <3>2. /\ IsSeq(steps) /\ Len(steps) = Len(h.steps) + 1 /\ steps[Len(h.steps) + 1] = keyed
          /\ \A k \in 1..Len(h.steps) : steps[k] = h.steps[k]
      BY <1>9, <3>1, AppendIs
    <3>3. \A k \in 1..Len(steps) : (k \in 1..Len(h.steps) /\ k # Len(steps)) \/ k = Len(steps)
      BY <1>9, <3>2
    <3>4. Len(steps) \in Nat /\ Len(steps) # 0 /\ Keyed(last, steps[Len(steps)], i)
      BY <1>9, <1>11, <3>2
    <3>5. QED
      BY <2>1, <3>2, <3>3, <3>4
  <2>2. CASE ~Ing!HasKey(op, h.status)
    <3>1. steps = h.steps
      BY <1>5, <2>2
    <3>2. QED
      BY <1>9, <2>2, <3>1
  <2>3. QED
    BY <2>1, <2>2
<1>13. Alike(memory, last) \/ Started(memory, last, i)
  BY <1>10
<1>14. CASE h.status = "refused"
  <2>1. memory' = memory /\ chain' = chain /\ requests' = requests
    BY <1>7, <1>14
  <2>2. PICK none : none = <<>> /\ IsSeq(none) /\ Len(none) = 0
    BY ShortSeqs
  <2>3. chain.queue \o none = chain.queue
    <3>1. IsSeq(chain.queue)
      BY DEF Ingressed, Shapes
    <3>2. PICK S, q : S = {chain.queue[k] : k \in 1..Len(chain.queue)} /\ q = chain.queue
      OBVIOUS
    <3>3. q \in Seq(S)
      BY <3>1, <3>2, SeqOf
    <3>4. q \o <<>> = q
      BY <3>3, ConcatEmptySeq
    <3>5. QED
      BY <2>2, <3>2, <3>4
  <2>4. Queued(none)
    BY <2>1, <2>2, <2>3 DEF Queued
  <2>5. Handled(i)
    BY <1>13, <2>1, <2>2, <2>4 DEF Handled
  <2>6. QED
    BY <1>6, <1>8, <2>5 DEF Received
<1>15. CASE h.status # "refused"
  <2>1. Queued(steps)
    <3>1. PICK q : q = chain.queue \o steps
      OBVIOUS
    <3>2. chain' = [chain EXCEPT !.queue = q]
      BY <1>7, <1>15, <3>1
    <3>3. /\ DOMAIN chain' = DOMAIN chain /\ chain'.queue = q
          /\ chain'.error = chain.error /\ chain'.fails = chain.fails /\ chain'.stops = chain.stops
      BY <3>2, ChainIs DEF Ingressed, Shapes
    <3>4. memory' = IF steps = <<>> THEN memory ELSE Ing!Last(steps)
      BY <1>7, <1>15
    <3>5. \/ Len(steps) = 0 /\ memory' = memory
          \/ Len(steps) # 0 /\ memory' = steps[Len(steps)]
      BY <1>12, <3>4, LastIs
    <3>6. QED
      BY <1>12, <3>1, <3>3, <3>5 DEF Queued
  <2>2. h.status = "processed" => Under(requests', i)
    <3>1. h.status = "processed" => Ing!Waiting(i, "flush", Len(chain.queue) + Len(steps)) \in requests'
      BY <1>7
    <3>2. Ing!Waiting(i, "flush", Len(chain.queue) + Len(steps)).at = i
      BY DEF Ing!Waiting
    <3>3. QED
      BY <3>1, <3>2 DEF Under
  <2>3. h.status = "processed" /\ ~Ing!Admin(op) => Ing!HasKey(op, h.status)
    BY DEF Ing!HasKey
  <2>4. ASSUME NEW k \in 1..Len(steps)
        PROVE  \/ Alike(memory, steps[k])
               \/ /\ Started(memory, steps[k], i) /\ ~Ing!Admin(op) /\ Under(requests', i)
                  /\ k # Len(steps)
               \/ k = Len(steps) /\ Keyed(last, steps[k], i)
    BY <1>9, <1>12, <2>2, <2>3
  <2>5. \/ requests' = requests
        \/ /\ requests' = requests \cup {Waits(i, Len(chain.queue) + Len(steps))}
           /\ ~Ing!Admin(op) => Len(steps) # 0 /\ Keyed(last, steps[Len(steps)], i)
    <3>1. CASE h.status = "error"
      BY <1>7, <3>1
    <3>2. CASE h.status # "error"
      <4>1. requests' = requests \cup {Waits(i, Len(chain.queue) + Len(steps))}
        BY <1>7, <1>15, <3>2 DEF Ing!Waiting, Waits
      <4>2. ~Ing!Admin(op) => Ing!HasKey(op, h.status)
        BY <1>9, <1>15, <3>2 DEF Ing!HasKey
      <4>3. QED
        BY <1>12, <4>1, <4>2
    <3>3. QED
      BY <3>1, <3>2
  <2>6. Handled(i)
    BY <1>13, <2>1, <2>4, <2>5 DEF Handled
  <2>7. QED
    BY <1>6, <1>8, <2>6 DEF Received
<1>16. QED
  BY <1>14, <1>15

(* A delivery that is handled keeps the invariant. *)
LEMMA ReceiveKeeps ==
  ASSUME Ingressed, NEW i \in 1..Len(inbox), ~inbox[i].acked, Ing!Receive(i) PROVE Ingressed'
<1>1. Received(i)
  BY ReceiveIs
<1>2. PICK steps, last :
        /\ Queued(steps)
        /\ \A k \in 1..Len(steps) :
             \/ Alike(memory, steps[k])
             \/ /\ Started(memory, steps[k], i) /\ ~Ing!Admin(inbox[i].op) /\ Under(requests', i)
                /\ k # Len(steps)
             \/ k = Len(steps) /\ Keyed(last, steps[k], i)
        /\ Alike(memory, last) \/ Started(memory, last, i)
        /\ \/ requests' = requests
           \/ requests' = requests \cup {Waits(i, Len(chain.queue) + Len(steps))}
  BY <1>1, Zenon DEF Received, Handled
<1>3. PICK v : seen' = [seen EXCEPT !.left = v]
  BY <1>1 DEF Received
<1>4. DOMAIN seen' = DOMAIN seen /\ seen'.lost = seen.lost /\ seen'.exchanged = seen.exchanged
  BY <1>3, SeenIs DEF Ingressed, Shapes
<1>5. Marked(inbox, inbox', i)
  <2>1. CASE \E n : inbox' = [inbox EXCEPT ![i].tries = n]
    <3>1. PICK n : inbox' = [inbox EXCEPT ![i].tries = n]
      BY <2>1
    <3>2. Lettered(inbox)
      BY DEF Ingressed, Shapes
    <3>3. QED
      BY <3>1, <3>2, LetterIs, Zenon
  <2>2. CASE \E n : inbox' = [inbox EXCEPT ![i].tries = n, ![i].acked = TRUE]
    <3>1. PICK n : inbox' = [inbox EXCEPT ![i].tries = n, ![i].acked = TRUE]
      BY <2>2
    <3>2. Lettered(inbox)
      BY DEF Ingressed, Shapes
    <3>3. QED
      BY <3>1, <3>2, LetterIs, Zenon
  <2>3. QED
    BY <1>1, <2>1, <2>2 DEF Received
<1>6. /\ DOMAIN chain' = DOMAIN chain /\ IsSeq(chain'.queue) /\ chain'.error \in BOOLEAN
      /\ chain'.fails \in Nat /\ chain'.stops \in Nat
      /\ Len(chain.queue) \in Nat /\ Len(steps) \in Nat
  BY <1>2, QueuedIs DEF Ingressed
<1>7. IsFiniteSet(requests') /\ requests' \subseteq Requests(inbox)
  <2>1. PICK x : x = Waits(i, Len(chain.queue) + Len(steps))
    OBVIOUS
  <2>2. x \in Requests(inbox)
    BY <1>6, <2>1 DEF Waits, Requests
  <2>3. QED
    BY <1>2, <2>1, <2>2, FS_AddElement DEF Ingressed, Shapes
<1>8. Shapes'
  BY <1>4, <1>5, <1>6, <1>7, SameShapes DEF Marked, Ingressed, Shapes
<1>9. Onward(inbox, requests, seen.lost, inbox', requests', seen'.lost)
  <2>1. ASSUME NEW j \in 1..Len(inbox)
        PROVE  /\ seen'.lost[j] \in Nat /\ seen.lost[j] <= seen'.lost[j]
               /\ inbox[j].acked => inbox'[j].acked
               /\ Under(requests, j) => Under(requests', j)
    <3>1. inbox[j].acked => inbox'[j].acked
      BY <1>5 DEF Marked
    <3>2. seen'.lost[j] \in Nat /\ seen.lost[j] <= seen'.lost[j]
      BY <1>4 DEF Ingressed, Shapes, Counts
    <3>3. Under(requests, j) => Under(requests', j)
      BY <1>2 DEF Under
    <3>4. QED
      BY <3>1, <3>2, <3>3
  <2>2. Shapes /\ Len(inbox') = Len(inbox)
    BY <1>5 DEF Marked, Ingressed
  <2>3. QED
    BY <2>1, <2>2, SameOnward
(* Before the step the callback was owed its run. *)
<1>10. ASSUME NEW x, Started(memory, x, i)
       PROVE  Snapshot(x, inbox', seen'.lost) /\ OwedBut(x, i, inbox', seen'.lost)
  <2>1. i \notin memory.keys /\ \A j \in 1..Len(inbox) : seen.lost[j] \in Nat
    BY <1>1 DEF Received, Ingressed, Shapes, Counts
  <2>2. Snapshot(x, inbox, seen.lost) /\ OwedBut(x, i, inbox, seen.lost)
    BY <1>10, <2>1, StartedKeeps DEF Ingressed
  <2>3. Snapshot(x, inbox', seen'.lost)
    BY <1>9, <2>2, OnwardKeeps
  <2>4. OwedBut(x, i, inbox', seen'.lost)
    BY <1>4, <1>5, <2>2 DEF Marked, OwedBut
  <2>5. QED
    BY <2>3, <2>4
<1>11. ASSUME NEW x, Alike(memory, x) PROVE Snapshot(x, inbox', seen'.lost) /\ Owed(x, inbox', seen'.lost)
  <2>1. Snapshot(memory, inbox', seen'.lost) /\ Owed(memory, inbox', seen'.lost)
    BY <1>9, OnwardKeeps DEF Ingressed
  <2>2. QED
    BY <1>11, <2>1, AlikeKeeps
<1>12. ASSUME NEW x, Keyed(last, x, i) PROVE Snapshot(x, inbox', seen'.lost) /\ Owed(x, inbox', seen'.lost)
  <2>1. Snapshot(last, inbox', seen'.lost) /\ OwedBut(last, i, inbox', seen'.lost)
    BY <1>2, <1>10, <1>11 DEF Owed, OwedBut
  <2>2. DOMAIN x = Fields /\ x.runs = last.runs /\ x.keys = last.keys \cup {i}
    <3>1. last.keys = memory.keys
      BY <1>2 DEF Alike, Started
    <3>2. QED
      BY <1>12 DEF Keyed
  <2>3. QED
    BY <2>1, <2>2, KeyedKeeps
<1>13. ASSUME NEW k \in 1..Len(steps)
       PROVE  /\ Snapshot(steps[k], inbox', seen'.lost) /\ Held(steps[k], inbox', requests', seen'.lost)
              /\ k = Len(steps) => Owed(steps[k], inbox', seen'.lost)
  <2>1. CASE Alike(memory, steps[k]) \/ Keyed(last, steps[k], i)
    BY <1>11, <1>12, <2>1, OwedHeld
  <2>2. CASE Started(memory, steps[k], i) /\ Under(requests', i) /\ k # Len(steps)
    <3>1. Snapshot(steps[k], inbox', seen'.lost) /\ OwedBut(steps[k], i, inbox', seen'.lost)
      BY <1>10, <2>2
    <3>2. Held(steps[k], inbox', requests', seen'.lost)
      BY <2>2, <3>1 DEF OwedBut, Held
    <3>3. QED
      BY <2>2, <3>1, <3>2
  <2>3. QED
    BY <1>2, <2>1, <2>2
<1>14. saved' = saved
  BY <1>1 DEF Received
<1>15. QED
  BY <1>2, <1>8, <1>9, <1>13, <1>14, QueuedKeeps

LEMMA NextIngressed == Ingressed /\ [Ing!Next]_(Ing!vars) => Ingressed'
<1> SUFFICES ASSUME Ingressed, [Ing!Next]_(Ing!vars) PROVE Ingressed'
  OBVIOUS
<1>1. DOMAIN inbox = 1..Len(inbox)
  BY SeqDomain DEF Ingressed, Shapes, Lettered
<1>2. ASSUME NEW i \in DOMAIN inbox, Ing!Deliver(i) PROVE Ingressed'
  <2>1. i \in 1..Len(inbox) /\ ~inbox[i].acked /\ (Ing!Deduped(i) \/ Ing!Receive(i))
    BY <1>1, <1>2 DEF Ing!Deliver
  <2>2. QED
    BY <2>1, DedupedKeeps, ReceiveKeeps
<1>3. ASSUME NEW op, Ing!Send(op) PROVE Ingressed'
  BY <1>3, SendKeeps
<1>4. ASSUME NEW r \in requests,
             Ing!flushChangesWithDeliveryRollback(r) \/ Ing!ExchangeCode(r) \/ Ing!Installed(r)
      PROVE  Ingressed'
  BY <1>4, FlushKeeps, ExchangeKeeps, InstalledKeeps
<1>5. CASE Ing!SaveNext \/ Ing!SaveFails \/ Ing!Restart
  BY <1>5, SaveKeeps, RestartKeepsIngress
<1>6. CASE UNCHANGED Ing!vars
  <2>1. /\ memory' = memory /\ saved' = saved /\ chain' = chain /\ inbox' = inbox /\ requests' = requests
        /\ seen' = seen
    BY <1>6 DEF Ing!vars
  <2>2. QED
    BY <2>1 DEF Ingressed, Shapes
<1>7. QED
  BY <1>2, <1>3, <1>4, <1>5, <1>6 DEF Ing!Next

(* The theorem for each callback: however often Slack delivers it and however
   its deliveries overlap, memory has one run for it, and one more for each
   of its requests whose flush failed or that a restart cut short. *)
THEOREM OneRunPerCallbackHolds == Spec => []OneRunPerCallback
<1>1. Starts => (unit = "slack" => Ingressed)
  BY InitIngressed DEF Starts
<1>2. (unit = "slack" => Ingressed) /\ [UNCHANGED unit /\ Steps]_vars => (unit = "slack" => Ingressed)'
  BY NextIngressed DEF Steps, vars, Ing!vars
<1>3. (unit = "slack" => Ingressed) => OneRunPerCallback
  <2> SUFFICES ASSUME unit = "slack", Ingressed PROVE Ing!OneRunPerCallback
    BY DEF OneRunPerCallback
  <2>1. DOMAIN inbox = 1..Len(inbox)
    BY SeqDomain DEF Ingressed, Shapes, Lettered
  <2>2. ASSUME NEW i \in DOMAIN inbox
        PROVE  Ing!Cardinality({run \in memory.runs : run.at = i}) <= 1 + seen.lost[i]
    BY <2>1, SameCardinality DEF Ingressed, Snapshot, RunsAt
  <2>3. QED
    BY <2>2 DEF Ing!OneRunPerCallback
<1>4. QED
  BY <1>1, <1>2, <1>3, PTL DEF Spec


-----------------------------------------------------------------------------
(* Slack callbacks: the code of a redirect is exchanged once *)

(* Keys are only added from the written snapshot to the queued ones and to the
   one in memory. *)
Growing ==
  /\ saved.keys \subseteq memory.keys
  /\ \A k \in 1..Len(chain.queue) :
       saved.keys \subseteq chain.queue[k].keys /\ chain.queue[k].keys \subseteq memory.keys
  /\ \A j, k \in 1..Len(chain.queue) : j <= k => chain.queue[j].keys \subseteq chain.queue[k].keys

(* A redirect's key is among those its request waits for, then among the
   written ones; and its code has not been exchanged until the request is at
   its install. *)
OAuth(i) == Ing!Kind(inbox[i].op) = "oauth"
Passed(i, n) ==
  /\ n = 0 => i \in saved.keys
  /\ n # 0 => n \in 1..Len(chain.queue) /\ i \in chain.queue[n].keys
Ready(r) ==
  /\ r.pc = "flush" => Passed(r.at, r.waits)
  /\ r.pc # "flush" => r.at \in saved.keys
  /\ r.pc # "installed" => seen.exchanged[r.at] = 0
OneReady ==
  \A r \in requests : OAuth(r.at) => Ready(r) /\ \A x \in requests : x.at = r.at => x = r
Exchanges ==
  \A i \in 1..Len(inbox) : seen.exchanged[i] <= 1 /\ (seen.exchanged[i] # 0 => i \in saved.keys)
Unfailed == chain.error = FALSE /\ Growing /\ OneReady /\ Exchanges
Exchanging ==
  /\ \A r \in requests : r.pc # "flush" => OAuth(r.at)
  /\ chain.fails = 0 => Unfailed

LEMMA InitExchanging == Ing!Init => Exchanging
<1> SUFFICES ASSUME Ing!Init PROVE Exchanging
  OBVIOUS
<1>1. /\ saved = memory /\ inbox = <<>> /\ requests = {} /\ seen.exchanged = <<>>
      /\ chain.error = FALSE /\ chain.queue = <<>>
  BY DEF Ing!Init
<1>2. QED
  BY <1>1, ShortSeqs DEF Exchanging, Unfailed, Growing, OneReady, Exchanges

(* The key of a redirect's request is in memory, so its next delivery is not
   handled. *)
LEMMA RequestKeyed ==
  ASSUME Unfailed, NEW r \in requests, OAuth(r.at), r.pc \in {"flush", "exchange", "installed"}
  PROVE  r.at \in memory.keys
<1>1. Ready(r)
  BY DEF Unfailed, OneReady
<1>2. r.at \in saved.keys \/ \E n \in 1..Len(chain.queue) : r.at \in chain.queue[n].keys
  BY <1>1 DEF Ready, Passed
<1>3. QED
  BY <1>2 DEF Unfailed, Growing

(* What is queued has the keys of memory, and the last may add one. *)
LEMMA GrowingQueued ==
  ASSUME Shapes, Growing, saved' = saved, NEW steps, Queued(steps),
         \A k \in 1..Len(steps) :
           steps[k].keys = memory.keys \/ (k = Len(steps) /\ memory.keys \subseteq steps[k].keys)
  PROVE  Growing'
<1>1. /\ Len(steps) \in Nat /\ Len(chain.queue) \in Nat
      /\ \A k \in 1..Len(chain.queue) : chain'.queue[k] = chain.queue[k]
      /\ \A k \in 1..Len(steps) : chain'.queue[Len(chain.queue) + k] = steps[k]
      /\ \A k \in 1..Len(chain'.queue) :
           k \in 1..Len(chain.queue) \/ k - Len(chain.queue) \in 1..Len(steps)
  BY QueuedIs
<1>2. memory.keys \subseteq memory'.keys /\ \A k \in 1..Len(steps) : steps[k].keys \subseteq memory'.keys
  <2>1. CASE Len(steps) = 0
    BY <2>1 DEF Queued
  <2>2. CASE Len(steps) # 0
    <3>1. Len(steps) \in 1..Len(steps) /\ memory' = steps[Len(steps)]
      BY <1>1, <2>2 DEF Queued
    <3>2. QED
      BY <3>1
  <2>3. QED
    BY <2>1, <2>2
<1>3. ASSUME NEW k \in 1..Len(chain'.queue)
      PROVE  \/ k \in 1..Len(chain.queue) /\ chain'.queue[k] = chain.queue[k]
             \/ \E j \in 1..Len(steps) : k = Len(chain.queue) + j /\ chain'.queue[k] = steps[j]
  <2>1. CASE k \in 1..Len(chain.queue)
    BY <1>1, <2>1
  <2>2. CASE k - Len(chain.queue) \in 1..Len(steps)
    <3>1. PICK j \in 1..Len(steps) : j = k - Len(chain.queue)
      BY <2>2
    <3>2. k = Len(chain.queue) + j
      BY <1>1, <3>1
    <3>3. QED
      BY <1>1, <3>2
  <2>3. QED
    BY <1>1, <2>1, <2>2
<1>4. \A j \in 1..Len(steps) : memory.keys \subseteq steps[j].keys
  OBVIOUS
<1>5. ASSUME NEW k \in 1..Len(chain'.queue)
      PROVE  saved'.keys \subseteq chain'.queue[k].keys /\ chain'.queue[k].keys \subseteq memory'.keys
  <2>1. CASE k \in 1..Len(chain.queue) /\ chain'.queue[k] = chain.queue[k]
    BY <1>2, <2>1 DEF Growing
  <2>2. ASSUME NEW j \in 1..Len(steps), chain'.queue[k] = steps[j]
        PROVE  saved'.keys \subseteq chain'.queue[k].keys /\ chain'.queue[k].keys \subseteq memory'.keys
    BY <1>2, <1>4, <2>2 DEF Growing
  <2>3. QED
    BY <1>3, <2>1, <2>2
<1>6. ASSUME NEW j \in 1..Len(chain'.queue), NEW k \in 1..Len(chain'.queue), j <= k
      PROVE  chain'.queue[j].keys \subseteq chain'.queue[k].keys
  <2>1. CASE k \in 1..Len(chain.queue) /\ chain'.queue[k] = chain.queue[k]
    <3>1. j \in 1..Len(chain.queue) /\ chain'.queue[j] = chain.queue[j]
      BY <1>1, <1>6, <2>1
    <3>2. QED
      BY <1>6, <2>1, <3>1 DEF Growing
  <2>2. ASSUME NEW b \in 1..Len(steps), k = Len(chain.queue) + b, chain'.queue[k] = steps[b]
        PROVE  chain'.queue[j].keys \subseteq chain'.queue[k].keys
    <3>1. CASE j \in 1..Len(chain.queue) /\ chain'.queue[j] = chain.queue[j]
      BY <1>4, <2>2, <3>1 DEF Growing
    <3>2. ASSUME NEW a \in 1..Len(steps), j = Len(chain.queue) + a, chain'.queue[j] = steps[a]
          PROVE  chain'.queue[j].keys \subseteq chain'.queue[k].keys
      <4>1. a <= b
        BY <1>1, <1>6, <2>2, <3>2
      <4>2. steps[a].keys \subseteq steps[b].keys
        <5>1. CASE a = b
          BY <5>1
        <5>2. CASE a # b
          <6>1. a # Len(steps)
            BY <1>1, <4>1, <5>2
          <6>2. QED
            BY <1>4, <6>1
        <5>3. QED
          BY <5>1, <5>2
      <4>3. QED
        BY <2>2, <3>2, <4>2
    <3>3. QED
      BY <1>3, <3>1, <3>2
  <2>3. QED
    BY <1>3, <2>1, <2>2
<1>7. saved'.keys \subseteq memory'.keys
  BY <1>2 DEF Growing
<1>8. QED
  BY <1>5, <1>6, <1>7 DEF Growing

(* Steps that leave the snapshots: the requests that stay are as ready as they
   were, and those that are new are the only ones of their callback. *)
LEMMA ExchangingStep ==
  ASSUME Shapes, Exchanging,
         \A i \in 1..Len(inbox) : i \in 1..Len(inbox') /\ inbox'[i].op = inbox[i].op,
         \A r \in requests' : r \in requests \/ (r.at \in 1..Len(inbox) /\ (r.pc # "flush" => OAuth(r.at))),
         chain'.fails = 0 =>
           /\ chain.fails = 0 /\ chain'.error = FALSE /\ Growing' /\ Exchanges'
           /\ \A r \in requests' : OAuth(r.at) =>
                /\ Ready(r)'
                /\ \A x \in requests' : x.at = r.at => x = r
  PROVE  Exchanging'
<1>1. ASSUME NEW r \in requests' PROVE r.at \in 1..Len(inbox) /\ OAuth(r.at)' = OAuth(r.at)
  <2>1. r.at \in 1..Len(inbox)
    BY DEF Shapes, Requests
  <2>2. inbox'[r.at].op = inbox[r.at].op
    BY <2>1
  <2>3. QED
    BY <2>1, <2>2 DEF OAuth
<1>2. \A r \in requests' : r.pc # "flush" => OAuth(r.at)'
  BY <1>1 DEF Exchanging
<1>3. chain'.fails = 0 => OneReady'
  BY <1>1 DEF OneReady
<1>4. QED
  BY <1>2, <1>3 DEF Exchanging, Unfailed


LEMMA ReadyStays ==
  ASSUME NEW r, Ready(r), saved' = saved, seen'.exchanged[r.at] = seen.exchanged[r.at],
         \A k \in 1..Len(chain.queue) : k \in 1..Len(chain'.queue) /\ chain'.queue[k] = chain.queue[k]
  PROVE  Ready(r)'
BY DEF Ready, Passed

(* The operations of letters are not changed. *)
LEMMA MarkedOps ==
  ASSUME NEW i, Marked(inbox, inbox', i)
  PROVE  \A j \in 1..Len(inbox) : j \in 1..Len(inbox') /\ inbox'[j].op = inbox[j].op
BY DEF Marked

(* Steps that change no snapshot and no request but for those they end. *)
LEMMA QuietExchanging ==
  ASSUME Shapes, Exchanging, chain' = chain \/ (chain'.queue = chain.queue /\ chain'.fails = chain.fails /\ chain'.error = FALSE),
         memory' = memory, saved' = saved, requests' \subseteq requests,
         \A i \in 1..Len(inbox) : i \in 1..Len(inbox') /\ inbox'[i].op = inbox[i].op,
         \A i \in 1..Len(inbox') : IF i \in 1..Len(inbox) THEN seen'.exchanged[i] = seen.exchanged[i]
                                                         ELSE seen'.exchanged[i] = 0
  PROVE  Exchanging'
<1>1. chain'.queue = chain.queue /\ chain'.fails = chain.fails /\ (chain'.error = chain.error \/ chain'.error = FALSE)
  OBVIOUS
<1>2. \A r \in requests' : r \in requests /\ r.at \in 1..Len(inbox)
  BY DEF Shapes, Requests
<1>3. ASSUME chain'.fails = 0
      PROVE  chain.fails = 0 /\ chain'.error = FALSE /\ Growing' /\ Exchanges'
  <2>1. chain.fails = 0 /\ Unfailed
    BY <1>1, <1>3 DEF Exchanging
  <2>2. Growing'
    BY <1>1, <2>1 DEF Unfailed, Growing
  <2>3. Exchanges'
    BY <2>1 DEF Unfailed, Exchanges
  <2>4. QED
    BY <1>1, <2>1, <2>2, <2>3 DEF Unfailed
<1>4. ASSUME chain'.fails = 0, NEW r \in requests', OAuth(r.at)
      PROVE  Ready(r)' /\ \A x \in requests' : x.at = r.at => x = r
  <2>1. Unfailed
    BY <1>1, <1>4 DEF Exchanging
  <2>2. r \in requests /\ Ready(r) /\ \A x \in requests : x.at = r.at => x = r
    BY <1>4, <2>1 DEF Unfailed, OneReady
  <2>3. seen'.exchanged[r.at] = seen.exchanged[r.at]
    BY <1>2
  <2>4. Ready(r)'
    BY <1>1, <2>2, <2>3, ReadyStays
  <2>5. QED
    BY <2>2, <2>4
<1>5. QED
  BY <1>2, <1>3, <1>4, ExchangingStep

LEMMA SendExchanging == ASSUME Ingressed, Exchanging, NEW op, Ing!Send(op) PROVE Exchanging'
<1> DEFINE n == Len(inbox)
<1>1. n \in Nat /\ IsSeq(inbox) /\ IsSeq(seen.exchanged) /\ Len(seen.exchanged) = n
  BY DEF Ingressed, Shapes, Lettered, Counts, IsSeq
<1>2. PICK x : inbox' = Append(inbox, x)
  BY DEF Ing!Send
<1>3. PICK v, w : v = Append(seen.lost, 0) /\ w = Append(seen.exchanged, 0)
  OBVIOUS
<1>4. seen' = [seen EXCEPT !.lost = v, !.exchanged = w]
  BY <1>3 DEF Ing!Send
<1>5. seen'.exchanged = w
  BY <1>4, SeenIs DEF Ingressed, Shapes
<1>6. Len(inbox') = n + 1 /\ \A i \in 1..n : inbox'[i] = inbox[i]
  BY <1>1, <1>2, AppendIs
<1>7. (\A i \in 1..n : w[i] = seen.exchanged[i]) /\ w[n + 1] = 0
  BY <1>1, <1>3, AppendIs
<1>8. \A i \in 1..Len(inbox') : i \in 1..n \/ i = n + 1
  BY <1>1, <1>6
<1>9. \A i \in 1..Len(inbox') : IF i \in 1..n THEN seen'.exchanged[i] = seen.exchanged[i]
                                              ELSE seen'.exchanged[i] = 0
  BY <1>5, <1>7, <1>8
<1>10. memory' = memory /\ saved' = saved /\ chain' = chain /\ requests' = requests
  BY DEF Ing!Send
<1>11. \A i \in 1..Len(inbox) : i \in 1..Len(inbox') /\ inbox'[i].op = inbox[i].op
  BY <1>1, <1>6
<1>12. QED
  BY <1>9, <1>10, <1>11, QuietExchanging DEF Ingressed

LEMMA DedupedExchanging ==
  ASSUME Ingressed, Exchanging, NEW i \in 1..Len(inbox), Ing!Deduped(i) PROVE Exchanging'
<1>1. memory' = memory /\ saved' = saved /\ chain' = chain /\ requests' = requests /\ seen' = seen
  BY DEF Ing!Deduped
<1>2. PICK n : n = inbox[i].tries - 1
  OBVIOUS
<1>3. inbox' = [inbox EXCEPT ![i].tries = n, ![i].acked = TRUE]
  BY <1>2 DEF Ing!Deduped, Ing!Answer
<1>4. Marked(inbox, inbox', i)
  BY <1>3, LetterIs, Zenon DEF Ingressed, Shapes
<1>5. QED
  BY <1>1, <1>4, MarkedOps, QuietExchanging DEF Marked, Ingressed

LEMMA InstalledExchanging ==
  ASSUME Ingressed, Exchanging, NEW r \in requests, Ing!Installed(r) PROVE Exchanging'
<1>1. r.at \in 1..Len(inbox)
  BY DEF Ingressed, Shapes, Requests
<1>2. /\ requests' \subseteq requests /\ chain' = [chain EXCEPT !.error = FALSE]
      /\ inbox' = [inbox EXCEPT ![r.at].acked = TRUE]
      /\ memory' = memory /\ saved' = saved /\ seen' = seen
  BY DEF Ing!Installed
<1>3. Marked(inbox, inbox', r.at)
  BY <1>1, <1>2, LetterIs, Zenon DEF Ingressed, Shapes
<1>4. chain'.queue = chain.queue /\ chain'.error = FALSE /\ chain'.fails = chain.fails
  BY <1>2, ChainIs DEF Ingressed, Shapes
<1>5. QED
  BY <1>2, <1>3, <1>4, MarkedOps, QuietExchanging DEF Marked, Ingressed

LEMMA RestartExchanging == Ingressed /\ Exchanging /\ Ing!Restart => Exchanging'
<1> SUFFICES ASSUME Ingressed, Exchanging, Ing!Restart PROVE Exchanging'
  OBVIOUS
<1>1. memory' = saved /\ saved' = saved /\ inbox' = inbox /\ requests' = {}
  BY DEF Ing!Restart
<1>2. PICK n : n = chain.stops + 1
  OBVIOUS
<1>3. chain' = [chain EXCEPT !.queue = <<>>, !.error = FALSE, !.stops = n]
  BY <1>2 DEF Ing!Restart
<1>4. chain'.queue = <<>> /\ chain'.error = FALSE /\ chain'.fails = chain.fails
  BY <1>3, ChainIs, Zenon DEF Ingressed, Shapes
<1>5. PICK v : v = [i \in DOMAIN seen.lost |-> seen.lost[i] + Ing!Cardinality({r \in requests : r.at = i})]
  OBVIOUS
<1>6. seen' = [seen EXCEPT !.lost = v]
  BY <1>5 DEF Ing!Restart
<1>7. seen'.exchanged = seen.exchanged
  BY <1>6, SeenIs DEF Ingressed, Shapes
<1>8. Growing'
  BY <1>1, <1>4, ShortSeqs DEF Growing
<1>9. chain'.fails = 0 => chain.fails = 0 /\ chain'.error = FALSE /\ Exchanges'
  BY <1>1, <1>4, <1>7 DEF Exchanging, Unfailed, Exchanges
<1>10. QED
  BY <1>1, <1>8, <1>9, ExchangingStep DEF Ingressed

(* A failed save is one too many; a save brings every wait one key nearer. *)
LEMMA SaveExchanging == Ingressed /\ Exchanging /\ (Ing!SaveNext \/ Ing!SaveFails) => Exchanging'
<1> SUFFICES ASSUME Ingressed, Exchanging, Ing!SaveNext \/ Ing!SaveFails PROVE Exchanging'
  OBVIOUS
<1>1. /\ memory' = memory /\ inbox' = inbox /\ seen' = seen /\ requests' = Ing!Advance(requests)
      /\ chain.queue # <<>>
  BY DEF Ing!SaveNext, Ing!SaveFails
<1>2. PICK q, n : q = Tail(chain.queue) /\ n = chain.fails + 1
  OBVIOUS
<1>3. DOMAIN chain = {"queue", "error", "fails", "stops"} /\ IsSeq(chain.queue) /\ chain.fails \in Nat /\ n # 0
  BY <1>2 DEF Ingressed, Shapes
<1>4. \A r \in requests' : \E x \in requests : r = [at |-> x.at, pc |-> x.pc, waits |-> Shorter(x.waits)]
  BY <1>1, AdvanceIs DEF Ingressed, Shapes
<1>5. \A r \in requests : r.at \in 1..Len(inbox) /\ r.waits \in Nat
  BY DEF Ingressed, Shapes, Requests
<1>6. \A r \in requests' : r.at \in 1..Len(inbox) /\ (r.pc # "flush" => OAuth(r.at))
  BY <1>4, <1>5 DEF Exchanging
<1>7. \A i \in 1..Len(inbox) : i \in 1..Len(inbox') /\ inbox'[i].op = inbox[i].op
  BY <1>1
<1>8. CASE Ing!SaveFails
  <2>1. chain' = [chain EXCEPT !.queue = q, !.error = TRUE, !.fails = n]
    BY <1>2, <1>8 DEF Ing!SaveFails
  <2>2. chain'.fails = n
    BY <1>3, <2>1, ChainIs, Zenon
  <2>3. QED
    BY <1>3, <1>6, <1>7, <2>2, ExchangingStep DEF Ingressed
<1>9. CASE Ing!SaveNext
  <2>1. chain' = [chain EXCEPT !.queue = q] /\ (saved' = IF chain.error THEN saved ELSE Head(chain.queue))
    BY <1>2, <1>9 DEF Ing!SaveNext
  <2>2. chain'.queue = q /\ chain'.error = chain.error /\ chain'.fails = chain.fails
    BY <1>3, <2>1, ChainIs
  <2> SUFFICES ASSUME chain'.fails = 0
               PROVE  /\ chain.fails = 0 /\ chain'.error = FALSE /\ Growing' /\ Exchanges'
                      /\ \A r \in requests' : OAuth(r.at) =>
                           Ready(r)' /\ \A x \in requests' : x.at = r.at => x = r
    BY <1>6, <1>7, ExchangingStep DEF Ingressed
  <2>3. Unfailed
    BY <2>2 DEF Exchanging
  <2>4. /\ Len(chain.queue) \in Nat /\ 1 \in 1..Len(chain.queue) /\ saved' = chain.queue[1] /\ Len(q) = Len(chain.queue) - 1
        /\ \A k \in 1..Len(q) : q[k] = chain.queue[k + 1] /\ k + 1 \in 1..Len(chain.queue)
    <3>1. Len(chain.queue) \in Nat /\ Len(chain.queue) # 0
      BY <1>1, <1>3, TailIs DEF IsSeq
    <3>2. saved' = chain.queue[1]
      BY <1>1, <1>3, <2>1, <2>3, TailIs DEF Unfailed
    <3>3. QED
      BY <1>1, <1>2, <1>3, <3>1, <3>2, TailIs
  <2>5. saved.keys \subseteq saved'.keys
    BY <2>3, <2>4 DEF Unfailed, Growing
  <2>6. Growing'
    <3>1. saved'.keys \subseteq memory'.keys
      BY <1>1, <2>3, <2>4 DEF Unfailed, Growing
    <3>2. ASSUME NEW k \in 1..Len(q)
          PROVE  saved'.keys \subseteq q[k].keys /\ q[k].keys \subseteq memory'.keys
      <4>1. PICK m \in 1..Len(chain.queue) : m = k + 1 /\ 1 <= m
        BY <2>4
      <4>2. q[k] = chain.queue[m]
        BY <2>4, <4>1
      <4>3. QED
        BY <1>1, <2>3, <2>4, <4>1, <4>2 DEF Unfailed, Growing
    <3>3. ASSUME NEW j \in 1..Len(q), NEW k \in 1..Len(q), j <= k PROVE q[j].keys \subseteq q[k].keys
      <4>1. PICK l \in 1..Len(chain.queue), m \in 1..Len(chain.queue) : l = j + 1 /\ m = k + 1 /\ l <= m
        BY <2>4, <3>3
      <4>2. q[j] = chain.queue[l] /\ q[k] = chain.queue[m]
        BY <2>4, <4>1
      <4>3. QED
        BY <2>3, <4>1, <4>2 DEF Unfailed, Growing
    <3>4. QED
      BY <2>2, <3>1, <3>2, <3>3 DEF Growing
  <2>7. Exchanges'
    BY <1>1, <2>3, <2>5 DEF Unfailed, Exchanges
  <2>8. ASSUME NEW r \in requests', OAuth(r.at)
        PROVE  Ready(r)' /\ \A x \in requests' : x.at = r.at => x = r
    <3>1. PICK y \in requests : r = [at |-> y.at, pc |-> y.pc, waits |-> Shorter(y.waits)]
      BY <1>4
    <3>2. r.at = y.at /\ r.pc = y.pc /\ r.waits = Shorter(y.waits) /\ y.waits \in Nat
      BY <1>5, <3>1
    <3>3. Ready(y) /\ \A x \in requests : x.at = y.at => x = y
      BY <2>3, <2>8, <3>2 DEF Unfailed, OneReady
    <3>4. Passed(y.at, y.waits) => Passed(r.at, r.waits)'
      <4>1. CASE y.waits = 0
        BY <2>5, <3>2, <4>1 DEF Passed, Shorter
      <4>2. CASE y.waits = 1
        BY <2>4, <3>2, <4>2 DEF Passed, Shorter
      <4>3. CASE y.waits # 0 /\ y.waits # 1
        <5>1. r.waits = y.waits - 1 /\ r.waits # 0 /\ r.waits \in Nat /\ r.waits + 1 = y.waits
          BY <3>2, <4>3 DEF Shorter
        <5>2. y.waits \in 1..Len(chain.queue) => r.waits \in 1..Len(q)
          BY <2>4, <5>1
        <5>3. r.waits \in 1..Len(q) => q[r.waits] = chain.queue[y.waits]
          BY <2>4, <5>1
        <5>4. QED
          BY <2>2, <3>2, <4>3, <5>1, <5>2, <5>3 DEF Passed
      <4>4. QED
        BY <4>1, <4>2, <4>3
    <3>5. Ready(r)'
      BY <1>1, <2>5, <3>2, <3>3, <3>4 DEF Ready
    <3>6. ASSUME NEW x \in requests', x.at = r.at PROVE x = r
      <4>1. PICK z \in requests : x = [at |-> z.at, pc |-> z.pc, waits |-> Shorter(z.waits)]
        BY <1>4
      <4>2. z.at = y.at
        BY <3>1, <3>6, <4>1
      <4>3. z = y
        BY <3>3, <4>2
      <4>4. QED
        BY <3>1, <4>1, <4>3
    <3>7. QED
      BY <3>5, <3>6
  <2>9. QED
    BY <2>2, <2>3, <2>6, <2>7, <2>8 DEF Unfailed
<1>10. QED
  BY <1>8, <1>9


(* A flush that throws has seen a save fail; one that does not lets a redirect
   go on to the exchange, its key written. *)
LEMMA FlushExchanging ==
  ASSUME Ingressed, Exchanging, NEW r \in requests, Ing!flushChangesWithDeliveryRollback(r)
  PROVE  Exchanging'
<1>1. r.at \in 1..Len(inbox) /\ r.pc = "flush" /\ r.waits = 0 /\ saved' = saved
  BY DEF Ingressed, Shapes, Requests, Ing!flushChangesWithDeliveryRollback
<1>2. CASE chain.error
  <2>1. /\ chain' = [chain EXCEPT !.error = FALSE] /\ requests' = requests \ {r} /\ inbox' = inbox
    BY <1>2 DEF Ing!flushChangesWithDeliveryRollback
  <2>2. chain'.fails = chain.fails
    BY <2>1, ChainIs DEF Ingressed, Shapes
  <2>3. chain'.fails # 0
    BY <1>2, <2>2 DEF Exchanging, Unfailed
  <2>4. \A i \in 1..Len(inbox) : i \in 1..Len(inbox') /\ inbox'[i].op = inbox[i].op
    BY <2>1
  <2>5. \A x \in requests' : x \in requests
    BY <2>1
  <2>6. QED
    BY <2>3, <2>4, <2>5, ExchangingStep DEF Ingressed
<1>3. CASE ~chain.error
  <2>1. chain' = chain /\ memory' = memory /\ seen' = seen
    BY <1>3 DEF Ing!flushChangesWithDeliveryRollback
  <2>2. CASE Ing!Kind(inbox[r.at].op) # "oauth"
    <3>1. inbox' = [inbox EXCEPT ![r.at].acked = TRUE] /\ requests' \subseteq requests
      BY <1>3, <2>2 DEF Ing!flushChangesWithDeliveryRollback
    <3>2. Marked(inbox, inbox', r.at)
      BY <1>1, <3>1, LetterIs, Zenon DEF Ingressed, Shapes
    <3>3. QED
      BY <1>1, <2>1, <3>1, <3>2, MarkedOps, QuietExchanging DEF Marked, Ingressed
  <2>3. CASE Ing!Kind(inbox[r.at].op) = "oauth"
    <3>1. PICK y : y = [at |-> r.at, pc |-> "exchange", waits |-> 0]
      OBVIOUS
    <3>2. inbox' = inbox /\ requests' = (requests \ {r}) \cup {y}
      BY <1>3, <2>3, <3>1 DEF Ing!flushChangesWithDeliveryRollback, Ing!Waiting
    <3>3. y.at = r.at /\ y.pc = "exchange" /\ OAuth(r.at)
      BY <2>3, <3>1 DEF OAuth
    <3>4. \A i \in 1..Len(inbox) : i \in 1..Len(inbox') /\ inbox'[i].op = inbox[i].op
      BY <3>2
    <3>5. \A x \in requests' : x \in requests \/ (x.at \in 1..Len(inbox) /\ (x.pc # "flush" => OAuth(x.at)))
      BY <1>1, <3>2, <3>3
    <3>6. ASSUME chain'.fails = 0
          PROVE  /\ chain.fails = 0 /\ chain'.error = FALSE /\ Growing' /\ Exchanges'
                 /\ \A x \in requests' : OAuth(x.at) =>
                      Ready(x)' /\ \A z \in requests' : z.at = x.at => z = x
      <4>1. chain.fails = 0 /\ Unfailed
        BY <2>1, <3>6 DEF Exchanging
      <4>2. chain'.error = FALSE /\ Growing' /\ Exchanges'
        BY <1>1, <2>1, <3>2, <4>1 DEF Unfailed, Growing, Exchanges
      <4>3. Ready(r) /\ \A z \in requests : z.at = r.at => z = r
        BY <3>3, <4>1 DEF Unfailed, OneReady
      <4>4. Ready(y)'
        BY <1>1, <2>1, <3>3, <4>3 DEF Ready, Passed
      <4>5. ASSUME NEW x \in requests', OAuth(x.at)
            PROVE  Ready(x)' /\ \A z \in requests' : z.at = x.at => z = x
        <5>1. CASE x = y
          BY <3>2, <3>3, <4>3, <4>4, <5>1
        <5>2. CASE x # y
          <6>1. x \in requests /\ x # r
            BY <3>2, <5>2
          <6>2. Ready(x) /\ \A z \in requests : z.at = x.at => z = x
            BY <4>1, <4>5, <6>1 DEF Unfailed, OneReady
          <6>3. Ready(x)'
            BY <1>1, <2>1, <6>2 DEF Ready, Passed
          <6>4. QED
            BY <3>2, <3>3, <6>1, <6>2, <6>3
        <5>3. QED
          BY <5>1, <5>2
      <4>6. QED
        BY <4>1, <4>2, <4>5
    <3>7. QED
      BY <3>4, <3>5, <3>6, ExchangingStep DEF Ingressed
  <2>4. QED
    BY <2>2, <2>3
<1>4. QED
  BY <1>2, <1>3

(* The exchange is the first of its redirect, and its request the only one. *)
LEMMA ExchangeExchanging ==
  ASSUME Ingressed, Exchanging, NEW r \in requests, Ing!ExchangeCode(r) PROVE Exchanging'
<1>1. r.at \in 1..Len(inbox)
  BY DEF Ingressed, Shapes, Requests
<1>2. /\ r.pc = "exchange" /\ saved' = saved /\ seen' = [seen EXCEPT !.exchanged[r.at] = @ + 1]
      /\ Installing(r) \/ Failing(r)
  BY ExchangeIs
<1>3. OAuth(r.at)
  BY <1>2 DEF Exchanging
<1>4. /\ seen'.exchanged[r.at] = seen.exchanged[r.at] + 1
      /\ \A j \in 1..Len(inbox) : j # r.at => seen'.exchanged[j] = seen.exchanged[j]
  <2>1. PICK i \in 1..Len(inbox) : i = r.at
    BY <1>1
  <2>2. Shapes /\ seen' = [seen EXCEPT !.exchanged[i] = @ + 1]
    BY <1>2, <2>1 DEF Ingressed
  <2>3. QED
    BY <2>1, <2>2, ExchangedIs
<1>5. /\ \A i \in 1..Len(inbox) : i \in 1..Len(inbox') /\ inbox'[i].op = inbox[i].op
      /\ Len(inbox') = Len(inbox)
  <2>1. CASE Failing(r)
    <3>1. Marked(inbox, inbox', r.at)
      BY <1>1, <2>1, LetterIs, Zenon DEF Failing, Ingressed, Shapes
    <3>2. QED
      BY <3>1, MarkedOps DEF Marked
  <2>2. CASE Installing(r)
    BY <2>2 DEF Installing
  <2>3. QED
    BY <1>2, <2>1, <2>2
<1>6. PICK y : /\ \A x \in requests' : x = y \/ (x \in requests /\ x # r)
               /\ y.at = r.at /\ y.pc = "installed"
  <2>1. CASE Failing(r)
    <3>1. PICK y : y = [at |-> r.at, pc |-> "installed", waits |-> 0]
      OBVIOUS
    <3>2. \A x \in requests' : x \in requests /\ x # r
      BY <2>1 DEF Failing
    <3>3. QED
      BY <3>1, <3>2
  <2>2. CASE Installing(r)
    <3>1. PICK n : requests' = (requests \ {r}) \cup {[at |-> r.at, pc |-> "installed", waits |-> n]}
      BY <2>2 DEF Installing
    <3>2. PICK y : y = [at |-> r.at, pc |-> "installed", waits |-> n]
      OBVIOUS
    <3>3. QED
      BY <3>1, <3>2
  <2>3. QED
    BY <1>2, <2>1, <2>2
<1>7. \A x \in requests' : x \in requests \/ (x.at \in 1..Len(inbox) /\ (x.pc # "flush" => OAuth(x.at)))
  BY <1>1, <1>3, <1>6
<1>8. /\ chain'.fails = chain.fails /\ chain'.error = chain.error
      /\ \A k \in 1..Len(chain.queue) : k \in 1..Len(chain'.queue) /\ chain'.queue[k] = chain.queue[k]
      /\ Growing => Growing'
  <2>1. CASE Failing(r)
    BY <1>2, <2>1 DEF Failing, Growing
  <2>2. CASE Installing(r)
    <3>1. PICK steps : Queued(steps) /\ Len(steps) = 2 /\ \A k \in 1..2 : Alike(memory, steps[k])
      BY <2>2 DEF Installing
    <3>2. /\ Len(chain'.queue) = Len(chain.queue) + 2 /\ Len(chain.queue) \in Nat
          /\ \A k \in 1..Len(chain.queue) : chain'.queue[k] = chain.queue[k]
      BY <3>1, QueuedIs DEF Ingressed
    <3>3. \A k \in 1..Len(steps) : steps[k].keys = memory.keys
      BY <3>1 DEF Alike
    <3>4. Growing => Growing'
      BY <1>2, <3>1, <3>3, GrowingQueued DEF Ingressed
    <3>5. QED
      BY <3>1, <3>2, <3>4 DEF Queued
  <2>3. QED
    BY <1>2, <2>1, <2>2
<1>9. ASSUME chain'.fails = 0
      PROVE  /\ chain.fails = 0 /\ chain'.error = FALSE /\ Growing' /\ Exchanges'
             /\ \A x \in requests' : OAuth(x.at) =>
                  Ready(x)' /\ \A z \in requests' : z.at = x.at => z = x
  <2>1. chain.fails = 0 /\ Unfailed
    BY <1>8, <1>9 DEF Exchanging
  <2>2. chain'.error = FALSE /\ Growing'
    BY <1>8, <2>1 DEF Unfailed
  <2>3. Ready(r) /\ \A z \in requests : z.at = r.at => z = r
    BY <1>3, <2>1 DEF Unfailed, OneReady
  <2>4. seen.exchanged[r.at] = 0 /\ r.at \in saved.keys
    BY <1>2, <2>3 DEF Ready
  <2>5. Exchanges'
    <3>1. ASSUME NEW i \in 1..Len(inbox)
          PROVE  seen'.exchanged[i] <= 1 /\ (seen'.exchanged[i] # 0 => i \in saved'.keys)
      <4>1. CASE i = r.at
        BY <1>2, <1>4, <2>4, <4>1
      <4>2. CASE i # r.at
        BY <1>2, <1>4, <2>1, <4>2 DEF Unfailed, Exchanges
      <4>3. QED
        BY <4>1, <4>2
    <3>2. QED
      BY <1>5, <3>1 DEF Exchanges
  <2>6. Ready(y)'
    BY <1>2, <1>6, <2>4 DEF Ready
  <2>7. ASSUME NEW x \in requests', OAuth(x.at)
        PROVE  Ready(x)' /\ \A z \in requests' : z.at = x.at => z = x
    <3>1. CASE x = y
      BY <1>6, <2>3, <2>6, <3>1
    <3>2. CASE x # y
      <4>1. x \in requests /\ x # r /\ x.at \in 1..Len(inbox)
        BY <1>6, <3>2 DEF Ingressed, Shapes, Requests
      <4>2. Ready(x) /\ \A z \in requests : z.at = x.at => z = x
        BY <2>1, <2>7, <4>1 DEF Unfailed, OneReady
      <4>3. x.at # r.at
        BY <2>3, <4>1
      <4>4. Ready(x)'
        BY <1>2, <1>4, <1>8, <4>1, <4>2, <4>3, ReadyStays
      <4>5. QED
        BY <1>6, <4>2, <4>3, <4>4
    <3>3. QED
      BY <3>1, <3>2
  <2>8. QED
    BY <2>1, <2>2, <2>5, <2>7
<1>10. \A i \in 1..Len(inbox) : i \in 1..Len(inbox') /\ inbox'[i].op = inbox[i].op
  BY <1>5
<1>11. QED
  BY <1>7, <1>9, <1>10, ExchangingStep DEF Ingressed

(* A delivery is handled only when its key is not recorded: no request of its
   redirect is under way, and its code has not been exchanged. *)
LEMMA ReceiveExchanging ==
  ASSUME Ingressed, Exchanging, NEW i \in 1..Len(inbox), Ing!Receive(i) PROVE Exchanging'
<1>1. Received(i)
  BY ReceiveIs
<1>2. PICK steps, last :
        /\ Queued(steps)
        /\ \A k \in 1..Len(steps) :
             \/ Alike(memory, steps[k])
             \/ Started(memory, steps[k], i)
             \/ k = Len(steps) /\ Keyed(last, steps[k], i)
        /\ Alike(memory, last) \/ Started(memory, last, i)
        /\ \/ requests' = requests
           \/ /\ requests' = requests \cup {Waits(i, Len(chain.queue) + Len(steps))}
              /\ ~Ing!Admin(inbox[i].op) => Len(steps) # 0 /\ Keyed(last, steps[Len(steps)], i)
  BY <1>1, Zenon DEF Received, Handled
<1>3. PICK v : seen' = [seen EXCEPT !.left = v]
  BY <1>1 DEF Received
<1>4. seen'.exchanged = seen.exchanged
  BY <1>3, SeenIs DEF Ingressed, Shapes
<1>5. Marked(inbox, inbox', i)
  <2>1. CASE \E n : inbox' = [inbox EXCEPT ![i].tries = n]
    <3>1. PICK n : inbox' = [inbox EXCEPT ![i].tries = n]
      BY <2>1
    <3>2. Lettered(inbox)
      BY DEF Ingressed, Shapes
    <3>3. QED
      BY <3>1, <3>2, LetterIs, Zenon
  <2>2. CASE \E n : inbox' = [inbox EXCEPT ![i].tries = n, ![i].acked = TRUE]
    <3>1. PICK n : inbox' = [inbox EXCEPT ![i].tries = n, ![i].acked = TRUE]
      BY <2>2
    <3>2. Lettered(inbox)
      BY DEF Ingressed, Shapes
    <3>3. QED
      BY <3>1, <3>2, LetterIs, Zenon
  <2>3. QED
    BY <1>1, <2>1, <2>2 DEF Received
<1>6. saved' = saved /\ i \notin memory.keys
  BY <1>1 DEF Received
<1>7. /\ Len(chain.queue) \in Nat /\ Len(steps) \in Nat /\ Len(chain'.queue) = Len(chain.queue) + Len(steps)
      /\ \A k \in 1..Len(chain.queue) : k \in 1..Len(chain'.queue) /\ chain'.queue[k] = chain.queue[k]
      /\ \A k \in 1..Len(steps) : chain'.queue[Len(chain.queue) + k] = steps[k]
      /\ chain'.fails = chain.fails /\ chain'.error = chain.error
  <2>1. /\ Len(chain.queue) \in Nat /\ Len(steps) \in Nat /\ Len(chain'.queue) = Len(chain.queue) + Len(steps)
        /\ \A k \in 1..Len(chain.queue) : chain'.queue[k] = chain.queue[k]
        /\ \A k \in 1..Len(steps) : chain'.queue[Len(chain.queue) + k] = steps[k]
    BY <1>2, QueuedIs DEF Ingressed
  <2>2. \A k \in 1..Len(chain.queue) : k \in 1..Len(chain'.queue)
    BY <2>1
  <2>3. QED
    BY <1>2, <2>1, <2>2 DEF Queued
<1>8. last.keys = memory.keys
  BY <1>2 DEF Alike, Started
<1>9. Growing => Growing'
  <2>1. ASSUME NEW k \in 1..Len(steps)
        PROVE  steps[k].keys = memory.keys \/ (k = Len(steps) /\ memory.keys \subseteq steps[k].keys)
    BY <1>2, <1>8 DEF Alike, Started, Keyed
  <2>2. QED
    BY <1>2, <1>6, <2>1, GrowingQueued DEF Ingressed
<1>10. PICK y : y = Waits(i, Len(chain.queue) + Len(steps))
  OBVIOUS
<1>11. y.at = i /\ y.pc = "flush" /\ y.waits = Len(chain.queue) + Len(steps)
  BY <1>10 DEF Waits
<1>12. \A x \in requests' : x \in requests \/ (x = y /\ (~Ing!Admin(inbox[i].op) =>
                              Len(steps) # 0 /\ Keyed(last, steps[Len(steps)], i)))
  BY <1>2, <1>10
<1>13. OAuth(i) => ~Ing!Admin(inbox[i].op)
  BY DEF OAuth, Ing!Kind, Ing!Admin
<1>14. ASSUME chain'.fails = 0
       PROVE  /\ chain.fails = 0 /\ chain'.error = FALSE /\ Growing' /\ Exchanges'
              /\ \A x \in requests' : OAuth(x.at) =>
                   Ready(x)' /\ \A z \in requests' : z.at = x.at => z = x
  <2>1. chain.fails = 0 /\ Unfailed
    BY <1>7, <1>14 DEF Exchanging
  <2>2. chain'.error = FALSE /\ Growing'
    BY <1>7, <1>9, <2>1 DEF Unfailed
  <2>3. Exchanges'
    BY <1>4, <1>5, <1>6, <2>1 DEF Unfailed, Exchanges, Marked
  <2>4. ASSUME NEW x \in requests, OAuth(x.at) PROVE Ready(x)' /\ x.at # i /\ \A z \in requests : z.at = x.at => z = x
    <3>1. Ready(x) /\ \A z \in requests : z.at = x.at => z = x
      BY <2>1, <2>4 DEF Unfailed, OneReady
    <3>2. x.at \in memory.keys
      BY <2>1, <2>4, RequestKeyed DEF Ingressed, Shapes, Requests
    <3>3. Ready(x)'
      BY <1>4, <1>6, <1>7, <3>1, ReadyStays
    <3>4. QED
      BY <1>6, <3>1, <3>2, <3>3
  <2>5. OAuth(i) /\ y \in requests' => y \in requests \/ Ready(y)'
    <3> SUFFICES ASSUME OAuth(i), y \in requests', y \notin requests PROVE Ready(y)'
      OBVIOUS
    <3>1. Len(steps) # 0 /\ i \in steps[Len(steps)].keys
      BY <1>12, <1>13 DEF Keyed
    <3>2. PICK k \in 1..Len(steps) : k = Len(steps)
      BY <1>7, <3>1
    <3>3. y.waits # 0 /\ y.waits \in 1..Len(chain'.queue) /\ chain'.queue[y.waits] = steps[k]
      BY <1>7, <1>11, <3>1, <3>2
    <3>4. seen.exchanged[i] = 0
      BY <1>6, <2>1 DEF Unfailed, Growing, Exchanges
    <3>5. Passed(y.at, y.waits)'
      BY <1>11, <3>1, <3>2, <3>3 DEF Passed
    <3>6. QED
      BY <1>4, <1>11, <3>4, <3>5 DEF Ready
  <2>6. ASSUME NEW x \in requests', OAuth(x.at)
        PROVE  Ready(x)' /\ \A z \in requests' : z.at = x.at => z = x
    <3>1. CASE x \in requests
      BY <1>11, <1>12, <2>4, <2>6, <3>1
    <3>2. CASE x \notin requests
      <4>1. x = y /\ OAuth(i)
        BY <1>11, <1>12, <2>6, <3>2
      <4>2. Ready(x)'
        BY <2>5, <3>2, <4>1
      <4>3. ASSUME NEW z \in requests', z.at = x.at PROVE z = x
        <5>1. z \in requests => z.at # i
          BY <1>11, <2>4, <4>1, <4>3
        <5>2. QED
          BY <1>11, <1>12, <4>1, <4>3, <5>1
      <4>4. QED
        BY <4>2, <4>3
    <3>3. QED
      BY <3>1, <3>2
  <2>7. QED
    BY <2>1, <2>2, <2>3, <2>6
<1>15. \A j \in 1..Len(inbox) : j \in 1..Len(inbox') /\ inbox'[j].op = inbox[j].op
  BY <1>5, MarkedOps
<1>16. \A x \in requests' : x \in requests \/ (x.at \in 1..Len(inbox) /\ (x.pc # "flush" => OAuth(x.at)))
  BY <1>11, <1>12
<1>17. QED
  BY <1>14, <1>15, <1>16, ExchangingStep DEF Ingressed

LEMMA NextExchanging == Ingressed /\ Exchanging /\ [Ing!Next]_(Ing!vars) => Exchanging'
<1> SUFFICES ASSUME Ingressed, Exchanging, [Ing!Next]_(Ing!vars) PROVE Exchanging'
  OBVIOUS
<1>1. DOMAIN inbox = 1..Len(inbox)
  BY SeqDomain DEF Ingressed, Shapes, Lettered
<1>2. ASSUME NEW i \in DOMAIN inbox, Ing!Deliver(i) PROVE Exchanging'
  <2>1. i \in 1..Len(inbox) /\ (Ing!Deduped(i) \/ Ing!Receive(i))
    BY <1>1, <1>2 DEF Ing!Deliver
  <2>2. QED
    BY <2>1, DedupedExchanging, ReceiveExchanging
<1>3. ASSUME NEW op, Ing!Send(op) PROVE Exchanging'
  BY <1>3, SendExchanging
<1>4. ASSUME NEW r \in requests,
             Ing!flushChangesWithDeliveryRollback(r) \/ Ing!ExchangeCode(r) \/ Ing!Installed(r)
      PROVE  Exchanging'
  BY <1>4, FlushExchanging, ExchangeExchanging, InstalledExchanging
<1>5. CASE Ing!SaveNext \/ Ing!SaveFails \/ Ing!Restart
  BY <1>5, SaveExchanging, RestartExchanging
<1>6. CASE UNCHANGED Ing!vars
  <2>1. /\ memory' = memory /\ saved' = saved /\ chain' = chain /\ inbox' = inbox /\ requests' = requests
        /\ seen' = seen
    BY <1>6 DEF Ing!vars
  <2>2. QED
    BY <2>1 DEF Exchanging, Unfailed, Growing, OneReady, Ready, Passed, OAuth, Exchanges
<1>7. QED
  BY <1>2, <1>3, <1>4, <1>5, <1>6 DEF Ing!Next

(* The theorem for each redirect: unless a save fails, its code is exchanged at
   most once, whatever the browser repeats and whenever the process stops. *)
THEOREM StateExchangedOnceHolds == Spec => []StateExchangedOnce
<1>1. Starts => (unit = "slack" => Ingressed /\ Exchanging)
  BY InitIngressed, InitExchanging DEF Starts
<1>2. (unit = "slack" => Ingressed /\ Exchanging) /\ [UNCHANGED unit /\ Steps]_vars
        => (unit = "slack" => Ingressed /\ Exchanging)'
  BY NextIngressed, NextExchanging DEF Steps, vars, Ing!vars
<1>3. (unit = "slack" => Ingressed /\ Exchanging) => StateExchangedOnce
  <2> SUFFICES ASSUME unit = "slack", Ingressed, Exchanging PROVE Ing!StateExchangedOnce
    BY DEF StateExchangedOnce
  <2>1. DOMAIN inbox = 1..Len(inbox)
    BY SeqDomain DEF Ingressed, Shapes, Lettered
  <2>2. QED
    BY <2>1 DEF Exchanging, Unfailed, Exchanges, Ing!StateExchangedOnce
<1>4. QED
  BY <1>1, <1>2, <1>3, PTL DEF Spec

-----------------------------------------------------------------------------
(* The workspace *)

(* Its variables, by the names they have there (its memory is recalled here). *)
places == s1
bundles == s2
runs == s3
recalled == s5
ops == s6
USE DEF places, bundles, runs, recalled, ops

IsPlace(p) == p = [id |-> p.id, ext |-> p.ext, kind |-> p.kind, sensitivity |-> p.sensitivity]
IsBundle(b) == b = [id |-> b.id, budget |-> b.budget, attached |-> b.attached, grants |-> b.grants]

(* A list of places below an id, no two with the same; a list of bundles that
   are attached to some of a set only. *)
Placed(list, bound) ==
  /\ IsSeq(list)
  /\ \A i \in 1..Len(list) :
       /\ IsPlace(list[i]) /\ list[i].kind = "slack_channel"
       /\ list[i].id \in 1..(bound - 1)
  /\ \A i, j \in 1..Len(list) : list[i].id = list[j].id => i = j
Attaching(list, whole) ==
  IsSeq(list) /\ \A i \in 1..Len(list) : IsBundle(list[i]) /\ list[i].attached \subseteq whole

IdsOf(list) == {list[i].id : i \in 1..Len(list)}

(* Ids are drawn upwards and not used twice; bundles and runs point at places. *)
Resolving ==
  /\ ops \in Nat
  /\ Placed(places, 10 + ops)
  /\ Attaching(bundles, IdsOf(places) \cup WorkExternals)
  /\ runs = [made |-> runs.made, keys |-> runs.keys, waiting |-> runs.waiting]
  /\ \A r \in runs.made : r.place \in IdsOf(places)

LEMMA DomainIs == ASSUME NEW q, IsSeq(q) PROVE DOMAIN q = 1..Len(q) /\ Len(q) \in Nat
BY DEF IsSeq

(* A list with an element put first, and with one replaced. *)
LEMMA ConsIs ==
  ASSUME NEW q, NEW e, IsSeq(q)
  PROVE  /\ IsSeq(<<e>> \o q) /\ Len(<<e>> \o q) = Len(q) + 1 /\ (<<e>> \o q)[1] = e
         /\ \A k \in 1..Len(q) : (<<e>> \o q)[k + 1] = q[k]
         /\ \A k \in 1..Len(q) + 1 : k = 1 \/ k - 1 \in 1..Len(q)
<1>1. IsSeq(<<e>>) /\ Len(<<e>>) = 1 /\ <<e>>[1] = e
  BY ShortSeqs
<1>2. PICK p : p = <<e>> \o q
  OBVIOUS
<1>3. /\ IsSeq(p) /\ Len(p) = 1 + Len(q)
      /\ \A k \in 1..1 : p[k] = <<e>>[k]
      /\ \A k \in 1..Len(q) : p[1 + k] = q[k]
  BY <1>1, <1>2, ConcatIs
<1>4. PICK n \in Nat : n = Len(q)
  BY DEF IsSeq
<1>5. /\ Len(p) = n + 1 /\ p[1] = e
      /\ \A k \in 1..n : p[k + 1] = q[k]
      /\ \A k \in 1..n + 1 : k = 1 \/ k - 1 \in 1..n
  <2>1. \A k \in 1..n : 1 + k = k + 1
    OBVIOUS
  <2>2. \A k \in 1..n : p[k + 1] = q[k]
    BY <1>3, <1>4, <2>1
  <2>3. QED
    BY <1>1, <1>3, <1>4, <2>2
<1>6. QED
  BY <1>2, <1>3, <1>4, <1>5
With(q, i, e) == [q EXCEPT ![i] = e]
LEMMA WithIs ==
  ASSUME NEW q, NEW i, NEW e, IsSeq(q), i \in 1..Len(q)
  PROVE  /\ IsSeq(With(q, i, e)) /\ Len(With(q, i, e)) = Len(q)
         /\ With(q, i, e)[i] = e
         /\ \A k \in 1..Len(q) : k # i => With(q, i, e)[k] = q[k]
<1>1. PICK n \in Nat : n = Len(q)
  BY DEF IsSeq
<1>2. With(q, i, e) = [k \in 1..n |-> IF k = i THEN e ELSE q[k]]
  BY <1>1 DEF IsSeq, With
<1>3. PICK p : p = With(q, i, e)
  OBVIOUS
<1>4. p = [k \in 1..n |-> IF k = i THEN e ELSE q[k]]
  BY <1>2, <1>3
<1>5. Len(p) = n
  BY <1>4
<1>6. p[i] = e /\ \A k \in 1..n : k # i => p[k] = q[k]
  BY <1>1, <1>4
<1>7. p = [k \in 1..n |-> p[k]]
  BY <1>4
<1>8. QED
  BY <1>1, <1>3, <1>5, <1>6, <1>7 DEF IsSeq

(* A list without one of its elements. *)
LEMMA RemoveIs ==
  ASSUME NEW q, NEW i, IsSeq(q), i \in 1..Len(q)
  PROVE  /\ IsSeq(Ws!RemoveAt(q, i)) /\ Len(Ws!RemoveAt(q, i)) = Len(q) - 1
         /\ \A k \in 1..Len(q) - 1 : Ws!RemoveAt(q, i)[k] = IF k < i THEN q[k] ELSE q[k + 1]
<1> DEFINE S == {q[k] : k \in 1..Len(q)}
<1>1. q \in Seq(S)
  BY SeqOf
<1>2. PICK n \in Nat : n = Len(q)
  BY DEF IsSeq
<1> HIDE DEF S
<1>3. PICK a, b : a = SubSeq(q, 1, i - 1) /\ b = SubSeq(q, i + 1, n)
  OBVIOUS
<1>4. i \in 1..n
  BY <1>2
<1>5. /\ a \in Seq(S) /\ Len(a) = i - 1
      /\ \A k \in 1..i - 1 : a[k] = q[k]
  <2>1. CASE i = 1
    <3>1. a = <<>>
      BY <1>1, <1>2, <1>3, <2>1, SubSeqEmpty
    <3>2. QED
      BY <3>1, <2>1
  <2>2. CASE i # 1
    <3>1. 1 \in 1..n /\ i - 1 \in 1..n
      BY <1>4, <2>2
    <3>2. /\ SubSeq(q, 1, i - 1) \in Seq(S)
          /\ Len(SubSeq(q, 1, i - 1)) = IF 1 <= i - 1 THEN (i - 1) - 1 + 1 ELSE 0
          /\ \A k \in 1..(i - 1) - 1 + 1 : SubSeq(q, 1, i - 1)[k] = q[1 + k - 1]
      BY <1>1, <1>2, <3>1, SubSeqProperties
    <3>3. QED
      BY <1>3, <1>4, <2>2, <3>2
  <2>3. QED
    BY <2>1, <2>2
<1>6. /\ b \in Seq(S) /\ Len(b) = n - i
      /\ \A k \in 1..n - i : b[k] = q[k + i]
  <2>1. CASE i = n
    <3>1. b = <<>>
      BY <1>1, <1>2, <1>3, <2>1, SubSeqEmpty
    <3>2. QED
      BY <3>1, <2>1
  <2>2. CASE i # n
    <3>1. i + 1 \in 1..n /\ n \in 1..n
      BY <1>4, <2>2
    <3>2. /\ SubSeq(q, i + 1, n) \in Seq(S)
          /\ Len(SubSeq(q, i + 1, n)) = IF i + 1 <= n THEN n - (i + 1) + 1 ELSE 0
          /\ \A k \in 1..n - (i + 1) + 1 : SubSeq(q, i + 1, n)[k] = q[(i + 1) + k - 1]
      BY <1>1, <1>2, <3>1, SubSeqProperties
    <3>3. QED
      BY <1>3, <1>4, <2>2, <3>2
  <2>3. QED
    BY <2>1, <2>2
<1>7. PICK p : p = a \o b
  OBVIOUS
<1>8. p = Ws!RemoveAt(q, i)
  BY <1>2, <1>3, <1>7 DEF Ws!RemoveAt
<1>9. /\ p \in Seq(S) /\ Len(p) = n - 1
      /\ \A k \in 1..n - 1 : p[k] = IF k < i THEN q[k] ELSE q[k + 1]
  <2>1. /\ p \in Seq(S) /\ Len(p) = Len(a) + Len(b)
        /\ \A k \in 1..Len(a) + Len(b) : p[k] = IF k <= Len(a) THEN a[k] ELSE b[k - Len(a)]
    BY <1>5, <1>6, <1>7, ConcatProperties
  <2>2. Len(p) = n - 1
    BY <1>4, <1>5, <1>6, <2>1
  <2>3. ASSUME NEW k \in 1..n - 1 PROVE p[k] = IF k < i THEN q[k] ELSE q[k + 1]
    <3>1. p[k] = IF k <= i - 1 THEN a[k] ELSE b[k - (i - 1)]
      BY <1>4, <1>5, <1>6, <2>1, <2>3
    <3>2. CASE k < i
      <4>1. k \in 1..i - 1 /\ k <= i - 1
        BY <1>4, <2>3, <3>2
      <4>2. QED
        BY <1>5, <3>1, <3>2, <4>1
    <3>3. CASE ~(k < i)
      <4>1. PICK j \in 1..n - i : j = k - (i - 1)
        BY <1>4, <2>3, <3>3
      <4>2. j + i = k + 1 /\ ~(k <= i - 1)
        BY <1>4, <2>3, <3>3, <4>1
      <4>3. QED
        BY <1>6, <3>1, <3>3, <4>1, <4>2
    <3>4. QED
      BY <3>2, <3>3
  <2>4. QED
    BY <2>1, <2>2, <2>3
<1>10. IsSeq(p)
  BY <1>9, SeqIs
<1>11. QED
  BY <1>2, <1>8, <1>9, <1>10

(* What the store does to its places. *)
LEMMA CreatePlaced ==
  ASSUME NEW list, NEW bound \in Nat, bound > 0, Placed(list, bound),
         NEW p, IsPlace(p), p.id = bound, p.kind = "slack_channel"
  PROVE  /\ Placed(<<p>> \o list, bound + 1)
         /\ IdsOf(<<p>> \o list) = IdsOf(list) \cup {bound}
<1>1. PICK new : new = <<p>> \o list
  OBVIOUS
<1>2. PICK n \in Nat : n = Len(list)
  BY DEF Placed, IsSeq
<1>3. /\ IsSeq(new) /\ Len(new) = n + 1 /\ new[1] = p
      /\ \A k \in 1..n : new[k + 1] = list[k]
      /\ \A k \in 1..n + 1 : k = 1 \/ k - 1 \in 1..n
  BY <1>1, <1>2, ConsIs DEF Placed
<1>4. ASSUME NEW k \in 1..n + 1, k # 1 PROVE \E j \in 1..n : k = j + 1 /\ new[k] = list[j]
  <2>1. PICK j \in 1..n : k = j + 1
    BY <1>3, <1>4
  <2>2. new[k] = list[j]
    BY <1>3, <2>1
  <2>3. QED
    BY <2>1, <2>2
<1>5. \A j \in 1..n : j + 1 \in 1..n + 1
  OBVIOUS
<1>6. ASSUME NEW i \in 1..n + 1
      PROVE  IsPlace(new[i]) /\ new[i].kind = "slack_channel" /\ new[i].id \in 1..bound
  <2>1. CASE i = 1
    BY <1>3, <2>1
  <2>2. CASE i # 1
    <3>1. PICK j \in 1..n : new[i] = list[j]
      BY <1>4, <2>2
    <3>2. QED
      BY <1>2, <3>1 DEF Placed
  <2>3. QED
    BY <2>1, <2>2
<1>7. ASSUME NEW i \in 1..n + 1, NEW j \in 1..n + 1, new[i].id = new[j].id PROVE i = j
  <2>1. \A k \in 1..n : list[k].id # bound
    BY <1>2 DEF Placed
  <2>2. CASE i = 1
    BY <1>3, <1>4, <1>7, <2>1, <2>2
  <2>3. CASE j = 1
    BY <1>3, <1>4, <1>7, <2>1, <2>3
  <2>4. CASE i # 1 /\ j # 1
    <3>1. PICK a \in 1..n : i = a + 1 /\ new[i] = list[a]
      BY <1>4, <2>4
    <3>2. PICK b \in 1..n : j = b + 1 /\ new[j] = list[b]
      BY <1>4, <2>4
    <3>3. a = b
      BY <1>2, <1>7, <3>1, <3>2 DEF Placed
    <3>4. QED
      BY <3>1, <3>2, <3>3
  <2>5. QED
    BY <2>2, <2>3, <2>4
<1>8. IdsOf(new) = IdsOf(list) \cup {bound}
  <2>1. 1 \in 1..n + 1
    OBVIOUS
  <2>2. IdsOf(new) \subseteq IdsOf(list) \cup {bound}
    BY <1>2, <1>3, <1>4 DEF IdsOf
  <2>3. ASSUME NEW j \in 1..n PROVE list[j].id \in IdsOf(new)
    BY <1>3, <1>5 DEF IdsOf
  <2>4. bound \in IdsOf(new)
    BY <1>3, <2>1 DEF IdsOf
  <2>5. QED
    BY <1>2, <2>2, <2>3, <2>4 DEF IdsOf
<1>9. QED
  BY <1>1, <1>2, <1>3, <1>6, <1>7, <1>8 DEF Placed
LEMMA UpdatePlaced ==
  ASSUME NEW list, NEW bound \in Nat, Placed(list, bound), NEW p, IsPlace(p), p.kind = "slack_channel",
         NEW new, new = [i \in DOMAIN list |-> IF list[i].id = p.id THEN p ELSE list[i]]
  PROVE  Placed(new, bound + 1) /\ IdsOf(new) = IdsOf(list)
<1>1. PICK n \in Nat : n = Len(list) /\ DOMAIN list = 1..n
  BY DomainIs DEF Placed
<1>2. new = [i \in 1..n |-> IF list[i].id = p.id THEN p ELSE list[i]]
  BY <1>1
<1>3. Len(new) = n /\ new = [i \in 1..n |-> new[i]]
  BY <1>2
<1>4. \A i \in 1..n : new[i] = IF list[i].id = p.id THEN p ELSE list[i]
  BY <1>2
<1>5. \A i \in 1..n : new[i].id = list[i].id
  BY <1>4
<1>6. IdsOf(new) = IdsOf(list)
  BY <1>1, <1>3, <1>5 DEF IdsOf
<1>7. \A i \in 1..n : /\ IsPlace(new[i]) /\ new[i].kind = "slack_channel" /\ new[i].id \in 1..bound
  BY <1>1, <1>4, <1>5 DEF Placed
<1>8. \A i, j \in 1..n : new[i].id = new[j].id => i = j
  BY <1>1, <1>5 DEF Placed
<1>9. IsSeq(new)
  BY <1>3 DEF IsSeq
<1>10. QED
  BY <1>3, <1>6, <1>7, <1>8, <1>9 DEF Placed
LEMMA DeletePlaced ==
  ASSUME NEW list, NEW bound \in Nat, Placed(list, bound), NEW i \in 1..Len(list)
  PROVE  /\ Placed(Ws!RemoveAt(list, i), bound + 1)
         /\ IdsOf(list) \ {list[i].id} \subseteq IdsOf(Ws!RemoveAt(list, i))
<1>1. PICK new : new = Ws!RemoveAt(list, i)
  OBVIOUS
<1>2. PICK n \in Nat : n = Len(list) /\ i \in 1..n
  BY DEF Placed, IsSeq
<1>3. /\ IsSeq(new) /\ Len(new) = n - 1
      /\ \A k \in 1..n - 1 : new[k] = IF k < i THEN list[k] ELSE list[k + 1]
  BY <1>1, <1>2, RemoveIs DEF Placed
<1>4. \A k \in 1..n - 1 : \E j \in 1..n : /\ new[k] = list[j]
                                          /\ j = IF k < i THEN k ELSE k + 1
  BY <1>3
<1>5. \A k \in 1..n - 1 : /\ IsPlace(new[k]) /\ new[k].kind = "slack_channel" /\ new[k].id \in 1..bound
  BY <1>2, <1>4 DEF Placed
<1>6. ASSUME NEW k \in 1..n - 1, NEW m \in 1..n - 1, new[k].id = new[m].id PROVE k = m
  <2>1. PICK a \in 1..n : new[k] = list[a] /\ a = IF k < i THEN k ELSE k + 1
    BY <1>4
  <2>2. PICK b \in 1..n : new[m] = list[b] /\ b = IF m < i THEN m ELSE m + 1
    BY <1>4
  <2>3. a = b
    BY <1>2, <1>6, <2>1, <2>2 DEF Placed
  <2>4. QED
    BY <1>2, <2>1, <2>2, <2>3
<1>7. ASSUME NEW j \in 1..n, list[j].id # list[i].id PROVE list[j].id \in IdsOf(new)
  <2>1. j # i
    BY <1>7
  <2>2. CASE j < i
    <3>1. j \in 1..n - 1 /\ new[j] = list[j]
      BY <1>2, <1>3, <2>2
    <3>2. QED
      BY <1>3, <3>1 DEF IdsOf
  <2>3. CASE j > i
    <3>1. PICK k \in 1..n - 1 : k + 1 = j /\ ~(k < i)
      BY <1>2, <2>3
    <3>2. new[k] = list[j]
      BY <1>3, <3>1
    <3>3. QED
      BY <1>3, <3>2 DEF IdsOf
  <2>4. QED
    BY <1>2, <2>1, <2>2, <2>3
<1>8. IdsOf(list) \ {list[i].id} \subseteq IdsOf(new)
  BY <1>2, <1>7 DEF IdsOf
<1>9. QED
  BY <1>1, <1>3, <1>5, <1>6, <1>8 DEF Placed

(* What the store does to its bundles. *)
LEMMA AttachingGrows ==
  ASSUME NEW list, NEW less, NEW more, Attaching(list, less), less \subseteq more
  PROVE  Attaching(list, more)
BY DEF Attaching
LEMMA ConsAttaching ==
  ASSUME NEW list, NEW whole, Attaching(list, whole), NEW b, IsBundle(b), b.attached \subseteq whole
  PROVE  Attaching(<<b>> \o list, whole) /\ 1 \in 1..Len(<<b>> \o list)
<1>1. PICK new : new = <<b>> \o list
  OBVIOUS
<1>2. PICK n \in Nat : n = Len(list)
  BY DEF Attaching, IsSeq
<1>3. /\ IsSeq(new) /\ Len(new) = n + 1 /\ new[1] = b
      /\ \A k \in 1..n : new[k + 1] = list[k]
      /\ \A k \in 1..n + 1 : k = 1 \/ k - 1 \in 1..n
  BY <1>1, <1>2, ConsIs DEF Attaching
<1>4. ASSUME NEW k \in 1..n + 1, k # 1 PROVE \E j \in 1..n : new[k] = list[j]
  <2>1. PICK j \in 1..n : k = j + 1
    BY <1>3, <1>4
  <2>2. QED
    BY <1>3, <2>1
<1>5. \A k \in 1..n + 1 : IsBundle(new[k]) /\ new[k].attached \subseteq whole
  BY <1>2, <1>3, <1>4 DEF Attaching
<1>6. 1 \in 1..n + 1
  OBVIOUS
<1>7. QED
  BY <1>1, <1>3, <1>5, <1>6 DEF Attaching
LEMMA WithAttaching ==
  ASSUME NEW list, NEW whole, Attaching(list, whole), NEW i, i \in 1..Len(list),
         NEW b, IsBundle(b), b.attached \subseteq whole
  PROVE  Attaching(With(list, i, b), whole)
BY WithIs DEF Attaching
LEMMA BundleUpdates ==
  ASSUME NEW b, IsBundle(b), NEW v
  PROVE  /\ IsBundle([b EXCEPT !.budget = v]) /\ [b EXCEPT !.budget = v].attached = b.attached
         /\ IsBundle([b EXCEPT !.attached = v]) /\ [b EXCEPT !.attached = v].attached = v
         /\ IsBundle([b EXCEPT !.grants = v]) /\ [b EXCEPT !.grants = v].attached = b.attached
BY DEF IsBundle
(* A set of some of the first numbers has a least one. *)
LEMMA LeastNumber ==
  ASSUME NEW n \in Nat, NEW S, S \subseteq 1..n, S # {}
  PROVE  \E i \in S : \A j \in S : i <= j
<1>1. S \subseteq Nat
  OBVIOUS
<1>2. \E x \in S : \A y \in S : ~(<<y, x>> \in OpToRel(<, Nat))
  BY <1>1, NatLessThanWellFounded, WFMin
<1>3. PICK x \in S : \A y \in S : ~(<<y, x>> \in OpToRel(<, Nat))
  BY <1>2
<1>4. ASSUME NEW y \in S PROVE x <= y
  <2>1. ~(y < x)
    BY <1>1, <1>3 DEF OpToRel
  <2>2. QED
    BY <1>1, <2>1
<1>5. QED
  BY <1>4
LEMMA DeletedAttaching ==
  ASSUME NEW list, NEW whole, Attaching(list, whole), NEW x, NEW new,
         new = [i \in DOMAIN list |-> [list[i] EXCEPT !.attached = @ \ {x}]]
  PROVE  Attaching(new, whole \ {x})
<1>1. PICK n \in Nat : n = Len(list) /\ DOMAIN list = 1..n
  BY DomainIs DEF Attaching
<1>2. new = [i \in 1..n |-> [list[i] EXCEPT !.attached = @ \ {x}]]
  BY <1>1
<1>3. Len(new) = n /\ new = [i \in 1..n |-> new[i]]
  BY <1>2
<1>4. ASSUME NEW i \in 1..n PROVE IsBundle(new[i]) /\ new[i].attached \subseteq whole \ {x}
  <2>1. new[i] = [list[i] EXCEPT !.attached = list[i].attached \ {x}]
    BY <1>2
  <2>2. IsBundle(list[i]) /\ list[i].attached \subseteq whole
    BY <1>1 DEF Attaching
  <2>3. PICK b, v : b = list[i] /\ v = b.attached \ {x}
    OBVIOUS
  <2>4. IsBundle([b EXCEPT !.attached = v]) /\ [b EXCEPT !.attached = v].attached = v
    <3>1. IsBundle(b)
      BY <2>2, <2>3
    <3>2. QED
      BY <3>1, BundleUpdates
  <2>5. new[i] = [b EXCEPT !.attached = v]
    BY <2>1, <2>3
  <2>6. QED
    BY <2>2, <2>3, <2>4, <2>5
<1>5. QED
  BY <1>3, <1>4 DEF Attaching, IsSeq
LEMMA StoreAttaching ==
  ASSUME NEW list, NEW whole, Attaching(list, whole), NEW at, at \in 1..Len(list)
  PROVE  /\ \A v : Attaching(Ws!updateAccessBundle(list, at, v), whole)
         /\ \A x \in whole : Attaching(Ws!attachBundleToPlace(list, at, x), whole)
         /\ \A x : Attaching(Ws!detachBundleFromPlace(list, at, x), whole)
         /\ \A g : Attaching(Ws!createGrant(list, at, g), whole)
         /\ \A j, g : Attaching(Ws!updateGrant(list, at, j, g), whole)
         /\ \A j : Attaching(Ws!deleteGrant(list, at, j), whole)
<1>1. PICK b : b = list[at]
  OBVIOUS
<1>2. IsBundle(b) /\ b.attached \subseteq whole
  BY <1>1 DEF Attaching
<1>3. ASSUME NEW v
      PROVE  /\ Attaching(With(list, at, [b EXCEPT !.budget = v]), whole)
             /\ Attaching(With(list, at, [b EXCEPT !.grants = v]), whole)
             /\ v \subseteq whole => Attaching(With(list, at, [b EXCEPT !.attached = v]), whole)
  <2>1. PICK c, d, e : /\ c = [b EXCEPT !.budget = v]
                       /\ d = [b EXCEPT !.grants = v]
                       /\ e = [b EXCEPT !.attached = v]
    OBVIOUS
  <2>2. /\ IsBundle(c) /\ c.attached = b.attached
        /\ IsBundle(d) /\ d.attached = b.attached
        /\ IsBundle(e) /\ e.attached = v
    BY <1>2, <2>1, BundleUpdates
  <2>3. QED
    BY <1>2, <2>1, <2>2, WithAttaching
<1>4. ASSUME NEW v PROVE Attaching(Ws!updateAccessBundle(list, at, v), whole)
  <2>1. Ws!updateAccessBundle(list, at, v) = With(list, at, [b EXCEPT !.budget = v])
    BY <1>1 DEF Ws!updateAccessBundle, With
  <2>2. QED
    BY <1>3, <2>1
<1>5. ASSUME NEW x \in whole PROVE Attaching(Ws!attachBundleToPlace(list, at, x), whole)
  <2>1. Ws!attachBundleToPlace(list, at, x) = With(list, at, [b EXCEPT !.attached = b.attached \cup {x}])
    BY <1>1 DEF Ws!attachBundleToPlace, With
  <2>2. b.attached \cup {x} \subseteq whole
    BY <1>2
  <2>3. QED
    BY <1>3, <2>1, <2>2
<1>6. ASSUME NEW x PROVE Attaching(Ws!detachBundleFromPlace(list, at, x), whole)
  <2>1. Ws!detachBundleFromPlace(list, at, x) = With(list, at, [b EXCEPT !.attached = b.attached \ {x}])
    BY <1>1 DEF Ws!detachBundleFromPlace, With
  <2>2. b.attached \ {x} \subseteq whole
    BY <1>2
  <2>3. QED
    BY <1>3, <2>1, <2>2
<1>7. ASSUME NEW g PROVE Attaching(Ws!createGrant(list, at, g), whole)
  <2>1. PICK v : v = <<[g EXCEPT !.id = Ws!Fresh]>> \o b.grants
    OBVIOUS
  <2>2. Ws!createGrant(list, at, g) = With(list, at, [b EXCEPT !.grants = v])
    BY <1>1, <2>1 DEF Ws!createGrant, With
  <2>3. QED
    BY <1>3, <2>2
<1>8. ASSUME NEW j, NEW g PROVE Attaching(Ws!updateGrant(list, at, j, g), whole)
  <2>1. PICK v : v = [b.grants EXCEPT ![j] = [g EXCEPT !.id = b.grants[j].id]]
    OBVIOUS
  <2>2. Ws!updateGrant(list, at, j, g) = With(list, at, [b EXCEPT !.grants = v])
    BY <1>1, <2>1 DEF Ws!updateGrant, With
  <2>3. QED
    BY <1>3, <2>2
<1>9. ASSUME NEW j PROVE Attaching(Ws!deleteGrant(list, at, j), whole)
  <2>1. PICK v : v = Ws!RemoveAt(b.grants, j)
    OBVIOUS
  <2>2. Ws!deleteGrant(list, at, j) = With(list, at, [b EXCEPT !.grants = v])
    BY <1>1, <2>1 DEF Ws!deleteGrant, With
  <2>3. QED
    BY <1>3, <2>2
<1>10. QED
  BY <1>4, <1>5, <1>6, <1>7, <1>8, <1>9
LEMMA CreateAttaching ==
  ASSUME NEW list, NEW whole, Attaching(list, whole), NEW v, NEW some, some \subseteq whole
  PROVE  /\ Attaching(Ws!createAccessBundle(list, v, some), whole)
         /\ 1 \in 1..Len(Ws!createAccessBundle(list, v, some))
<1>1. PICK b : b = [id |-> Ws!Fresh, budget |-> v, attached |-> some, grants |-> <<>>]
  OBVIOUS
<1>2. IsBundle(b) /\ b.attached \subseteq whole
  BY <1>1 DEF IsBundle
<1>3. Ws!createAccessBundle(list, v, some) = <<b>> \o list
  BY <1>1 DEF Ws!createAccessBundle
<1>4. QED
  BY <1>2, <1>3, ConsAttaching
(* A channel's own grant goes to a bundle of the channel. *)
LEMMA EnsuredAttaching ==
  ASSUME NEW list, NEW whole, Attaching(list, whole), NEW place, place.id \in whole
  PROVE  Attaching(Ws!ensureSlackReadAccessForChannel(list, place), whole)
<1> DEFINE mine == {i \in DOMAIN list : place.id \in list[i].attached}
           g == Ws!SlackGrant(place.ext, Ws!NoPlace)
           newest == CHOOSE i \in mine : \A j \in mine : i <= j
           made == Ws!createAccessBundle(list, WorkBudgets[1], {place.id})
<1>1. PICK n \in Nat : n = Len(list) /\ DOMAIN list = 1..n
  BY DomainIs DEF Attaching
<1>2. \/ Ws!ensureSlackReadAccessForChannel(list, place) = list
      \/ Ws!ensureSlackReadAccessForChannel(list, place) = Ws!createGrant(made, 1, g)
      \/ /\ mine # {}
         /\ Ws!ensureSlackReadAccessForChannel(list, place) = Ws!createGrant(list, newest, g)
  BY DEF Ws!ensureSlackReadAccessForChannel
<1>3. mine \subseteq 1..n
  BY <1>1
<1>4. mine # {} => newest \in mine
  <2> HIDE DEF mine
  <2>1. ASSUME mine # {} PROVE \E i \in mine : \A j \in mine : i <= j
    BY <1>3, <2>1, LeastNumber
  <2>2. QED
    BY <2>1
<1> HIDE DEF mine, newest, g
<1>5. mine # {} => Attaching(Ws!createGrant(list, newest, g), whole)
  BY <1>1, <1>3, <1>4, StoreAttaching
<1>6. Attaching(made, whole) /\ 1 \in 1..Len(made)
  BY CreateAttaching
<1> HIDE DEF made
<1>7. Attaching(Ws!createGrant(made, 1, g), whole)
  BY <1>6, StoreAttaching
<1>8. QED
  BY <1>2, <1>5, <1>7

-----------------------------------------------------------------------------
(* Ids, lookups and the steps of the workspace *)

LEMMA PlaceIdsAre == ASSUME Resolving PROVE Ws!PlaceIds = IdsOf(places)
<1>1. DOMAIN places = 1..Len(places)
  BY DomainIs DEF Resolving, Placed
<1>2. QED
  BY <1>1 DEF Ws!PlaceIds, IdsOf
LEMMA FoundIs ==
  ASSUME Resolving, NEW name, NEW p \in Ws!findPlace(name)
  PROVE  \E i \in 1..Len(places) : p = places[i]
<1> DEFINE at == {i \in DOMAIN places : name \in {<<"id", places[i].id>>, <<"ext", places[i].ext>>}}
           first == CHOOSE i \in at : \A j \in at : i <= j
<1>1. PICK n \in Nat : n = Len(places) /\ DOMAIN places = 1..n
  BY DomainIs DEF Resolving, Placed
<1>2. at # {} /\ p = places[first]
  BY DEF Ws!findPlace, Ws!FirstWith
<1>3. at \subseteq 1..n
  BY <1>1
<1> HIDE DEF at
<1>4. \E i \in at : \A j \in at : i <= j
  BY <1>2, <1>3, LeastNumber
<1>5. first \in at
  BY <1>4
<1>6. QED
  BY <1>1, <1>2, <1>3, <1>5
LEMMA FoundPlace ==
  ASSUME Resolving, NEW name, NEW p \in Ws!findPlace(name)
  PROVE  p.id \in IdsOf(places) /\ IsPlace(p) /\ p.kind = "slack_channel"
<1>1. PICK i \in 1..Len(places) : p = places[i]
  BY FoundIs
<1>2. QED
  BY <1>1 DEF Resolving, Placed, IdsOf
LEMMA FoundBundle ==
  ASSUME Resolving, NEW id \in Ws!BundleIds
  PROVE  Ws!findBundle(id) \in 1..Len(bundles)
<1>1. DOMAIN bundles = 1..Len(bundles)
  BY DomainIs DEF Resolving, Attaching
<1>2. \E i \in DOMAIN bundles : bundles[i].id = id
  BY DEF Ws!BundleIds
<1>3. QED
  BY <1>1, <1>2 DEF Ws!findBundle

(* A step that leaves places and runs, and attaches bundles to what there is. *)
LEMMA LaterPlaced ==
  ASSUME NEW list, NEW bound \in Nat, Placed(list, bound)
  PROVE  Placed(list, bound + 1)
BY DEF Placed
LEMMA BundlesKept ==
  ASSUME Resolving, UNCHANGED <<places, runs>>, ops' = ops \/ ops' = ops + 1,
         Attaching(bundles', IdsOf(places) \cup WorkExternals)
  PROVE  Resolving'
<1>1. ops' \in Nat /\ (10 + ops' = 10 + ops \/ 10 + ops' = (10 + ops) + 1) /\ 10 + ops \in Nat
  BY DEF Resolving
<1>2. Placed(places, 10 + ops')
  BY <1>1, LaterPlaced DEF Resolving
<1>3. IdsOf(places)' = IdsOf(places)
  BY DEF IdsOf
<1>4. QED
  BY <1>1, <1>2, <1>3 DEF Resolving
LEMMA OnlyBundlesKeeps ==
  ASSUME Resolving, NEW list, Ws!OnlyBundles(list), Attaching(list, IdsOf(places) \cup WorkExternals)
  PROVE  Resolving'
BY BundlesKept DEF Ws!OnlyBundles, Ws!Counted

(* Channels *)
LEMMA PostChannelKeeps ==
  ASSUME Resolving, NEW ext, NEW sensitivity, Ws!PostChannel(ext, sensitivity)
  PROVE  Resolving'
<1>1. PICK place : place = [id |-> 10 + ops, ext |-> ext, kind |-> "slack_channel", sensitivity |-> sensitivity]
  OBVIOUS
<1>2. /\ ops' = ops + 1 /\ places' = <<place>> \o places /\ runs' = runs
      /\ bundles' = Ws!ensureSlackReadAccessForChannel(bundles, place)
  BY <1>1 DEF Ws!PostChannel, Ws!Fresh, Ws!Counted, Ws!createPlace
<1>3. PICK b \in Nat : b = 10 + ops /\ b > 0 /\ b + 1 = 10 + (ops + 1)
  BY DEF Resolving
<1>4. IsPlace(place) /\ place.id = b /\ place.kind = "slack_channel"
  BY <1>1, <1>3 DEF IsPlace
<1>5. Placed(places', b + 1) /\ IdsOf(places)' = IdsOf(places) \cup {b}
  <2>1. Placed(<<place>> \o places, b + 1) /\ IdsOf(<<place>> \o places) = IdsOf(places) \cup {b}
    BY <1>3, <1>4, CreatePlaced DEF Resolving
  <2>2. IdsOf(places)' = IdsOf(<<place>> \o places)
    BY <1>2 DEF IdsOf
  <2>3. QED
    BY <1>2, <2>1, <2>2
<1>6. PICK whole : whole = IdsOf(places)' \cup WorkExternals
  OBVIOUS
<1>7. Attaching(bundles', whole)
  <2>1. Attaching(bundles, whole)
    BY <1>5, <1>6, AttachingGrows DEF Resolving
  <2>2. place.id \in whole
    BY <1>4, <1>5, <1>6
  <2>3. QED
    BY <1>2, <2>1, <2>2, EnsuredAttaching
<1>8. ops' \in Nat /\ Placed(places', 10 + ops')
  BY <1>2, <1>3, <1>5 DEF Resolving
<1>9. \A r \in runs'.made : r.place \in IdsOf(places)'
  BY <1>2, <1>5 DEF Resolving
<1>10. runs' = [made |-> runs'.made, keys |-> runs'.keys, waiting |-> runs'.waiting]
  BY <1>2 DEF Resolving
<1>11. QED
  BY <1>8, <1>9, <1>10, <1>6, <1>7 DEF Resolving
LEMMA PatchChannelKeeps ==
  ASSUME Resolving, NEW name, NEW ext, NEW sensitivity, Ws!PatchChannel(name, ext, sensitivity)
  PROVE  Resolving'
<1>1. PICK p \in Ws!findPlace(name) :
        LET place == [p EXCEPT !.ext = ext, !.sensitivity = sensitivity]
        IN Ws!updatePlace(place) /\ bundles' = Ws!ensureSlackReadAccessForChannel(bundles, place)
  BY DEF Ws!PatchChannel
<1>2. PICK place : place = [p EXCEPT !.ext = ext, !.sensitivity = sensitivity]
  OBVIOUS
<1>3. /\ ops' = ops + 1 /\ runs' = runs
      /\ places' = [i \in DOMAIN places |-> IF places[i].id = place.id THEN place ELSE places[i]]
      /\ bundles' = Ws!ensureSlackReadAccessForChannel(bundles, place)
  BY <1>1, <1>2 DEF Ws!PatchChannel, Ws!Counted, Ws!updatePlace
<1>4. PICK b \in Nat : b = 10 + ops /\ b + 1 = 10 + (ops + 1)
  BY DEF Resolving
<1>5. IsPlace(place) /\ place.id = p.id /\ place.kind = "slack_channel" /\ p.id \in IdsOf(places)
  <2>1. IsPlace(p) /\ p.kind = "slack_channel" /\ p.id \in IdsOf(places)
    BY FoundPlace
  <2>2. place = [id |-> p.id, ext |-> ext, kind |-> p.kind, sensitivity |-> sensitivity]
    BY <1>2, <2>1 DEF IsPlace
  <2>3. QED
    BY <2>1, <2>2 DEF IsPlace
<1>6. Placed(places', b + 1) /\ IdsOf(places') = IdsOf(places)
  BY <1>3, <1>4, <1>5, UpdatePlaced DEF Resolving
<1>7. IdsOf(places)' = IdsOf(places)
  BY <1>6 DEF IdsOf
<1>8. PICK whole : whole = IdsOf(places) \cup WorkExternals
  OBVIOUS
<1>9. Attaching(bundles', whole)
  <2>1. Attaching(bundles, whole) /\ place.id \in whole
    BY <1>5, <1>8 DEF Resolving
  <2>2. QED
    BY <1>3, <2>1, EnsuredAttaching
<1>10. ops' \in Nat /\ Placed(places', 10 + ops')
  BY <1>3, <1>4, <1>6 DEF Resolving
<1>11. \A r \in runs'.made : r.place \in IdsOf(places)'
  BY <1>3, <1>7 DEF Resolving
<1>12. runs' = [made |-> runs'.made, keys |-> runs'.keys, waiting |-> runs'.waiting]
  BY <1>3 DEF Resolving
<1>13. QED
  BY <1>10, <1>11, <1>12, <1>7, <1>8, <1>9 DEF Resolving
LEMMA DeleteChannelKeeps ==
  ASSUME Resolving, NEW name, Ws!DeleteChannel(name)
  PROVE  Resolving'
<1>1. PICK p \in Ws!findPlace(name) : Ws!deletePlace(p)
  BY DEF Ws!DeleteChannel
<1>2. PICK at : at = CHOOSE i \in DOMAIN places : places[i].id = p.id
  OBVIOUS
<1>3. /\ ops' = ops + 1 /\ runs' = runs
      /\ \A r \in runs.made : r.place # p.id
      /\ bundles' = [i \in DOMAIN bundles |-> [bundles[i] EXCEPT !.attached = @ \ {p.id}]]
      /\ places' = Ws!RemoveAt(places, at)
  BY <1>1, <1>2 DEF Ws!DeleteChannel, Ws!Counted, Ws!deletePlace, Ws!withoutPlace
<1>4. PICK b \in Nat : b = 10 + ops /\ b + 1 = 10 + (ops + 1)
  BY DEF Resolving
<1>5. at \in 1..Len(places) /\ places[at].id = p.id
  <2>1. DOMAIN places = 1..Len(places)
    BY DomainIs DEF Resolving, Placed
  <2>2. \E i \in DOMAIN places : places[i].id = p.id
    BY <2>1, FoundIs
  <2>3. QED
    BY <1>2, <2>1, <2>2
<1>6. Placed(places', b + 1) /\ IdsOf(places) \ {p.id} \subseteq IdsOf(places')
  BY <1>3, <1>4, <1>5, DeletePlaced DEF Resolving
<1>7. IdsOf(places)' = IdsOf(places')
  BY DEF IdsOf
<1>8. Attaching(bundles', IdsOf(places)' \cup WorkExternals)
  <2>1. Attaching(bundles', (IdsOf(places) \cup WorkExternals) \ {p.id})
    BY <1>3, DeletedAttaching DEF Resolving
  <2>2. (IdsOf(places) \cup WorkExternals) \ {p.id} \subseteq IdsOf(places)' \cup WorkExternals
    BY <1>6, <1>7
  <2>3. QED
    BY <2>1, <2>2, AttachingGrows
<1>9. \A r \in runs'.made : r.place \in IdsOf(places)'
  BY <1>3, <1>6, <1>7 DEF Resolving
<1>10. QED
  BY <1>3, <1>4, <1>6, <1>8, <1>9 DEF Resolving

(* Bundles and grants *)
LEMMA BundleStepsKeep ==
  ASSUME Resolving, NEW id \in Ws!BundleIds
  PROVE  /\ \A v : Ws!PatchBundle(id, v) => Resolving'
         /\ \A name : Ws!PostBundlePlace(id, name) => Resolving'
         /\ \A name : Ws!DeleteBundlePlace(id, name) => Resolving'
         /\ \A g : Ws!PostGrant(id, g) => Resolving'
         /\ \A j, g : Ws!PatchGrant(id, j, g) => Resolving'
         /\ \A j : Ws!DeleteGrant(id, j) => Resolving'
<1>1. PICK at, whole : at = Ws!findBundle(id) /\ whole = IdsOf(places) \cup WorkExternals
  OBVIOUS
<1>2. at \in 1..Len(bundles) /\ Attaching(bundles, whole)
  BY <1>1, FoundBundle DEF Resolving
<1>3. ASSUME NEW v, Ws!PatchBundle(id, v) PROVE Resolving'
  <2>1. PICK list : list = Ws!updateAccessBundle(bundles, at, v)
    OBVIOUS
  <2>2. Attaching(list, whole)
    BY <1>2, <2>1, StoreAttaching
  <2>3. Ws!OnlyBundles(list)
    BY <1>1, <1>3, <2>1 DEF Ws!PatchBundle
  <2>4. QED
    BY <1>1, <2>2, <2>3, OnlyBundlesKeeps
<1>4. ASSUME NEW name, Ws!PostBundlePlace(id, name) PROVE Resolving'
  <2>1. PICK p \in Ws!findPlace(name) : Ws!OnlyBundles(Ws!attachBundleToPlace(bundles, at, p.id))
    BY <1>1, <1>4 DEF Ws!PostBundlePlace
  <2>2. p.id \in whole
    BY <1>1, FoundPlace
  <2>3. PICK list : list = Ws!attachBundleToPlace(bundles, at, p.id)
    OBVIOUS
  <2>4. Attaching(list, whole)
    BY <1>2, <2>2, <2>3, StoreAttaching
  <2>5. QED
    BY <1>1, <2>1, <2>3, <2>4, OnlyBundlesKeeps
<1>5. ASSUME NEW name, Ws!DeleteBundlePlace(id, name) PROVE Resolving'
  <2>1. PICK p \in Ws!findPlace(name) : Ws!OnlyBundles(Ws!detachBundleFromPlace(bundles, at, p.id))
    BY <1>1, <1>5 DEF Ws!DeleteBundlePlace
  <2>2. PICK list : list = Ws!detachBundleFromPlace(bundles, at, p.id)
    OBVIOUS
  <2>3. Attaching(list, whole)
    BY <1>2, <2>2, StoreAttaching
  <2>4. QED
    BY <1>1, <2>1, <2>2, <2>3, OnlyBundlesKeeps
<1>6. ASSUME NEW g, Ws!PostGrant(id, g) PROVE Resolving'
  <2>1. PICK list : list = Ws!createGrant(bundles, at, g)
    OBVIOUS
  <2>2. Attaching(list, whole)
    BY <1>2, <2>1, StoreAttaching
  <2>3. Ws!OnlyBundles(list)
    BY <1>1, <1>6, <2>1 DEF Ws!PostGrant
  <2>4. QED
    BY <1>1, <2>2, <2>3, OnlyBundlesKeeps
<1>7. ASSUME NEW j, NEW g, Ws!PatchGrant(id, j, g) PROVE Resolving'
  <2>1. PICK list : list = Ws!updateGrant(bundles, at, j, g)
    OBVIOUS
  <2>2. Attaching(list, whole)
    BY <1>2, <2>1, StoreAttaching
  <2>3. Ws!OnlyBundles(list)
    BY <1>1, <1>7, <2>1 DEF Ws!PatchGrant
  <2>4. QED
    BY <1>1, <2>2, <2>3, OnlyBundlesKeeps
<1>8. ASSUME NEW j, Ws!DeleteGrant(id, j) PROVE Resolving'
  <2>1. PICK list : list = Ws!deleteGrant(bundles, at, j)
    OBVIOUS
  <2>2. Attaching(list, whole)
    BY <1>2, <2>1, StoreAttaching
  <2>3. Ws!OnlyBundles(list)
    BY <1>1, <1>8, <2>1 DEF Ws!DeleteGrant
  <2>4. QED
    BY <1>1, <2>2, <2>3, OnlyBundlesKeeps
<1>9. QED
  BY <1>3, <1>4, <1>5, <1>6, <1>7, <1>8
LEMMA PostBundleKeeps ==
  ASSUME Resolving, NEW budget, NEW names \in SUBSET Ws!Names, Ws!PostBundle(budget, names)
  PROVE  Resolving'
<1>1. PICK some, whole : some = {n[2] : n \in names} /\ whole = IdsOf(places) \cup WorkExternals
  OBVIOUS
<1>2. some \subseteq whole
  <2>1. ASSUME NEW n \in Ws!Names PROVE n[2] \in whole
    <3>1. CASE \E id \in Ws!PlaceIds : n = <<"id", id>>
      BY <1>1, <3>1, PlaceIdsAre
    <3>2. CASE \E e \in WorkExternals : n = <<"ext", e>>
      BY <1>1, <3>2
    <3>3. QED
      BY <2>1, <3>1, <3>2 DEF Ws!Names
  <2>2. QED
    BY <1>1, <2>1
<1>3. PICK list : list = Ws!createAccessBundle(bundles, budget, some)
  OBVIOUS
<1>4. Attaching(list, whole)
  BY <1>1, <1>2, <1>3, CreateAttaching DEF Resolving
<1>5. Ws!OnlyBundles(list)
  BY <1>1, <1>3 DEF Ws!PostBundle
<1>6. QED
  BY <1>1, <1>4, <1>5, OnlyBundlesKeeps

(* Connectors and memory are other state; a run is of a place that was found. *)
LEMMA OthersKeep ==
  ASSUME Resolving, UNCHANGED <<places, bundles, runs>>, ops' = ops + 1
  PROVE  Resolving'
<1>1. Attaching(bundles', IdsOf(places) \cup WorkExternals)
  BY DEF Resolving
<1>2. QED
  BY <1>1, BundlesKept
LEMMA RunRequestKeeps ==
  ASSUME Resolving, NEW key, NEW body, Ws!RunRequest(key, body)
  PROVE  Resolving'
<1>1. PICK p, run, waiting :
        /\ p \in Ws!findPlace(<<"ext", body.ext>>) /\ run.place = p.id
        /\ runs' = [runs EXCEPT !.made = @ \cup {run}, !.waiting = waiting]
  BY DEF Ws!RunRequest
<1>2. ops' = ops + 1 /\ places' = places /\ bundles' = bundles
  BY DEF Ws!RunRequest, Ws!Counted
<1>3. p.id \in IdsOf(places)
  BY <1>1, FoundPlace
<1>4. runs' = [made |-> runs.made \cup {run}, keys |-> runs.keys, waiting |-> waiting]
  BY <1>1 DEF Resolving
<1>5. IdsOf(places)' = IdsOf(places)
  BY <1>2 DEF IdsOf
<1>6. \A r \in runs'.made : r.place \in IdsOf(places)'
  BY <1>1, <1>3, <1>4, <1>5 DEF Resolving
<1>7. runs' = [made |-> runs'.made, keys |-> runs'.keys, waiting |-> runs'.waiting]
  BY <1>4
<1>8. PICK b \in Nat : b = 10 + ops /\ b + 1 = 10 + (ops + 1)
  BY DEF Resolving
<1>9. ops' \in Nat /\ Placed(places', 10 + ops')
  BY <1>2, <1>8, LaterPlaced DEF Resolving
<1>10. QED
  BY <1>2, <1>5, <1>6, <1>7, <1>9 DEF Resolving
LEMMA RunAnswerKeeps ==
  ASSUME Resolving, NEW r, Ws!RunAnswer(r)
  PROVE  Resolving'
<1>1. PICK keys, waiting : runs' = [runs EXCEPT !.waiting = waiting, !.keys = keys]
  BY DEF Ws!RunAnswer
<1>2. runs' = [made |-> runs.made, keys |-> keys, waiting |-> waiting]
  BY <1>1 DEF Resolving
<1>3. UNCHANGED <<places, bundles, ops>>
  BY DEF Ws!RunAnswer
<1>4. IdsOf(places)' = IdsOf(places)
  BY <1>3 DEF IdsOf
<1>5. QED
  BY <1>2, <1>3, <1>4 DEF Resolving

LEMMA InitResolving == Ws!Init => Resolving
<1> SUFFICES ASSUME Ws!Init PROVE Resolving
  OBVIOUS
<1>1. PICK place, bundle :
        /\ places = <<place>> /\ bundles = <<bundle>>
        /\ place.id = 1 /\ place.kind = "slack_channel" /\ IsPlace(place)
        /\ bundle.attached = {1} /\ IsBundle(bundle)
  BY DEF Ws!Init, Ws!Seeded, IsPlace, IsBundle
<1>2. ops = 0 /\ runs = [made |-> {}, keys |-> <<>>, waiting |-> {}]
  BY DEF Ws!Init
<1>3. IsSeq(places) /\ Len(places) = 1 /\ places[1] = place
  BY <1>1, ShortSeqs
<1>4. IsSeq(bundles) /\ Len(bundles) = 1 /\ bundles[1] = bundle
  BY <1>1, ShortSeqs
<1>5. Placed(places, 10)
  BY <1>1, <1>3 DEF Placed
<1>6. IdsOf(places) = {1}
  BY <1>1, <1>3 DEF IdsOf
<1>7. Attaching(bundles, IdsOf(places) \cup WorkExternals)
  BY <1>1, <1>4, <1>6 DEF Attaching
<1>8. QED
  BY <1>2, <1>5, <1>7 DEF Resolving
LEMMA NextResolving == Resolving /\ [Ws!Next]_(Ws!vars) => Resolving'
<1> SUFFICES ASSUME Resolving, [Ws!Next]_(Ws!vars) PROVE Resolving'
  OBVIOUS
<1>1. CASE UNCHANGED Ws!vars
  <2>1. IdsOf(places)' = IdsOf(places)
    BY <1>1 DEF Ws!vars, IdsOf
  <2>2. QED
    BY <1>1, <2>1 DEF Ws!vars, Resolving
<1>2. CASE \E e \in WorkExternals, s \in {"internal", "restricted"} :
             Ws!PostChannel(e, s) \/ \E n \in Ws!Names : Ws!PatchChannel(n, e, s)
  BY <1>2, PostChannelKeeps, PatchChannelKeeps
<1>3. CASE \E n \in Ws!Names : Ws!DeleteChannel(n)
  BY <1>3, DeleteChannelKeeps
<1>4. CASE \E ns \in {{n} : n \in Ws!Names} \cup {{}} : Ws!PostBundle(WorkBudgets[1], ns)
  <2>1. PICK ns \in SUBSET Ws!Names : Ws!PostBundle(WorkBudgets[1], ns)
    BY <1>4
  <2>2. QED
    BY <2>1, PostBundleKeeps
<1>5. CASE \E b \in Ws!BundleIds :
             \/ Ws!PatchBundle(b, WorkBudgets[2])
             \/ \E n \in Ws!Names : Ws!PostBundlePlace(b, n) \/ Ws!DeleteBundlePlace(b, n)
             \/ \E g \in Ws!Grants : Ws!PostGrant(b, g) \/ Ws!PatchGrant(b, 1, g)
             \/ Ws!DeleteGrant(b, 1)
  BY <1>5, BundleStepsKeep
<1>6. CASE \/ \E s \in WorkServers :
                \/ \E t \in {"http", "stdio", "in_process"}, o \in {"https", "command", "builtin", "secret"} :
                     Ws!PostMcp(s, t, o)
                \/ Ws!PatchMcp(s, "paused")
           \/ \E p \in {"ada", "bob"} : Ws!PatchPrincipal(p, "u")
           \/ Ws!PatchAgent(WorkPolicies[2]) \/ Ws!PatchModelPolicy(WorkPolicies[1], 2)
           \/ Ws!PatchRuntimeProfile("sandbox")
  <2>1. UNCHANGED <<places, bundles, runs>> /\ ops' = ops + 1
    BY <1>6 DEF Ws!PostMcp, Ws!PatchMcp, Ws!PatchPrincipal, Ws!PatchAgent, Ws!PatchModelPolicy,
                Ws!PatchRuntimeProfile, Ws!OnlyConnectors, Ws!Counted
  <2>2. QED
    BY <2>1, OthersKeep
<1>7. CASE \/ \E p \in Ws!PlaceIds \cup {Ws!NoPlace}, i \in Ws!Identities : Ws!PostMemorySource(p, i)
           \/ \E s \in recalled.sources, p \in Ws!PlaceIds \cup {Ws!NoPlace}, i \in Ws!Identities,
                 acl \in {{}} \cup {{{id}} : id \in Ws!PlaceIds} : Ws!PostMemoryChunks(s, p, i, acl)
  <2>1. UNCHANGED <<places, bundles, runs>> /\ ops' = ops + 1
    BY <1>7 DEF Ws!PostMemorySource, Ws!PostMemoryChunks, Ws!OnlyMemory, Ws!Counted
  <2>2. QED
    BY <2>1, OthersKeep
<1>8. CASE \/ \E k \in WorkKeys, b \in WorkBodies : Ws!RunRequest(k, b)
           \/ \E r \in runs.waiting : Ws!RunAnswer(r)
  BY <1>8, RunRequestKeeps, RunAnswerKeeps
<1>9. QED
  BY <1>1, <1>2, <1>3, <1>4, <1>5, <1>6, <1>7, <1>8 DEF Ws!Next, Ws!Requests

(* The inductive invariant holds of every behaviour. *)
LEMMA ResolvingHolds == Spec => [](unit = "workspace" => Resolving)
<1>1. Starts => (unit = "workspace" => Resolving)
  BY InitResolving DEF Starts
<1>2. (unit = "workspace" => Resolving) /\ [UNCHANGED unit /\ Steps]_vars => (unit = "workspace" => Resolving)'
  <2> SUFFICES ASSUME unit = "workspace" => Resolving, [UNCHANGED unit /\ Steps]_vars, unit' = "workspace"
               PROVE  Resolving'
    OBVIOUS
  <2>1. unit = "workspace"
    BY DEF vars
  <2>2. [Ws!Next]_(Ws!vars)
    BY <2>1 DEF Steps, vars, Ws!vars
  <2>3. QED
    BY <2>1, <2>2, NextResolving
<1>3. QED
  BY <1>1, <1>2, PTL DEF Spec

(* deletePlace: whatever channels are deleted, renamed and created, a bundle is
   attached to channels that exist and a run has its channel. *)
THEOREM ReferencesResolveHolds == Spec => []ReferencesResolve
<1>1. (unit = "workspace" => Resolving) => ReferencesResolve
  <2> SUFFICES ASSUME unit = "workspace", Resolving PROVE Ws!ReferencesResolve
    BY DEF ReferencesResolve
  <2>1. DOMAIN bundles = 1..Len(bundles)
    BY DomainIs DEF Resolving, Attaching
  <2>2. QED
    BY <2>1, PlaceIdsAre DEF Resolving, Attaching, Ws!ReferencesResolve
<1>2. QED
  BY <1>1, ResolvingHolds, PTL

(* The identity that governs a channel: its own, which is isolated as the
   channel is sensitive. *)
LEMMA OwnIdentity ==
  ASSUME Resolving, NEW i \in 1..Len(places), places[i].sensitivity \in Ws!Isolating
  PROVE  Ws!resolveAgentIdentity(Ws!deriveDefaultIdentityProfiles(places, bundles),
                                 places[i], bundles, {}).isolated = TRUE
<1> DEFINE all  == Ws!deriveDefaultIdentityProfiles(places, bundles)
           at   == {j \in DOMAIN all : all[j].place = places[i].id}
           first == CHOOSE j \in at : \A k \in at : j <= k
<1>1. PICK n \in Nat : n = Len(places) /\ DOMAIN places = 1..n
  BY DomainIs DEF Resolving, Placed
<1>2. PICK b, f : /\ all = <<b>> \o f /\ b.place = 0
                  /\ f = [j \in DOMAIN places |-> f[j]]
                  /\ \A j \in DOMAIN places :
                       /\ f[j].place = places[j].id
                       /\ f[j].scope = Ws!scopeForPlace(places[j]) /\ f[j].inherits = "unset"
  <2> DEFINE free == {bundles[k].id : k \in {m \in DOMAIN bundles : bundles[m].attached = {}}}
             own(j) == {bundles[k].id : k \in {m \in DOMAIN bundles : places[j].id \in bundles[m].attached}}
             base == Ws!Profile(<<"baseline">>, "workspace", Ws!NoPlace, free)
             g == [j \in DOMAIN places |->
                     Ws!Profile(<<"place", places[j].id>>, Ws!scopeForPlace(places[j]), places[j].id, own(j))]
  <2>1. all = <<base>> \o g
    BY DEF Ws!deriveDefaultIdentityProfiles
  <2>2. base.place = 0
    BY DEF Ws!Profile, Ws!NoPlace
  <2> HIDE DEF base, own, all
  <2>3. \A j \in DOMAIN places :
          /\ g[j].place = places[j].id
          /\ g[j].scope = Ws!scopeForPlace(places[j]) /\ g[j].inherits = "unset"
    BY DEF Ws!Profile
  <2>4. g = [j \in DOMAIN places |-> g[j]]
    OBVIOUS
  <2> HIDE DEF g
  <2>5. QED
    BY <2>1, <2>2, <2>3, <2>4
<1> HIDE DEF all
<1>3. IsSeq(f) /\ Len(f) = n
  BY <1>1, <1>2 DEF IsSeq
<1>4. /\ DOMAIN all = 1..n + 1 /\ all[1] = b
      /\ \A k \in 1..n : all[k + 1] = f[k]
      /\ \A k \in 1..n + 1 : k = 1 \/ k - 1 \in 1..n
  <2>1. PICK p : p = <<b>> \o f
    OBVIOUS
  <2>2. /\ IsSeq(p) /\ Len(p) = n + 1 /\ p[1] = b
        /\ \A k \in 1..n : p[k + 1] = f[k]
        /\ \A k \in 1..n + 1 : k = 1 \/ k - 1 \in 1..n
    BY <1>3, <2>1, ConsIs
  <2>3. QED
    BY <1>2, <2>1, <2>2, DomainIs
<1>5. i + 1 \in at
  BY <1>1, <1>2, <1>4
<1>6. at \subseteq 1..n + 1
  BY <1>4
<1>7. first \in at
  <2> HIDE DEF at
  <2>1. n + 1 \in Nat
    OBVIOUS
  <2>2. \E j \in at : \A k \in at : j <= k
    BY <1>5, <1>6, <2>1, LeastNumber
  <2>3. QED
    BY <2>2
<1>8. PICK j \in 1..n : all[first] = f[j]
  <2>1. first # 1
    <3>1. all[first].place = places[i].id
      BY <1>7
    <3>2. places[i].id # 0
      BY DEF Resolving, Placed
    <3>3. all[1].place = 0
      BY <1>2, <1>4
    <3>4. QED
      BY <3>1, <3>2, <3>3
  <2>2. first - 1 \in 1..n
    BY <1>4, <1>6, <1>7, <2>1
  <2>3. (first - 1) + 1 = first
    BY <1>6, <1>7
  <2>4. QED
    BY <1>4, <2>2, <2>3
<1>9. j = i
  <2>1. all[first].place = places[i].id
    BY <1>7
  <2>2. f[j].place = places[j].id
    BY <1>1, <1>2
  <2>3. places[j].id = places[i].id
    BY <1>8, <2>1, <2>2
  <2>4. QED
    BY <1>1, <2>3 DEF Resolving, Placed
<1>10. f[i].scope = "private_channel"
  <2>1. places[i].kind = "slack_channel"
    BY DEF Resolving, Placed
  <2>2. QED
    BY <1>1, <1>2, <2>1 DEF Ws!scopeForPlace
<1>11. PICK own : own = all[first] /\ Ws!identityIsIsolated(own)
  BY <1>8, <1>9, <1>10 DEF Ws!identityIsIsolated
<1> DEFINE bound == {x.identity : x \in {y \in {} : y.place = places[i].id}}
<1>12. Ws!FirstWith(all, LAMBDA x : x.place = places[i].id \/ x.id \in bound) = {own}
  <2>1. {j2 \in DOMAIN all : all[j2].place = places[i].id \/ all[j2].id \in bound} = at
    OBVIOUS
  <2> HIDE DEF bound, at
  <2>2. at # {} /\ first \in at
    BY <1>7
  <2>3. QED
    BY <1>11, <2>1, <2>2 DEF Ws!FirstWith
<1>13. Ws!resolveAgentIdentity(all, places[i], bundles, {}).isolated
         = Ws!identityIsIsolated(CHOOSE x \in {own} : TRUE)
  BY <1>12 DEF Ws!resolveAgentIdentity
<1>14. (CHOOSE x \in {own} : TRUE) = own
  OBVIOUS
<1>15. Ws!identityIsIsolated(CHOOSE x \in {own} : TRUE) = TRUE
  BY <1>11, <1>14 DEF Ws!identityIsIsolated
<1>16. QED
  BY <1>13, <1>15 DEF all

(* evaluateChunk: memory of one channel is given to no other, and a sensitive
   channel is given nothing that is the workspace's. *)
THEOREM MemoryConfinedHolds == Spec => []MemoryConfined
<1>1. (unit = "workspace" => Resolving) => MemoryConfined
  <2> SUFFICES ASSUME unit = "workspace", Resolving, NEW i \in DOMAIN places, NEW c \in Ws!Retrieve(places[i])
               PROVE  /\ c.identity = Ws!NoIdentity /\ c.place # Ws!NoPlace => c.place = places[i].id
                      /\ places[i].sensitivity \in Ws!Isolating
                           => c.place # Ws!NoPlace \/ c.identity # Ws!NoIdentity
    BY DEF MemoryConfined, Ws!MemoryConfined
  <2>1. PICK resolved : resolved = Ws!resolveAgentIdentity(Ws!deriveDefaultIdentityProfiles(places, bundles),
                                                            places[i], bundles, {})
    OBVIOUS
  <2>2. PICK ctx : /\ ctx = Ws!normalizeContext(places[i], resolved)
                   /\ Ws!evaluateChunk(c, ctx) = ""
    BY <2>1 DEF Ws!Retrieve, Ws!selectInjectableMemoryChunks
  <2>3. ctx.place = places[i].id /\ ctx.isolated = resolved.isolated
    BY <2>2 DEF Ws!normalizeContext
  <2>4. c.identity = Ws!NoIdentity /\ c.place # Ws!NoPlace => c.place = ctx.place
    BY <2>2 DEF Ws!evaluateChunk
  <2>5. ctx.isolated = TRUE => c.place # Ws!NoPlace \/ c.identity # Ws!NoIdentity
    BY <2>2 DEF Ws!evaluateChunk
  <2>6. i \in 1..Len(places)
    BY DomainIs DEF Resolving, Placed
  <2>7. places[i].sensitivity \in Ws!Isolating => ctx.isolated = TRUE
    BY <2>1, <2>3, <2>6, OwnIdentity
  <2>8. QED
    BY <2>3, <2>4, <2>5, <2>7
<1>2. QED
  BY <1>1, ResolvingHolds, PTL
================================================================================
