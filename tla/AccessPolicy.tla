---------------------------- MODULE AccessPolicy ----------------------------
(***************************************************************************)
(* What a run may do and what it may know: the policy that the bundles     *)
(* attached to a place amount to, the agent identity that governs a place, *)
(* and the memory that identity may be given.  All of it is computed from  *)
(* the snapshot; nothing here keeps state.                                 *)
(*                                                                         *)
(* A resource is [path, any]: the tokens it is made of, and whether a "*"  *)
(* follows them (a request's has none; the empty path is no resource).     *)
(* Lists keep the order the snapshot has, the newest entry first.          *)
(***************************************************************************)
EXTENDS Integers, Sequences, FiniteSets, SequencesExt

(* What an optional place and an optional identity are when absent; an      *)
(* optional list is {} or {list}.                                          *)
NoPlace    == 0
NoIdentity == <<>>
Isolating == {"confidential", "restricted"}

-----------------------------------------------------------------------------
(* Policy *)

bundlesForPlace(bundles, place) == SelectSeq(bundles, LAMBDA b : place.id \in b.attached)

grantsOf(bundles) == FlattenSeq([i \in DOMAIN bundles |-> bundles[i].grants])

resourceMatches(granted, requested) ==
  IF requested.path = <<>> THEN granted.any /\ granted.path = <<>>
  ELSE granted = requested \/ (granted.any /\ IsPrefix(granted.path, requested.path))

(* A longer prefix is the more specific; the score only ever compares      *)
(* prefixes of one resource.                                               *)
specificityScore(granted, requested) ==
  IF requested.path # <<>> /\ granted = requested THEN 1000
  ELSE IF granted.any THEN Len(granted.path) + 1 ELSE 0

(* A deny wins over everything that matches; otherwise the most specific   *)
(* grant decides, the newest of them when they tie.                        *)
evaluatePolicy(bundles, request) ==
  LET fits(g) == g.capability = request.capability /\ resourceMatches(g.resource, request.resource)
      found   == SelectSeq(grantsOf(bundles), fits)
      score(i) == specificityScore(found[i].resource, request.resource)
      best    == CHOOSE i \in DOMAIN found :
                   \A j \in DOMAIN found : score(j) < score(i) \/ (score(j) = score(i) /\ i <= j)
  IN IF \/ found = <<>>
        \/ \E i \in DOMAIN found : found[i].decision = "deny"
     THEN [decision |-> "deny", requiresApproval |-> FALSE]
     ELSE [decision |-> found[best].decision,
           requiresApproval |-> found[best].requiresApproval \/ found[best].decision = "ask"]

-----------------------------------------------------------------------------
(* Identity *)

Profile(id, scope, place, ids) ==
  [id |-> id, scope |-> scope, place |-> place, bundleIds |-> ids, baseline |-> scope = "workspace",
   enabled |-> TRUE, inherits |-> "unset", approvers |-> {}, allowlist |-> {}]

scopeForPlace(place) ==
  IF place.kind = "slack_dm" THEN "dm"
  ELSE IF place.sensitivity \in Isolating THEN "private_channel" ELSE "public_channel"

(* One baseline with the bundles that no place has, and one identity for   *)
(* each place with the bundles attached to it.                             *)
deriveDefaultIdentityProfiles(places, bundles) ==
  LET with(Test(_)) == {bundles[i].id : i \in {j \in DOMAIN bundles : Test(bundles[j])}}
  IN <<Profile(<<"baseline">>, "workspace", NoPlace, with(LAMBDA b : b.attached = {}))>>
     \o [i \in DOMAIN places |->
           Profile(<<"place", places[i].id>>, scopeForPlace(places[i]), places[i].id,
                   with(LAMBDA b : places[i].id \in b.attached))]

isWorkspaceBaseline(identity) == identity.scope = "workspace" /\ identity.baseline
identityIsIsolated(identity)  == identity.scope = "private_channel" \/ identity.inherits = "no"

emptyIdentity(place) ==
  [Profile(<<"unresolved", place.id>>, IF place.kind = "slack_dm" THEN "dm" ELSE "public_channel",
           NoPlace, {}) EXCEPT !.enabled = FALSE]

FirstWith(seq, Test(_)) ==
  LET at == {i \in DOMAIN seq : Test(seq[i])}
  IN IF at = {} THEN {} ELSE {seq[CHOOSE i \in at : \A j \in at : i <= j]}

(* The identity bound to the place, or the baseline; a private one inherits *)
(* nothing, and a switched off one, baseline or binding switches all off.  *)
resolveAgentIdentity(identities, place, bundles, bindings) ==
  LET baseline == FirstWith(identities, isWorkspaceBaseline)
      bound    == {b.identity : b \in {x \in bindings : x.place = place.id}}
      own      == FirstWith(identities, LAMBDA i : i.place = place.id \/ i.id \in bound)
      chosen   == IF own # {} THEN own ELSE baseline
  IN IF chosen = {}
     THEN [identity |-> emptyIdentity(place), enabled |-> FALSE, isolated |-> place.kind = "slack_dm",
           bundleIds |-> {}, allowlist |-> {}]
     ELSE LET it       == CHOOSE i \in chosen : TRUE
              isolated == identityIsIsolated(it)
              inherited == IF ~isolated /\ ~isWorkspaceBaseline(it) /\ it.inherits # "no"
                           THEN baseline ELSE {}
          IN [identity  |-> it,
              enabled   |-> /\ it.enabled /\ \A b \in inherited : b.enabled
                            /\ \A b \in bindings :
                                 b.place = place.id /\ b.identity = it.id => b.enabled,
              isolated  |-> isolated,
              bundleIds |-> it.bundleIds \cup UNION {b.bundleIds : b \in inherited},
              allowlist |-> it.allowlist]

canInvokeAgent(resolved, principal, isPlaceMember) ==
  /\ resolved.enabled
  /\ IF resolved.allowlist # {} THEN principal \in resolved.allowlist ELSE isPlaceMember

-----------------------------------------------------------------------------
(* Memory *)

normalizeContext(place, resolved) ==
  [place |-> place.id, isolated |-> resolved.isolated, identity |-> resolved.identity.id]

evaluateChunk_AnyPlace(chunk, ctx) ==
  IF ~ctx.isolated /\ chunk.identity = NoIdentity THEN "" ELSE
  LET sameIdentity == chunk.identity # NoIdentity /\ chunk.identity = ctx.identity
  IN IF sameIdentity THEN "" ELSE "cross_place"

(* Why a chunk is kept from a compartment, or "" when it is not.           *)
evaluateChunk(chunk, ctx) ==
  LET sameIdentity == chunk.identity # NoIdentity /\ chunk.identity = ctx.identity
      samePlace    == chunk.place # NoPlace /\ chunk.place = ctx.place
      compartment  == sameIdentity \/ (chunk.identity = NoIdentity /\ samePlace)
  IN IF \E acl \in chunk.allowedPlaces : ctx.place \notin acl THEN "acl_place_denied"
     ELSE IF \E acl \in chunk.allowedIdentities : ctx.identity \notin acl THEN "acl_identity_denied"
     ELSE IF ctx.isolated THEN IF compartment THEN "" ELSE "isolated_requires_same_compartment"
     ELSE IF samePlace \/ (chunk.place = NoPlace /\ chunk.identity = NoIdentity) THEN ""
     ELSE IF chunk.identity # NoIdentity /\ ~sameIdentity THEN "cross_identity" ELSE "cross_place"

selectInjectableMemoryChunks(chunks, ctx) == {c \in chunks : evaluateChunk(c, ctx) = ""}
=============================================================================
