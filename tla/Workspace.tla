----------------------------- MODULE Workspace ------------------------------
(***************************************************************************)
(* The workspace an operator administers through the API: channels, access *)
(* bundles and their grants, MCP servers, principals, model and runtime    *)
(* settings, memory, and the runs started with POST /api/runs.             *)
(*                                                                         *)
(* A handler runs without interruption, so each is one action; a request   *)
(* that is refused changes nothing and is left out.  The exceptions are    *)
(* told apart here: POST /api/runs waits for the run in the middle, and a  *)
(* handler that fails half way keeps what it has done.  Audit entries and  *)
(* names are left out.                                                     *)
(***************************************************************************)
EXTENDS AccessPolicy

CONSTANTS
  Home,        \* external id of the channel the workspace starts with
  Externals,   \* external ids of channels (numbers other than ids)
  LowerCase,   \* an external id in lower case
  Resources,   \* resources a grant may be given
  Servers,     \* MCP server ids
  Budgets,     \* budget policies of the snapshot, the first the default
  Policies,    \* model policies
  Bodies,      \* bodies of POST /api/runs: [place external id, resource]
  Keys,        \* idempotency keys
  MaxOps       \* requests in one behaviour

VARIABLES
  places,     \* newest first: [id, ext, kind, sensitivity]
  bundles,    \* newest first: [id, budget, attached, grants]
  runs,       \* runs and idempotency keys: [made, keys, waiting]
  connectors, \* [mcp: registered servers, principals: external identities, settings]
  memory,     \* [sources, chunks]
  ops         \* requests so far, which number what they create

vars == <<places, bundles, runs, connectors, memory, ops>>

Counted == ops < MaxOps /\ ops' = ops + 1
Fresh   == 10 + ops

-----------------------------------------------------------------------------
(* Store lookups *)

findPlace(name) == FirstWith(places, LAMBDA p : name \in {<<"id", p.id>>, <<"ext", p.ext>>})
findBundle(id)  == CHOOSE i \in DOMAIN bundles : bundles[i].id = id
findMcpConnectorInstall(server) == connectors.mcp[server] # "none"

PlaceIds  == {places[i].id : i \in DOMAIN places}
BundleIds == {bundles[i].id : i \in DOMAIN bundles}
Names     == {<<"id", id>> : id \in PlaceIds} \cup {<<"ext", e>> : e \in Externals}

(* Whether another place has the external id, whatever its case.           *)
Taken(ext, but) == \E i \in DOMAIN places : places[i].id # but /\ LowerCase[places[i].ext] = LowerCase[ext]

(* The form a grant is stored in: a GitHub one names one repository, and a *)
(* bundle has one grant for a capability and resource.                     *)
isGitHubCapability(capability) == capability \in {"github.read", "github.branch", "github.pr"}

normalizeGrantResource(capability, resource) ==
  IF isGitHubCapability(capability)
  THEN resource.path # <<>> /\ Head(resource.path) = "github" /\ ~resource.any
  ELSE resource.path # <<>> \/ resource.any

normalizeGrantInput(grants, g, but) ==
  /\ normalizeGrantResource(g.capability, g.resource)
  /\ (g.decision = "ask") = g.requiresApproval
  /\ \A i \in DOMAIN grants :
       grants[i].id # but => <<grants[i].capability, grants[i].resource>> # <<g.capability, g.resource>>

parseMcpGrantResource(resource) == ~resource.any /\ Len(resource.path) = 3 /\ resource.path[1] = "mcp"

ensureMcpGrantReferencesRegisteredServer(g) ==
  g.capability = "mcp.tool" => parseMcpGrantResource(g.resource) /\ findMcpConnectorInstall(g.resource.path[2])

-----------------------------------------------------------------------------
(* What the store does to its lists *)

createPlace(place) == ~Taken(place.ext, NoPlace) /\ places' = <<place>> \o places

updatePlace(place) ==
  /\ ~Taken(place.ext, place.id)
  /\ places' = [i \in DOMAIN places |-> IF places[i].id = place.id THEN place ELSE places[i]]

(* The list without the place, the only one with its id.                   *)
withoutPlace(p) == RemoveAt(places, CHOOSE i \in DOMAIN places : places[i].id = p.id)

deletePlace_Attached(p) ==
  /\ \A r \in runs.made : r.place # p.id
  /\ bundles' = bundles
  /\ places' = withoutPlace(p)

(* A place with runs stays; another is taken out of every bundle.          *)
deletePlace(p) ==
  /\ \A r \in runs.made : r.place # p.id
  /\ bundles' = [i \in DOMAIN bundles |-> [bundles[i] EXCEPT !.attached = @ \ {p.id}]]
  /\ places' = withoutPlace(p)
(* The places of a new bundle were looked up by id or external id, and are *)
(* kept as written.                                                        *)
createAccessBundle(list, budget, attached) ==
  <<[id |-> Fresh, budget |-> budget, attached |-> attached, grants |-> <<>>]>> \o list

updateAccessBundle(list, at, budget) == [list EXCEPT ![at].budget = budget]
attachBundleToPlace(list, at, place)   == [list EXCEPT ![at].attached = @ \cup {place}]
detachBundleFromPlace(list, at, place) == [list EXCEPT ![at].attached = @ \ {place}]

createGrant(list, at, g)    == [list EXCEPT ![at].grants = <<[g EXCEPT !.id = Fresh]>> \o @]
updateGrant(list, at, j, g) == [list EXCEPT ![at].grants[j] = [g EXCEPT !.id = list[at].grants[j].id]]
deleteGrant(list, at, j)    == [list EXCEPT ![at].grants = RemoveAt(@, j)]

-----------------------------------------------------------------------------
(* Channels *)

SlackGrant(ext, id) ==
  [id |-> id, capability |-> "slack.read", resource |-> [path |-> <<"slack", ext>>, any |-> FALSE],
   decision |-> "allow", requiresApproval |-> FALSE]

(* A channel reads itself: the grant goes to its newest bundle, or to a new *)
(* one.  A bundle that already asks for or denies it refuses the grant, and *)
(* the request fails after the channel was written.                        *)
ensureSlackReadAccessForChannel(list, place) ==
  LET mine == {i \in DOMAIN list : place.id \in list[i].attached}
      g    == SlackGrant(place.ext, NoPlace)
      isSlackReadAllowGrant(x) == <<x.capability, x.resource, x.decision>> = <<g.capability, g.resource, g.decision>>
      newest == CHOOSE i \in mine : \A j \in mine : i <= j
  IN IF \E i \in mine : \E j \in DOMAIN list[i].grants : isSlackReadAllowGrant(list[i].grants[j])
     THEN list
     ELSE IF mine = {} THEN createGrant(createAccessBundle(list, Budgets[1], {place.id}), 1, g)
     ELSE IF normalizeGrantInput(list[newest].grants, g, NoPlace) THEN createGrant(list, newest, g)
     ELSE list

PostChannel(ext, sensitivity) ==
  LET place == [id |-> Fresh, ext |-> ext, kind |-> "slack_channel", sensitivity |-> sensitivity]
  IN /\ Counted /\ createPlace(place)
     /\ bundles' = ensureSlackReadAccessForChannel(bundles, place)
     /\ UNCHANGED <<runs, connectors, memory>>

PatchChannel(name, ext, sensitivity) ==
  /\ Counted
  /\ \E p \in findPlace(name) :
       LET place == [p EXCEPT !.ext = ext, !.sensitivity = sensitivity]
       IN updatePlace(place) /\ bundles' = ensureSlackReadAccessForChannel(bundles, place)
  /\ UNCHANGED <<runs, connectors, memory>>

DeleteChannel(name) ==
  /\ Counted /\ \E p \in findPlace(name) : deletePlace(p)
  /\ UNCHANGED <<runs, connectors, memory>>

-----------------------------------------------------------------------------
(* Bundles and grants *)

OnlyBundles(list) == Counted /\ bundles' = list /\ UNCHANGED <<places, runs, connectors, memory>>

PostBundle(budget, names) ==
  /\ \A n \in names : findPlace(n) # {}
  /\ OnlyBundles(createAccessBundle(bundles, budget, {n[2] : n \in names}))

PatchBundle(id, budget) == OnlyBundles(updateAccessBundle(bundles, findBundle(id), budget))

PostBundlePlace(id, name) ==
  \E p \in findPlace(name) : OnlyBundles(attachBundleToPlace(bundles, findBundle(id), p.id))

DeleteBundlePlace(id, name) ==
  \E p \in findPlace(name) : OnlyBundles(detachBundleFromPlace(bundles, findBundle(id), p.id))

PostGrant(id, g) ==
  /\ ensureMcpGrantReferencesRegisteredServer(g)
  /\ normalizeGrantInput(bundles[findBundle(id)].grants, g, NoPlace)
  /\ OnlyBundles(createGrant(bundles, findBundle(id), g))

PatchGrant(id, j, g) ==
  LET grants == bundles[findBundle(id)].grants
  IN /\ j \in DOMAIN grants
     /\ ensureMcpGrantReferencesRegisteredServer(g)
     /\ normalizeGrantInput(grants, g, grants[j].id)
     /\ OnlyBundles(updateGrant(bundles, findBundle(id), j, g))

DeleteGrant(id, j) ==
  /\ j \in DOMAIN bundles[findBundle(id)].grants
  /\ OnlyBundles(deleteGrant(bundles, findBundle(id), j))

-----------------------------------------------------------------------------
(* Connectors, principals and settings *)

OnlyConnectors(record) == Counted /\ connectors' = record /\ UNCHANGED <<places, bundles, runs, memory>>

(* An MCP server's origin has to fit its transport and hold no secret.     *)
containsCredentialLikeMcpOrigin(origin) == origin = "secret"
validateMcpOrigin(transport, origin) ==
  /\ ~containsCredentialLikeMcpOrigin(origin)
  /\ \/ transport \in {"http", "sse"} /\ origin = "https"
     \/ transport = "stdio" /\ origin \in {"https", "command"}
     \/ transport = "in_process" /\ origin = "builtin"

PostMcp(server, transport, origin) ==
  /\ validateMcpOrigin(transport, origin)
  /\ OnlyConnectors([connectors EXCEPT !.mcp[server] = IF @ = "none" THEN "pending" ELSE @])

PatchMcp(server, status) ==
  /\ findMcpConnectorInstall(server)
  /\ OnlyConnectors([connectors EXCEPT !.mcp[server] = status])

linkPrincipalExternalIdentity(c, principal, external) == [c EXCEPT !.principals[principal] = external]
updateAgent(c, policy)              == [c EXCEPT !.settings.default = policy]
updateModelPolicy(c, policy, cents) == [c EXCEPT !.settings.cents[policy] = cents]
updateRuntimeProfile(c, adapter)    == [c EXCEPT !.settings.adapter = adapter]

(* An external identity belongs to one principal.                          *)
PatchPrincipal(principal, external) ==
  /\ \A q \in DOMAIN connectors.principals : q # principal => connectors.principals[q] # external
  /\ OnlyConnectors(linkPrincipalExternalIdentity(connectors, principal, external))

PatchAgent(policy)              == OnlyConnectors(updateAgent(connectors, policy))
PatchModelPolicy(policy, cents) == OnlyConnectors(updateModelPolicy(connectors, policy, cents))
PatchRuntimeProfile(adapter)    == OnlyConnectors(updateRuntimeProfile(connectors, adapter))

-----------------------------------------------------------------------------
(* Memory *)

OnlyMemory(record) == Counted /\ memory' = record /\ UNCHANGED <<places, bundles, runs, connectors>>

recordMemorySource(source) == [memory EXCEPT !.sources = @ \cup {source}]
recordMemoryChunks(chunks) == [memory EXCEPT !.chunks = @ \cup chunks]

PostMemorySource(place, identity) ==
  /\ place \in PlaceIds \cup {NoPlace}
  /\ OnlyMemory(recordMemorySource([id |-> Fresh, place |-> place, identity |-> identity]))

(* A chunk takes its source's place and identity unless it names its own.  *)
PostMemoryChunks(source, place, identity, acl) ==
  LET chunk == [id |-> Fresh, source |-> source.id,
                place    |-> IF place # NoPlace THEN place ELSE source.place,
                identity |-> IF identity # NoIdentity THEN identity ELSE source.identity,
                allowedPlaces |-> acl, allowedIdentities |-> {}]
  IN OnlyMemory(recordMemoryChunks({chunk}))

(* GET /api/memory/retrieve *)
Retrieve(place) ==
  selectInjectableMemoryChunks(memory.chunks,
    normalizeContext(place,
      resolveAgentIdentity(deriveDefaultIdentityProfiles(places, bundles), place, bundles, {})))

-----------------------------------------------------------------------------
(* POST /api/runs *)

capabilityKindForCapability(capability) ==
  IF capability \in {"github.read", "github.branch", "github.pr", "sandbox.exec"} THEN "coding"
  ELSE IF capability \in {"linear.read", "linear.write", "mcp.tool"} THEN "workflow" ELSE "answer"

findCapabilityProfile(kind) == connectors.settings.profiles[kind]

resolveRunProfiles(capability) ==
  LET own == findCapabilityProfile(capabilityKindForCapability(capability))
  IN IF own # NoPlace THEN own ELSE connectors.settings.default

(* Whether a request is answered from its key, without a run.              *)
Answered(key) == key \in DOMAIN runs.keys

(* The run is created and the request waits for it to be worked on.        *)
RunRequest(key, body) ==
  /\ Counted /\ ~Answered(key)
  /\ \E p \in findPlace(<<"ext", body.ext>>) :
       LET policy == evaluatePolicy(bundlesForPlace(bundles, p),
                       [capability |-> body.capability, resource |-> body.resource])
           run == [id |-> Fresh, place |-> p.id, key |-> key, policy |-> resolveRunProfiles(body.capability),
                   status |-> IF policy.decision = "deny" THEN "failed"
                              ELSE IF policy.requiresApproval THEN "waiting_approval" ELSE "queued"]
       IN runs' = [runs EXCEPT !.made = @ \cup {run},
                               !.waiting = @ \cup {[run |-> run.id, key |-> key, body |-> body]}]
  /\ UNCHANGED <<places, bundles, connectors, memory>>

(* Only then is the key recorded, and the request answered.                *)
RunAnswer(r) ==
  /\ runs' = [runs EXCEPT !.waiting = @ \ {r},
                          !.keys = [k \in DOMAIN @ \cup {r.key} |-> IF k = r.key THEN r ELSE @[k]]]
  /\ UNCHANGED <<places, bundles, connectors, memory, ops>>

-----------------------------------------------------------------------------

Seeded(id, ext, sensitivity) == [id |-> id, ext |-> ext, kind |-> "slack_channel", sensitivity |-> sensitivity]

(* A workspace with one channel, whose bundle it shares with nobody.       *)
Init ==
  \E sensitivity \in {"internal", "restricted"} :
    /\ places = <<Seeded(1, Home, sensitivity)>>
    /\ bundles = <<[id |-> 2, budget |-> Budgets[1], attached |-> {1}, grants |-> <<SlackGrant(Home, 3)>>]>>
    /\ runs = [made |-> {}, keys |-> <<>>, waiting |-> {}]
    /\ connectors = [mcp |-> [x \in Servers |-> "none"], principals |-> [p \in {"ada", "bob"} |-> "none"],
                     settings |-> [default |-> Policies[1], adapter |-> "stub", cents |-> [p \in {Policies[1], Policies[2]} |-> 1],
                                   profiles |-> [k \in {"coding", "workflow", "answer"} |->
                                                   IF k = "coding" THEN Policies[2] ELSE NoPlace]]]
    /\ memory = [sources |-> {}, chunks |-> {}]
    /\ ops = 0

Grants ==
  {[id |-> 0, capability |-> c, resource |-> r, decision |-> d, requiresApproval |-> d = "ask"] :
     c \in {"slack.read", "github.read", "mcp.tool"}, r \in Resources, d \in {"allow", "ask", "deny"}}
Identities == {NoIdentity} \cup {<<"place", id>> : id \in PlaceIds}

(* Each counts itself; none is looked at once MaxOps are used.            *)
Requests ==
  \/ \E e \in Externals, s \in {"internal", "restricted"} :
       PostChannel(e, s) \/ \E n \in Names : PatchChannel(n, e, s)
  \/ \E n \in Names : DeleteChannel(n)
  \/ \E ns \in {{n} : n \in Names} \cup {{}} : PostBundle(Budgets[1], ns)
  \/ \E b \in BundleIds :
       \/ PatchBundle(b, Budgets[2])
       \/ \E n \in Names : PostBundlePlace(b, n) \/ DeleteBundlePlace(b, n)
       \/ \E g \in Grants : PostGrant(b, g) \/ PatchGrant(b, 1, g)
       \/ DeleteGrant(b, 1)
  \/ \E s \in Servers :
       \/ \E t \in {"http", "stdio", "in_process"}, o \in {"https", "command", "builtin", "secret"} : PostMcp(s, t, o)
       \/ PatchMcp(s, "paused")
  \/ \E p \in {"ada", "bob"} : PatchPrincipal(p, "u")
  \/ PatchAgent(Policies[2]) \/ PatchModelPolicy(Policies[1], 2) \/ PatchRuntimeProfile("sandbox")
  \/ \E p \in PlaceIds \cup {NoPlace}, i \in Identities : PostMemorySource(p, i)
  \/ \E s \in memory.sources, p \in PlaceIds \cup {NoPlace}, i \in Identities,
        acl \in {{}} \cup {{{id}} : id \in PlaceIds} : PostMemoryChunks(s, p, i, acl)
  \/ \E k \in Keys, b \in Bodies : RunRequest(k, b)

Next ==
  \/ ops < MaxOps /\ Requests
  \/ \E r \in runs.waiting : RunAnswer(r)

Spec == Init /\ [][Next]_vars

-----------------------------------------------------------------------------

(* Deleting channels leaves nothing that points at them: each channel id a *)
(* bundle is attached to is one that exists, and a run has its place.      *)
(* External ids are set aside: createAccessBundle keeps one as written,    *)
(* where it attaches the bundle to nothing.                                *)
ReferencesResolve ==
  /\ \A i \in DOMAIN bundles : bundles[i].attached \subseteq PlaceIds \cup Externals
  /\ \A r \in runs.made : r.place \in PlaceIds

(* Memory kept for one place and for no identity is given to no other      *)
(* place, whatever channels are renamed, reclassified, detached or deleted *)
(* after it was recorded; and a restricted channel is given nothing that   *)
(* is the workspace's.                                                     *)
MemoryConfined ==
  \A i \in DOMAIN places : \A c \in Retrieve(places[i]) :
    /\ c.identity = NoIdentity /\ c.place # NoPlace => c.place = places[i].id
    /\ places[i].sensitivity \in Isolating => c.place # NoPlace \/ c.identity # NoIdentity

(* Memory bound to an identity is never given to another one:              *)
(* selectInjectableMemoryChunks says "NEVER chunks bound to a DIFFERENT    *)
(* specific place or identity".                                            *)
IdentityMemoryConfined ==
  \A i \in DOMAIN places : \A c \in Retrieve(places[i]) :
    c.identity # NoIdentity => c.identity = <<"place", places[i].id>>

(* Requests that carry the same idempotency key make one run.              *)
OneRunPerKey == \A r, q \in runs.made : r.key = q.key => r = q
=============================================================================
