----------------------------- MODULE MCServices -----------------------------
(***************************************************************************)
(* The services around the queue, checked in one run: the values of those  *)
(* in Services, and the others, whose properties only this run checks.     *)
(***************************************************************************)
EXTENDS Services, TLC

CONSTANT Units   \* the services a run is about

-----------------------------------------------------------------------------
(* Sandbox: two workers, two attempts *)

Host(kind, name, a, b) == [kind |-> kind, name |-> name, a |-> a, b |-> b]
Api     == Host("name", "api", 0, 0)
Meta    == Host("ip4", "metadata-address", 169, 254)
Text(scheme, host, port) == [scheme |-> scheme, host |-> host, port |-> port]

Networks ==
  { [mode |-> mode, allowlist |-> list, blockMetadata |-> TRUE, blockPrivate |-> private] :
      mode \in {"disabled", "egress_allowlist"}, private \in BOOLEAN,
      list \in {{}} \cup {{Text(s, h, p)} : s \in {"", "http", "https"},
                           h \in {Api, Meta, Host("ip4", "", 10, 0)}, p \in {0, 443, 8443}} }

MountTargets ==
  { [source |-> src, worktree |-> tree, artifact |-> art] :
      src \in {<<>>, <<"ws">>, <<"ws", "src">>}, tree \in {<<>>, <<"ws">>, <<"ws", "src", "tree">>},
      art \in {<<>>, <<"out">>} }

NoMounts == [source |-> <<>>, worktree |-> <<>>, artifact |-> <<>>]
Limits   == [cpuCount |-> 1, timeoutMs |-> 1]
Policy(network, targets) ==
  [network |-> network, targets |-> targets, limits |-> Limits, allowPrivileged |-> FALSE,
   mounts |-> {[from |-> "/repo", purpose |-> "source", mode |-> "read_only"]}]

Open == CHOOSE n \in Networks : n.blockPrivate /\ n.allowlist = {Text("https", Api, 0)}
MCSandboxPolicies == {Policy(n, NoMounts) : n \in Networks} \cup {Policy(Open, t) : t \in MountTargets}

MCSandboxWorkers == {"w1", "w2"}
MCSandboxTargets == {Text("https", Api, 0), Text("", Api, 8443), Text("", Meta, 443)}
MCSandboxPaths == {<<"ws", "src", ".", "a">>, <<"ws", "..", "b">>, <<"out">>}

-----------------------------------------------------------------------------
(* The API's middleware: a caller with an operator's token, two peers, two *)
(* environments; every bucket but the first is over the limit of buckets   *)

Req(method, path, peer, token, cookie, csrf) ==
  [method |-> method, path |-> path, peer |-> peer, declared |-> 0, size |-> 1,
   token |-> token, cookie |-> cookie, csrf |-> csrf]
Env(bootstrap, tokens, deployed) ==
  [bootstrap |-> bootstrap, roleTokens |-> tokens, sessions |-> TRUE, local |-> TRUE,
   production |-> deployed, trustProxy |-> deployed]

MCApiRequests ==
  {Req("POST", <<"auth", "session">>, "p1", "op", c, 0) : c \in {0, 1}}
  \cup {Req("POST", <<"channels">>, "p1", "op", c, c) : c \in {0, 1, 2}}
  \cup {Req("POST", <<"runs">>, "p1", "op", 1, 0), Req("OPTIONS", <<"runs">>, "p1", "", 0, 0),
        [Req("GET", <<"runs">>, "p2", "op", 0, 0) EXCEPT !.size = 2],
        Req("POST", <<"slack", "events">>, "p2", "", 0, 0)}
MCApiConfigs ==
  {Env("boot", <<[token |-> "op", role |-> "operator", principal |-> "o"]>>, TRUE), Env("", <<>>, FALSE)}

-----------------------------------------------------------------------------
(* Credentials: two workspaces, a vault with one key, another key of the   *)
(* same id or none; leases of at most 2 ticks, of a credential that        *)
(* expires at 2 and of one that does not                                   *)

Lent(id, status, expiresAt, rotationDueAt, scopes) ==
  [id |-> id, status |-> status, expiresAt |-> expiresAt, rotationDueAt |-> rotationDueAt, scopes |-> scopes]

MCCredentialVaults == {{}, {[key |-> 1, keyId |-> 1]}, {[key |-> 2, keyId |-> 1]}}
MCCredentialRecords ==
  {Lent(1, "active", {2}, {}, {"read"}), Lent(2, "rotation_due", {}, {1}, {}),
   Lent(3, "revoked", {}, {}, {}), Lent(4, "disabled", {1}, {}, {})}
MCCredentialTtls == {{}, {2}, {3}, {0}}

-----------------------------------------------------------------------------
(* MCP gateway: one tool whose server presents one schema after another *)

Obj(props, required, additional) ==
  [type |-> "object", props |-> props, required |-> required, additional |-> additional]
Str == [type |-> "string"]
Num == [type |-> "number"]
Closed == [type |-> "none"]
Anything == [type |-> "any"]
Tool(input, risk) == [input |-> input, risk |-> risk, text |-> ""]
Value(fields) == [kind |-> "object", fields |-> fields]
Word(text) == [kind |-> "string", text |-> text]

MCToolSchemas ==
  { Tool(Obj("q" :> Str, {}, Closed), "read_internal"),
    Tool(Obj("q" :> Str, {"q"}, Closed), "read_internal"),
    Tool(Obj("q" :> Str @@ "n" :> Num, {}, Closed), "write_external"),
    Tool(Obj("q" :> [type |-> "array", items |-> Str], {}, Anything), "privileged"),
    Tool(Obj("q" :> [type |-> "tuple"], {}, Closed), "read_internal") }

Mcp == INSTANCE McpGateway WITH
  ToolSchemas <- MCToolSchemas,
  Inputs <- { Value("q" :> Word("x")), Value(<<>>),
              Value("q" :> [kind |-> "array", elems |-> <<Word("x")>>]) },
  Outputs <- { Value("token" :> Word("x")), [kind |-> "array", elems |-> <<Word("credential")>>] },
  Grant <- [decision |-> "allow", risk |-> "write_draft", requiresApproval |-> FALSE],
  RequestIds <- {"run:tool"}, MaxPresented <- 3, MaxSent <- 1,
  server <- s1, cache <- s2, allowed <- s3, request <- s4, approval <- s5, sent <- s6

(* A tool is called only under the first schema its server presented or one an
   administrator approved, and only if its request was made under that one
   (ToolSchemaCache.upsert and approve, validateExecutableRequest). *)
ReviewedSchemasOnly == unit = "mcp" => Mcp!ReviewedSchemasOnly
(* Where additional properties are forbidden, a drift detectToolSchemaDrift calls
   compatible keeps valid inputs valid. *)
CompatibleKeepsInputs == unit = "mcp" => Mcp!CompatibleKeepsInputs

-----------------------------------------------------------------------------
(* Slack callbacks: two of them, each delivered twice, and two faults *)

Callback(event, user) == [event |-> event, team |-> "t1", channel |-> "c", user |-> user]
MCSlackOps ==
  { Callback("channel_joined", "u"), Callback("member_joined_channel", "bot"),
    Callback("member_left_channel", "bot"), Callback("member_left_channel", "u"),
    Callback("app_uninstalled", ""), Callback("tokens_revoked", ""),
    [Callback("message.im", "u") EXCEPT !.channel = "d"],
    Callback("command", "u"), Callback("command", "stranger"),
    Callback("patch_channel", ""), Callback("manual_install", "") }
  \cup { [event |-> e, team |-> "t1", channel |-> "c", user |-> "u",
          accessSummary |-> b, allowed |-> b] : e \in {"app_mention", "reaction_added"}, b \in BOOLEAN }
  \cup { [event |-> "approval", team |-> "t1", channel |-> "c", user |-> "u", payload |-> 1,
          late |-> late, decision |-> "approved"] : late \in BOOLEAN }
  \cup { [event |-> "oauth", team |-> "t1", signed |-> TRUE, age |-> age] : age \in {600, 601} }

-----------------------------------------------------------------------------
(* The workspace: three requests, on channels whose external ids 101 and   *)
(* 103 differ in case only                                                 *)

Resource(path) == [path |-> path, any |-> FALSE]

MCWorkLowerCase == 101 :> 101 @@ 102 :> 102 @@ 103 :> 101
MCWorkResources ==
  {[path |-> <<>>, any |-> TRUE], Resource(<<"github", "o/r">>), Resource(<<"mcp", "s", "t">>)}
MCWorkLists == <<1, 2>>
MCWorkBodies ==
  {[ext |-> 101, capability |-> "slack.read", resource |-> Resource(<<"slack", 101>>)],
   [ext |-> 102, capability |-> "mcp.tool", resource |-> Resource(<<"mcp", "s", "t">>)]}

-----------------------------------------------------------------------------
(* GitHub: the App is installed, removed and installed again; repository 1 *)
(* is written with a capital                                               *)

Gh == INSTANCE GitHubInstall WITH
  Installs <- {11, 12}, FullName <- <<"A", "b">>, Names <- {"A", "b", "c"},
  LowerCase <- ("A" :> "a" @@ "b" :> "b" @@ "c" :> "c"), Granted <- {"A"},
  MaxEvents <- 3, MaxDelivered <- 4, MaxFails <- 1,
  github <- s1, mail <- s2, store <- s3, keys <- s4, pending <- s5, hist <- s6

(* A repository is bound only to an installation that, by its webhooks handled
   in order, holds it (resolveGitHubRepoBinding). *)
BoundIsHeld == unit = "github" => Gh!BoundIsHeld
(* Once an active installation's webhooks were handled in order, each granted
   repository it holds is bound. *)
HeldIsBound == unit = "github" => Gh!HeldIsBound

-----------------------------------------------------------------------------
(* A draft pull request: two workers, three attempts; one proposal holds   *)
(* what looks like a secret, one a path that is not safe                   *)

Proposal(path, text) ==
  [title |-> "Bek run", baseBranch |-> "main", headBranch |-> "bek/run", labels |-> <<"bek">>,
   reviewers |-> <<>>, changes |-> <<[path |-> path, content |-> text, deletion |-> FALSE]>>]

MCPullWorkers == {"w1", "w2"}
MCPullProposals ==
  {Proposal(<<".bek", "run">>, "text"), Proposal(<<".bek", "run">>, "secret"),
   Proposal(<<"..", "run">>, "text"),
   [Proposal(<<".bek">>, "text") EXCEPT !.labels = <<>>, !.reviewers = <<"u">>]}
MCPullTokenAnswers ==
  {[permissions |-> [contents |-> c, metadata |-> "read", pull_requests |-> "write"], ttl |-> t] :
     c \in {"read", "write"}, t \in {60, 61}}
MCPullRedacted == "text" :> "text" @@ "secret" :> "redacted"

-----------------------------------------------------------------------------
(* Snapshots in Postgres: two changes of a seeded store, one fault.  Ids    *)
(* given to what a change creates start at 10; 101 and 102 are external, 9 *)
(* is no principal's.                                                      *)

StoreChanges ==
  {[kind |-> "install", external |-> {1}, by |-> by] : by \in {{}, {2}, {9}}}
  \cup {[kind |-> "approval", approval |-> a, run |-> 1, action |-> 1, payload |-> 1, by |-> {2}] : a \in {21, 22}}
  \cup {[kind |-> "event", run |-> 1, event |-> e] : e \in {0, 7, 8}}
  \cup {[kind |-> "bundle", name |-> n, places |-> p] : n \in {1, 2}, p \in {{10}, {101}}}
  \cup {[kind |-> k, source |-> 31, place |-> {1}] : k \in {"source", "chunk", "forget"}}
  \cup {[kind |-> k, key |-> 1, run |-> {1}] : k \in {"ingress", "outbound"}}
  \cup {[kind |-> "credential", install |-> {10}], [kind |-> "audit", actor |-> {2}, run |-> {1}],
         [kind |-> "place", external |-> 102], [kind |-> "delete_place", place |-> 10],
         [kind |-> "grant", bundle |-> 1, resource |-> 2],
         [kind |-> "memory source", place |-> {1}], [kind |-> "memory chunk", source |-> 10]}
  \cup {[kind |-> "name", of |-> t, row |-> 1, name |-> 2] : t \in {"accessBundles", "modelPolicies", "runtimeProfiles"}}
  \cup {[kind |-> "run", place |-> 1, requester |-> r, capability |-> {}, resource |-> {1}] : r \in {2, 9}}

Snp == INSTANCE SnapshotRepository WITH
  Changes <- StoreChanges, MaxChanges <- 2, MaxFaults <- 1,
  snap <- s1, queue <- s2, db <- s3, tx <- s4, pending <- s5, hist <- s6

(* The rows of the last save read back as the snapshot that was saved, but for
   what no row is made from (snapshotToRows, deleteCurrentSnapshotRows,
   rowsToSnapshot). *)
SavedReadsBack == unit = "snapshot" => Snp!SavedReadsBack
(* A model call whose ledger row was written outside a save's gap between its
   reading and its deletes is counted once ever after. *)
LedgerKept == unit = "snapshot" => Snp!LedgerKept
(* A foreign key or a unique index refuses a save only for the things the store
   is known to let through (updateAccessBundle, updateRuntimeProfile, createRun,
   createAccessBundle, upsertApprovalRequest, upsertConnectorInstall). *)
SavableSaves == unit = "snapshot" => Snp!SavableSaves
(* No ledger write is refused for the run event it names
   (docs/reference/data-model.md). *)
UsageNeverRefused == unit = "snapshot" => Snp!UsageNeverRefused
(* A stored chunk is read with the place it was stored for, while that place
   exists (memory-repository.ts). *)
ChunksKeepPlace == unit = "snapshot" => Snp!ChunksKeepPlace

-----------------------------------------------------------------------------

AllStarts ==
  \/ Starts
  \/ unit = "mcp" /\ Mcp!Init
  \/ unit = "github" /\ Gh!Init
  \/ unit = "snapshot" /\ Snp!Init

AllSteps ==
  \/ Steps
  \/ unit = "mcp" /\ Mcp!Next
  \/ unit = "github" /\ Gh!Next
  \/ unit = "snapshot" /\ Snp!Next

Init == unit \in Units /\ AllStarts
Next == UNCHANGED unit /\ AllSteps

AllSpec == Init /\ [][Next]_vars
=============================================================================
