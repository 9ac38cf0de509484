---------------------------- MODULE SandboxPolicy ----------------------------
(***************************************************************************)
(* packages/sandbox/src/index.ts: what a sandbox may reach, read, write    *)
(* and use.  Pure functions of the text of a policy.                       *)
(*                                                                         *)
(* A host is [kind, name, a, b]: a host name, or an address ("ip4", or     *)
(* "ip6" when it is an IPv6 one that embeds an IPv4 one) with its first two *)
(* octets.  A target is text [scheme, host, port], scheme "" when it is    *)
(* bare and port 0 when none is written.  A path is a sequence of segments.*)
(***************************************************************************)
EXTENDS Integers, Sequences, FiniteSets, SequencesExt

-----------------------------------------------------------------------------
(* Network *)

IsMetadataNetworkTarget(host) ==
  \/ host.kind = "name" /\ host.name = "metadata"
  \/ host.kind \in {"ip4", "ip6"} /\ host.name = "metadata-address"

(* The ranges that are not public, by the first two octets. *)
IsPrivateIpv4(a, b) ==
  \/ a \in {0, 10, 127} \/ a >= 224
  \/ a = 100 /\ b \in 64..127
  \/ a = 169 /\ b = 254
  \/ a = 172 /\ b \in 16..31
  \/ a = 192 /\ b = 168
  \/ a = 198 /\ b \in 18..19

IsPrivateNetworkTarget(host) ==
  IF host.kind = "name" THEN host.name \in {"localhost", "internal"}
  ELSE IsPrivateIpv4(host.a, host.b)

IsLoopbackTarget(host) ==
  IF host.kind = "name" THEN host.name = "localhost" ELSE host.a = 127

DefaultPort(scheme) == CASE scheme = "http" -> 80 [] scheme = "https" -> 443 [] OTHER -> 0

(* What new URL(...) leaves of a port: nothing, if it is the scheme's own. *)
UrlPort(scheme, port) == IF port = DefaultPort(scheme) THEN 0 ELSE port

(* An entry of an allowlist is read as a URL, of https when no scheme is given. *)
ParseNetworkAllowlistEntry(entry) ==
  [host |-> entry.host,
   port |-> UrlPort(IF entry.scheme = "" THEN "https" ELSE entry.scheme, entry.port)]

(* A target is read as a URL only when it has a scheme. *)
ParseEgressTarget(target) ==
  [host |-> target.host,
   port |-> IF target.scheme = "" THEN target.port ELSE UrlPort(target.scheme, target.port)]

MatchesEgressAllowlist_AnyPort(allowlist, host, port) ==
  \E raw \in allowlist : ParseEgressTarget(raw).host = host

(* An entry without a port matches every port. *)
MatchesEgressAllowlist(allowlist, host, port) ==
  \E raw \in allowlist :
    LET entry == ParseEgressTarget(raw)
    IN entry.host = host /\ entry.port \in {0, port}

ValidateNetworkAllowlist(network) ==
  IF network.mode = "disabled" THEN network.allowlist = {}
  ELSE /\ network.allowlist # {}
       /\ \A raw \in network.allowlist :
            LET entry == ParseNetworkAllowlistEntry(raw)
            IN /\ ~(network.blockMetadata /\ IsMetadataNetworkTarget(entry.host))
               /\ ~(network.blockPrivate /\ IsPrivateNetworkTarget(entry.host))

(* The reason of the decision; "allowlisted" is the one that allows. *)
EvaluateEgressPolicy(network, target) ==
  LET t == ParseEgressTarget(target)
  IN CASE network.mode = "disabled" -> "network_disabled"
       [] network.blockMetadata /\ IsMetadataNetworkTarget(t.host) -> "metadata_blocked"
       [] network.blockPrivate /\ IsLoopbackTarget(t.host) -> "localhost_blocked"
       [] network.blockPrivate /\ IsPrivateNetworkTarget(t.host) -> "private_network_blocked"
       [] ~MatchesEgressAllowlist(network.allowlist, t.host, t.port) -> "not_allowlisted"
       [] OTHER -> "allowlisted"

-----------------------------------------------------------------------------
(* Files *)

Normalize(path) == SelectSeq(path, LAMBDA seg : seg \notin {"", "."})

IsWithinRoot(root, path) == IsPrefix(Normalize(root), path)

RootOrder_WritableFirst == <<"worktree", "artifact", "source">>

(* The roots, in the order they are tried: the first that holds the path counts. *)
RootOrder == <<"source", "worktree", "artifact">>

(* The places in that order of the roots that hold the path. *)
ContainingRoot(roots, path) ==
  {i \in DOMAIN RootOrder : IsWithinRoot(roots[RootOrder[i]], path)}

EvaluateFilesystemAccess(roots, path, mode, size, maxWrite) ==
  LET containing == ContainingRoot(roots, Normalize(path))
  IN CASE path = <<>> -> "invalid_path"
       [] ".." \in ToSet(path) -> "path_traversal"
       [] containing = {} -> "outside_roots"
       [] mode = "write" /\ RootOrder[Min(containing)] = "source" -> "read_only_root"
       [] mode = "write" /\ size > maxWrite -> "size_exceeded"
       [] OTHER -> "allowed"

(* The roots of a policy's mounts (purpose -> target, <<>> for none); the code
   has no roots to check without a worktree and an artifact mount. *)
FilesystemPolicyFromMounts(targets) ==
  LET Either(one, other) == IF targets[one] # <<>> THEN targets[one] ELSE targets[other]
  IN [worktree |-> Either("worktree", "artifact"),
      artifact |-> Either("artifact", "worktree"),
      source   |-> IF targets["source"] # <<>> THEN targets["source"] ELSE <<"no_source_root">>]

(* A bind mount: where from, its mode and what it is for. *)
AssertSandboxMount(mount) ==
  /\ mount.from \notin {"/", "docker.sock", "credentials"}
  /\ mount.purpose = "source" => mount.mode = "read_only"

-----------------------------------------------------------------------------
(* Resources *)

(* A missing or negative request (here -1) takes the default, any other one is
   moved into the bounds. *)
ClampField(requested, bound, default) ==
  IF requested < 0 THEN default
  ELSE IF requested < bound.min THEN bound.min
  ELSE IF requested > bound.max THEN bound.max ELSE requested

(* The wall clock is never shorter than one command. *)
NormalizeResourceLimits(request, bounds, defaults) ==
  LET Field(f) == ClampField(request[f], bounds[f], defaults[f])
      clamped  == [f \in DOMAIN bounds |-> Field(f)]
  IN [clamped EXCEPT !["wallClockMs"] =
        IF @ < clamped["timeoutMs"] THEN clamped["timeoutMs"] ELSE @]

AssertSandboxResourceLimits(limits) == \A f \in DOMAIN limits : limits[f] > 0

AssertSandboxPolicy(policy) ==
  /\ ~policy.allowPrivileged
  /\ policy.network.blockMetadata
  /\ AssertSandboxResourceLimits(policy.limits)
  /\ ValidateNetworkAllowlist(policy.network)
  /\ \A mount \in policy.mounts : AssertSandboxMount(mount)
=============================================================================
