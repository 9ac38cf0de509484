--------------------------- MODULE GitHubInstall ---------------------------
(***************************************************************************)
(* The webhooks GitHub sends about an App installation, the installation   *)
(* rows and github_repo places the API keeps from them, and the binding of *)
(* a repository to an installation that pull requests are planned with.    *)
(* GitHub delivers a webhook late, out of order, not at all, or again when *)
(* an operator asks for it; the handler changes the store without          *)
(* interruption, then waits for the flush, which may fail.                 *)
(***************************************************************************)
EXTENDS Integers, Sequences, FiniteSets, SequencesExt

CONSTANTS
  Installs,     \* ids of installations, an account's earlier one first
  FullName,     \* the name of each repository at first
  Names,        \* full names, as people and GitHub write them
  LowerCase,    \* the lower-case form of each name
  Granted,      \* the repositories access grants name
  MaxEvents,    \* webhooks GitHub sends
  MaxDelivered, \* deliveries of webhooks, repeated ones included
  MaxFails      \* flushes that fail

VARIABLES
  github,   \* what GitHub knows: [status, repos, name, delivered, fails]
  mail,     \* webhooks sent: [event, action, install, ..., n]
  store,    \* [installs, places]
  keys,     \* recorded delivery and body keys
  pending,  \* the keys of the handlers waiting for their flush, oldest first
  hist      \* per installation: the last webhook handled, and whether in order

Repos == DOMAIN FullName

vars == <<github, mail, store, keys, pending, hist>>

-----------------------------------------------------------------------------
(* Repositories and webhook payloads *)

parseGitHubRepoResource(name) == LowerCase[name]

(* The repository of a payload: its id may be missing (0).                 *)
repositoryFromRecord(record) ==
  [id |-> record.id, resource |-> parseGitHubRepoResource(record.name)]
normalizeRepoList(list) == [k \in 1..Len(list) |-> repositoryFromRecord(list[k])]

githubRepoPlaceExternalId(repository) ==
  IF repository.id # 0 THEN [id |-> repository.id, resource |-> ""]
  ELSE [id |-> 0, resource |-> repository.resource]

isSupportedGitHubWebhookEvent(event) ==
  event \in {"installation", "installation_repositories", "pull_request", "check_run"}

normalizeInstallationEvent(m) ==
  [type |-> "github.installation", action |-> m.action, installationId |-> m.install,
   repositories |-> normalizeRepoList(m.repositories),
   repositoriesAdded |-> normalizeRepoList(m.added),
   repositoriesRemoved |-> normalizeRepoList(m.removed)]
(* Pull request and check run events are read for the answer only.         *)
normalizePullRequestEvent(m) == [type |-> "github.pull_request", action |-> m.action]
normalizeCheckRunEvent(m) == [type |-> "github.check_run", action |-> m.action]
normalizeGitHubWebhookEvent(m) ==
  CASE m.event \in {"installation", "installation_repositories"} -> normalizeInstallationEvent(m)
    [] m.event = "pull_request" -> normalizePullRequestEvent(m)
    [] m.event = "check_run"    -> normalizeCheckRunEvent(m)

(* The delivery id and the event name; the body has a key of its own.      *)
createGitHubWebhookDeliveryDedupeKey(m) == [kind |-> "delivery", of |-> <<m.event, m.id>>]
bodyKey(m) == [kind |-> "body", of |-> m.body]

-----------------------------------------------------------------------------
(* The store *)

(* What may throw gives a set: of its result, or empty.                    *)
Throw == {}

upsertConnectorInstall(s, i, status) ==
  [s EXCEPT !.installs = {x \in s.installs : x.id # i} \cup {[id |-> i, status |-> status]}]

githubInstallStatusFromAction(action) ==
  CASE action = "deleted" -> "revoked" [] action = "suspend" -> "paused" [] OTHER -> "active"

(* Places are searched newest first, by external id or by resource, among  *)
(* those of the installation; 0 when there is none.                        *)
findGitHubRepoPlace(s, repository, i) ==
  SelectInSeq(s.places,
    LAMBDA p : /\ \/ p.externalId = githubRepoPlaceExternalId(repository)
                  \/ p.resource = repository.resource
               /\ p.install = i)

githubRepoPlaceMetadata(repository, i, status) ==
  [externalId |-> githubRepoPlaceExternalId(repository), resource |-> repository.resource,
   repositoryId |-> repository.id, install |-> i, status |-> status]

(* An external id belongs to one place, whichever installation it is of.   *)
upsertGitHubRepoPlace(s, repository, i) ==
  LET k     == findGitHubRepoPlace(s, repository, i)
      place == githubRepoPlaceMetadata(repository, i, "active")
      taken == \E j \in 1..Len(s.places) : j # k /\ s.places[j].externalId = place.externalId
  IN  CASE taken -> Throw
        [] ~taken /\ k # 0 -> {[s EXCEPT !.places[k] = place]}
        [] OTHER -> {[s EXCEPT !.places = <<place>> \o s.places]}

markGitHubRepoPlaceStatus(s, repository, i) ==
  LET k == findGitHubRepoPlace(s, repository, i)
  IN  IF k = 0 THEN s ELSE [s EXCEPT !.places[k].status = "removed"]

revokeGitHubRepoPlacesForInstall(s, i) ==
  [s EXCEPT !.places = [k \in 1..Len(s.places) |->
     IF s.places[k].install = i THEN [s.places[k] EXCEPT !.status = "revoked"] ELSE s.places[k]]]

(* Repositories are taken one by one, up to the first one that throws: the *)
(* result is the store reached and whether the handler goes on.            *)
UpsertAll(s, repositories, i) ==
  LET upTo[k \in 0..Len(repositories)] ==
        IF k = 0 THEN [s |-> s, ok |-> TRUE]
        ELSE LET before == upTo[k - 1]
                 after  == upsertGitHubRepoPlace(before.s, repositories[k], i)
             IN  IF ~before.ok THEN before
                 ELSE IF after = Throw THEN [s |-> before.s, ok |-> FALSE]
                 ELSE [s |-> CHOOSE x \in after : TRUE, ok |-> TRUE]
  IN  upTo[Len(repositories)]
MarkAll(s, repositories, i) ==
  FoldLeft(LAMBDA acc, r : markGitHubRepoPlaceStatus(acc, r, i), s, repositories)

persistGitHubInstallationEvent(s, event) ==
  LET i       == event.installationId
      status  == githubInstallStatusFromAction(event.action)
      all     == UpsertAll(upsertConnectorInstall(s, i, status),
                           event.repositories \o event.repositoriesAdded, i)
      removed == MarkAll(all.s, event.repositoriesRemoved, i)
  IN  CASE event.type # "github.installation" -> [s |-> s, ok |-> TRUE]
        [] event.type = "github.installation" /\ ~all.ok -> all
        [] OTHER -> [ok |-> TRUE, s |->
             IF status = "revoked" THEN revokeGitHubRepoPlacesForInstall(removed, i) ELSE removed]

(* Binding without a look at the status of the place.                      *)
resolveGitHubRepoBinding_AnyStatus(s, name) ==
  LET active == {k \in 1..Len(s.places) :
                  /\ s.places[k].resource = parseGitHubRepoResource(name)
                  /\ [id |-> s.places[k].install, status |-> "active"] \in s.installs}
  IN  IF Cardinality(active) = 1 THEN {s.places[k] : k \in active} ELSE Throw

(* The one active place of the repository whose installation is active.    *)
resolveGitHubRepoBinding(s, name) ==
  LET active == {k \in 1..Len(s.places) :
                  /\ s.places[k].resource = parseGitHubRepoResource(name)
                  /\ s.places[k].status = "active"
                  /\ [id |-> s.places[k].install, status |-> "active"] \in s.installs}
  IN  IF Cardinality(active) = 1 THEN {s.places[k] : k \in active} ELSE Throw

(* The granted repositories that have no binding.                          *)
githubRepoGrantBindingReadiness(s) == {r \in Granted : resolveGitHubRepoBinding(s, r) = Throw}

-----------------------------------------------------------------------------
(* GitHub: an installation and its repositories change, and a webhook is   *)
(* sent about it.  A renamed repository is told with an event the API does *)
(* not support.                                                            *)

Record(r) == [id |-> r, name |-> github.name[r]]
Records(set) == LET list == SetToSeq(set) IN [k \in 1..Len(list) |-> Record(list[k])]
Number(i) == Cardinality({k \in 1..Len(mail) : mail[k].install = i /\ mail[k].n # 0}) + 1

(* A payload says when it was made, to the second: two webhooks about the  *)
(* same change have the same body, or not.                                 *)
Send(event, action, i, n, repositories, added, removed, holds) ==
  LET content == <<event, action, i, repositories, added, removed>>
      same    == Cardinality({k \in 1..Len(mail) : mail[k].body[1] = content})
      message(second) ==
        [event |-> event, action |-> action, install |-> i, id |-> Len(mail) + 1,
         n |-> n, body |-> <<content, second>>, repositories |-> repositories,
         added |-> added, removed |-> removed, holds |-> holds]
  IN  /\ Len(mail) < MaxEvents
      /\ \E second \in {0, same} : mail' = Append(mail, message(second))
      /\ UNCHANGED <<store, keys, pending>>

Install(i) ==
  /\ github.status[i] = "none"
  /\ \A j \in Installs : j < i => github.status[j] = "deleted"
  /\ \E chosen \in SUBSET Repos \ {{}} :
       /\ github' = [github EXCEPT !.status[i] = "active", !.repos[i] = chosen]
       /\ Send("installation", "created", i, Number(i), Records(chosen), <<>>, <<>>, chosen)
  /\ UNCHANGED hist

Uninstall(i) ==
  /\ github.status[i] \in {"active", "suspended"}
  /\ github' = [github EXCEPT !.status[i] = "deleted", !.repos[i] = {}]
  /\ Send("installation", "deleted", i, Number(i), Records(github.repos[i]), <<>>, <<>>, {})
  /\ UNCHANGED hist

Suspend(i) ==
  /\ github.status[i] \in {"active", "suspended"}
  /\ LET to == IF github.status[i] = "active" THEN "suspended" ELSE "active"
     IN  /\ github' = [github EXCEPT !.status[i] = to]
         /\ Send("installation", IF to = "active" THEN "unsuspend" ELSE "suspend", i, Number(i),
                 Records(github.repos[i]), <<>>, <<>>, github.repos[i])
  /\ UNCHANGED hist

ChangeRepos(i) ==
  /\ github.status[i] = "active"
  /\ \E r \in Repos :
       LET adds  == r \notin github.repos[i]
           holds == IF adds THEN github.repos[i] \cup {r} ELSE github.repos[i] \ {r}
       IN  /\ github' = [github EXCEPT !.repos[i] = holds]
           /\ Send("installation_repositories", IF adds THEN "added" ELSE "removed", i, Number(i), <<>>,
                   IF adds THEN <<Record(r)>> ELSE <<>>, IF adds THEN <<>> ELSE <<Record(r)>>, holds)
  /\ UNCHANGED hist

Rename(r) ==
  /\ \E n \in Names :
       /\ \A q \in Repos : LowerCase[github.name[q]] # LowerCase[n]
       /\ github' = [github EXCEPT !.name[r] = n]
  /\ Send("repository", "renamed", 0, 0, <<>>, <<>>, <<>>, {})
  /\ hist' = [i \in Installs |-> [hist[i] EXCEPT !.ordered = FALSE]]

(* A webhook about something else, one in a behaviour.                     *)
Notify ==
  /\ \E event \in {"ping", "pull_request", "check_run"} :
       /\ \A k \in 1..Len(mail) : mail[k].n # 0
       /\ Send(event, "other", 0, 0, <<>>, <<>>, <<>>, {})
  /\ UNCHANGED <<github, hist>>

-----------------------------------------------------------------------------
(* POST /api/github/webhooks *)

(* A delivery id seen before is answered as before (GitHub never gives one *)
(* to two bodies, which would be refused), and so is a body seen before.   *)
Duplicate(m) ==
  createGitHubWebhookDeliveryDedupeKey(m) \in keys \/ bodyKey(m) \in keys

recordIngressDelivery(m) ==
  LET both == {createGitHubWebhookDeliveryDedupeKey(m), bodyKey(m)}
  IN  /\ keys' = keys \cup both
      /\ pending' = Append(pending, both)

Handled(m) ==
  hist' = IF m.n = 0 THEN hist
          ELSE [hist EXCEPT ![m.install] =
                 [last |-> m.n, holds |-> m.holds,
                  ordered |-> @.ordered /\ m.n \in {@.last, @.last + 1}]]

(* A webhook that is not supported is recorded and otherwise ignored; a    *)
(* handler that throws records no key, and keeps what it has changed.      *)
PostWebhook(m) ==
  LET result == persistGitHubInstallationEvent(store, normalizeGitHubWebhookEvent(m))
  IN  IF ~isSupportedGitHubWebhookEvent(m.event)
        THEN recordIngressDelivery(m) /\ UNCHANGED <<store, hist>>
        ELSE /\ store' = result.s
             /\ Handled(m)
             /\ IF result.ok THEN recordIngressDelivery(m) ELSE UNCHANGED <<keys, pending>>

Deliver(k) ==
  /\ github.delivered < MaxDelivered
  /\ github' = [github EXCEPT !.delivered = @ + 1]
  /\ IF Duplicate(mail[k]) THEN UNCHANGED <<store, keys, pending, hist>>
     ELSE PostWebhook(mail[k])
  /\ UNCHANGED mail

(* The flush of a request: when it fails its keys are dropped, and the     *)
(* changes stay in memory.                                                 *)
FlushOk ==
  pending # <<>> /\ pending' = Tail(pending) /\ UNCHANGED <<github, mail, store, keys, hist>>

removeIngressDelivery(both) == keys' = keys \ both
FlushFails ==
  /\ pending # <<>> /\ github.fails < MaxFails
  /\ github' = [github EXCEPT !.fails = @ + 1]
  /\ removeIngressDelivery(Head(pending))
  /\ pending' = Tail(pending)
  /\ UNCHANGED <<mail, store, hist>>

Init ==
  /\ github = [status |-> [i \in Installs |-> "none"], repos |-> [i \in Installs |-> {}],
               name |-> FullName, delivered |-> 0, fails |-> 0]
  /\ mail = <<>> /\ store = [installs |-> {}, places |-> <<>>]
  /\ keys = {} /\ pending = <<>>
  /\ hist = [i \in Installs |-> [last |-> 0, holds |-> {}, ordered |-> TRUE]]

Next ==
  \/ \E i \in Installs : Install(i) \/ Uninstall(i) \/ Suspend(i) \/ ChangeRepos(i)
  \/ \E r \in Repos : Rename(r)
  \/ Notify
  \/ \E k \in 1..Len(mail) : Deliver(k)
  \/ FlushOk \/ FlushFails

Spec == Init /\ [][Next]_vars

-----------------------------------------------------------------------------
(* A repository is never bound to an installation that, by the last webhook *)
(* handled about it, does not hold the repository: not after its removal,  *)
(* nor after the App was uninstalled, when the installation's webhooks were *)
(* handled in the order they were sent, each of them at least once, and no *)
(* repository was renamed.                                                 *)
BoundIsHeld ==
  \A n \in Names :
    \A binding \in resolveGitHubRepoBinding(store, n) :
      hist[binding.install].ordered => binding.repositoryId \in hist[binding.install].holds

(* Once every webhook of an active installation was handled in order, each *)
(* granted repository it holds is bound.                                   *)
HeldIsBound ==
  \A i \in Installs, r \in Repos :
    (/\ github.status[i] = "active" /\ r \in github.repos[i]
     /\ \A j \in Installs : hist[j].ordered /\ hist[j].last = Number(j) - 1)
      => github.name[r] \notin githubRepoGrantBindingReadiness(store)
=============================================================================
