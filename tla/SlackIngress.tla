---------------------------- MODULE SlackIngress ----------------------------
(***************************************************************************)
(* The callbacks Slack sends to the API: events, slash commands, approval  *)
(* buttons and the OAuth redirect.  Slack may deliver a callback late, out *)
(* of order and more than once, and repeats it until it is answered with   *)
(* success; a handler runs without interruption up to the flush of the     *)
(* store, and only then answers.  Every store call queues a snapshot of    *)
(* its own, snapshots are saved one by one, and a save may fail or the     *)
(* process may stop between any two of them.                               *)
(***************************************************************************)
EXTENDS Integers, Sequences, FiniteSets, SequencesExt

CONSTANTS
  Ops,            \* callbacks and admin requests that may arrive
  Mapped,         \* Slack users linked to a Bek principal
  DisabledPlaces, \* places whose agent identity is switched off
  MaxOps,         \* callbacks in one behaviour
  MaxTries,       \* deliveries of one callback
  MaxFaults       \* failed saves and restarts in one behaviour

VARIABLES
  store,    \* the snapshot in memory
  saved,    \* the snapshot last written
  chain,    \* [queue, error, fails, stops]: snapshots still to save
  inbox,    \* callbacks sent: [op, tries left, acked]
  requests, \* requests waiting for their flush: [at, waits, pc]
  seen      \* history: [lost, exchanged, left]

vars == <<store, saved, chain, inbox, requests, seen>>

Bot == "bot"

(* A place that does not exist, and the snapshot of a workspace with one   *)
(* active install and one approval waiting in channel "c".                 *)
NoPlace == [kind |-> "none", team |-> "", member |-> "unset", read |-> "none"]
Channel(team, member, read) ==
  [kind |-> "slack_channel", team |-> team, member |-> member, read |-> read]

(* The kind of a callback: the event types Slack sends are folded into a   *)
(* few, and what a bot wrote is not answered.                              *)
normalizeSlackEvent(op) ==
  CASE op.event \in {"channel_joined", "member_joined_channel"} -> "channel_joined"
    [] op.event \in {"channel_left", "member_left_channel"} -> "channel_left"
    [] op.event \in {"app_uninstalled", "tokens_revoked"} -> op.event
    [] op.user = Bot -> "unknown"
    [] op.event = "message.im" -> "dm"
    [] op.event = "app_mention" -> "mention"
    [] op.event = "reaction_added" -> "reaction"
    [] OTHER -> "unknown"

Admin(op) == op.event \in {"patch_channel", "manual_install"}
Kind(op) ==
  IF Admin(op) \/ op.event \in {"command", "approval", "oauth"} THEN op.event
  ELSE normalizeSlackEvent(op)

-----------------------------------------------------------------------------
(* Lookups in a snapshot *)

activeSlackInstallForTeam(s, team) == s.install[team].status = "active"
slackConnectorInstallForTeam(s, team) == s.install[team].status # "none"

(* Scopes are read from the install and from its active credential.        *)
latestSlackCredential(s, team) == s.credential[team] = "active"
slackRequiredScopeReadiness(s, team) ==
  s.install[team].scopes \/ (latestSlackCredential(s, team) /\ s.install[team].granted)
requireActiveSlackInstall(s, team) ==
  activeSlackInstallForTeam(s, team) /\ slackRequiredScopeReadiness(s, team)

slackPlaceAcceptsTeam(s, place, team, requireBotMembership) ==
  /\ requireBotMembership => place.member # "no"
  /\ IF place.team # ""
       THEN team = place.team /\ activeSlackInstallForTeam(s, place.team)
       ELSE \/ \A t \in DOMAIN s.install : s.install[t].status = "none"
            \/ activeSlackInstallForTeam(s, team)

resolveSlackPlaceWithMembership(s, channel, team, requireBotMembership) ==
  /\ s.places[channel].kind = "slack_channel"
  /\ slackPlaceAcceptsTeam(s, s.places[channel], team, requireBotMembership)
resolveSlackPlace(s, channel, team) ==
  resolveSlackPlaceWithMembership(s, channel, team, TRUE)
resolveSlackPlaceIgnoringBotMembership(s, channel, team) ==
  resolveSlackPlaceWithMembership(s, channel, team, FALSE)

(* The state parameter: signed, at most a minute ahead and ten minutes old *)
(* (ages in seconds).                                                      *)
verifySlackOAuthState(op) == op.signed /\ op.age >= -60 /\ op.age <= 600

slackPrincipalIdForUser(op) == op.user \in Mapped

(* The identity of the place must be enabled.                              *)
governingRunIdentity(place) == place \notin DisabledPlaces

-----------------------------------------------------------------------------
(* What a handler does: the snapshots its store calls queue, one after     *)
(* another, and how it ends ("error" is a throw: no key is recorded).      *)

Done(status, steps) == [status |-> status, steps |-> steps]
Ignored == Done("ignored", <<>>)

(* The channel's own read grant is added unless it is there; the store     *)
(* refuses a second grant for the resource in the same bundle, so a grant  *)
(* that denies or asks makes the whole request throw.                      *)
ensureSlackReadAccessForChannel(s, channel, before) ==
  CASE s.places[channel].read = "allow" -> Done("processed", before)
    [] s.places[channel].read = "none"  ->
         Done("processed", Append(before, [s EXCEPT !.places[channel].read = "allow"]))
    [] OTHER -> Done("error", before)

(* A DM gets a bundle of its own beside whatever is attached.              *)
ensureSlackReadAccessForDm(s, dm) ==
  IF s.places[dm].read = "none" THEN [s EXCEPT !.places[dm].read = "allow"] ELSE s

(* channel_joined and channel_left are about Bek; the member events say    *)
(* whom they are about.                                                    *)
IsBekItself(op) == op.event \in {"channel_joined", "channel_left"} \/ op.user = Bot

handleSlackChannelJoinedEvent(s, op) ==
  LET joined == [s EXCEPT !.places[op.channel].member = "yes", !.places[op.channel].team = op.team]
      added  == [s EXCEPT !.places[op.channel] = Channel(op.team, "yes", "none")]
  IN  IF ~activeSlackInstallForTeam(s, op.team) \/ ~IsBekItself(op) THEN Ignored
      ELSE IF resolveSlackPlaceIgnoringBotMembership(s, op.channel, op.team)
        THEN ensureSlackReadAccessForChannel(joined, op.channel, <<joined>>)
      ELSE IF s.places[op.channel].kind = "slack_channel" THEN Ignored
      ELSE ensureSlackReadAccessForChannel(added, op.channel, <<added>>)

handleSlackChannelLeftEvent(s, op) ==
  IF \/ ~activeSlackInstallForTeam(s, op.team) \/ ~IsBekItself(op)
     \/ ~resolveSlackPlaceIgnoringBotMembership(s, op.channel, op.team)
    THEN Ignored
    ELSE Done("processed", << [s EXCEPT !.places[op.channel].member = "no",
                                        !.places[op.channel].team = op.team] >>)

revokeActiveSlackCredentials(s, team) ==
  IF s.credential[team] = "active" THEN << [s EXCEPT !.credential[team] = "revoked"] >> ELSE <<>>

handleSlackWorkspaceLifecycleEvent(s, op) ==
  LET revoked == [s EXCEPT !.install[op.team].status = "revoked"]
  IN  IF ~slackConnectorInstallForTeam(s, op.team) THEN Ignored
      ELSE IF Kind(op) = "app_uninstalled"
        THEN Done("processed", <<revoked>> \o revokeActiveSlackCredentials(revoked, op.team))
        ELSE Done("processed", revokeActiveSlackCredentials(s, op.team))

(* A run for a callback; denied runs are recorded too.                     *)
createRunAndQueue(s, at, place) ==
  [s EXCEPT !.runs = @ \cup {[n |-> Cardinality(@) + 1, at |-> at, place |-> place]}]

getOrCreateSlackDmPlace(s, op) ==
  [s EXCEPT !.places[op.channel] =
     IF @.kind = "slack_dm" THEN [@ EXCEPT !.team = op.team]
     ELSE [kind |-> "slack_dm", team |-> op.team, member |-> "unset", read |-> "none"]]

handleSlackDmEvent(s, op, at) ==
  LET placed == getOrCreateSlackDmPlace(s, op)
      ready  == ensureSlackReadAccessForDm(placed, op.channel)
  IN  IF ~activeSlackInstallForTeam(s, op.team) \/ ~slackPrincipalIdForUser(op) THEN Ignored
      ELSE IF ~governingRunIdentity(op.channel) THEN Done("error", <<placed, ready>>)
      ELSE Done("processed", <<placed, ready, createRunAndQueue(ready, at, op.channel)>>)

(* A mention or a reaction; asking what Bek may access only queues a       *)
(* message (SlackOutbox) and makes no run.                                 *)
MentionOrReaction(s, op, at) ==
  IF \/ ~requireActiveSlackInstall(s, op.team)
     \/ Kind(op) = "reaction" /\ ~op.allowed
     \/ ~resolveSlackPlace(s, op.channel, op.team)
     \/ ~slackPrincipalIdForUser(op)
    THEN Ignored
  ELSE IF Kind(op) = "mention" /\ op.accessSummary THEN Done("processed", <<>>)
  ELSE IF ~governingRunIdentity(op.channel) THEN Done("error", <<>>)
  ELSE Done("processed", << createRunAndQueue(s, at, op.channel) >>)

SlackCommand(s, op, at) ==
  IF \/ ~requireActiveSlackInstall(s, op.team)
     \/ ~resolveSlackPlace(s, op.channel, op.team)
     \/ ~slackPrincipalIdForUser(op)
    THEN Ignored
  ELSE IF ~governingRunIdentity(op.channel) THEN Done("error", <<>>)
  ELSE Done("processed", << createRunAndQueue(s, at, op.channel) >>)

(* The button must come from the run's channel, in the workspace its       *)
(* message was posted to; an approval past its time is marked on the way.  *)
validateSlackApprovalInteractionContext(s, op) ==
  CASE \/ op.payload # s.approval.payload
       \/ ~resolveSlackPlace(s, op.channel, op.team) \/ op.channel # s.approval.place -> "invalid"
    [] s.approval.status # "pending" -> "stale"
    [] op.late -> "expired"
    [] OTHER -> "ok"

SlackInteraction(s, op) ==
  LET context == validateSlackApprovalInteractionContext(s, op)
  IN  CASE ~slackPrincipalIdForUser(op) -> Done("refused", <<>>)
        [] ~requireActiveSlackInstall(s, op.team) -> Done("refused", <<>>)
        [] context = "invalid" -> Done("refused", <<>>)
        [] context = "stale" -> Ignored
        [] context = "expired" -> Done("ignored", << [s EXCEPT !.approval.status = "expired"] >>)
        [] OTHER -> Done("processed", << [s EXCEPT !.approval.status = op.decision] >>)

(* Admin requests that write the same records.  PATCH /api/channels gives  *)
(* the place a new metadata record when the request names the workspace.   *)
PatchChannel(s, op) ==
  LET patched == [s EXCEPT !.places[op.channel].team = op.team, !.places[op.channel].member = "unset"]
  IN  IF s.places[op.channel].kind = "none" THEN Done("error", <<>>)
      ELSE ensureSlackReadAccessForChannel(patched, op.channel, <<patched>>)
ManualInstall(s, op) ==
  Done("processed", << [s EXCEPT !.install[op.team] =
                          [status |-> "active", scopes |-> TRUE, granted |-> @.granted]] >>)

(* Up to the flush: the state's nonce is recorded under the delivery's key. *)
OAuthCallback(op) == Done(IF verifySlackOAuthState(op) THEN "processed" ELSE "refused", <<>>)

Handle(s, op, at) ==
  CASE Kind(op) = "channel_joined" -> handleSlackChannelJoinedEvent(s, op)
    [] Kind(op) = "channel_left" -> handleSlackChannelLeftEvent(s, op)
    [] Kind(op) \in {"app_uninstalled", "tokens_revoked"} -> handleSlackWorkspaceLifecycleEvent(s, op)
    [] Kind(op) = "dm" -> handleSlackDmEvent(s, op, at)
    [] Kind(op) \in {"mention", "reaction"} -> MentionOrReaction(s, op, at)
    [] Kind(op) = "command" -> SlackCommand(s, op, at)
    [] Kind(op) = "approval" -> SlackInteraction(s, op)
    [] Kind(op) = "patch_channel" -> PatchChannel(s, op)
    [] Kind(op) = "manual_install" -> ManualInstall(s, op)
    [] Kind(op) = "oauth" -> OAuthCallback(op)
    [] OTHER -> Ignored

HasKey(op, status) == ~Admin(op) /\ status \in {"processed", "ignored"}

-----------------------------------------------------------------------------
(* Slack and the admin send callbacks; each is delivered up to MaxTries    *)
(* times until it is answered with success.                                *)

Init ==
  /\ store = [ install |-> [t \in {"t1", "t2"} |->
                              [status |-> IF t = "t1" THEN "active" ELSE "none",
                               scopes |-> t = "t1", granted |-> FALSE]],
               credential |-> [t \in {"t1", "t2"} |-> IF t = "t1" THEN "active" ELSE "none"],
               places |-> [c \in {"c", "d"} |-> IF c = "c" THEN Channel("t1", "yes", "allow")
                                                           ELSE NoPlace],
               approval |-> [status |-> "pending", place |-> "c", payload |-> 1],
               keys |-> {}, runs |-> {} ]
  /\ saved = store
  /\ chain = [queue |-> <<>>, error |-> FALSE, fails |-> 0, stops |-> 0]
  /\ inbox = <<>>
  /\ requests = {}
  /\ seen = [lost |-> <<>>, exchanged |-> <<>>, left |-> {}]

Send(op) ==
  /\ Len(inbox) < MaxOps
  /\ inbox' = Append(inbox, [op |-> op, acked |-> FALSE,
                             tries |-> IF Admin(op) THEN 1 ELSE MaxTries])
  /\ seen' = [seen EXCEPT !.lost = Append(@, 0), !.exchanged = Append(@, 0)]
  /\ UNCHANGED <<store, saved, chain, requests>>

Answer(i) == inbox' = [inbox EXCEPT ![i].tries = @ - 1, ![i].acked = TRUE]

(* findIngressDelivery: a key already recorded answers at once.            *)
Deduped(i) ==
  /\ i \in store.keys
  /\ Answer(i)
  /\ UNCHANGED <<store, saved, chain, requests, seen>>

(* The last of the handler's steps stays in memory; all are queued.        *)
Apply(steps, then(_)) ==
  /\ store' = IF steps = <<>> THEN store ELSE Last(steps)
  /\ chain' = [chain EXCEPT !.queue = @ \o steps]
  /\ requests' = requests \cup then(Len(chain.queue) + Len(steps))

(* Mutant: the answer does not wait for the saves queued before it.        *)
Waiting_Unflushed(i, pc, waits) == [at |-> i, pc |-> pc, waits |-> 0]
(* The request then waits for its flush with what was queued before it.    *)
Waiting(i, pc, waits) == [at |-> i, pc |-> pc, waits |-> waits]

(* Mutant: the key is forgotten and every delivery is handled again.       *)
recordIngressDelivery_Forgotten(s, i) == s
recordIngressDelivery(s, i) == [s EXCEPT !.keys = @ \cup {i}]

Receive(i) ==
  LET op     == inbox[i].op
      result == Handle(store, op, i)
      last   == IF result.steps = <<>> THEN store ELSE Last(result.steps)
      steps  == IF HasKey(op, result.status)
                  THEN Append(result.steps, recordIngressDelivery(last, i)) ELSE result.steps
  IN  /\ i \notin store.keys
      /\ CASE result.status = "error" ->
                /\ Apply(steps, LAMBDA n : {})
                /\ inbox' = [inbox EXCEPT ![i].tries = @ - 1]
           [] result.status = "refused" ->
                /\ Answer(i)
                /\ UNCHANGED <<store, chain, requests>>
           [] OTHER ->
                /\ Apply(steps, LAMBDA n : {Waiting(i, "flush", n)})
                /\ inbox' = [inbox EXCEPT ![i].tries = @ - 1]
      /\ seen' = [seen EXCEPT !.left =
           IF result.status # "processed" THEN @
           ELSE CASE Kind(op) = "channel_joined" -> @ \ {op.channel}
                  [] Kind(op) = "channel_left"   -> @ \cup {op.channel}
                  [] OTHER -> @]
      /\ UNCHANGED saved

Deliver(i) ==
  /\ inbox[i].tries > 0
  /\ ~inbox[i].acked
  /\ ~\E r \in requests : r.at = i /\ r.pc # "flush"
  /\ Deduped(i) \/ Receive(i)

-----------------------------------------------------------------------------
(* The save chain and the flush *)

Advance(rs) == {[r EXCEPT !.waits = IF @ = 0 THEN 0 ELSE @ - 1] : r \in rs}

SaveNext ==
  /\ chain.queue # <<>>
  /\ chain' = [chain EXCEPT !.queue = Tail(@)]
  /\ saved' = IF chain.error THEN saved ELSE Head(chain.queue)
  /\ requests' = Advance(requests)
  /\ UNCHANGED <<store, inbox, seen>>

SaveFails ==
  /\ chain.queue # <<>>
  /\ ~chain.error
  /\ chain.fails + chain.stops < MaxFaults
  /\ chain' = [chain EXCEPT !.queue = Tail(@), !.error = TRUE, !.fails = @ + 1]
  /\ requests' = Advance(requests)
  /\ UNCHANGED <<store, saved, inbox, seen>>

(* The flush of a request throws when a save failed, and clears the error; *)
(* the key is then taken back, in memory only, so that Slack's repetition  *)
(* is handled again.                                                       *)
flushChangesWithDeliveryRollback(r) ==
  /\ r.pc = "flush"
  /\ r.waits = 0
  /\ IF chain.error
       THEN /\ chain' = [chain EXCEPT !.error = FALSE]
            /\ store' = IF Admin(inbox[r.at].op) THEN store
                        ELSE [store EXCEPT !.keys = @ \ {r.at}]
            /\ requests' = requests \ {r}
            /\ seen' = [seen EXCEPT !.lost[r.at] = @ + 1]
            /\ UNCHANGED inbox
       ELSE /\ requests' = IF Kind(inbox[r.at].op) = "oauth"
                             THEN (requests \ {r}) \cup {Waiting(r.at, "exchange", 0)}
                             ELSE requests \ {r}
            /\ inbox' = IF Kind(inbox[r.at].op) = "oauth" THEN inbox
                        ELSE [inbox EXCEPT ![r.at].acked = TRUE]
            /\ UNCHANGED <<chain, store, seen>>
  /\ UNCHANGED saved

(* Slack's answer to the code: an error, a token without the scopes Bek    *)
(* needs, or an install.                                                   *)
exchangeSlackOAuthCode == {"error", "missing_scopes", "install"}

(* The install and its token are two store calls.                          *)
persistSlackInstall(s, team) ==
  LET install == [s EXCEPT !.install[team] = [status |-> "active", scopes |-> TRUE, granted |-> TRUE]]
  IN  << install, [install EXCEPT !.credential[team] = "active"] >>

ExchangeCode(r) ==
  /\ r.pc = "exchange"
  /\ seen' = [seen EXCEPT !.exchanged[r.at] = @ + 1]
  /\ \E outcome \in exchangeSlackOAuthCode :
     \/ /\ outcome # "install"
        /\ requests' = requests \ {r}
        /\ inbox' = [inbox EXCEPT ![r.at].acked = TRUE]
        /\ UNCHANGED <<store, chain>>
     \/ outcome = "install" /\ LET steps == persistSlackInstall(store, inbox[r.at].op.team)
        IN  /\ store' = Last(steps)
            /\ chain' = [chain EXCEPT !.queue = @ \o steps]
            /\ requests' = (requests \ {r}) \cup
                             {Waiting(r.at, "installed", Len(chain.queue) + Len(steps))}
            /\ UNCHANGED inbox
  /\ UNCHANGED saved

Installed(r) ==
  /\ r.pc = "installed"
  /\ r.waits = 0
  /\ requests' = requests \ {r}
  /\ chain' = [chain EXCEPT !.error = FALSE]
  /\ inbox' = [inbox EXCEPT ![r.at].acked = TRUE]
  /\ UNCHANGED <<store, saved, seen>>

(* The process stops: memory and the requests under way are gone.          *)
Restart ==
  /\ chain.fails + chain.stops < MaxFaults
  /\ store' = saved
  /\ chain' = [chain EXCEPT !.queue = <<>>, !.error = FALSE, !.stops = @ + 1]
  /\ requests' = {}
  /\ seen' = [seen EXCEPT !.lost =
       [i \in DOMAIN @ |-> @[i] + Cardinality({r \in requests : r.at = i})]]
  /\ UNCHANGED <<saved, inbox>>

Next ==
  \/ \E op \in Ops : Send(op)
  \/ \E i \in DOMAIN inbox : Deliver(i)
  \/ SaveNext \/ SaveFails \/ Restart
  \/ \E r \in requests :
       flushChangesWithDeliveryRollback(r) \/ ExchangeCode(r) \/ Installed(r)

Spec == Init /\ [][Next]_vars

-----------------------------------------------------------------------------
(* Properties *)

(* However often Slack delivers a callback, and however its deliveries     *)
(* overlap, it starts one run, and one more only for each of its requests  *)
(* whose flush failed or that a restart cut short                          *)
(* (flushChangesWithDeliveryRollback, app.ts).                             *)
OneRunPerCallback ==
  \A i \in DOMAIN inbox :
    Cardinality({run \in store.runs : run.at = i}) <= 1 + seen.lost[i]

(* What docs/setup/slack.md says of an accepted callback: what it caused   *)
(* is persisted before it is acknowledged, so that a restart cannot lose   *)
(* it once Slack has stopped repeating it.                                 *)
AnsweredIsWritten ==
  chain.fails = 0 =>
    \A i \in DOMAIN inbox :
      inbox[i].acked /\ i \in store.keys => i \in saved.keys

(* The code of an OAuth redirect is exchanged at most once, whatever the   *)
(* browser repeats and whenever the process stops: the state's nonce is    *)
(* written before the exchange starts.  (A failed save may be reported to  *)
(* another request's flush instead, see SaveChain; then it may not be.)    *)
StateExchangedOnce ==
  chain.fails = 0 => \A i \in DOMAIN inbox : seen.exchanged[i] <= 1

(* What docs/setup/slack.md says of a channel Bek has left: later mentions *)
(* there create no run until Bek rejoins.                                  *)
QuietStep ==
  \A run \in store'.runs \ store.runs : chain'.stops = chain.stops => run.place \notin seen.left
LeftChannelsStayQuiet == [][QuietStep]_vars

=============================================================================
