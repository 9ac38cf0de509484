----------------------------- MODULE SlackOutbox -----------------------------
(***************************************************************************)
(* Outbound Slack messages: the outbound deliveries of BekStore            *)
(* (packages/core/src/store.ts), the drains of apps/api/src/app.ts that    *)
(* post them, and the posting itself (apps/api/src/slack-outbound.ts).     *)
(*                                                                         *)
(* A message is an intent with a key: enqueueing a key again replaces its  *)
(* content.  A drain lists what is due, with its content, and then takes   *)
(* one delivery after the other.  It awaits Slack in between, and other    *)
(* drains and requests run meanwhile.  Slack may accept a post whose       *)
(* answer is lost.  A crash goes back to what was saved.                   *)
(***************************************************************************)
EXTENDS Integers, Sequences, FiniteSets, Functions

CONSTANTS
  Keys,              \* delivery keys
  Drains,            \* drains that may be going on at the same time
  MaxAttempts,       \* a delivery's maxAttempts
  MaxPosts,          \* maxPostAttempts: calls of Slack in one attempt
  RetryDelay,        \* time until a failed delivery is due again
  Limit,             \* a drain's limit
  MaxContents,       \* bound: contents the keys are enqueued with, all in all
  Horizon,           \* bound: last time that matters
  MaxUnsaved,        \* bound: snapshots that wait to be saved
  MaxCrashes         \* bound: crashes

ASSUME SlackOutboxAssumption ==
  /\ MaxAttempts \in Nat \ {0} /\ MaxPosts \in Nat \ {0} /\ Limit \in Nat \ {0}
  /\ RetryDelay \in Nat /\ MaxContents \in Nat /\ Horizon \in Nat
  /\ MaxUnsaved \in Nat /\ MaxCrashes \in Nat

VARIABLES
  deliveries,        \* the store's outbound deliveries, by key
  drains,            \* the drains: what they listed, and the post under way
  unsaved, saved,    \* the snapshots not yet saved, and the one that is
  acked,             \* history: how often Slack acknowledged a post of the key
  said,              \* history: the contents Slack acknowledged last
  crashes, now

vars == <<deliveries, drains, unsaved, saved, acked, said, crashes, now>>
environment == <<acked, said, crashes, now>>

Absent == [status |-> "none", attempts |-> 0, nextAt |-> 0, content |-> 0]
Idle == [pc |-> "idle", due |-> <<>>, posts |-> 0]

Init ==
  /\ deliveries = [k \in Keys |-> Absent]
  /\ drains = [d \in Drains |-> Idle]
  /\ unsaved = <<>> /\ saved = deliveries
  /\ acked = [k \in Keys |-> 0]
  /\ said = [k \in Keys |-> 0]
  /\ crashes = 0 /\ now = 0

(* recordChange: a snapshot is saved later, in its turn. *)
Change(d) ==
  /\ deliveries' = d
  /\ LET queue == Append(unsaved, d) IN
       IF Len(queue) > MaxUnsaved THEN saved' = Head(queue) /\ unsaved' = Tail(queue)
       ELSE saved' = saved /\ unsaved' = queue

Save ==
  /\ unsaved # <<>>
  /\ saved' = Head(unsaved) /\ unsaved' = Tail(unsaved)
  /\ UNCHANGED <<deliveries, drains, environment>>

-----------------------------------------------------------------------------
(* The deliveries *)

Contents == FoldFunction(LAMBDA a, b : a + b, 0, [k \in Keys |-> deliveries[k].content])

(* enqueueOutboundDelivery: a known key gets the new content, and is queued *)
(* again only if it had failed; its attempts go on counting.                *)
Enqueue(k) ==
  LET row == deliveries[k]  content == row.content + 1 IN
  /\ Contents < MaxContents
  /\ Change([deliveries EXCEPT ![k] =
       IF row.status \in {"none", "failed"}
       THEN [row EXCEPT !.status = "queued", !.nextAt = now, !.content = content]
       ELSE [row EXCEPT !.content = content]])
  /\ UNCHANGED <<drains, environment>>

Due == {k \in Keys : deliveries[k].status = "queued" /\ deliveries[k].nextAt <= now}

(* listDueOutboundDeliveries: the longest due first, with their contents.   *)
Listed(due) ==
  /\ Len(due) = IF Cardinality(Due) < Limit THEN Cardinality(Due) ELSE Limit
  /\ \A i \in DOMAIN due : due[i].content = deliveries[due[i].key].content
  /\ \A i, j \in DOMAIN due : i < j =>
       /\ due[i].key # due[j].key
       /\ deliveries[due[i].key].nextAt <= deliveries[due[j].key].nextAt
  /\ \A k \in Due, i \in DOMAIN due :
       (\A j \in DOMAIN due : due[j].key # k) => deliveries[due[i].key].nextAt <= deliveries[k].nextAt

Lists(n) == UNION {[1..m -> [key : Due, content : 1..MaxContents]] : m \in 0..n}

StartDrain(d) ==
  /\ drains[d].pc = "idle" /\ Due # {}
  /\ \E due \in Lists(Limit) : Listed(due) /\ drains' = [drains EXCEPT ![d].pc = "looping", ![d].due = due]
  /\ UNCHANGED <<deliveries, unsaved, saved, environment>>

Begin_Unchecked(d) ==
  LET k == Head(drains[d].due).key IN
  /\ drains[d].pc = "looping" /\ drains[d].due # <<>>
  /\ Change([deliveries EXCEPT ![k].status = "delivering", ![k].attempts = @ + 1])
  /\ drains' = [drains EXCEPT ![d].pc = "posting", ![d].posts = 0]
  /\ UNCHANGED environment

(* beginOutboundDelivery: a delivery that another drain took in the         *)
(* meantime makes it throw, which ends this drain.                          *)
Begin(d) ==
  LET k == Head(drains[d].due).key IN
  /\ drains[d].pc = "looping" /\ drains[d].due # <<>>
  /\ IF deliveries[k].status = "queued"
     THEN /\ Change([deliveries EXCEPT ![k].status = "delivering", ![k].attempts = @ + 1])
          /\ drains' = [drains EXCEPT ![d].pc = "posting", ![d].posts = 0]
     ELSE /\ drains' = [drains EXCEPT ![d] = Idle]
          /\ UNCHANGED <<deliveries, unsaved, saved>>
  /\ UNCHANGED environment

Advanced(d) == [drains EXCEPT ![d].pc = "looping", ![d].due = Tail(@), ![d].posts = 0]

(* completeOutboundDelivery *)
Complete(k) == Change([deliveries EXCEPT ![k].status = "delivered"])

Later == IF now + RetryDelay < Horizon THEN now + RetryDelay ELSE Horizon

Fail_StaysTaken(k, retryable) ==
  Change([deliveries EXCEPT ![k] =
    IF retryable /\ @.attempts < MaxAttempts
    THEN [@ EXCEPT !.status = "queued", !.nextAt = Later]
    ELSE @])

(* failOutboundDelivery *)
Fail(k, retryable) ==
  Change([deliveries EXCEPT ![k] =
    IF retryable /\ @.attempts < MaxAttempts
    THEN [@ EXCEPT !.status = "queued", !.nextAt = Later]
    ELSE [@ EXCEPT !.status = "failed"]])

-----------------------------------------------------------------------------
(* Posting *)

(* The call of Slack is acknowledged. *)
PostAcked(d) ==
  LET item == Head(drains[d].due) IN
  /\ drains[d].pc = "posting"
  /\ acked' = [acked EXCEPT ![item.key] = @ + 1]
  /\ said' = [said EXCEPT ![item.key] = item.content]
  /\ Complete(item.key)
  /\ drains' = Advanced(d)
  /\ UNCHANGED <<crashes, now>>

(* The call fails: it is repeated if the failure is transient and posts are *)
(* left; else the attempt has failed, for good or (a rate limit, the last   *)
(* of the transient failures) with another attempt to come.                 *)
PostFails(d) ==
  /\ drains[d].pc = "posting"
  /\ \/ \E retryable \in BOOLEAN : Fail(Head(drains[d].due).key, retryable) /\ drains' = Advanced(d)
     \/ /\ drains[d].posts + 1 < MaxPosts
        /\ drains' = [drains EXCEPT ![d].posts = @ + 1]
        /\ UNCHANGED <<deliveries, unsaved, saved>>
  /\ UNCHANGED environment

(* The drain has posted what it listed, and flushes its changes. *)
EndDrain(d) ==
  /\ drains[d].pc = "looping" /\ drains[d].due = <<>> /\ unsaved = <<>>
  /\ drains' = [drains EXCEPT ![d] = Idle]
  /\ UNCHANGED <<deliveries, unsaved, saved, environment>>

Drain(d) == StartDrain(d) \/ Begin(d) \/ PostAcked(d) \/ PostFails(d) \/ EndDrain(d)

Tick == now < Horizon /\ now' = now + 1 /\ UNCHANGED <<deliveries, drains, unsaved, saved, acked, said, crashes>>

(* The process ends, and another one starts from what was saved. *)
Crash ==
  /\ crashes < MaxCrashes
  /\ crashes' = crashes + 1
  /\ deliveries' = saved /\ unsaved' = <<>> /\ UNCHANGED saved
  /\ drains' = [d \in Drains |-> Idle]
  /\ UNCHANGED <<acked, said, now>>

Next ==
  \/ \E k \in Keys : Enqueue(k)
  \/ \E d \in Drains : Drain(d)
  \/ Save \/ Tick \/ Crash

Spec == Init /\ [][Next]_vars

(* Requests keep draining, Slack answers, saves come back and time passes. *)
FairSpec ==
  Spec /\ WF_vars(Save) /\ WF_vars(Tick) /\ \A d \in Drains : WF_vars(Drain(d))

-----------------------------------------------------------------------------

(* Type invariant. *)
TypeOK ==
  /\ deliveries \in [Keys -> [status : {"none", "queued", "delivering", "delivered", "failed"},
                              attempts : Nat, nextAt : Nat, content : 0..MaxContents]]
  /\ \A d \in Drains :
       /\ drains[d].pc \in {"idle", "looping", "posting"}
       /\ Len(drains[d].due) <= Limit /\ drains[d].posts < MaxPosts
       /\ drains[d].pc = "posting" => drains[d].due # <<>>
  /\ Len(unsaved) <= MaxUnsaved

(* However drains overlap, Slack acknowledges a message once; a crash may   *)
(* lose the record of it, and have it posted again.                         *)
AckedOnce == \A k \in Keys : acked[k] <= 1 + crashes

(* A message that is on record as delivered was acknowledged by Slack: a    *)
(* failed post, or a drain ended by another one, never passes for it.       *)
DeliveredWasAcked ==
  \A k \in Keys : "delivered" \in {deliveries[k].status, saved[k].status} => acked[k] > 0

(* A delivery is attempted at most MaxAttempts times, and once more each    *)
(* time it is enqueued anew after it failed.                                *)
AttemptsBounded ==
  \A k \in Keys : deliveries[k].attempts <= MaxAttempts + IF deliveries[k].content = 0
                                                          THEN 0 ELSE deliveries[k].content - 1

(* failOutboundDelivery and the drains: as long as the process lives, every *)
(* message ends.                                                            *)
EndsUnlessCrashed ==
  \A k \in Keys :
    deliveries[k].status \in {"queued", "delivering"}
      ~> deliveries[k].status \in {"delivered", "failed"} \/ crashes > 0

(* Stated by docs/reference/data-model.md: every intent reaches a terminal  *)
(* delivered or failed state.                                               *)
IntentsEnd ==
  \A k \in Keys :
    deliveries[k].status \in {"queued", "delivering"} ~> deliveries[k].status \in {"delivered", "failed"}

(* Stated by docs/architecture/worker.md: outcomes are queued before they   *)
(* are posted; what is delivered is then what was last enqueued.            *)
DeliveredIsCurrent ==
  \A k \in Keys : deliveries[k].status = "delivered" => said[k] = deliveries[k].content
=============================================================================
