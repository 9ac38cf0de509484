-------------------------- MODULE AttemptLifecycle --------------------------
(***************************************************************************)
(* What the worker queue promises about run attempts, without clocks,      *)
(* leases, retry policies or approvals: attempts appear as the start of a  *)
(* run, as the retry of exactly one failed attempt or as the restart of a  *)
(* dead one; they move along the documented state machine and never leave  *)
(* a terminal state; and an attempt is worked on under a token that is     *)
(* handed out to one attempt only.  WorkerQueue implements it.             *)
(***************************************************************************)
EXTENDS Naturals, Sequences

CONSTANT Runs

VARIABLES
  attempts,     \* the attempts, in order of appearance
  lastToken     \* the last token handed out

vars == <<attempts, lastToken>>

(* The moves of one attempt.  "running" may go back to "waiting" (its      *)
(* worker took too long) but "stopping" may only end.                      *)
Moves ==
  {<<"waiting", "running">>, <<"waiting", "cancelled">>,
   <<"running", "waiting">>, <<"running", "paused">>, <<"running", "stopping">>,
   <<"running", "completed">>, <<"running", "failed">>, <<"running", "dead">>,
   <<"running", "cancelled">>,
   <<"paused", "waiting">>, <<"paused", "cancelled">>,
   <<"stopping", "cancelled">>}

InHand(a) == a.state \in {"running", "stopping"}

Unfinished(a) == a.state \in {"waiting", "running", "stopping", "paused"}

Init == attempts = <<>> /\ lastToken = 0

(* Existing attempts move or stay; identity never changes; at most one of  *)
(* them is taken in hand, under a token nobody had before.                 *)
Moved(after) ==
  /\ Len(after) = Len(attempts)
  /\ \A i \in DOMAIN attempts :
       LET a == attempts[i]  b == after[i] IN
       /\ b.run = a.run /\ b.number = a.number /\ b.from = a.from
       /\ a.state = b.state \/ <<a.state, b.state>> \in Moves
       /\ IF InHand(b)
          THEN \/ InHand(a) /\ b.token = a.token
               \/ b.state = "running" /\ b.token = lastToken' /\ lastToken' > lastToken
          ELSE b.token = 0
  /\ \A i, j \in DOMAIN attempts :
       InHand(after[i]) /\ InHand(after[j]) /\ after[i].token = after[j].token => i = j
  /\ lastToken' \in {lastToken, lastToken + 1}

Fails(i, after) == attempts[i].state # "failed" /\ after[i].state = "failed"

Fresh(run, number, from) ==
  [run |-> run, number |-> number, state |-> "waiting", token |-> 0, from |-> from]

(* Attempts are moved; none of them fails. *)
Progress ==
  /\ Moved(attempts')
  /\ \A i \in DOMAIN attempts : ~Fails(i, attempts')

(* A run starts: it has no other first attempt that is not finished. *)
Start(run) ==
  /\ \A i \in DOMAIN attempts :
       attempts[i].run = run /\ attempts[i].number = 1 => ~Unfinished(attempts[i])
  /\ attempts' = Append(attempts, Fresh(run, 1, 0))
  /\ UNCHANGED lastToken

(* One attempt fails and its successor appears in the same step. *)
Retry(i) ==
  LET after == SubSeq(attempts', 1, Len(attempts)) IN
  /\ Moved(after)
  /\ Fails(i, after)
  /\ \A j \in DOMAIN attempts : j # i => after[j] = attempts[j]
  /\ attempts' = Append(after, Fresh(attempts[i].run, attempts[i].number + 1, i))

(* A dead attempt is restarted; nothing of its run is still going on. *)
Restart(i) ==
  /\ attempts[i].state = "dead"
  /\ \A j \in DOMAIN attempts : attempts[j].run = attempts[i].run => ~Unfinished(attempts[j])
  /\ attempts' = Append(attempts, Fresh(attempts[i].run, 1, i))
  /\ UNCHANGED lastToken

Next ==
  \/ Progress
  \/ \E run \in Runs : Start(run)
  \/ \E i \in DOMAIN attempts : Retry(i) \/ Restart(i)

Spec == Init /\ [][Next]_vars
=============================================================================
