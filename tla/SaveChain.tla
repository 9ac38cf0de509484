------------------------------ MODULE SaveChain ------------------------------
(***************************************************************************)
(* How a change reaches the database.  BekStore and                        *)
(* SnapshotPersistedWorkerQueue save in the same way: every change appends *)
(* a link to a promise chain, and the link saves the whole snapshot that   *)
(* was taken when the change was made.  A save that fails leaves an error  *)
(* behind; while it is there, further links save nothing.  flushChanges    *)
(* awaits the last link, and throws the error if there is one, taking it   *)
(* away.                                                                   *)
(*                                                                         *)
(* The order in which a JavaScript engine resumes code is kept: whoever    *)
(* awaits a link is resumed before the next link starts, because a flush   *)
(* that sees the link as the last one registered before the next link did. *)
(***************************************************************************)
EXTENDS Integers, Sequences

CONSTANTS
  Flushers,      \* requests that make changes and flush them
  MaxChanges     \* bound: changes made

VARIABLES
  chain,         \* the links, and the database
  made,          \* the number of changes made
  flushers,      \* the flushes under way, and the outcome of past ones
  told           \* history: the links settled when an error was last thrown

vars == <<chain, made, flushers, told>>

Chain(pending, settled, saved, failed) ==
  [pending |-> pending, settled |-> settled, saved |-> saved, failed |-> failed]

(* A chain over a database that holds the snapshot s. *)
NewChain(s) == Chain(<<>>, 0, s, FALSE)

Record(c, s) == Chain(Append(c.pending, s), c.settled, c.saved, c.failed)

Last(c) == c.settled + Len(c.pending)

Settle(c, saved, failed) == Chain(Tail(c.pending), c.settled + 1, saved, failed)

(* What the first link comes to: it is skipped, it saves, or it fails.      *)
Outcomes(c) ==
  IF c.failed THEN {Settle(c, c.saved, TRUE)}
  ELSE {Settle(c, Head(c.pending), FALSE), Settle(c, c.saved, TRUE)}

-----------------------------------------------------------------------------

Init ==
  /\ chain = NewChain(0)
  /\ made = 0
  /\ flushers = [f \in Flushers |-> [pc |-> "idle", target |-> 0, mine |-> 0]]
  /\ told = 0

(* The flushers that are to be resumed before anything else goes on. *)
Resumed == {f \in Flushers : flushers[f].pc = "waiting" /\ flushers[f].target <= chain.settled}

(* A request changes the state. *)
RecordChange(f) ==
  /\ flushers[f].pc \in {"idle", "changed"} /\ made < MaxChanges /\ Resumed = {}
  /\ made' = made + 1
  /\ chain' = Record(chain, made')
  /\ flushers' = [flushers EXCEPT ![f].pc = "changed", ![f].mine = made']
  /\ UNCHANGED told

(* flushChanges awaits the last link. *)
Flush(f) ==
  /\ flushers[f].pc = "changed" /\ Resumed = {}
  /\ flushers' = [flushers EXCEPT ![f].pc = "waiting", ![f].target = Last(chain)]
  /\ UNCHANGED <<chain, made, told>>

LinkSettles ==
  /\ chain.pending # <<>> /\ Resumed = {}
  /\ chain' \in Outcomes(chain)
  /\ UNCHANGED <<made, flushers, told>>

FlushReturns_ClearsFirst(f) ==
  /\ f \in Resumed
  /\ flushers' = [flushers EXCEPT ![f].pc = "returned"]
  /\ chain' = [chain EXCEPT !.failed = FALSE]
  /\ UNCHANGED <<made, told>>

FlushReturns(f) ==
  /\ f \in Resumed
  /\ flushers' = [flushers EXCEPT ![f].pc = IF chain.failed THEN "threw" ELSE "returned"]
  /\ told' = IF chain.failed THEN chain.settled ELSE told
  /\ chain' = [chain EXCEPT !.failed = FALSE]
  /\ UNCHANGED made

(* The next request begins. *)
Again(f) ==
  /\ flushers[f].pc \in {"returned", "threw"} /\ Resumed = {} /\ made < MaxChanges
  /\ flushers' = [flushers EXCEPT ![f].pc = "idle"]
  /\ UNCHANGED <<chain, made, told>>

Next ==
  \/ \E f \in Flushers : RecordChange(f) \/ Flush(f) \/ FlushReturns(f) \/ Again(f)
  \/ LinkSettles

Spec == Init /\ [][Next]_vars

(* Every save comes back, and every request flushes. *)
FairSpec ==
  Spec /\ WF_vars(LinkSettles) /\ \A f \in Flushers : WF_vars(Flush(f)) /\ WF_vars(FlushReturns(f))

-----------------------------------------------------------------------------

Chains == [pending : Seq(Nat), settled : Nat, saved : Nat, failed : BOOLEAN]

(* The pending links stand for the last changes, in order. *)
ChainOK ==
  /\ chain \in Chains
  /\ Last(chain) = made /\ chain.saved <= chain.settled
  /\ \A k \in DOMAIN chain.pending : chain.pending[k] = chain.settled + k

FlushersOK ==
  /\ flushers \in [Flushers -> [pc : {"idle", "changed", "waiting", "returned", "threw"},
                                target : Nat, mine : Nat]]
  /\ \A f \in Flushers :
       /\ flushers[f].mine <= made /\ flushers[f].target <= made
       /\ flushers[f].pc = "waiting" => flushers[f].mine <= flushers[f].target

(* Type invariant. *)
TypeOK ==
  /\ made \in 0..MaxChanges /\ ChainOK /\ FlushersOK
  /\ told \in Nat /\ told <= chain.settled

(* The changes the chain is done with are in the database, or the error is  *)
(* still there for the next flush, or some request was given it: no save    *)
(* fails in silence.                                                        *)
NoSilentLoss ==
  chain.saved = chain.settled \/ chain.failed \/ told = chain.settled

(* A request whose flush returned has its changes in the database, unless   *)
(* the error went to another request that flushed at the same time.         *)
ReturnedIsSavedOrTold ==
  \A f \in Flushers : flushers[f].pc = "returned" =>
    flushers[f].mine <= chain.saved \/ flushers[f].mine <= told

(* The database never goes back to an older snapshot. *)
SavedGrows == [][chain'.saved >= chain.saved]_vars

(* A flush that was begun comes back, with or without an error. *)
FlushesReturn ==
  \A f \in Flushers : flushers[f].pc = "waiting" ~> flushers[f].pc \in {"returned", "threw"}

(* Stated by docs/setup/slack.md: a callback is acknowledged when its state *)
(* has been persisted, that is, when its flush returned.                    *)
ReturnedIsSaved ==
  \A f \in Flushers : flushers[f].pc = "returned" => flushers[f].mine <= chain.saved
=============================================================================
