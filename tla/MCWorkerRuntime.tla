--------------------------- MODULE MCWorkerRuntime ---------------------------
(* Instances of WorkerRuntime for TLC. *)
EXTENDS WorkerRuntime, TLC

CONSTANTS w1, w2, t1, t2, p1, p2, o1

NoOverruns == {}
OneOverrun == {[estimate |-> 1, terms |-> o1]}
(* On the same terms: the approval of one does not cover the other, but that of
   the other covers the one. *)
TwoOverruns == OneOverrun \cup {[estimate |-> 2, terms |-> o1]}

Rule(sandbox, budget, github) == [sandbox |-> sandbox, budget |-> budget, github |-> github]

(* The sandbox grant and the overrun change; or the run opens a pull request. *)
ChangingRules ==
  {Rule("none", Within, TRUE)} \cup
  {Rule(IF o.estimate = 1 THEN "ask" ELSE "allow", o, FALSE) : o \in TwoOverruns}

OneCheckpoint == {Rule("none", Within, TRUE), Rule("none", Within, FALSE)} \cup
                 {Rule(sandbox, Within, FALSE) : sandbox \in {"allow", "ask", "deny"}}

AsksForBoth == {Rule("ask", o, FALSE) : o \in OneOverrun}

WorkerSymmetry == Permutations(Workers)
=============================================================================
