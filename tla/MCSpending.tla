----------------------------- MODULE MCSpending -----------------------------
(* Two runs from two places against the daily ceilings of two policies. *)
EXTENDS Spending

CONSTANTS r1, r2, office, lab, team, org

PolicySet == team :> [perRun |-> 3, perDay |-> 5] @@ org :> [perRun |-> 4, perDay |-> 6]
Apart     == {<<team, office>>, <<org, lab>>}

(* Both policies hold in the office, one of them also in the lab (README, "changed
   by hand"). *)
WidePolicySet == team :> [perRun |-> 4, perDay |-> 5] @@ org :> [perRun |-> 4, perDay |-> 6]
Overlapping   == Apart \cup {<<org, office>>}

Big   == [vendor |-> "openai", model |-> "big"]
Small == [vendor |-> "anthropic", model |-> "small"]
New   == [vendor |-> "openai", model |-> "new"]

Bench(score, rate) == [known |-> TRUE, score |-> score, rateIn |-> rate, rateOut |-> rate]

MCModelPolicy == [defaultModel |-> Big, fallbackModels |-> <<Small, New, Big>>,
                  perRunBudgetCents |-> 4]
MCRegistry == << [names |-> {Big}, on |-> TRUE, bench |-> Bench(9, 20)],
                 [names |-> {Small}, on |-> TRUE, bench |-> Bench(5, 4)],
                 [names |-> {New}, on |-> TRUE,
                  bench |-> [known |-> FALSE, score |-> 0, rateIn |-> 0, rateOut |-> 0]] >>
MCUsage == [input |-> 1, output |-> 1]
=============================================================================
