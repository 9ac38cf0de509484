---------------------------- MODULE ModelRouter ----------------------------
(***************************************************************************)
(* packages/model-router/src/index.ts: which models of a policy are tried, *)
(* in which order, and which of them a budget lets through.  Pure: the     *)
(* calls themselves are actions of the module Spending.                    *)
(*                                                                         *)
(* A registry is a sequence of registered models [names, on, bench]: the   *)
(* id and the aliases of a model, whether provider and model are enabled,  *)
(* and its benchmark [known, score, rateIn, rateOut].  The score is the    *)
(* one of the routing mode in use; rates are cents per Unit tokens.  A     *)
(* name is [vendor, model], the vendor "" when there is no slash.          *)
(***************************************************************************)
EXTENDS Integers, Sequences, FiniteSets, SequencesExt

CONSTANT Unit    \* tokens a rate is for (1_000_000 in the code)

ASSUME UnitAssumption == Unit \in Nat \ {0}

(* Cents for some usage, rounded up: one cent at least unless it is free. *)
CalculateModelUsageCostCents(bench, usage) ==
  IF ~bench.known THEN 0
  ELSE (usage.input * bench.rateIn + usage.output * bench.rateOut + Unit - 1) \div Unit

(* A model without a benchmark is estimated at one cent. *)
EstimateModelCostCents(bench, usage) ==
  IF ~bench.known THEN 1 ELSE CalculateModelUsageCostCents(bench, usage)

ParseProvider(name) == IF name.vendor = "" THEN "openai-compatible" ELSE name.vendor

(* The default model and the fallbacks, without repetitions, in that order. *)
PolicyCandidateModels(policy) ==
  FoldLeft(LAMBDA models, m : IF m \in ToSet(models) THEN models ELSE Append(models, m),
           <<>>, <<policy.defaultModel>> \o policy.fallbackModels)

(* The first registered model that goes by this name; 0 if there is none. *)
ResolveModel(registry, name) ==
  IF \E i \in DOMAIN registry : name \in registry[i].names
  THEN CHOOSE i \in DOMAIN registry : /\ name \in registry[i].names
                                      /\ \A j \in 1..(i - 1) : name \notin registry[j].names
  ELSE 0

FilterRoutableModels(registry, models) ==
  SelectSeq(models, LAMBDA m : LET i == ResolveModel(registry, m) IN i # 0 /\ registry[i].on)

(* Candidates, best score first, the cheaper one of two that are equal; the
   sort is stable. *)
RankModelCandidates(input, models) ==
  LET routable  == FilterRoutableModels(input.registry, models)
      Bench(i)  == input.registry[ResolveModel(input.registry, routable[i])].bench
      Cand(i)   == [model |-> routable[i], priced |-> Bench(i).known, bench |-> Bench(i),
                    score |-> IF Bench(i).known THEN Bench(i).score ELSE 1,
                    cost  |-> EstimateModelCostCents(Bench(i), input.usage)]
      Before(i, j) == \/ Cand(i).score > Cand(j).score
                      \/ Cand(i).score = Cand(j).score /\ Cand(i).cost < Cand(j).cost
                      \/ Cand(i).score = Cand(j).score /\ Cand(i).cost = Cand(j).cost /\ i < j
      order == SetToSortSeq(DOMAIN routable, Before)
  IN [k \in DOMAIN order |-> Cand(order[k])]

(* In auto mode the default model if it is affordable, else the best of those
   that are, else the best of all. *)
SelectRankedModelCandidate(input, scored) ==
  LET affordable == SelectSeq(scored, LAMBDA c : c.cost <= input.policy.perRunBudgetCents)
      default    == SelectSeq(affordable, LAMBDA c : c.model = input.policy.defaultModel)
  IN IF input.mode = "auto" /\ default # <<>> THEN Head(default)
     ELSE Head(IF affordable # <<>> THEN affordable ELSE scored)

(* The routes of one call: the selected model, then the others as ranked.  The
   code throws when no candidate is routable; here the sequence is empty. *)
BuildModelRouteSequence(input) ==
  LET models == PolicyCandidateModels(input.policy)
      scored == RankModelCandidates(input, models)
  IN IF scored = <<>> THEN <<>>
     ELSE LET selected == SelectRankedModelCandidate(input, scored)
          IN <<selected>> \o RankModelCandidates(input,
                               SelectSeq(models, LAMBDA m : m # selected.model))

SkipReasonForFailoverRoute_AnyPrice(route, budget) ==
  \/ ~route.priced
  \/ route.cost > budget.ceiling /\ budget.approved.cost = 0

(* Whether runModelWithFailover passes a route over: without pricing, or over
   the ceiling and not the one (model and price) that was approved. *)
SkipReasonForFailoverRoute(route, budget) ==
  \/ ~route.priced
  \/ /\ route.cost > budget.ceiling
     /\ ~ /\ budget.approved.provider = ParseProvider(route.model)
          /\ budget.approved.model = route.model
          /\ route.cost <= budget.approved.cost
=============================================================================
