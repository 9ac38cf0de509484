--------------------------- MODULE SpendingProofs ---------------------------
(***************************************************************************)
(* Theorems about Spending, for any runs, places, policies, registries of  *)
(* models, prices and days.                                                *)
(***************************************************************************)
EXTENDS Spending, FiniteSetTheorems, WellFoundedInduction, TLAPS

Carrying == {"at", "attempt", "spent", "next", "approved", "admitted", "asks", "cost"}

(* What an attempt may pay for an approved route is what its approval says, as
   long as it calls: no decision and no redrive comes between. *)
RouteApproved(w, a) ==
  /\ a.status = "approved" /\ w.approved.model = ModelPolicy.defaultModel
  /\ w.approved.cost = a.terms.estimated
Paying(w, a) ==
  /\ DOMAIN w = Carrying
  /\ w.at = "calling" => w.approved = NoRoute \/ RouteApproved(w, a)
SpendsAsApproved ==
  /\ worker = [r \in Runs |-> worker[r]] /\ approval = [r \in Runs |-> approval[r]]
  /\ DOMAIN paid = Runs
  /\ \A r \in Runs : Paying(worker[r], approval[r])

LEMMA IdlePays == ASSUME NEW a, NEW w, w = Idle PROVE Paying(w, a)
BY DEF Paying, Idle, Carrying

(* A step of one run's worker, and of its approval. *)
LEMMA OneSpends ==
  ASSUME SpendsAsApproved, NEW r \in Runs, NEW w, NEW a,
         worker' = [worker EXCEPT ![r] = w], approval' = [approval EXCEPT ![r] = a],
         DOMAIN paid' = Runs, Paying(w, a)
  PROVE  SpendsAsApproved'
<1>1. /\ worker' = [q \in Runs |-> worker'[q]] /\ approval' = [q \in Runs |-> approval'[q]]
      /\ worker'[r] = w /\ approval'[r] = a
      /\ \A q \in Runs \ {r} : worker'[q] = worker[q] /\ approval'[q] = approval[q]
  BY DEF SpendsAsApproved
<1>2. ASSUME NEW q \in Runs PROVE Paying(worker'[q], approval'[q])
  <2>1. CASE q = r
    BY <1>1, <2>1
  <2>2. CASE q # r
    BY <1>1, <2>2 DEF SpendsAsApproved
  <2>3. QED
    BY <2>1, <2>2
<1>3. QED
  BY <1>1, <1>2 DEF SpendsAsApproved
LEMMA WorkerSpends ==
  ASSUME SpendsAsApproved, NEW r \in Runs, NEW w,
         worker' = [worker EXCEPT ![r] = w], UNCHANGED approval, DOMAIN paid' = Runs,
         Paying(w, approval[r])
  PROVE  SpendsAsApproved'
<1>1. approval' = [approval EXCEPT ![r] = approval[r]]
  BY DEF SpendsAsApproved
<1>2. QED
  BY <1>1, OneSpends
(* What the worker's steps make of its record. *)
LEMMA WorkerUpdates ==
  ASSUME NEW w, NEW a, Paying(w, a), w.at # "calling", NEW v, NEW x, v # "calling"
  PROVE  /\ Paying([w EXCEPT !.at = v, !.spent = x], a)
         /\ Paying([w EXCEPT !.at = v, !.asks = x], a)
BY DEF Paying, Carrying
LEMMA CallerGoesOn ==
  ASSUME NEW w, NEW a, Paying(w, a), NEW x
  PROVE  Paying([w EXCEPT !.next = x], a)
BY DEF Paying, Carrying, RouteApproved
LEMMA CallerEnds ==
  ASSUME NEW w, NEW a, Paying(w, a), NEW v, NEW x, v # "calling"
  PROVE  Paying([w EXCEPT !.at = v, !.cost = x], a)
BY DEF Paying, Carrying

LEMMA NextSpends == SpendsAsApproved /\ [Next]_vars => SpendsAsApproved'
<1> SUFFICES ASSUME SpendsAsApproved, [Next]_vars PROVE SpendsAsApproved'
  OBVIOUS
<1>1. CASE UNCHANGED <<worker, approval, paid>>
  BY <1>1 DEF SpendsAsApproved
<1>2. ASSUME NEW r \in Runs PROVE Paying(worker[r], approval[r]) /\ DOMAIN paid = Runs
  BY DEF SpendsAsApproved
<1>3. ASSUME NEW r \in Runs, NEW d, DecideApproval(r, d) PROVE SpendsAsApproved'
  <2>1. PICK a : a = [approval[r] EXCEPT !.status = d]
    OBVIOUS
  <2>2. /\ approval' = [approval EXCEPT ![r] = a] /\ UNCHANGED <<worker, paid>>
        /\ approval[r].status = "pending"
    BY <1>3, <2>1 DEF DecideApproval
  <2>3. Paying(worker[r], a)
    <3>1. worker[r].at = "calling" => worker[r].approved = NoRoute
      BY <1>2, <2>2 DEF Paying, RouteApproved
    <3>2. QED
      BY <1>2, <3>1 DEF Paying
  <2>4. worker' = [worker EXCEPT ![r] = worker[r]]
    BY <2>2 DEF SpendsAsApproved
  <2>5. QED
    BY <1>2, <2>2, <2>3, <2>4, OneSpends
<1>4. ASSUME NEW r \in Runs, Redrive(r) PROVE SpendsAsApproved'
  <2>1. PICK w, a : w = Idle /\ a = NoneGiven
    OBVIOUS
  <2>2. /\ worker' = [worker EXCEPT ![r] = w] /\ approval' = [approval EXCEPT ![r] = a]
        /\ UNCHANGED paid
    BY <1>4, <2>1 DEF Redrive
  <2>3. QED
    BY <1>2, <2>1, <2>2, IdlePays, OneSpends
<1>5. ASSUME NEW r \in Runs, ReadContext(r) \/ BudgetBlocks(r) \/ NoRouteLeft(r)
      PROVE  SpendsAsApproved'
  <2>1. PICK w : w = worker[r]
    OBVIOUS
  <2>2. Paying(w, approval[r])
    BY <1>2, <2>1
  <2>3. CASE ReadContext(r)
    <3>1. PICK x, u : /\ u = [w EXCEPT !.at = "planned", !.spent = x]
                      /\ worker' = [worker EXCEPT ![r] = u] /\ UNCHANGED <<approval, paid>>
      BY <2>1, <2>3 DEF ReadContext
    <3>2. Paying(u, approval[r])
      BY <2>1, <2>2, <2>3, <3>1, WorkerUpdates DEF ReadContext
    <3>3. QED
      BY <1>2, <3>1, <3>2, WorkerSpends
  <2>4. CASE BudgetBlocks(r)
    <3>1. PICK x, u : /\ u = [w EXCEPT !.at = "paused", !.asks = x]
                      /\ worker' = [worker EXCEPT ![r] = u] /\ UNCHANGED <<approval, paid>>
      BY <2>1, <2>4 DEF BudgetBlocks
    <3>2. Paying(u, approval[r])
      BY <2>1, <2>2, <2>4, <3>1, WorkerUpdates DEF BudgetBlocks
    <3>3. QED
      BY <1>2, <3>1, <3>2, WorkerSpends
  <2>5. CASE NoRouteLeft(r)
    <3>1. PICK x, u : /\ u = [w EXCEPT !.at = "failed", !.cost = x]
                      /\ worker' = [worker EXCEPT ![r] = u] /\ UNCHANGED <<approval, paid>>
      BY <2>1, <2>5 DEF NoRouteLeft
    <3>2. Paying(u, approval[r])
      BY <2>1, <2>2, <2>5, <3>1, CallerEnds
    <3>3. QED
      BY <1>2, <3>1, <3>2, WorkerSpends
  <2>6. QED
    BY <1>5, <2>3, <2>4, <2>5
<1>6. ASSUME NEW r \in Runs, BudgetAdmits(r) PROVE SpendsAsApproved'
  <2>1. PICK w : w = worker[r]
    OBVIOUS
  <2>2. PICK given :
          /\ worker' = [worker EXCEPT ![r] = [w EXCEPT !.at = "calling", !.next = 1,
                          !.admitted = RuntimeBudgetGuardDecision(r) = NoTerms, !.approved = given]]
          /\ \/ given = NoRoute
             \/ /\ ApprovedBudgetRouteForCurrentContext(r)
                /\ given.model = ModelPolicy.defaultModel
                /\ given.cost = approval[r].terms.estimated
          /\ UNCHANGED <<approval, paid>>
    BY <1>6, <2>1 DEF BudgetAdmits
  <2>3. given = NoRoute \/ /\ approval[r].status = "approved"
                              /\ given.model = ModelPolicy.defaultModel
                              /\ given.cost = approval[r].terms.estimated
    BY <2>2 DEF ApprovedBudgetRouteForCurrentContext
  <2>4. PICK u : u = [w EXCEPT !.at = "calling", !.next = 1,
                        !.admitted = RuntimeBudgetGuardDecision(r) = NoTerms, !.approved = given]
    OBVIOUS
  <2>5. DOMAIN w = Carrying
    BY <1>2, <2>1 DEF Paying
  <2>6. DOMAIN u = Carrying /\ u.approved = given
    BY <2>4, <2>5 DEF Carrying
  <2>7. Paying(u, approval[r])
    BY <2>3, <2>6 DEF Paying, RouteApproved
  <2>8. worker' = [worker EXCEPT ![r] = u]
    BY <2>2, <2>4
  <2>9. QED
    BY <1>2, <2>2, <2>7, <2>8, WorkerSpends
<1>7. ASSUME NEW r \in Runs, SkipRoute(r) \/ (\E b \in BOOLEAN : CallFails(r, b))
      PROVE  SpendsAsApproved'
  <2>1. PICK x : /\ worker' = [worker EXCEPT ![r].next = x]
                 /\ UNCHANGED <<approval, paid>>
    BY <1>7 DEF SkipRoute, CallFails
  <2>2. PICK w, u : w = worker[r] /\ u = [w EXCEPT !.next = x]
    OBVIOUS
  <2>3. worker' = [worker EXCEPT ![r] = u]
    BY <2>1, <2>2
  <2>4. Paying(u, approval[r])
    BY <1>2, <2>2, CallerGoesOn
  <2>5. QED
    BY <1>2, <2>1, <2>3, <2>4, WorkerSpends
<1>8. ASSUME NEW r \in Runs, CallSucceeds(r) PROVE SpendsAsApproved'
  <2>1. PICK x, p : /\ worker' = [worker EXCEPT ![r].at = "completed", ![r].cost = x]
                    /\ paid' = [paid EXCEPT ![r] = p]
                    /\ UNCHANGED approval
    BY <1>8 DEF CallSucceeds
  <2>2. PICK w, u : w = worker[r] /\ u = [w EXCEPT !.at = "completed", !.cost = x]
    OBVIOUS
  <2>3. worker' = [worker EXCEPT ![r] = u]
    BY <2>1, <2>2
  <2>4. Paying(u, approval[r])
    BY <1>2, <2>2, CallerEnds
  <2>5. DOMAIN paid' = Runs
    BY <1>2, <2>1
  <2>6. QED
    BY <2>1, <2>3, <2>4, <2>5, WorkerSpends
<1>9. ASSUME NEW r \in Runs, ApplyDecision(r) PROVE SpendsAsApproved'
  <2>1. PICK u, a, m, n : /\ u = [Idle EXCEPT !.attempt = m, !.admitted = n]
                          /\ worker' = [worker EXCEPT ![r] = u]
                          /\ approval' = [approval EXCEPT ![r] = a]
                          /\ UNCHANGED paid
    BY <1>9 DEF ApplyDecision
  <2>2. Paying(u, a)
    BY <2>1 DEF Paying, Idle, Carrying
  <2>3. QED
    BY <1>2, <2>1, <2>2, OneSpends
<1>10. ASSUME NEW r \in Runs, LoseLease(r) PROVE SpendsAsApproved'
  <2>1. PICK u, m : /\ u = [Idle EXCEPT !.attempt = m]
                    /\ worker' = [worker EXCEPT ![r] = u] /\ UNCHANGED <<approval, paid>>
    BY <1>10 DEF LoseLease
  <2>2. Paying(u, approval[r])
    BY <2>1 DEF Paying, Idle, Carrying
  <2>3. QED
    BY <1>2, <2>1, <2>2, WorkerSpends
<1>11. CASE NextDay \/ \E r \in Runs : CreateRun(r) \/ CancelRun(r)
  BY <1>1, <1>11 DEF NextDay, CreateRun, CancelRun
<1>12. CASE UNCHANGED vars
  BY <1>1, <1>12 DEF vars
<1>13. QED
  BY <1>3, <1>4, <1>5, <1>6, <1>7, <1>8, <1>9, <1>10, <1>11, <1>12 DEF Next

(* A call beyond the ceiling is the default model's, at the approved price. *)
LEMMA CallsAsApproved ==
  ASSUME SpendsAsApproved, NEW q \in Runs, CallSucceeds(q), NEW r \in Runs,
         paid'[r] # paid[r],
         paid'[r].route.cost > StrictestRuntimeBudgetCeiling(runs[r].place)
  PROVE  /\ approval[r].status = "approved"
         /\ paid'[r].route.model = ModelPolicy.defaultModel
         /\ paid'[r].route.cost <= approval[r].terms.estimated
<1>1. PICK route, calls :
        /\ ~SkipReasonForFailoverRoute(route, EffectiveBudget(q))
        /\ paid' = [paid EXCEPT ![q] = [calls |-> calls, route |-> route]]
        /\ worker[q].at = "calling"
  BY DEF CallSucceeds, AtRoute
<1>2. r = q /\ paid'[r].route = route
  BY <1>1 DEF SpendsAsApproved
<1>3. PICK w : w = worker[r] /\ Paying(w, approval[r]) /\ w.at = "calling"
  BY <1>1, <1>2 DEF SpendsAsApproved
<1>4. /\ w.approved.provider = ParseProvider(route.model)
      /\ w.approved.model = route.model /\ route.cost <= w.approved.cost
  BY <1>1, <1>2, <1>3 DEF SkipReasonForFailoverRoute, EffectiveBudget
<1>5. w.approved # NoRoute
  <2>1. ParseProvider(route.model) # ""
    BY DEF ParseProvider
  <2>2. NoRoute.provider = ""
    BY DEF NoRoute
  <2>3. QED
    BY <1>4, <2>1, <2>2
<1>6. RouteApproved(w, approval[r])
  BY <1>3, <1>5 DEF Paying
<1>7. QED
  BY <1>2, <1>4, <1>6 DEF RouteApproved

(* runModelWithFailover: a provider is called beyond the run's ceiling only for
   the default model, at most at the price of an approval that stands. *)
THEOREM OverCeilingApprovedHolds == Spec => OverCeilingApproved
<1>1. Init => SpendsAsApproved
  BY DEF Init, Idle, SpendsAsApproved, Paying, Carrying
<1>2. SpendsAsApproved /\ [Next]_vars
        => [\A r \in Runs :
              paid'[r] # paid[r] /\ paid'[r].route.cost > StrictestRuntimeBudgetCeiling(runs[r].place)
                => /\ approval[r].status = "approved"
                   /\ paid'[r].route.model = ModelPolicy.defaultModel
                   /\ paid'[r].route.cost <= approval[r].terms.estimated]_vars
  <2> SUFFICES ASSUME SpendsAsApproved, [Next]_vars, NEW r \in Runs, paid'[r] # paid[r],
                      paid'[r].route.cost > StrictestRuntimeBudgetCeiling(runs[r].place)
               PROVE  /\ approval[r].status = "approved"
                      /\ paid'[r].route.model = ModelPolicy.defaultModel
                      /\ paid'[r].route.cost <= approval[r].terms.estimated
    OBVIOUS
  <2>1. PICK q \in Runs : CallSucceeds(q)
    BY DEF Next, vars, NextDay, CreateRun, CancelRun, DecideApproval, Redrive,
           ReadContext, BudgetBlocks, BudgetAdmits, SkipRoute, CallFails,
           NoRouteLeft, ApplyDecision, LoseLease
  <2>2. QED
    BY <2>1, CallsAsApproved
<1>3. QED
  BY <1>1, <1>2, NextSpends, PTL DEF Spec, OverCeilingApproved

-----------------------------------------------------------------------------
(* Sums over finite sets *)

Total(f, S) == FoldFunctionOnSet(+, 0, f, S)

(* FoldFunctionOnSet takes the elements one after the other; what it computes
   is a function on the subsets of S. *)
One(s) == CHOOSE x \in s : TRUE
Body(f, S, it) == [s \in SUBSET S |-> IF s = {} THEN 0 ELSE f[One(s)] + it[s \ {One(s)}]]
Sums(f, S) == CHOOSE it : it = Body(f, S, it)

LEMMA TotalIsSums == ASSUME NEW f, NEW S PROVE Total(f, S) = Sums(f, S)[S]
BY DEF Total, FoldFunctionOnSet, MapThenFoldSet, Sums, Body, One

LEMMA LeastOf ==
  ASSUME NEW B, B \subseteq Nat, NEW n \in B
  PROVE  \E m \in B : \A k \in B : m <= k
<1>1. \E m \in B : \A k \in B : ~(<<k, m>> \in OpToRel(<, Nat))
  BY NatLessThanWellFounded, WFMin
<1>2. PICK m \in B : \A k \in B : ~(<<k, m>> \in OpToRel(<, Nat))
  BY <1>1
<1>3. ASSUME NEW k \in B PROVE m <= k
  <2>1. ~(k < m)
    BY <1>2 DEF OpToRel
  <2>2. QED
    BY <2>1
<1>4. QED
  BY <1>3

LEMMA Without ==
  ASSUME NEW s, IsFiniteSet(s), NEW x \in s
  PROVE  /\ IsFiniteSet(s \ {x}) /\ Cardinality(s) \in Nat \ {0}
         /\ Cardinality(s \ {x}) \in Nat /\ Cardinality(s \ {x}) = Cardinality(s) - 1
<1>1. IsFiniteSet(s \ {x}) /\ Cardinality(s \ {x}) = Cardinality(s) - 1
  BY FS_RemoveElement
<1>2. Cardinality(s) \in Nat /\ Cardinality(s \ {x}) \in Nat
  BY <1>1, FS_CardinalityType
<1>3. QED
  BY <1>1, <1>2

LEMMA OneIn == ASSUME NEW s, s # {} PROVE One(s) \in s
BY DEF One

LEMMA SmallFinite ==
  ASSUME NEW S, IsFiniteSet(S), NEW s \in SUBSET S
  PROVE  IsFiniteSet(s) /\ Cardinality(s) \in Nat /\ Cardinality(s) <= Cardinality(S)
BY FS_Subset, FS_CardinalityType

LEMMA EmptyHasNone ==
  ASSUME NEW s, IsFiniteSet(s), Cardinality(s) <= 0 PROVE s = {}
BY FS_EmptySet, FS_CardinalityType

(* There is such a function: it is built up by the number of elements. *)
Small(S, n) == {s \in SUBSET S : Cardinality(s) <= n}
Level(f, S, n, it) ==
  it = [s \in Small(S, n) |-> IF s = {} THEN 0 ELSE f[One(s)] + it[s \ {One(s)}]]

LEMMA NextLevel ==
  ASSUME NEW f, NEW S, IsFiniteSet(S), NEW m \in Nat \ {0}, NEW g, Level(f, S, m - 1, g)
  PROVE  \E it : Level(f, S, m, it)
<1>1. PICK it : it = [s \in Small(S, m) |-> IF Cardinality(s) <= m - 1 THEN g[s]
                                             ELSE f[One(s)] + g[s \ {One(s)}]]
  OBVIOUS
<1>2. ASSUME NEW s \in Small(S, m - 1), s # {} PROVE g[s] = f[One(s)] + g[s \ {One(s)}]
  BY <1>2 DEF Level
<1>3. ASSUME NEW s \in Small(S, m)
      PROVE  it[s] = IF s = {} THEN 0 ELSE f[One(s)] + it[s \ {One(s)}]
  <2>1. s \in SUBSET S /\ IsFiniteSet(s) /\ Cardinality(s) \in Nat /\ Cardinality(s) <= m
    BY SmallFinite DEF Small
  <2>2. CASE s = {}
    <3>1. Cardinality(s) <= m - 1
      BY <2>2, FS_EmptySet
    <3>2. s \in Small(S, m - 1) /\ it[s] = g[s]
      BY <1>1, <2>1, <3>1 DEF Small
    <3>3. g[s] = 0
      BY <2>2, <3>2 DEF Level
    <3>4. QED
      BY <2>2, <3>2, <3>3
  <2>3. CASE s # {}
    <3>1. PICK t : t = s \ {One(s)}
      OBVIOUS
    <3>2. t \in SUBSET S /\ Cardinality(t) \in Nat /\ Cardinality(t) = Cardinality(s) - 1
      BY <2>1, <2>3, <3>1, OneIn, Without
    <3>3. t \in Small(S, m) /\ Cardinality(t) <= m - 1
      BY <2>1, <3>2 DEF Small
    <3>4. it[t] = g[t]
      BY <1>1, <3>3
    <3>5. it[s] = f[One(s)] + g[t]
      <4>1. CASE Cardinality(s) <= m - 1
        <5>1. s \in Small(S, m - 1)
          BY <2>1, <4>1 DEF Small
        <5>2. it[s] = g[s]
          BY <1>1, <4>1
        <5>3. g[s] = f[One(s)] + g[t]
          BY <1>2, <2>3, <3>1, <5>1
        <5>4. QED
          BY <5>2, <5>3
      <4>2. CASE ~(Cardinality(s) <= m - 1)
        BY <1>1, <3>1, <4>2
      <4>3. QED
        BY <4>1, <4>2
    <3>6. QED
      BY <2>3, <3>1, <3>4, <3>5
  <2>4. QED
    BY <2>2, <2>3
<1>4. Level(f, S, m, it)
  <2>1. it = [s \in Small(S, m) |-> it[s]]
    BY <1>1
  <2>2. QED
    BY <1>3, <2>1 DEF Level
<1>5. QED
  BY <1>4

LEMMA Levels ==
  ASSUME NEW f, NEW S, IsFiniteSet(S), NEW n \in Nat
  PROVE  \E it : Level(f, S, n, it)
<1> DEFINE B == {m \in Nat : ~\E it : Level(f, S, m, it)}
<1> SUFFICES ASSUME n \in B PROVE FALSE
  OBVIOUS
<1>1. PICK m \in B : \A k \in B : m <= k
  <2>1. B \subseteq Nat
    OBVIOUS
  <2> HIDE DEF B
  <2>2. QED
    BY <2>1, LeastOf
<1>2. m \in Nat /\ ~\E it : Level(f, S, m, it)
  OBVIOUS
<1>3. CASE m = 0
  <2>1. PICK it : it = [s \in Small(S, 0) |-> 0]
    OBVIOUS
  <2>2. ASSUME NEW s \in Small(S, 0) PROVE s = {}
    BY SmallFinite, EmptyHasNone DEF Small
  <2>3. Level(f, S, 0, it)
    BY <2>1, <2>2 DEF Level
  <2>4. QED
    BY <1>2, <1>3, <2>3
<1>4. CASE m # 0
  <2>1. m - 1 \in Nat /\ ~(m <= m - 1)
    BY <1>2, <1>4
  <2>2. m - 1 \notin B
    BY <1>1, <2>1
  <2>3. PICK g : Level(f, S, m - 1, g)
    BY <2>1, <2>2
  <2>4. m \in Nat \ {0}
    BY <1>2, <1>4
  <2>5. QED
    BY <1>2, <2>3, <2>4, NextLevel
<1>5. QED
  BY <1>3, <1>4

LEMMA SumsIs ==
  ASSUME NEW f, NEW S, IsFiniteSet(S)
  PROVE  Sums(f, S) = Body(f, S, Sums(f, S))
<1>1. PICK n \in Nat : n = Cardinality(S)
  BY FS_CardinalityType
<1>2. Small(S, n) = SUBSET S
  BY <1>1, SmallFinite DEF Small
<1>3. PICK it : Level(f, S, n, it)
  BY Levels
<1>4. it = Body(f, S, it)
  BY <1>2, <1>3 DEF Level, Body
<1> HIDE DEF Body
<1>5. QED
  BY <1>4, Zenon DEF Sums

LEMMA SumsOf ==
  ASSUME NEW f, NEW S, IsFiniteSet(S), NEW s \in SUBSET S
  PROVE  Sums(f, S)[s] = IF s = {} THEN 0 ELSE f[One(s)] + Sums(f, S)[s \ {One(s)}]
<1>1. PICK it : it = Sums(f, S)
  OBVIOUS
<1>2. it = Body(f, S, it)
  BY <1>1, SumsIs
<1>3. it[s] = IF s = {} THEN 0 ELSE f[One(s)] + it[s \ {One(s)}]
  BY <1>2 DEF Body
<1>4. QED
  BY <1>1, <1>3

LEMMA SumsEmpty ==
  ASSUME NEW f, NEW S, IsFiniteSet(S) PROVE Sums(f, S)[{}] = 0
BY SumsOf

LEMMA SumsOne ==
  ASSUME NEW f, NEW S, IsFiniteSet(S), NEW s \in SUBSET S, s # {},
         NEW x, x = One(s), NEW t, t = s \ {x}
  PROVE  Sums(f, S)[s] = f[x] + Sums(f, S)[t]
<1>1. Sums(f, S)[s] = f[One(s)] + Sums(f, S)[s \ {One(s)}]
  BY SumsOf
<1>2. QED
  BY <1>1

(* What is summed over a part does not depend on the whole. *)
LEMMA SumsAgree ==
  ASSUME NEW f, NEW S, IsFiniteSet(S), NEW T \in SUBSET S, NEW r \in SUBSET T
  PROVE  Sums(f, T)[r] = Sums(f, S)[r]
<1> DEFINE Odd == {s \in SUBSET T : Sums(f, T)[s] # Sums(f, S)[s]}
           B == {Cardinality(s) : s \in Odd}
<1> SUFFICES ASSUME r \in Odd PROVE FALSE
  OBVIOUS
<1>1. IsFiniteSet(T)
  BY FS_Subset
<1>2. B \subseteq Nat /\ Cardinality(r) \in B
  BY <1>1, SmallFinite
<1>3. PICK m \in B : \A k \in B : m <= k
  <2> HIDE DEF B
  <2>1. QED
    BY <1>2, LeastOf
<1>4. PICK s \in Odd : m = Cardinality(s)
  OBVIOUS
<1>5. s \in SUBSET T /\ s \in SUBSET S /\ Sums(f, T)[s] # Sums(f, S)[s] /\ IsFiniteSet(s)
  BY <1>1, <1>4, SmallFinite
<1>6. s # {}
  BY <1>1, <1>5, SumsEmpty
<1>7. PICK x, t : x = One(s) /\ t = s \ {x}
  OBVIOUS
<1>8. t \in SUBSET T /\ Cardinality(t) \in Nat /\ Cardinality(t) = Cardinality(s) - 1
  BY <1>5, <1>6, <1>7, OneIn, Without
<1>9. ~(m <= Cardinality(t)) /\ m \in Nat
  <2> HIDE DEF Odd, B
  <2>1. QED
    BY <1>2, <1>4, <1>8
<1>10. t \notin Odd
  BY <1>3, <1>9
<1>11. Sums(f, T)[t] = Sums(f, S)[t]
  BY <1>8, <1>10
<1>12. Sums(f, T)[s] = f[x] + Sums(f, T)[t] /\ Sums(f, S)[s] = f[x] + Sums(f, S)[t]
  <2> HIDE DEF Odd, B
  <2>1. QED
    BY <1>1, <1>5, <1>6, <1>7, SumsOne
<1>13. QED
  BY <1>5, <1>11, <1>12

LEMMA TotalEmpty == ASSUME NEW f PROVE Total(f, {}) = 0
BY FS_EmptySet, SumsEmpty, TotalIsSums

LEMMA TotalOne ==
  ASSUME NEW f, NEW S, IsFiniteSet(S), S # {}
  PROVE  Total(f, S) = f[One(S)] + Total(f, S \ {One(S)})
<1>1. PICK x, t : x = One(S) /\ t = S \ {x}
  OBVIOUS
<1>2. Total(f, S) = f[x] + Sums(f, S)[t]
  BY <1>1, SumsOne, TotalIsSums
<1>3. t \in SUBSET S
  BY <1>1
<1>4. Sums(f, t)[t] = Sums(f, S)[t]
  BY <1>3, SumsAgree
<1>5. QED
  BY <1>1, <1>2, <1>4, TotalIsSums

LEMMA TotalNat ==
  ASSUME NEW f, NEW S, IsFiniteSet(S), \A x \in S : f[x] \in Nat
  PROVE  Total(f, S) \in Nat
<1> DEFINE Odd == {s \in SUBSET S : Total(f, s) \notin Nat}
           B == {Cardinality(s) : s \in Odd}
<1> SUFFICES ASSUME S \in Odd PROVE FALSE
  OBVIOUS
<1>1. B \subseteq Nat /\ Cardinality(S) \in B
  BY SmallFinite
<1>2. PICK m \in B : \A k \in B : m <= k
  <2> HIDE DEF B
  <2>1. QED
    BY <1>1, LeastOf
<1>3. PICK s \in Odd : m = Cardinality(s)
  OBVIOUS
<1>4. s \in SUBSET S /\ Total(f, s) \notin Nat /\ IsFiniteSet(s)
  BY <1>3, SmallFinite
<1>5. s # {}
  BY <1>4, TotalEmpty
<1>6. PICK x, t : x = One(s) /\ t = s \ {x}
  OBVIOUS
<1>7. t \in SUBSET S /\ Cardinality(t) \in Nat /\ Cardinality(t) = Cardinality(s) - 1 /\ x \in S
  BY <1>4, <1>5, <1>6, OneIn, Without
<1>8. ~(m <= Cardinality(t))
  <2> HIDE DEF Odd, B
  <2>1. QED
    BY <1>1, <1>3, <1>7
<1>9. Total(f, t) \in Nat
  BY <1>2, <1>7, <1>8
<1>10. Total(f, s) = f[x] + Total(f, t)
  BY <1>4, <1>5, <1>6, TotalOne
<1>11. QED
  BY <1>4, <1>7, <1>9, <1>10

(* The order does not matter. *)
LEMMA TotalWithout ==
  ASSUME NEW f, NEW S, IsFiniteSet(S), \A x \in S : f[x] \in Nat, NEW r \in S
  PROVE  Total(f, S) = f[r] + Total(f, S \ {r})
<1> DEFINE Odd == {s \in SUBSET S : \E y \in s : Total(f, s) # f[y] + Total(f, s \ {y})}
           B == {Cardinality(s) : s \in Odd}
<1> SUFFICES ASSUME S \in Odd PROVE FALSE
  OBVIOUS
<1>1. B \subseteq Nat /\ Cardinality(S) \in B
  BY SmallFinite
<1>2. PICK m \in B : \A k \in B : m <= k
  <2> HIDE DEF B
  <2>1. QED
    BY <1>1, LeastOf
<1>3. PICK s \in Odd : m = Cardinality(s)
  OBVIOUS
<1>4. PICK y \in s : Total(f, s) # f[y] + Total(f, s \ {y})
  BY <1>3
<1>5. s \in SUBSET S /\ IsFiniteSet(s)
  BY <1>3, SmallFinite
<1>6. PICK x, t, u : x = One(s) /\ t = s \ {x} /\ u = s \ {y}
  OBVIOUS
<1>7. Total(f, s) = f[x] + Total(f, t) /\ x \in s
  BY <1>4, <1>5, <1>6, OneIn, TotalOne
<1>8. x # y
  BY <1>4, <1>6, <1>7
<1>9. /\ t \in SUBSET S /\ IsFiniteSet(t) /\ Cardinality(t) \in Nat /\ Cardinality(t) = Cardinality(s) - 1
      /\ u \in SUBSET S /\ IsFiniteSet(u) /\ Cardinality(u) \in Nat /\ Cardinality(u) = Cardinality(s) - 1
  BY <1>5, <1>6, <1>7, Without
<1>10. ~(m <= Cardinality(t)) /\ ~(m <= Cardinality(u))
  <2> HIDE DEF Odd, B
  <2>1. QED
    BY <1>1, <1>3, <1>9
<1>11. t \notin Odd /\ u \notin Odd
  BY <1>2, <1>10
<1>12. y \in t /\ x \in u
  BY <1>4, <1>6, <1>7, <1>8
<1>13. Total(f, t) = f[y] + Total(f, t \ {y}) /\ Total(f, u) = f[x] + Total(f, u \ {x})
  BY <1>9, <1>11, <1>12
<1>14. PICK v : v = t \ {y} /\ v = u \ {x}
  BY <1>6
<1>15. IsFiniteSet(v) /\ \A z \in v : f[z] \in Nat
  BY <1>9, <1>14, FS_Subset
<1>16. Total(f, v) \in Nat /\ f[x] \in Nat /\ f[y] \in Nat
  BY <1>4, <1>5, <1>7, <1>15, TotalNat
<1>17. Total(f, s) = f[y] + Total(f, u)
  BY <1>7, <1>13, <1>14, <1>16
<1>18. QED
  BY <1>4, <1>6, <1>17

(* More elements, or heavier ones, sum up to more. *)
LEMMA TotalLeq ==
  ASSUME NEW f, NEW g, NEW S, NEW T, IsFiniteSet(T), S \subseteq T,
         \A x \in T : g[x] \in Nat, \A x \in S : f[x] \in Nat /\ f[x] <= g[x]
  PROVE  Total(f, S) <= Total(g, T)
<1> DEFINE Odd == {s \in SUBSET S : \E t \in SUBSET T : s \subseteq t /\ ~(Total(f, s) <= Total(g, t))}
           B == {Cardinality(s) : s \in Odd}
<1> SUFFICES ASSUME S \in Odd PROVE FALSE
  OBVIOUS
<1>0. IsFiniteSet(S)
  BY FS_Subset
<1>1. B \subseteq Nat /\ Cardinality(S) \in B
  BY <1>0, SmallFinite
<1>2. PICK m \in B : \A k \in B : m <= k
  <2> HIDE DEF B
  <2>1. QED
    BY <1>1, LeastOf
<1>3. PICK s \in Odd : m = Cardinality(s)
  OBVIOUS
<1>4. PICK t \in SUBSET T : s \subseteq t /\ ~(Total(f, s) <= Total(g, t))
  BY <1>3
<1>5. s \in SUBSET S /\ IsFiniteSet(s) /\ IsFiniteSet(t)
  BY <1>0, <1>3, SmallFinite
<1>6. Total(g, t) \in Nat
  BY <1>4, <1>5, TotalNat
<1>7. s # {}
  BY <1>4, <1>6, TotalEmpty
<1>8. PICK x, u, v : x \in s /\ u = s \ {x} /\ v = t \ {x}
  BY <1>7
<1>9. /\ u \in SUBSET S /\ Cardinality(u) \in Nat /\ Cardinality(u) = Cardinality(s) - 1
      /\ IsFiniteSet(u) /\ IsFiniteSet(v) /\ v \in SUBSET T /\ u \subseteq v
  BY <1>4, <1>5, <1>8, Without
<1>10. ~(m <= Cardinality(u))
  <2> HIDE DEF Odd, B
  <2>1. QED
    BY <1>1, <1>3, <1>9
<1>11. Total(f, u) <= Total(g, v)
  <2>1. u \notin Odd
    BY <1>2, <1>10
  <2>2. QED
    BY <1>9, <2>1
<1>12. Total(f, s) = f[x] + Total(f, u)
  BY <1>5, <1>8, TotalWithout
<1>13. Total(g, t) = g[x] + Total(g, v)
  BY <1>4, <1>5, <1>8, TotalWithout
<1>14. /\ Total(f, u) \in Nat /\ Total(g, v) \in Nat
       /\ f[x] \in Nat /\ g[x] \in Nat /\ f[x] <= g[x]
  BY <1>5, <1>8, <1>9, TotalNat
<1>15. QED
  BY <1>4, <1>11, <1>12, <1>13, <1>14

-----------------------------------------------------------------------------
(* A day's ceiling: the inductive invariant *)

Weight(run) == Min({run.estimated, CommittedRunCostCents(run)})
Weights(rs) == [r \in Runs |-> Weight(rs[r])]

(* A run with an attempt at hand, or that was let through and completed. *)
Live(w) == w.at # "idle" \/ w.admitted
Standing(run, w) == Live(w) /\ RunCountsAgainstDailyBudget(run)

(* Runs of the policy and the day that read the store before r did. *)
Ahead(rank, rs, ws, r, p) ==
  {s \in Runs : /\ Standing(rs[s], ws[s]) /\ rank[s] < rank[r]
                /\ <<p, rs[s].place>> \in Governs /\ rs[s].day = rs[r].day}

(* Reads of the store have an order.  What a run has read covers the runs ahead
   of it, and a run that was let through fits in with those ahead. *)
Ordered(rank, ws) ==
  \A r, s \in Runs : r # s /\ Live(ws[r]) /\ Live(ws[s]) => rank[r] # rank[s]
Covered(rank, rs, ws) ==
  \A r \in Runs : \A p \in PoliciesOf(rs[r].place) :
    /\ ws[r].at = "planned"
         => Total(Weights(rs), Ahead(rank, rs, ws, r, p)) <= ws[r].spent
    /\ ws[r].admitted
         => Total(Weights(rs), Ahead(rank, rs, ws, r, p)) + Weight(rs[r]) <= Policies[p].perDay

(* A run and the attempt at hand: it costs what it was estimated at until it
   has completed, and a completed attempt is over. *)
Booked(run, w) ==
  /\ DOMAIN run = {"status", "estimated", "actual", "day", "place"}
  /\ run.estimated \in Nat /\ run.actual \in Nat
  /\ DOMAIN w = Carrying /\ w.spent \in Nat /\ w.cost \in Nat /\ w.admitted \in BOOLEAN
  /\ w.at # "idle" => run.status \in {"queued", "cancelled"}
  /\ w.at = "idle" /\ w.admitted => run.status = "completed"
  /\ w.at = "planned" => ~w.admitted
  /\ w.at = "failed" => w.cost = 0
  /\ run.status \notin {"completed", "cancelled"} => run.actual = 0
Books ==
  /\ runs = [r \in Runs |-> runs[r]] /\ worker = [r \in Runs |-> worker[r]]
  /\ \A r \in Runs : Booked(runs[r], worker[r])

DayInv ==
  /\ Books
  /\ \E n \in Nat : \E rank \in [Runs -> 0..n] : Ordered(rank, worker) /\ Covered(rank, runs, worker)

LEMMA MinOfTwo ==
  ASSUME NEW a \in Nat, NEW b \in Nat
  PROVE  Min({a, b}) \in Nat /\ Min({a, b}) <= a /\ Min({a, b}) <= b
<1>1. \E x \in {a, b} : \A y \in {a, b} : x <= y
  OBVIOUS
<1>2. Min({a, b}) \in {a, b} /\ \A y \in {a, b} : Min({a, b}) <= y
  BY <1>1 DEF Min
<1>3. QED
  BY <1>2

LEMMA WeightIs ==
  ASSUME NEW run, run.estimated \in Nat, run.actual \in Nat
  PROVE  /\ Weight(run) \in Nat /\ Weight(run) <= run.estimated
         /\ CommittedRunCostCents(run) \in Nat /\ Weight(run) <= CommittedRunCostCents(run)
<1>1. CommittedRunCostCents(run) \in Nat
  BY DEF CommittedRunCostCents
<1>2. QED
  BY <1>1, MinOfTwo DEF Weight

(* What may become of a run and its attempt between two reads of the store: it
   gets no heavier, and what lets it through is that it fits. *)
Fits(run, w) ==
  w.at = "planned" /\ \A p \in PoliciesOf(run.place) : w.spent + Weight(run) <= Policies[p].perDay
Same(run, run2) == run2.place = run.place /\ run2.day = run.day
Onward(run, w, run2, w2) ==
  /\ Live(w2) => Live(w)
  /\ Standing(run2, w2) => Standing(run, w) /\ Same(run, run2) /\ Weight(run2) <= Weight(run)
  /\ w2.at = "planned" => w.at = "planned" /\ w2.spent = w.spent /\ Same(run, run2)
  /\ w2.admitted => /\ Same(run, run2) /\ Weight(run2) <= Weight(run)
                    /\ w.admitted \/ Fits(run, w)

LEMMA AheadShrinks ==
  ASSUME NEW rank, NEW rs, NEW ws, NEW rs2, NEW ws2, NEW r \in Runs, NEW p,
         \A s \in Runs : Booked(rs[s], ws[s]) /\ Booked(rs2[s], ws2[s]),
         \A s \in Runs : Onward(rs[s], ws[s], rs2[s], ws2[s]),
         Same(rs[r], rs2[r])
  PROVE  Total(Weights(rs2), Ahead(rank, rs2, ws2, r, p)) <= Total(Weights(rs), Ahead(rank, rs, ws, r, p))
<1> DEFINE S == Ahead(rank, rs2, ws2, r, p)
           T == Ahead(rank, rs, ws, r, p)
           f == Weights(rs2)
           g == Weights(rs)
<1>1. IsFiniteSet(T)
  BY SpendingAssumption, FS_Subset DEF Ahead
<1>2. ASSUME NEW x \in S PROVE x \in T /\ Weight(rs2[x]) <= Weight(rs[x])
  <2>1. x \in Runs /\ Standing(rs2[x], ws2[x])
    BY DEF Ahead
  <2>2. Standing(rs[x], ws[x]) /\ Same(rs[x], rs2[x]) /\ Weight(rs2[x]) <= Weight(rs[x])
    BY <2>1 DEF Onward
  <2>3. QED
    BY <2>1, <2>2 DEF Ahead, Same
<1>3. ASSUME NEW x \in Runs PROVE Weight(rs[x]) \in Nat /\ Weight(rs2[x]) \in Nat
  <2>1. /\ rs[x].estimated \in Nat /\ rs[x].actual \in Nat
        /\ rs2[x].estimated \in Nat /\ rs2[x].actual \in Nat
    BY DEF Booked
  <2>2. QED
    BY <2>1, WeightIs
<1>4. S \subseteq Runs /\ T \subseteq Runs
  BY DEF Ahead
<1>5. /\ \A x \in T : g[x] \in Nat
      /\ \A x \in S : f[x] \in Nat /\ f[x] <= g[x]
  BY <1>2, <1>3, <1>4 DEF Weights
<1>6. S \subseteq T
  BY <1>2
<1> HIDE DEF S, T, f, g
<1>7. Total(f, S) <= Total(g, T)
  BY <1>1, <1>5, <1>6, TotalLeq
<1>8. QED
  BY <1>7 DEF S, T, f, g

LEMMA AheadNat ==
  ASSUME NEW rank, NEW rs, NEW ws, NEW r \in Runs, NEW p,
         \A s \in Runs : Booked(rs[s], ws[s])
  PROVE  Total(Weights(rs), Ahead(rank, rs, ws, r, p)) \in Nat
<1>1. IsFiniteSet(Ahead(rank, rs, ws, r, p)) /\ Ahead(rank, rs, ws, r, p) \subseteq Runs
  BY SpendingAssumption, FS_Subset DEF Ahead
<1>2. ASSUME NEW x \in Runs PROVE Weights(rs)[x] \in Nat
  <2>1. rs[x].estimated \in Nat /\ rs[x].actual \in Nat
    BY DEF Booked
  <2>2. QED
    BY <2>1, WeightIs DEF Weights
<1>3. QED
  BY <1>1, <1>2, TotalNat

(* The ranks stay as they are when every run goes onward. *)
LEMMA OnwardKeeps ==
  ASSUME NEW n \in Nat, NEW rank \in [Runs -> 0..n], NEW rs, NEW ws, NEW rs2, NEW ws2,
         Ordered(rank, ws), Covered(rank, rs, ws),
         \A s \in Runs : Booked(rs[s], ws[s]) /\ Booked(rs2[s], ws2[s]),
         \A s \in Runs : Onward(rs[s], ws[s], rs2[s], ws2[s])
  PROVE  Ordered(rank, ws2) /\ Covered(rank, rs2, ws2)
<1>1. Ordered(rank, ws2)
  BY DEF Ordered, Onward
<1>2. ASSUME NEW r \in Runs, NEW p \in PoliciesOf(rs2[r].place)
      PROVE  /\ ws2[r].at = "planned"
                  => Total(Weights(rs2), Ahead(rank, rs2, ws2, r, p)) <= ws2[r].spent
             /\ ws2[r].admitted
                  => Total(Weights(rs2), Ahead(rank, rs2, ws2, r, p)) + Weight(rs2[r]) <= Policies[p].perDay
  <2>1. PICK a, b : /\ a = Total(Weights(rs), Ahead(rank, rs, ws, r, p))
                    /\ b = Total(Weights(rs2), Ahead(rank, rs2, ws2, r, p))
    OBVIOUS
  <2>2. a \in Nat /\ b \in Nat
    BY <2>1, AheadNat
  <2>3. Same(rs[r], rs2[r]) => b <= a /\ p \in PoliciesOf(rs[r].place)
    <3>1. ASSUME Same(rs[r], rs2[r]) PROVE b <= a
      BY <2>1, <3>1, AheadShrinks
    <3>2. QED
      BY <3>1 DEF Same
  <2>4. /\ Weight(rs[r]) \in Nat /\ Weight(rs2[r]) \in Nat /\ ws[r].spent \in Nat
    <3>1. /\ rs[r].estimated \in Nat /\ rs[r].actual \in Nat /\ ws[r].spent \in Nat
          /\ rs2[r].estimated \in Nat /\ rs2[r].actual \in Nat
      BY DEF Booked
    <3>2. QED
      BY <3>1, WeightIs
  <2>5. ASSUME p \in PoliciesOf(rs[r].place)
        PROVE  /\ ws[r].at = "planned" => a <= ws[r].spent
               /\ ws[r].admitted => a + Weight(rs[r]) <= Policies[p].perDay
    BY <2>1, <2>5 DEF Covered
  <2>6. Policies[p].perDay \in Nat
    BY SpendingAssumption DEF PoliciesOf
  <2>7. ASSUME ws2[r].at = "planned" PROVE b <= ws2[r].spent
    <3>1. ws[r].at = "planned" /\ ws2[r].spent = ws[r].spent /\ Same(rs[r], rs2[r])
      BY <2>7 DEF Onward
    <3>2. QED
      BY <2>2, <2>3, <2>4, <2>5, <3>1
  <2>8. ASSUME ws2[r].admitted PROVE b + Weight(rs2[r]) <= Policies[p].perDay
    <3>1. /\ Same(rs[r], rs2[r]) /\ Weight(rs2[r]) <= Weight(rs[r])
          /\ ws[r].admitted \/ Fits(rs[r], ws[r])
      BY <2>8 DEF Onward
    <3>2. CASE ws[r].admitted
      BY <2>2, <2>3, <2>4, <2>5, <2>6, <3>1, <3>2
    <3>3. CASE Fits(rs[r], ws[r])
      <4>1. ws[r].spent + Weight(rs[r]) <= Policies[p].perDay /\ a <= ws[r].spent
        BY <2>3, <2>5, <3>1, <3>3 DEF Fits
      <4>2. QED
        BY <2>2, <2>3, <2>4, <2>6, <3>1, <4>1
    <3>4. QED
      BY <3>1, <3>2, <3>3
  <2>9. QED
    BY <2>1, <2>7, <2>8
<1>3. Covered(rank, rs2, ws2)
  BY <1>2 DEF Covered
<1>4. QED
  BY <1>1, <1>3

(* A step of one run. *)
LEMMA OneOnward ==
  ASSUME DayInv, NEW r \in Runs, NEW run, NEW w,
         runs' = [runs EXCEPT ![r] = run], worker' = [worker EXCEPT ![r] = w],
         Booked(run, w), Onward(runs[r], worker[r], run, w)
  PROVE  DayInv'
<1>1. /\ runs' = [s \in Runs |-> runs'[s]] /\ worker' = [s \in Runs |-> worker'[s]]
      /\ runs'[r] = run /\ worker'[r] = w
      /\ \A s \in Runs \ {r} : runs'[s] = runs[s] /\ worker'[s] = worker[s]
  BY DEF DayInv, Books
<1>2. ASSUME NEW s \in Runs
      PROVE  /\ Booked(runs[s], worker[s]) /\ Booked(runs'[s], worker'[s])
             /\ Onward(runs[s], worker[s], runs'[s], worker'[s])
  <2>1. Booked(runs[s], worker[s])
    BY DEF DayInv, Books
  <2>2. Weight(runs[s]) \in Nat
    BY <2>1, WeightIs DEF Booked
  <2>3. Onward(runs[s], worker[s], runs[s], worker[s])
    BY <2>2 DEF Onward, Same
  <2>4. CASE s = r
    BY <1>1, <2>1, <2>4
  <2>5. CASE s # r
    BY <1>1, <2>1, <2>3, <2>5
  <2>6. QED
    BY <2>4, <2>5
<1>3. Books'
  BY <1>1, <1>2 DEF Books
<1>4. PICK n \in Nat : \E rank \in [Runs -> 0..n] :
                        Ordered(rank, worker) /\ Covered(rank, runs, worker)
  BY DEF DayInv
<1>5. PICK rank \in [Runs -> 0..n] : Ordered(rank, worker) /\ Covered(rank, runs, worker)
  BY <1>4
<1>6. Ordered(rank, worker') /\ Covered(rank, runs', worker')
  BY <1>2, <1>5, OnwardKeeps
<1>7. QED
  BY <1>3, <1>6 DEF DayInv

LEMMA BookedRun == ASSUME DayInv, NEW r \in Runs PROVE Booked(runs[r], worker[r])
BY DEF DayInv, Books

LEMMA SameRecords ==
  ASSUME DayInv, NEW r \in Runs
  PROVE  runs = [runs EXCEPT ![r] = runs[r]] /\ worker = [worker EXCEPT ![r] = worker[r]]
BY DEF DayInv, Books

(* A run without an attempt that stands goes onward to whatever has none. *)
LEMMA FromRest ==
  ASSUME DayInv, NEW r \in Runs, NEW run, NEW w,
         runs' = [runs EXCEPT ![r] = run], worker' = [worker EXCEPT ![r] = w],
         Booked(run, w), w.at = "idle", ~w.admitted
  PROVE  DayInv'
<1>1. Onward(runs[r], worker[r], run, w)
  BY DEF Onward, Live, Standing
<1>2. QED
  BY <1>1, OneOnward

LEMMA CreateKeepsDay == ASSUME DayInv, NEW r \in Runs, CreateRun(r) PROVE DayInv'
<1>1. PICK cents, place, run :
        /\ cents \in Estimates /\ place \in Places
        /\ run = [status |-> "queued", estimated |-> cents, actual |-> 0, day |-> today, place |-> place]
        /\ runs' = [runs EXCEPT ![r] = run]
  BY DEF CreateRun
<1>2. worker' = [worker EXCEPT ![r] = worker[r]] /\ runs[r].status = "none"
  BY SameRecords DEF CreateRun
<1>3. worker[r].at = "idle" /\ ~worker[r].admitted
  BY <1>2, BookedRun DEF Booked
<1>4. cents \in Nat
  BY <1>1, SpendingAssumption
<1>5. Booked(run, worker[r])
  BY <1>1, <1>3, <1>4, BookedRun DEF Booked
<1>6. QED
  BY <1>1, <1>2, <1>3, <1>5, FromRest

LEMMA CancelKeepsDay == ASSUME DayInv, NEW r \in Runs, CancelRun(r) PROVE DayInv'
<1>1. PICK run : run = [runs[r] EXCEPT !.status = "cancelled"]
  OBVIOUS
<1>2. PICK old, w : old = runs[r] /\ w = worker[r] /\ Booked(old, w)
  BY BookedRun
<1>3. runs' = [runs EXCEPT ![r] = run] /\ worker' = [worker EXCEPT ![r] = w]
  BY <1>1, <1>2, SameRecords DEF CancelRun
<1>4. /\ run.status = "cancelled" /\ run.estimated = old.estimated /\ run.actual = old.actual
      /\ Same(old, run) /\ DOMAIN run = DOMAIN old
  BY <1>1, <1>2 DEF Booked, Same
<1>5. Weight(run) = Weight(old) /\ Weight(old) \in Nat
  BY <1>2, <1>4, WeightIs DEF Booked, Weight, CommittedRunCostCents
<1>6. old.status \in {"queued", "awaiting_approval"}
  BY <1>2 DEF CancelRun
<1>7. Booked(run, w)
  BY <1>2, <1>4, <1>6 DEF Booked
<1>8. Onward(old, w, run, w)
  BY <1>4, <1>5 DEF Onward, Standing, RunCountsAgainstDailyBudget
<1>9. QED
  BY <1>2, <1>3, <1>7, <1>8, OneOnward

LEMMA DecideKeepsDay == ASSUME DayInv, NEW r \in Runs, NEW d, DecideApproval(r, d) PROVE DayInv'
<1>1. PICK st, run : /\ st \in {"queued", "cancelled"} /\ run = [runs[r] EXCEPT !.status = st]
                     /\ runs' = [runs EXCEPT ![r] = run]
  BY DEF DecideApproval
<1>2. worker' = [worker EXCEPT ![r] = worker[r]] /\ runs[r].status = "awaiting_approval"
  BY SameRecords DEF DecideApproval
<1>3. worker[r].at = "idle" /\ ~worker[r].admitted
  BY <1>2, BookedRun DEF Booked
<1>4. Booked(run, worker[r])
  BY <1>1, <1>2, <1>3, BookedRun DEF Booked
<1>5. QED
  BY <1>1, <1>2, <1>3, <1>4, FromRest

LEMMA RedriveKeepsDay == ASSUME DayInv, NEW r \in Runs, Redrive(r) PROVE DayInv'
<1>1. PICK run, w : /\ run = [runs[r] EXCEPT !.status = "queued"] /\ w = Idle
                    /\ runs' = [runs EXCEPT ![r] = run] /\ worker' = [worker EXCEPT ![r] = w]
                    /\ runs[r].status = "failed"
  BY DEF Redrive
<1>2. Booked(run, w) /\ w.at = "idle" /\ ~w.admitted
  BY <1>1, BookedRun DEF Booked, Idle, Carrying
<1>3. QED
  BY <1>1, <1>2, FromRest

LEMMA LosingKeepsDay == ASSUME DayInv, NEW r \in Runs, LoseLease(r) PROVE DayInv'
<1>1. PICK w : /\ w = [Idle EXCEPT !.attempt = worker[r].attempt]
               /\ worker' = [worker EXCEPT ![r] = w] /\ runs[r].status = "queued"
  BY DEF LoseLease
<1>2. runs' = [runs EXCEPT ![r] = runs[r]]
  BY SameRecords DEF LoseLease
<1>3. Booked(runs[r], w) /\ w.at = "idle" /\ ~w.admitted
  BY <1>1, BookedRun DEF Booked, Idle, Carrying
<1>4. QED
  BY <1>1, <1>2, <1>3, FromRest

(* An attempt under way that stays under way with what it has read. *)
LEMMA UnderWay ==
  ASSUME DayInv, NEW r \in Runs, NEW w, UNCHANGED runs, worker' = [worker EXCEPT ![r] = w],
         worker[r].at # "idle", w.at # "idle", w.at # "planned",
         Booked(runs[r], w), w.admitted => worker[r].admitted \/ Fits(runs[r], worker[r])
  PROVE  DayInv'
<1>1. runs' = [runs EXCEPT ![r] = runs[r]]
  BY SameRecords
<1>2. Weight(runs[r]) \in Nat
  BY WeightIs DEF Booked
<1>3. Onward(runs[r], worker[r], runs[r], w)
  BY <1>2 DEF Onward, Same, Standing, Live
<1>4. QED
  BY <1>1, <1>3, OneOnward

LEMMA BlockKeepsDay == ASSUME DayInv, NEW r \in Runs, BudgetBlocks(r) PROVE DayInv'
<1>1. PICK x, w : /\ w = [worker[r] EXCEPT !.at = "paused", !.asks = x]
                  /\ worker' = [worker EXCEPT ![r] = w] /\ worker[r].at = "planned" /\ UNCHANGED runs
  BY DEF BudgetBlocks
<1>2. Booked(runs[r], w) /\ w.at = "paused" /\ ~w.admitted
  BY <1>1, BookedRun DEF Booked, Carrying
<1>3. QED
  BY <1>1, <1>2, UnderWay

(* What the check lets through without an approval fits every policy's day. *)
LEMMA LetThroughFits ==
  ASSUME DayInv, NEW r \in Runs, worker[r].at = "planned", RuntimeBudgetGuardDecision(r) = NoTerms
  PROVE  Fits(runs[r], worker[r])
<1> SUFFICES ASSUME NEW p \in PoliciesOf(runs[r].place)
             PROVE  worker[r].spent + Weight(runs[r]) <= Policies[p].perDay
  BY DEF Fits
<1>1. PICK place, best : place = runs[r].place /\ best = StrictestDailyBudgetPolicy(place)
  OBVIOUS
<1>2. \A q \in PoliciesOf(place) : q \in DOMAIN Policies /\ Policies[q].perDay \in Nat
  BY SpendingAssumption DEF PoliciesOf
<1>3. best \in PoliciesOf(place) /\ \A q \in PoliciesOf(place) : Policies[best].perDay <= Policies[q].perDay
  <2> DEFINE B == {Policies[q].perDay : q \in PoliciesOf(place)}
  <2>1. B \subseteq Nat /\ Policies[p].perDay \in B
    BY <1>1, <1>2
  <2>2. PICK m \in B : \A k \in B : m <= k
    <3> HIDE DEF B
    <3>1. QED
      BY <2>1, LeastOf
  <2>3. PICK q \in PoliciesOf(place) : m = Policies[q].perDay
    BY <2>2
  <2>4. \A k \in PoliciesOf(place) : Policies[q].perDay <= Policies[k].perDay
    BY <2>2, <2>3
  <2>5. QED
    BY <1>1, <2>4 DEF StrictestDailyBudgetPolicy
<1>4. ~(worker[r].spent + runs[r].estimated > Policies[best].perDay)
  <2>1. PoliciesOf(place) # {}
    BY <1>1
  <2>2. NoTerms.scope = "none"
    BY DEF NoTerms
  <2>3. RuntimeBudgetGuardDecision(r).scope = "none"
    BY <2>2
  <2>4. QED
    BY <1>1, <2>1, <2>3 DEF RuntimeBudgetGuardDecision
<1>5. /\ Weight(runs[r]) \in Nat /\ Weight(runs[r]) <= runs[r].estimated
      /\ runs[r].estimated \in Nat /\ worker[r].spent \in Nat
  BY BookedRun, WeightIs DEF Booked
<1>6. QED
  BY <1>1, <1>2, <1>3, <1>4, <1>5

LEMMA AdmitKeepsDay == ASSUME DayInv, NEW r \in Runs, BudgetAdmits(r) PROVE DayInv'
<1>1. PICK x : x = (RuntimeBudgetGuardDecision(r) = NoTerms)
  OBVIOUS
<1>2. PICK y : y = IF ApprovedBudgetRouteForCurrentContext(r)
                   THEN [provider |-> ProviderFromModel(ModelPolicy.defaultModel),
                         model |-> ModelPolicy.defaultModel,
                         cost |-> approval[r].terms.estimated]
                   ELSE NoRoute
  OBVIOUS
<1>3. /\ worker[r].at = "planned" /\ UNCHANGED runs
      /\ worker' = [worker EXCEPT ![r].at = "calling", ![r].next = 1,
                                  ![r].admitted = x, ![r].approved = y]
  BY <1>1, <1>2 DEF BudgetAdmits
<1>4. PICK w : w = [worker[r] EXCEPT !.at = "calling", !.next = 1, !.admitted = x, !.approved = y]
  OBVIOUS
<1>5. worker' = [worker EXCEPT ![r] = w]
  BY <1>3, <1>4
<1>6. x \in BOOLEAN
  BY <1>1
<1>7. Booked(runs[r], w) /\ w.at = "calling" /\ w.admitted = x
  BY <1>3, <1>4, <1>6, BookedRun DEF Booked, Carrying
<1>8. x => Fits(runs[r], worker[r])
  BY <1>1, <1>3, LetThroughFits
<1>9. QED
  BY <1>3, <1>5, <1>7, <1>8, UnderWay

LEMMA RouteKeepsDay ==
  ASSUME DayInv, NEW r \in Runs, SkipRoute(r) \/ \E b \in BOOLEAN : CallFails(r, b)
  PROVE  DayInv'
<1>1. PICK x, w : /\ w = [worker[r] EXCEPT !.next = x]
                  /\ worker' = [worker EXCEPT ![r] = w] /\ worker[r].at = "calling" /\ UNCHANGED runs
  BY DEF SkipRoute, CallFails, AtRoute
<1>2. Booked(runs[r], w) /\ w.at = "calling" /\ w.admitted = worker[r].admitted
  BY <1>1, BookedRun DEF Booked, Carrying
<1>3. QED
  BY <1>1, <1>2, UnderWay

LEMMA NoRouteKeepsDay == ASSUME DayInv, NEW r \in Runs, NoRouteLeft(r) PROVE DayInv'
<1>1. PICK w : /\ w = [worker[r] EXCEPT !.at = "failed", !.cost = 0]
               /\ worker' = [worker EXCEPT ![r] = w] /\ worker[r].at = "calling" /\ UNCHANGED runs
  BY DEF NoRouteLeft
<1>2. Booked(runs[r], w) /\ w.at = "failed" /\ w.admitted = worker[r].admitted
  BY <1>1, BookedRun DEF Booked, Carrying
<1>3. QED
  BY <1>1, <1>2, UnderWay

LEMMA MaxOfThree ==
  ASSUME NEW a \in Nat, NEW b \in Nat, NEW c \in Nat PROVE Max({a, b, c}) \in Nat
<1>1. \E x \in {a, b, c} : \A y \in {a, b, c} : x >= y
  OBVIOUS
<1>2. Max({a, b, c}) \in {a, b, c}
  BY <1>1 DEF Max
<1>3. QED
  BY <1>2

LEMMA CallKeepsDay == ASSUME DayInv, NEW r \in Runs, CallSucceeds(r) PROVE DayInv'
<1>1. PICK c : c = Routes[worker[r].next].cost /\ c \in Nat
  BY RoutesAssumption DEF CallSucceeds, AtRoute
<1>2. PICK cents, x :
        /\ cents \in {e \in (c - 1)..(c + 1) : e >= 0}
        /\ x = (IF cents > 0 THEN cents ELSE Max({1, c, runs[r].estimated}))
        /\ worker' = [worker EXCEPT ![r].at = "completed", ![r].cost = x]
        /\ worker[r].at = "calling" /\ UNCHANGED runs
  BY <1>1 DEF CallSucceeds, AtRoute
<1>3. PICK w : w = [worker[r] EXCEPT !.at = "completed", !.cost = x]
  OBVIOUS
<1>4. x \in Nat
  <2>1. runs[r].estimated \in Nat
    BY BookedRun DEF Booked
  <2>2. Max({1, c, runs[r].estimated}) \in Nat
    BY <1>1, <2>1, MaxOfThree
  <2>3. QED
    BY <1>1, <1>2, <2>2
<1>5. worker' = [worker EXCEPT ![r] = w]
  BY <1>2, <1>3
<1>6. Booked(runs[r], w) /\ w.at = "completed" /\ w.admitted = worker[r].admitted
  BY <1>2, <1>3, <1>4, BookedRun DEF Booked, Carrying
<1>7. QED
  BY <1>2, <1>5, <1>6, UnderWay

(* An attempt that ends stands only if it completed, and then costs what it
   was counted at, or less. *)
LEMMA ApplyKeepsDay == ASSUME DayInv, NEW r \in Runs, ApplyDecision(r) PROVE DayInv'
<1>1. PICK old, u : old = runs[r] /\ u = worker[r] /\ Booked(old, u)
  BY BookedRun
<1>2. PICK again : again = (u.at = "failed" /\ u.attempt < MaxAttempts)
  OBVIOUS
<1>3. PICK st : st = IF old.status = "cancelled" THEN "cancelled"
                     ELSE IF u.at = "paused" THEN "awaiting_approval"
                     ELSE IF u.at = "completed" THEN "completed"
                     ELSE IF again THEN "queued" ELSE "failed"
  OBVIOUS
<1>4. PICK act, n, adm : /\ act = (IF u.at = "paused" THEN 0 ELSE u.cost)
                         /\ n = (IF again THEN u.attempt + 1 ELSE u.attempt)
                         /\ adm = (u.admitted /\ st = "completed")
  OBVIOUS
<1>5. /\ u.at \in {"completed", "failed", "paused"}
      /\ runs' = [runs EXCEPT ![r].status = st, ![r].actual = act]
      /\ worker' = [worker EXCEPT ![r] = [Idle EXCEPT !.attempt = n, !.admitted = adm]]
  BY <1>1, <1>2, <1>3, <1>4 DEF ApplyDecision
<1>6. PICK run, w : /\ run = [old EXCEPT !.status = st, !.actual = act]
                    /\ w = [Idle EXCEPT !.attempt = n, !.admitted = adm]
  OBVIOUS
<1>7. runs' = [runs EXCEPT ![r] = run] /\ worker' = [worker EXCEPT ![r] = w]
  BY <1>1, <1>5, <1>6
<1>8. /\ run.status = st /\ run.actual = act /\ run.estimated = old.estimated
      /\ DOMAIN run = DOMAIN old /\ Same(old, run)
  BY <1>1, <1>6 DEF Booked, Same
<1>9. act \in Nat /\ adm \in BOOLEAN
  BY <1>1, <1>4 DEF Booked
<1>10. DOMAIN w = Carrying /\ w.at = "idle" /\ w.spent = 0 /\ w.cost = 0 /\ w.admitted = adm
  BY <1>6 DEF Idle, Carrying
<1>11. Booked(run, w)
  <2>1. st \notin {"completed", "cancelled"} => u.at \in {"paused", "failed"}
    BY <1>3, <1>5
  <2>2. st \notin {"completed", "cancelled"} => act = 0
    BY <1>1, <1>4, <2>1 DEF Booked
  <2>3. adm => st = "completed"
    BY <1>4
  <2>4. QED
    BY <1>1, <1>8, <1>9, <1>10, <2>2, <2>3 DEF Booked
<1>12. ASSUME adm
      PROVE  /\ Weight(run) <= Weight(old) /\ u.admitted /\ Standing(old, u)
  <2>1. st = "completed" /\ u.at = "completed" /\ u.admitted /\ old.status = "queued"
    BY <1>1, <1>3, <1>4, <1>12 DEF Booked
  <2>2. old.actual = 0 /\ old.estimated \in Nat
    BY <1>1, <2>1 DEF Booked
  <2>3. Weight(old) = old.estimated
    <3>1. CommittedRunCostCents(old) = old.estimated
      BY <2>2 DEF CommittedRunCostCents
    <3>2. PICK e : e = old.estimated /\ e \in Nat
      BY <2>2
    <3>3. Min({e, e}) = e
      BY <3>2 DEF Min
    <3>4. QED
      BY <3>1, <3>2, <3>3 DEF Weight
  <2>4. Weight(run) <= run.estimated
    BY <1>8, <1>9, <2>2, WeightIs
  <2>5. Standing(old, u)
    BY <2>1 DEF Standing, Live, RunCountsAgainstDailyBudget
  <2>6. QED
    BY <1>8, <2>1, <2>3, <2>4, <2>5
<1>13. Onward(old, u, run, w)
  BY <1>5, <1>8, <1>10, <1>12 DEF Onward, Live, Standing
<1>14. QED
  BY <1>1, <1>7, <1>11, <1>13, OneOnward

-----------------------------------------------------------------------------
(* Reading the store *)

(* No place has two policies. *)
OnePolicy == \A place \in Places : \A p, q \in PoliciesOf(place) : p = q

LEMMA TheOnly ==
  ASSUME OnePolicy, NEW place, NEW p \in PoliciesOf(place)
  PROVE  StrictestDailyBudgetPolicy(place) = p
<1>1. place \in Places /\ p \in DOMAIN Policies /\ Policies[p].perDay \in Nat
  BY SpendingAssumption DEF PoliciesOf
<1>2. \A q \in PoliciesOf(place) : q = p
  BY <1>1 DEF OnePolicy
<1>3. \A q \in PoliciesOf(place) : Policies[p].perDay <= Policies[q].perDay
  BY <1>1, <1>2
<1>4. StrictestDailyBudgetPolicy(place) \in PoliciesOf(place)
  BY <1>3 DEF StrictestDailyBudgetPolicy
<1>5. QED
  BY <1>2, <1>4

(* What a read counts covers every run of the policy and the day that stands. *)
LEMMA ReadCovers ==
  ASSUME DayInv, OnePolicy, NEW r \in Runs, NEW p \in PoliciesOf(runs[r].place), NEW S,
         \A s \in S : /\ s \in Runs \ {r} /\ Standing(runs[s], worker[s])
                      /\ <<p, runs[s].place>> \in Governs /\ runs[s].day = runs[r].day
  PROVE  Total(Weights(runs), S) <= DailySpentSeen(r)
<1> DEFINE T == {s \in Runs \ {r} : /\ <<p, runs[s].place>> \in Governs
                                    /\ runs[s].day = runs[r].day
                                    /\ RunCountsAgainstDailyBudget(runs[s])}
           g == [s \in Runs |-> CommittedRunCostCents(runs[s])]
           f == Weights(runs)
<1>1. DailySpentSeen(r) = Total(g, T)
  <2>1. StrictestDailyBudgetPolicy(runs[r].place) = p /\ PoliciesOf(runs[r].place) # {}
    BY TheOnly
  <2>2. DailySpentSeen(r) = DailyBudgetSpentCents(r, p)
    BY <2>1 DEF DailySpentSeen
  <2>3. QED
    BY <2>2 DEF DailyBudgetSpentCents, Total
<1>2. ASSUME NEW s \in Runs PROVE f[s] \in Nat /\ g[s] \in Nat /\ f[s] <= g[s]
  <2>1. runs[s].estimated \in Nat /\ runs[s].actual \in Nat
    BY BookedRun DEF Booked
  <2>2. QED
    BY <2>1, WeightIs DEF Weights
<1>3. IsFiniteSet(T) /\ T \subseteq Runs
  BY SpendingAssumption, FS_Subset
<1>4. S \subseteq T
  BY DEF Standing
<1> HIDE DEF T, f, g
<1>5. /\ \A s \in T : g[s] \in Nat
      /\ \A s \in S : f[s] \in Nat /\ f[s] <= g[s]
  BY <1>2, <1>3, <1>4
<1>6. Total(f, S) <= Total(g, T)
  BY <1>3, <1>4, <1>5, TotalLeq
<1>7. QED
  BY <1>1, <1>6 DEF f

LEMMA SpentNat == ASSUME DayInv, NEW r \in Runs PROVE DailySpentSeen(r) \in Nat
<1>1. CASE PoliciesOf(runs[r].place) = {}
  BY <1>1 DEF DailySpentSeen
<1>2. CASE PoliciesOf(runs[r].place) # {}
  <2>1. PICK g, T : /\ DailySpentSeen(r) = Total(g, T) /\ T \subseteq Runs
                    /\ g = [s \in Runs |-> CommittedRunCostCents(runs[s])]
    BY <1>2 DEF DailySpentSeen, DailyBudgetSpentCents, Total
  <2>2. ASSUME NEW s \in Runs PROVE CommittedRunCostCents(runs[s]) \in Nat
    <3>1. runs[s].estimated \in Nat /\ runs[s].actual \in Nat
      BY BookedRun DEF Booked
    <3>2. QED
      BY <3>1, WeightIs
  <2>3. IsFiniteSet(T) /\ \A s \in T : g[s] \in Nat
    BY <2>1, <2>2, SpendingAssumption, FS_Subset
  <2>4. QED
    BY <2>1, <2>3, TotalNat
<1>3. QED
  BY <1>1, <1>2

(* The run that reads is the last in the order. *)
LEMMA ReadKeepsDay ==
  ASSUME DayInv, OnePolicy, NEW r \in Runs, ReadContext(r) PROVE DayInv'
<1>1. PICK old, w : /\ old = worker[r] /\ Booked(runs[r], old)
                    /\ w = [old EXCEPT !.at = "planned", !.spent = DailySpentSeen(r)]
  BY BookedRun
<1>2. /\ worker' = [worker EXCEPT ![r] = w] /\ UNCHANGED runs
      /\ runs[r].status = "queued" /\ old.at = "idle"
  BY <1>1 DEF ReadContext
<1>3. ~old.admitted
  BY <1>1, <1>2 DEF Booked
<1>4. /\ DOMAIN w = Carrying /\ w.at = "planned" /\ w.spent = DailySpentSeen(r)
      /\ w.cost = old.cost /\ w.admitted = old.admitted
  BY <1>1 DEF Booked, Carrying
<1>5. Booked(runs[r], w)
  BY <1>1, <1>2, <1>3, <1>4, SpentNat DEF Booked
<1>6. worker' = [s \in Runs |-> worker'[s]] /\ worker'[r] = w
      /\ \A s \in Runs \ {r} : worker'[s] = worker[s]
  BY <1>2 DEF DayInv, Books
<1>7. Books'
  BY <1>2, <1>5, <1>6, BookedRun DEF DayInv, Books
<1>8. PICK n \in Nat : \E rank \in [Runs -> 0..n] :
                         Ordered(rank, worker) /\ Covered(rank, runs, worker)
  BY DEF DayInv
<1>9. PICK rank \in [Runs -> 0..n] : Ordered(rank, worker) /\ Covered(rank, runs, worker)
  BY <1>8
<1>10. PICK next : next = [rank EXCEPT ![r] = n + 1]
  OBVIOUS
<1>11. /\ next \in [Runs -> 0..(n + 1)] /\ n + 1 \in Nat /\ next[r] = n + 1
       /\ \A s \in Runs \ {r} : next[s] = rank[s] /\ next[s] < next[r]
  <2>1. \A s \in Runs : rank[s] \in 0..n
    OBVIOUS
  <2>2. QED
    BY <1>10, <2>1
<1>12. Ordered(next, worker')
  <2>1. ASSUME NEW s \in Runs, NEW q \in Runs, s # q, Live(worker'[s]), Live(worker'[q])
        PROVE  next[s] # next[q]
    <3>1. \A t \in Runs : next[t] \in Nat
      BY <1>11
    <3>2. CASE s # r /\ q # r
      BY <1>6, <1>9, <1>11, <2>1, <3>2 DEF Ordered
    <3>3. CASE s = r
      BY <1>11, <2>1, <3>1, <3>3
    <3>4. CASE q = r
      BY <1>11, <2>1, <3>1, <3>4
    <3>5. QED
      BY <3>2, <3>3, <3>4
  <2>2. QED
    BY <2>1 DEF Ordered
<1>13. ASSUME NEW q \in Runs, NEW p \in PoliciesOf(runs[q].place)
       PROVE  /\ worker'[q].at = "planned"
                   => Total(Weights(runs), Ahead(next, runs, worker', q, p)) <= worker'[q].spent
              /\ worker'[q].admitted
                   => Total(Weights(runs), Ahead(next, runs, worker', q, p)) + Weight(runs[q])
                        <= Policies[p].perDay
  <2>1. CASE q = r
    <3>1. PICK S : S = Ahead(next, runs, worker', r, p)
      OBVIOUS
    <3>2. ASSUME NEW s \in S
          PROVE  /\ s \in Runs \ {r} /\ Standing(runs[s], worker[s])
                 /\ <<p, runs[s].place>> \in Governs /\ runs[s].day = runs[r].day
      <4>1. s # r
        BY <1>11, <3>1 DEF Ahead
      <4>2. QED
        BY <1>6, <3>1, <4>1 DEF Ahead
    <3>3. Total(Weights(runs), S) <= DailySpentSeen(r)
      BY <2>1, <3>2, ReadCovers
    <3>4. QED
      BY <1>3, <1>4, <1>6, <2>1, <3>1, <3>3
  <2>2. CASE q # r
    <3>1. ~(next[r] < next[q]) /\ \A s \in Runs \ {r} : next[s] < next[q] <=> rank[s] < rank[q]
      <4>1. next[q] < next[r] /\ next[q] \in Nat /\ next[r] \in Nat
        BY <1>11, <2>2
      <4>2. QED
        BY <1>11, <2>2, <4>1
    <3>2. Ahead(next, runs, worker', q, p) \subseteq Ahead(rank, runs, worker, q, p)
      BY <1>6, <3>1 DEF Ahead
    <3>3. ~Standing(runs[r], worker[r])
      BY <1>1, <1>2, <1>3 DEF Standing, Live
    <3>4. Ahead(rank, runs, worker, q, p) \subseteq Ahead(next, runs, worker', q, p)
      BY <1>6, <3>1, <3>3 DEF Ahead
    <3>5. Ahead(next, runs, worker', q, p) = Ahead(rank, runs, worker, q, p)
      BY <3>2, <3>4
    <3>6. worker'[q] = worker[q]
      BY <1>6, <2>2
    <3>7. QED
      BY <1>9, <3>5, <3>6 DEF Covered
  <2>3. QED
    BY <2>1, <2>2
<1>14. Covered(next, runs', worker')
  BY <1>2, <1>13 DEF Covered
<1>15. QED
  BY <1>7, <1>11, <1>12, <1>14 DEF DayInv

LEMMA InitDay == Init => DayInv
<1> SUFFICES ASSUME Init PROVE DayInv
  OBVIOUS
<1>1. ASSUME NEW r \in Runs
      PROVE Booked(runs[r], worker[r]) /\ worker[r].at = "idle" /\ ~worker[r].admitted
  BY DEF Init, Booked, Idle, Carrying
<1>2. Books
  BY <1>1 DEF Init, Books
<1>3. PICK rank : rank = [r \in Runs |-> 0]
  OBVIOUS
<1>4. rank \in [Runs -> 0..0] /\ 0 \in Nat
  BY <1>3
<1>5. Ordered(rank, worker)
  BY <1>1 DEF Ordered, Live
<1>6. Covered(rank, runs, worker)
  BY <1>1 DEF Covered
<1>7. QED
  BY <1>2, <1>4, <1>5, <1>6 DEF DayInv

LEMMA NextDayInv == OnePolicy /\ DayInv /\ [Next]_vars => DayInv'
<1> SUFFICES ASSUME OnePolicy, DayInv, [Next]_vars PROVE DayInv'
  OBVIOUS
<1>1. CASE UNCHANGED <<runs, worker>>
  BY <1>1 DEF DayInv, Books
<1>2. CASE \E r \in Runs : \/ CreateRun(r) \/ CancelRun(r) \/ Redrive(r) \/ ReadContext(r)
                           \/ \E d \in {"approved", "denied"} : DecideApproval(r, d)
  BY <1>2, CreateKeepsDay, CancelKeepsDay, DecideKeepsDay, RedriveKeepsDay, ReadKeepsDay
<1>3. CASE \E r \in Runs : \/ BudgetBlocks(r) \/ BudgetAdmits(r) \/ SkipRoute(r) \/ CallSucceeds(r)
                           \/ \E b \in BOOLEAN : CallFails(r, b)
  BY <1>3, BlockKeepsDay, AdmitKeepsDay, RouteKeepsDay, CallKeepsDay
<1>4. CASE \E r \in Runs : NoRouteLeft(r) \/ ApplyDecision(r) \/ LoseLease(r)
  BY <1>4, NoRouteKeepsDay, ApplyKeepsDay, LosingKeepsDay
<1>5. CASE NextDay \/ UNCHANGED vars
  BY <1>1, <1>5 DEF NextDay, vars
<1>6. QED
  BY <1>2, <1>3, <1>4, <1>5 DEF Next

-----------------------------------------------------------------------------
(* Of the runs let through, the last one to read accounts for all of them. *)
LEMMA LastOf ==
  ASSUME NEW n \in Nat, NEW rank \in [Runs -> 0..n], NEW A, A \subseteq Runs, A # {}
  PROVE  \E r \in A : \A s \in A : rank[s] <= rank[r]
<1> DEFINE B == {n - rank[s] : s \in A}
<1>1. \A s \in A : rank[s] \in 0..n
  OBVIOUS
<1>2. B \subseteq Nat
  BY <1>1
<1>3. PICK x \in B : TRUE
  OBVIOUS
<1>4. PICK m \in B : \A k \in B : m <= k
  <2> HIDE DEF B
  <2>1. QED
    BY <1>2, <1>3, LeastOf
<1>5. PICK r \in A : m = n - rank[r]
  OBVIOUS
<1>6. ASSUME NEW s \in A PROVE rank[s] <= rank[r]
  <2>1. n - rank[s] \in B
    OBVIOUS
  <2>2. n - rank[r] <= n - rank[s]
    BY <1>4, <1>5, <2>1
  <2>3. QED
    BY <1>1, <2>2
<1>7. QED
  BY <1>6

LEMMA DayFits ==
  ASSUME DayInv, NEW policy \in DOMAIN Policies, NEW day
  PROVE  Total(Weights(runs), AdmittedOn(day, policy)) <= Policies[policy].perDay
<1>1. PICK A, f : A = AdmittedOn(day, policy) /\ f = Weights(runs)
  OBVIOUS
<1>2. A \subseteq Runs /\ IsFiniteSet(A)
  BY <1>1, SpendingAssumption, FS_Subset DEF AdmittedOn
<1>3. ASSUME NEW s \in Runs PROVE f[s] = Weight(runs[s]) /\ f[s] \in Nat
  <2>1. runs[s].estimated \in Nat /\ runs[s].actual \in Nat
    BY BookedRun DEF Booked
  <2>2. QED
    BY <1>1, <2>1, WeightIs DEF Weights
<1>4. Policies[policy].perDay \in Nat
  BY SpendingAssumption
<1>5. CASE A = {}
  BY <1>1, <1>4, <1>5, TotalEmpty
<1>6. CASE A # {}
  <2>1. PICK n \in Nat : \E rank \in [Runs -> 0..n] :
                           Ordered(rank, worker) /\ Covered(rank, runs, worker)
    BY DEF DayInv
  <2>2. PICK rank \in [Runs -> 0..n] : Ordered(rank, worker) /\ Covered(rank, runs, worker)
    BY <2>1
  <2>3. PICK r \in A : \A s \in A : rank[s] <= rank[r]
    BY <1>2, <1>6, LastOf
  <2>4. PICK S, T : S = A \ {r} /\ T = Ahead(rank, runs, worker, r, policy)
    OBVIOUS
  <2>5. ASSUME NEW s \in S PROVE s \in T
    <3>1. /\ s \in Runs /\ r \in Runs /\ s # r
          /\ worker[s].admitted /\ worker[r].admitted
          /\ RunCountsAgainstDailyBudget(runs[s])
          /\ runs[s].day = day /\ runs[r].day = day /\ <<policy, runs[s].place>> \in Governs
      BY <1>1, <1>2, <2>4 DEF AdmittedOn, RunCountsAgainstDailyBudget
    <3>2. rank[s] # rank[r]
      BY <2>2, <3>1 DEF Ordered, Live
    <3>3. rank[s] <= rank[r] /\ rank[s] \in 0..n /\ rank[r] \in 0..n
      BY <2>3, <2>4, <3>1
    <3>4. rank[s] < rank[r]
      BY <3>2, <3>3
    <3>5. QED
      BY <2>4, <3>1, <3>4 DEF Ahead, Standing, Live
  <2>6. T \subseteq Runs /\ IsFiniteSet(T)
    BY <2>4, SpendingAssumption, FS_Subset DEF Ahead
  <2>7. Total(f, S) <= Total(f, T)
    <3>1. /\ S \subseteq T /\ \A x \in T : f[x] \in Nat
          /\ \A x \in S : f[x] \in Nat /\ f[x] <= f[x]
      BY <1>3, <2>5, <2>6
    <3>2. QED
      BY <2>6, <3>1, TotalLeq
  <2>8. Total(f, A) = f[r] + Total(f, S)
    BY <1>2, <1>3, <2>4, TotalWithout
  <2>9. Total(f, S) \in Nat /\ Total(f, T) \in Nat /\ f[r] \in Nat
    <3>1. IsFiniteSet(S)
      BY <1>2, <2>4, FS_Subset
    <3>2. QED
      BY <1>2, <1>3, <2>4, <2>6, <3>1, TotalNat
  <2>10. Total(f, T) + f[r] <= Policies[policy].perDay
    <3>1. r \in Runs /\ worker[r].admitted /\ policy \in PoliciesOf(runs[r].place)
      BY <1>1 DEF AdmittedOn, PoliciesOf
    <3>2. QED
      BY <1>1, <1>3, <2>2, <2>4, <3>1 DEF Covered
  <2>11. QED
    BY <1>1, <1>4, <2>7, <2>8, <2>9, <2>10
<1>7. QED
  BY <1>5, <1>6

(* evaluateRuntimeBudgetGuard: where no place has two policies, the runs let
   through without an approval fit into the day's ceiling together, in whatever
   order they read the store, fail, come back and are reported. *)
THEOREM DayCeilingsKeptHolds ==
  ASSUME \A place \in Places : \A p, q \in PoliciesOf(place) : p = q
  PROVE  Spec => []DayCeilingsKept
<1>1. OnePolicy
  BY DEF OnePolicy
<1>2. Spec => []DayInv
  BY <1>1, InitDay, NextDayInv, PTL DEF Spec
<1>3. DayInv => DayCeilingsKept
  <2>1. Weights(runs) = [r \in Runs |-> Min({runs[r].estimated, CommittedRunCostCents(runs[r])})]
    BY DEF Weights, Weight
  <2>2. QED
    BY <2>1, DayFits DEF DayCeilingsKept, Total
<1>4. QED
  BY <1>2, <1>3, PTL
=============================================================================
