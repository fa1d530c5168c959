--------------------------- MODULE EdgePlannerProofs ---------------------------
(***************************************************************************)
(* What EdgePlanner guarantees for any number of days and of stored dates. *)
(*                                                                         *)
(* Two of its action properties hold only if no price fetch is disturbed   *)
(* (the run planner_race shows what happens otherwise; OnlyLateFetch-      *)
(* Downgrades, that nothing else can happen while the process runs), and   *)
(* what is said of the day's own plan only if operators push schedules for *)
(* fewer days than are stored.  Both conditions are assumptions of the     *)
(* theorems that need them.  AheadInv stands behind the latter, FetchInv   *)
(* and CacheInv behind the former.                                         *)
(***************************************************************************)
EXTENDS EdgePlanner, FiniteSetTheorems, WellFoundedInduction, TLAPS

-----------------------------------------------------------------------------
(* Pruning                                                                  *)

Plans == [Days -> Sources \cup {None}]

(* Days, and any set of them, can be counted.                               *)
LEMMA DaysFinite ==
    ASSUME NEW S \in SUBSET Days
    PROVE  IsFiniteSet(S) /\ Cardinality(S) \in Nat
<1>1. IsFiniteSet(Days)
  BY PlannerAssumption, FS_Interval DEF Days
<1> QED
  BY <1>1, FS_Subset, FS_CardinalityType

(* Every non-empty set of numbers has a least one: induction without        *)
(* operators.                                                               *)
LEMMA LeastNumber ==
    ASSUME NEW S \in SUBSET Nat, S # {}
    PROVE  \E n \in S : \A m \in S : n <= m
<1> DEFINE R == OpToRel(<, Nat)
<1>0. IsWellFoundedOn(R, Nat)
  BY NatLessThanWellFounded
<1>1. \E x \in S : \A y \in S : ~ (<<y, x>> \in R)
  <2> HIDE DEF R
  <2> QED
    BY <1>0, WFMin
<1>2. R = {ss \in Nat \X Nat : ss[1] < ss[2]}
  BY Zenon DEF OpToRel
<1> HIDE DEF R
<1>3. PICK n \in S : \A m \in S : ~ (<<m, n>> \in R)
  BY <1>1
<1>4. \A m \in S : ~ (m < n)
  BY <1>2, <1>3
<1> QED
  BY <1>4

(* What _prune leaves is a part of what there was, of at most MaxStored     *)
(* dates: every other date left is newer than the oldest one left.          *)
LEMMA PrunedHeld ==
    ASSUME NEW p \in Plans
    PROVE  /\ Pruned(p) \in Plans
           /\ \A d \in Days : Pruned(p)[d] \in {p[d], None}
           /\ Cardinality(Held(Pruned(p))) <= MaxStored
<1> DEFINE newer(d) == {e \in Held(p) : e > d}
           left     == Held(Pruned(p))
<1>1. Pruned(p) = [d \in Days |-> IF Cardinality(newer(d)) < MaxStored THEN p[d] ELSE None]
  BY DEF Pruned
<1>2. Pruned(p) \in Plans /\ \A d \in Days : Pruned(p)[d] \in {p[d], None}
  BY <1>1 DEF Plans
<1>3. left \in SUBSET Days /\ left \subseteq Held(p) /\ Held(p) \in SUBSET Days
  BY <1>2 DEF Held
<1>4. IsFiniteSet(left) /\ Cardinality(left) \in Nat
  BY <1>3, DaysFinite
<1>5. ASSUME left = {} PROVE Cardinality(left) <= MaxStored
  BY <1>5, FS_EmptySet, PlannerAssumption
<1>6. ASSUME left # {} PROVE Cardinality(left) <= MaxStored
  <2>1. left \in SUBSET Nat
    BY <1>3 DEF Days
  <2>2. PICK d \in left : \A e \in left : d <= e
    BY <1>6, <2>1, LeastNumber
  <2>3. Cardinality(newer(d)) < MaxStored
    BY <1>1, <1>3 DEF Held
  <2>4. left \ {d} \subseteq newer(d)
    BY <1>3, <2>1, <2>2
  <2>5. IsFiniteSet(newer(d)) /\ Cardinality(newer(d)) \in Nat
    BY <1>3, DaysFinite
  <2>6. Cardinality(left \ {d}) <= Cardinality(newer(d))
    BY <2>4, <2>5, FS_Subset
  <2>7. Cardinality(left \ {d}) = Cardinality(left) - 1
    BY <1>4, FS_RemoveElement
  <2> QED
    BY <1>4, <2>3, <2>5, <2>6, <2>7, PlannerAssumption
<1> QED
  BY <1>2, <1>5, <1>6

(* Saving a date changes that date or drops dates.                          *)
LEMMA SavedPlans ==
    ASSUME PlannerTypeOK, NEW d \in Days, NEW source \in Sources
    PROVE  /\ Saved(d, source) \in Plans
           /\ Saved(d, source)[d] \in {source, None}
           /\ \A e \in Days \ {d} : Saved(d, source)[e] \in {plans[e], None}
           /\ Cardinality(Held(Saved(d, source))) <= MaxStored
<1> DEFINE p == [plans EXCEPT ![d] = source]
<1>1. p \in Plans /\ p[d] = source /\ \A e \in Days \ {d} : p[e] = plans[e]
  BY DEF PlannerTypeOK, Plans
<1>2. Saved(d, source) = Pruned(p)
  BY DEF Saved
<1> HIDE DEF p
<1> QED
  BY <1>1, <1>2, PrunedHeld

(* As long as nobody saves further ahead than dates are kept, pruning       *)
(* leaves today and the days after it alone.                                *)
LEMMA PrunedKeepsToday ==
    ASSUME NEW p \in Plans, NEW t \in Days, NEW reach \in Nat, reach < MaxStored,
           \A e \in Held(p) : e <= t + reach, NEW d \in Days, d >= t
    PROVE  Pruned(p)[d] = p[d]
<1> DEFINE newer == {e \in Held(p) : e > d}
           ahead == d + 1 .. d + reach
<1>1. d \in Nat /\ t \in Nat /\ newer \subseteq ahead
  BY PlannerAssumption DEF Days, Held
<1>2. IsFiniteSet(ahead) /\ Cardinality(ahead) = reach
  BY <1>1, FS_Interval
<1>3. Cardinality(newer) <= reach
  BY <1>1, <1>2, FS_Subset
<1>4. Cardinality(newer) \in Nat
  BY DaysFinite DEF Held
<1> QED
  BY <1>3, <1>4, PlannerAssumption DEF Pruned

-----------------------------------------------------------------------------
(* Type correctness                                                         *)

(* No plans at all are few plans.                                           *)
LEMMA NoPlansHeld ==
    /\ NoPlans \in Plans /\ Held(NoPlans) = {}
    /\ Cardinality(Held(NoPlans)) <= MaxStored
<1>1. NoPlans \in Plans /\ Held(NoPlans) = {}
  BY DEF NoPlans, Plans, Held
<1> QED
  BY <1>1, FS_EmptySet, PlannerAssumption

(* What save_schedule, and an attempt at a plan, may leave in memory, in    *)
(* the file and on the counter.                                             *)
LEMMA StoreType ==
    ASSUME PlannerTypeOK, NEW d \in Days, NEW source \in Sources, Store(d, source)
    PROVE  /\ plans' = Saved(d, source)
           /\ plans' \in Plans /\ Cardinality(Held(plans')) <= MaxStored
           /\ file' \in Plans /\ Cardinality(Held(file')) <= MaxStored
           /\ file' \in {plans', file, NoPlans}
           /\ failures' \in 0 .. MaxFailures /\ failures' >= failures
<1>1. plans' = Saved(d, source) /\ file' \in {plans', file, NoPlans}
  BY DEF Store
<1>2. plans' \in Plans /\ Cardinality(Held(plans')) <= MaxStored
  BY <1>1, SavedPlans
<1>3. file' \in Plans /\ Cardinality(Held(file')) <= MaxStored
  BY <1>1, <1>2, NoPlansHeld DEF PlannerTypeOK, Plans
<1>4. failures' \in 0 .. MaxFailures /\ failures' >= failures
  BY PlannerAssumption DEF Store, Fails, PlannerTypeOK
<1> QED
  BY <1>1, <1>2, <1>3, <1>4

LEMMA ComputeType ==
    ASSUME PlannerTypeOK, NEW d \in Days, NEW source \in Sources, Compute(d, source)
    PROVE  /\ \/ plans' = Saved(d, source)
              \/ plans' = plans /\ failures' = failures + 1
           /\ plans' \in Plans /\ Cardinality(Held(plans')) <= MaxStored
           /\ file' \in Plans /\ Cardinality(Held(file')) <= MaxStored
           /\ file' \in {plans', file, NoPlans}
           /\ failures' \in 0 .. MaxFailures /\ failures' >= failures
<1>1. CASE Store(d, source)
  BY <1>1, StoreType
<1>2. CASE Fails /\ UNCHANGED <<plans, file>>
  BY <1>2, PlannerAssumption DEF Fails, PlannerTypeOK, Plans
<1> QED
  BY <1>1, <1>2 DEF Compute

(* What is known of a day's prices has one of two sources.                  *)
LEMMA KnownSourceType ==
    ASSUME PlannerTypeOK, NEW d \in Days
    PROVE  KnownSource(d) \in {"real", "estimate"}
BY DEF PlannerTypeOK, KnownSource

(* Types hold at first,                                                     *)
LEMMA TypeInit == Init => PlannerTypeOK
<1> SUFFICES ASSUME Init PROVE PlannerTypeOK
  OBVIOUS
<1>1. /\ plans \in [Days -> Sources \cup {None}] /\ Cardinality(Held(plans)) <= MaxStored
      /\ file \in [Days -> Sources \cup {None}] /\ Cardinality(Held(file)) <= MaxStored
  BY NoPlansHeld DEF Init, Plans
<1>2. cache \in [Days -> {"real", "estimate", None}]
  BY DEF Init
<1>3. /\ today \in Days /\ curves \subseteq Days
      /\ triedTomorrow \in Days \cup {NoDay}
      /\ crashes \in 0 .. MaxCrashes /\ failures \in 0 .. MaxFailures
  BY PlannerAssumption DEF Init, Days
<1>4. /\ schedFetch \in 0 .. today /\ triedToday \in 0 .. today
      /\ marketFetch \in Days \cup {NoDay} /\ marketFetch <= today + 1
  BY DEF Init, NoDay
<1> QED
  BY <1>1, <1>2, <1>3, <1>4 DEF Init, PlannerTypeOK

(* and in every step.                                                       *)
LEMMA TypeNext ==
    ASSUME PlannerTypeOK, [Next]_vars
    PROVE  PlannerTypeOK'
<1> USE PlannerAssumption
<1> DEFINE Stored == /\ plans' \in Plans /\ Cardinality(Held(plans')) <= MaxStored
                     /\ file' \in Plans /\ Cardinality(Held(file')) <= MaxStored
                     /\ failures' \in 0 .. MaxFailures
<1>1. today \in Days /\ {"real", "estimate", "operator"} = Sources
  BY DEF PlannerTypeOK, Sources
<1>2. ASSUME NEW d \in Days, NEW source \in Sources, Compute(d, source)
      PROVE  Stored
  BY <1>2, ComputeType
<1>3. ASSUME NEW d \in Days, NEW source \in {"real", "estimate"}, Fetched(d, source)
      PROVE  curves' \subseteq Days /\ cache' \in [Days -> {"real", "estimate", None}]
  BY <1>3 DEF Fetched, PlannerTypeOK
<1>4. ASSUME ApplyPlan PROVE mode' \in {"plan", "default", "override"}
  BY <1>4 DEF ApplyPlan, CurrentAction, PlannerTypeOK
<1>5. CASE SchedNothingToDo
  <2>1. mode' \in {"plan", "default", "override"}
    BY <1>4, <1>5 DEF SchedNothingToDo
  <2> QED
    BY <1>5, <2>1 DEF SchedNothingToDo, PlannerTypeOK
<1>6. CASE SchedFromKnown
  <2>1. Stored
    BY <1>1, <1>2, <1>6, KnownSourceType DEF SchedFromKnown
  <2>2. cache' \in [Days -> {"real", "estimate", None}]
    BY <1>1, <1>6, KnownSourceType DEF SchedFromKnown, PlannerTypeOK
  <2>3. mode' \in {"plan", "default", "override"}
    BY <1>4, <1>6 DEF SchedFromKnown
  <2> QED
    BY <1>6, <2>1, <2>2, <2>3 DEF SchedFromKnown, PlannerTypeOK, Plans, Days
<1>7. CASE SchedFetch
  BY <1>7 DEF SchedFetch, PlannerTypeOK, Days
<1>8. CASE SchedFetched
  <2>1. PICK source \in {"real", "estimate"} :
           Fetched(schedFetch, source) /\ Compute(schedFetch, source)
    BY <1>8 DEF SchedFetched
  <2>2. schedFetch \in Days
    BY <1>8 DEF SchedFetched, PlannerTypeOK, Days, NoDay
  <2>3. Stored
    BY <1>1, <1>2, <2>1, <2>2
  <2>4. curves' \subseteq Days /\ cache' \in [Days -> {"real", "estimate", None}]
    BY <1>3, <2>1, <2>2
  <2>5. mode' \in {"plan", "default", "override"}
    BY <1>4, <1>8 DEF SchedFetched
  <2> QED
    BY <1>8, <2>3, <2>4, <2>5 DEF SchedFetched, PlannerTypeOK, Plans, Days, NoDay
<1>9. CASE MarketFromKnown
  <2>1. today + 1 \in Days
    BY <1>9 DEF MarketFromKnown, WantsTomorrow, PlannerTypeOK, Days
  <2>2. Stored
    BY <1>1, <1>2, <1>9, <2>1, KnownSourceType DEF MarketFromKnown
  <2>3. cache' \in [Days -> {"real", "estimate", None}]
    BY <1>9, <2>1, KnownSourceType DEF MarketFromKnown, PlannerTypeOK
  <2> QED
    BY <1>9, <2>1, <2>2, <2>3 DEF MarketFromKnown, PlannerTypeOK, Plans
<1>10. CASE MarketFetch
  BY <1>10 DEF MarketFetch, WantsTomorrow, PlannerTypeOK, Days
<1>11. CASE MarketFetched
  <2>1. PICK source \in {"real", "estimate"} :
           Fetched(marketFetch, source) /\ Compute(marketFetch, source)
    BY <1>11 DEF MarketFetched
  <2>2. marketFetch \in Days
    BY <1>11 DEF MarketFetched, PlannerTypeOK
  <2>3. Stored
    BY <1>1, <1>2, <2>1, <2>2
  <2>4. curves' \subseteq Days /\ cache' \in [Days -> {"real", "estimate", None}]
    BY <1>3, <2>1, <2>2
  <2> QED
    BY <1>11, <2>3, <2>4 DEF MarketFetched, PlannerTypeOK, Plans, Days, NoDay
<1>12. CASE MarketPush
  <2>1. PICK d \in Days : curves' \in {curves, curves \cup {d}} /\ Compute(d, "real")
    BY <1>12 DEF MarketPush
  <2>2. Stored /\ curves' \subseteq Days
    BY <1>1, <1>2, <2>1 DEF PlannerTypeOK
  <2> QED
    BY <1>12, <2>2 DEF MarketPush, PlannerTypeOK, Plans
<1>13. CASE RemoteSchedule
  <2>1. PICK d \in Days : Store(d, "operator")
    BY <1>13 DEF RemoteSchedule
  <2>2. Stored
    BY <1>1, <2>1, StoreType
  <2> QED
    BY <1>13, <2>2 DEF RemoteSchedule, PlannerTypeOK, Plans
<1>14. CASE Command \/ OverrideEnds \/ RetryDelayOver \/ Afternoon \/ Midnight
  <2>1. CASE Command \/ OverrideEnds \/ Afternoon
    BY <2>1 DEF Command, OverrideEnds, Afternoon, PlannerTypeOK
  <2>2. CASE RetryDelayOver
    BY <2>2 DEF RetryDelayOver, PlannerTypeOK, Days, NoDay
  <2>3. CASE Midnight
    <3>1. /\ today' \in Days /\ schedFetch' \in 0 .. today' /\ triedToday' \in 0 .. today'
          /\ marketFetch' <= today' + 1
      BY <2>3 DEF Midnight, PlannerTypeOK, Days, NoDay
    <3>2. curves' \subseteq Days /\ cache' \in [Days -> {"real", "estimate", None}]
      BY <2>3 DEF Midnight, PlannerTypeOK
    <3> QED
      BY <2>3, <3>1, <3>2 DEF Midnight, PlannerTypeOK
  <2> QED
    BY <1>14, <2>1, <2>2, <2>3
<1>15. CASE CacheExpires
  BY <1>15 DEF CacheExpires, PlannerTypeOK
<1>16. CASE Restart
  <2>1. Stored
    BY <1>16, NoPlansHeld DEF Restart, PlannerTypeOK, Plans
  <2>2. cache' \in [Days -> {"real", "estimate", None}]
    BY <1>16 DEF Restart
  <2>3. /\ schedFetch' \in 0 .. today' /\ triedToday' \in 0 .. today'
        /\ marketFetch' \in Days \cup {NoDay} /\ marketFetch' <= today' + 1
        /\ triedTomorrow' \in Days \cup {NoDay} /\ today' \in Days
        /\ crashes' \in 0 .. MaxCrashes
    BY <1>16 DEF Restart, PlannerTypeOK, Days, NoDay
  <2>4. /\ due' \in BOOLEAN /\ curves' \subseteq Days /\ override' \in BOOLEAN
        /\ mode' \in {"plan", "default", "override"}
    BY <1>16 DEF Restart, PlannerTypeOK
  <2> QED
    BY <2>1, <2>2, <2>3, <2>4 DEF PlannerTypeOK, Plans
<1>17. CASE UNCHANGED vars
  BY <1>17 DEF vars, PlannerTypeOK
<1> QED
  BY <1>5, <1>6, <1>7, <1>8, <1>9, <1>10, <1>11, <1>12, <1>13, <1>14, <1>15, <1>16, <1>17
     DEF Next, ScheduleLoop, MarketLoop

(* Never more than MaxStored dates are held, in memory or in the file,      *)
(* whatever is saved in whatever order and fails, and no fetch is under way *)
(* for a day further ahead than tomorrow.                                   *)
THEOREM PlannerTypeCorrect == Spec => []PlannerTypeOK
<1> QED
  BY TypeInit, TypeNext, PTL DEF Spec

(* While an operator's override runs nothing else decides what the emulator *)
(* follows, a plan that arrives from a fetch meanwhile included.            *)
THEOREM OverrideIsFollowed == Spec => []OverrideHolds
<1>1. Init => OverrideHolds
  BY DEF Init, OverrideHolds
<1>2. ASSUME OverrideHolds, [Next]_vars PROVE OverrideHolds'
  BY <1>2
     DEF OverrideHolds, Next, ScheduleLoop, MarketLoop, SchedNothingToDo,
         SchedFromKnown, SchedFetch, SchedFetched, ApplyPlan, MarketFromKnown,
         MarketFetch, MarketFetched, MarketPush, RemoteSchedule, Command,
         OverrideEnds, RetryDelayOver, CacheExpires, Afternoon, Midnight, Restart, vars
<1> QED
  BY <1>1, <1>2, PTL DEF Spec

-----------------------------------------------------------------------------
(* The day's plan                                                           *)

(* How far ahead of today plans are saved.                                  *)
Reach == IF Horizon = 0 THEN 1 ELSE Horizon

Saves(d, source) ==
    /\ plans' = Saved(d, source) /\ file' \in {plans', file, NoPlans}
    /\ today' = today /\ d <= today + Reach

(* An attempt saves a plan, or leaves the plans alone.                      *)
LEMMA ComputeSaves ==
    ASSUME PlannerTypeOK, NEW d \in Days, NEW source \in Sources, Compute(d, source),
           today' = today, d <= today + Reach
    PROVE  Saves(d, source) \/ UNCHANGED <<plans, file>>
BY StoreType DEF Compute, Saves

(* What an action has to do with the plans: it saves one, or leaves them    *)
(* alone, or is a restart.                                                  *)
LEMMA PlansChange ==
    ASSUME PlannerTypeOK, [Next]_vars
    PROVE  \/ UNCHANGED <<plans, file>> /\ today' >= today
           \/ /\ crashes' # crashes /\ today' = today
              /\ plans' \in {file, NoPlans} /\ file' = plans'
           \/ \E d \in Days, source \in Sources : Saves(d, source)
<1> USE PlannerAssumption
<1>1. /\ today \in Days /\ today \in Nat /\ crashes \in Nat
      /\ {"real", "estimate", "operator"} = Sources
      /\ Reach \in Nat /\ Reach >= 1 /\ Reach >= Horizon
  BY DEF PlannerTypeOK, Sources, Reach, Days
<1>a. ASSUME NEW d \in Days, NEW source \in Sources, Compute(d, source),
             today' = today, d <= today + 1
      PROVE  \/ UNCHANGED <<plans, file>> /\ today' >= today
             \/ \E e \in Days, s \in Sources : Saves(e, s)
  <2>1. d <= today + Reach
    BY <1>1, <1>a DEF Days
  <2>2. today' >= today
    BY <1>1, <1>a
  <2> QED
    BY <1>a, <2>1, <2>2, ComputeSaves
<1>2. CASE SchedFromKnown
  <2>1. /\ Compute(today, KnownSource(today)) /\ KnownSource(today) \in Sources
        /\ today' = today /\ today <= today + 1
    BY <1>1, <1>2, KnownSourceType DEF SchedFromKnown
  <2> QED
    BY <1>1, <1>a, <2>1
<1>3. CASE MarketFromKnown
  <2>1. today + 1 \in Days
    BY <1>1, <1>3 DEF MarketFromKnown, WantsTomorrow, Days
  <2>2. /\ Compute(today + 1, KnownSource(today + 1)) /\ KnownSource(today + 1) \in Sources
        /\ today' = today /\ today + 1 <= today + 1
    BY <1>1, <1>3, <2>1, KnownSourceType DEF MarketFromKnown
  <2> QED
    BY <1>a, <2>1, <2>2
<1>4. CASE SchedFetched
  <2>1. PICK source \in {"real", "estimate"} : Compute(schedFetch, source)
    BY <1>4 DEF SchedFetched
  <2>2. schedFetch \in Days /\ schedFetch <= today + 1 /\ today' = today
    BY <1>1, <1>4 DEF SchedFetched, PlannerTypeOK, Days, NoDay
  <2> QED
    BY <1>1, <1>a, <2>1, <2>2
<1>5. CASE MarketFetched
  <2>1. PICK source \in {"real", "estimate"} : Compute(marketFetch, source)
    BY <1>5 DEF MarketFetched
  <2>2. marketFetch \in Days /\ marketFetch <= today + 1 /\ today' = today
    BY <1>1, <1>5 DEF MarketFetched, PlannerTypeOK, Days, NoDay
  <2> QED
    BY <1>1, <1>a, <2>1, <2>2
<1>6. CASE MarketPush
  <2>1. PICK d \in {today, today + 1} \cap Days : Compute(d, "real")
    BY <1>6 DEF MarketPush
  <2>2. today' = today /\ d <= today + 1
    BY <1>1, <1>6, <2>1 DEF MarketPush
  <2> QED
    BY <1>1, <1>a, <2>1, <2>2
<1>7. CASE RemoteSchedule
  <2>1. PICK d \in Days : d <= today + Horizon /\ Store(d, "operator")
    BY <1>7 DEF RemoteSchedule
  <2>2. d <= today + Reach
    BY <1>1, <2>1 DEF Days
  <2>3. Saves(d, "operator")
    BY <1>1, <1>7, <2>1, <2>2, StoreType DEF RemoteSchedule, Saves
  <2> QED
    BY <1>1, <2>3
<1>8. CASE Restart
  BY <1>1, <1>8 DEF Restart
<1>9. CASE SchedNothingToDo \/ SchedFetch \/ MarketFetch \/ Command \/ OverrideEnds
           \/ RetryDelayOver \/ CacheExpires \/ Afternoon \/ Midnight \/ UNCHANGED vars
  <2>1. UNCHANGED <<plans, file>> /\ (today' = today \/ today' = today + 1)
    BY <1>9 DEF SchedNothingToDo, SchedFetch, MarketFetch, Command, OverrideEnds,
                RetryDelayOver, CacheExpires, Afternoon, Midnight, vars
  <2> QED
    BY <1>1, <2>1
<1> QED
  BY <1>2, <1>3, <1>4, <1>5, <1>6, <1>7, <1>8, <1>9
     DEF Next, ScheduleLoop, MarketLoop

(* Nothing is stored for a day further ahead than plans are saved.          *)
AheadInv == \A d \in Held(plans) \cup Held(file) : d <= today + Reach

(* Saving a date leaves today and what comes after it as it was.            *)
LEMMA SavedKeeps ==
    ASSUME PlannerTypeOK, AheadInv, Reach < MaxStored, NEW d \in Days,
           d <= today + Reach, NEW source \in Sources, NEW e \in Days, e >= today
    PROVE  Saved(d, source)[e] = IF e = d THEN source ELSE plans[e]
<1> DEFINE p == [plans EXCEPT ![d] = source]
<1>1. p \in Plans /\ \A f \in Days : p[f] = IF f = d THEN source ELSE plans[f]
  BY DEF PlannerTypeOK, Plans
<1>2. Saved(d, source) = Pruned(p)
  BY DEF Saved
<1>3. today \in Days /\ Reach \in Nat
  BY PlannerAssumption DEF PlannerTypeOK, Reach
<1> HIDE DEF p
<1>4. \A f \in Held(p) : f <= today + Reach
  BY <1>1 DEF Held, AheadInv
<1> QED
  BY <1>1, <1>2, <1>3, <1>4, PrunedKeepsToday

(* Days only come nearer.                                                   *)
LEMMA AheadNext ==
    ASSUME PlannerTypeOK, AheadInv, [Next]_vars
    PROVE  AheadInv'
<1>1. today \in Nat /\ Reach \in Nat /\ Days \subseteq Nat
  BY PlannerAssumption DEF PlannerTypeOK, Reach, Days
<1>2. CASE UNCHANGED <<plans, file>> /\ today' >= today
  <2>1. today' \in Nat /\ today' >= today
    BY <1>2, TypeNext, PlannerAssumption DEF PlannerTypeOK, Days
  <2>2. ASSUME NEW d \in Held(plans') \cup Held(file') PROVE d <= today' + Reach
    <3>1. d \in Held(plans) \cup Held(file) /\ d \in Nat
      BY <1>1, <1>2 DEF Held
    <3>2. d <= today + Reach
      BY <3>1 DEF AheadInv
    <3>3. \A a, b, c, r \in Nat : a <= b + r /\ c >= b => a <= c + r
      OBVIOUS
    <3>4. d \in Nat /\ today \in Nat /\ today' \in Nat /\ Reach \in Nat
      BY <1>1, <2>1, <3>1
    <3> QED
      BY <2>1, <3>2, <3>3, <3>4
  <2> QED
    BY <2>2 DEF AheadInv, Reach, Held
<1>3. CASE plans' \in {file, NoPlans} /\ file' = plans' /\ today' = today
  <2>1. Held(plans') \cup Held(file') \subseteq Held(file)
    BY <1>3, NoPlansHeld DEF Held
  <2> QED
    BY <1>3, <2>1 DEF AheadInv, Reach, Held
<1>4. ASSUME NEW d \in Days, NEW source \in Sources, Saves(d, source)
      PROVE  AheadInv'
  <2>1. /\ plans' = Saved(d, source) /\ file' \in {plans', file, NoPlans}
        /\ today' = today /\ d <= today + Reach
    BY <1>4 DEF Saves
  <2>2. ASSUME NEW e \in Held(plans') PROVE e <= today' + Reach
    <3>1. e \in Days /\ (e = d \/ e \in Held(plans))
      BY <2>1, <2>2, SavedPlans DEF Held
    <3> QED
      BY <2>1, <3>1 DEF AheadInv
  <2>3. ASSUME NEW e \in Held(file') PROVE e <= today' + Reach
    <3>1. e \in Held(plans') \/ e \in Held(file)
      BY <2>1, <2>3, NoPlansHeld
    <3> QED
      BY <2>1, <2>2, <3>1 DEF AheadInv
  <2> QED
    BY <2>2, <2>3 DEF AheadInv, Reach, Held
<1> QED
  BY <1>2, <1>3, <1>4, PlansChange

(* So from the types on.                                                    *)
LEMMA AheadAlways == Spec => [](PlannerTypeOK /\ AheadInv)
<1>1. Init => PlannerTypeOK /\ AheadInv
  BY TypeInit, NoPlansHeld DEF Init, AheadInv
<1>2. PlannerTypeOK /\ AheadInv /\ [Next]_vars => (PlannerTypeOK /\ AheadInv)'
  BY TypeNext, AheadNext
<1> QED
  BY <1>1, <1>2, PTL DEF Spec

(* A day that has a plan keeps one while it lasts and the process runs.     *)
LEMMA PlannedStays ==
    ASSUME Reach < MaxStored, PlannerTypeOK, AheadInv, [Next]_vars,
           today' = today, crashes' = crashes, plans[today] # None
    PROVE  plans'[today] # None
<1>1. today \in Days /\ today \in Nat
  BY DEF PlannerTypeOK, Days
<1>2. CASE \E e \in Days, source \in Sources : Saves(e, source)
  <2>1. PICK e \in Days, source \in Sources : Saves(e, source)
    BY <1>2
  <2>2. plans' = Saved(e, source) /\ e <= today + Reach /\ today >= today
    BY <1>1, <2>1 DEF Saves
  <2>3. plans'[today] = IF today = e THEN source ELSE plans[today]
    BY <1>1, <2>2, SavedKeeps
  <2> QED
    BY <2>3 DEF Sources, None
<1> QED
  BY <1>1, <1>2, PlansChange

(* No date still in use is evicted, in whatever order dates are saved and   *)
(* whatever comes in between a fetch and its answer.                        *)
THEOREM TodayIsKept ==
    ASSUME Reach < MaxStored
    PROVE  Spec => TodayStays
<1>1. PlannerTypeOK /\ AheadInv /\ [Next]_vars
         => [(today' = today /\ crashes' = crashes /\ plans[today] # None)
                => plans'[today] # None]_vars
  BY PlannedStays
<1> QED
  BY <1>1, AheadAlways, PTL DEF Spec, TodayStays

(* An attempt at today's plan ends: at once, or with the fetch it awaits.   *)
AttemptEnds ==
    /\ today' = today /\ crashes' = crashes /\ schedFetch' # today
    /\ schedFetch = today \/ (triedToday # today /\ triedToday' = today)

(* main.py:249-255: an attempt at today's plan ends in one, unless it ends  *)
(* in an exception.                                                         *)
AttemptsSettled ==
    [][AttemptEnds => plans'[today] # None \/ failures' = failures + 1]_vars

(* An attempt ends in SchedFromKnown or in SchedFetched; and a plan saved   *)
(* for today is not pruned at once, whatever is stored for other days.      *)
LEMMA AttemptNext ==
    ASSUME Reach < MaxStored, PlannerTypeOK, AheadInv, [Next]_vars, AttemptEnds
    PROVE  plans'[today] # None \/ failures' = failures + 1
<1>1. today \in Days /\ today \in Nat /\ today # NoDay /\ Reach \in Nat
  BY PlannerAssumption DEF PlannerTypeOK, Days, NoDay, Reach
<1>2. ASSUME NEW source \in Sources, Compute(today, source)
      PROVE  plans'[today] # None \/ failures' = failures + 1
  <2>1. Saved(today, source)[today] = source
    BY <1>1, SavedKeeps
  <2> QED
    BY <1>1, <1>2, <2>1, ComputeType DEF Sources, None
<1>3. CASE SchedFromKnown
  BY <1>1, <1>2, <1>3, KnownSourceType DEF SchedFromKnown, Sources
<1>4. CASE SchedFetched
  <2>1. schedFetch = today
    BY <1>4 DEF SchedFetched, AttemptEnds
  <2> QED
    BY <1>2, <1>4, <2>1 DEF SchedFetched, Sources
<1>5. CASE ~SchedFromKnown /\ ~SchedFetched
  <2>1. ~AttemptEnds
    BY <1>1, <1>5
       DEF AttemptEnds, Next, ScheduleLoop, SchedNothingToDo, SchedFetch, MarketLoop,
           MarketFromKnown, MarketFetch, MarketFetched, MarketPush, RemoteSchedule,
           Command, OverrideEnds, RetryDelayOver, CacheExpires, Afternoon, Midnight,
           Restart, vars, NoDay, PlannerTypeOK
  <2> QED
    BY <2>1
<1> QED
  BY <1>3, <1>4, <1>5

(* Every attempt at today's plan ends in one or in an exception, whichever  *)
(* source its prices come from and whatever was saved meanwhile for other   *)
(* days.  With TodayIsKept, what TodayPlanned leaves to fairness is that    *)
(* attempts are made, again after those that failed, and that a fetch ends. *)
THEOREM TodayIsFound ==
    ASSUME Reach < MaxStored
    PROVE  Spec => AttemptsSettled
<1>1. PlannerTypeOK /\ AheadInv /\ [Next]_vars
         => [AttemptEnds => plans'[today] # None \/ failures' = failures + 1]_vars
  BY AttemptNext
<1> QED
  BY <1>1, AheadAlways, PTL DEF Spec, AttemptsSettled

-----------------------------------------------------------------------------
(* Where a plan from exact prices can be lost                               *)

(* main.py:336-339, dam_client.py:86-91: the ways in which a plan from      *)
(* exact prices gives way to one from an estimate: a fetch for that very    *)
(* day was under way, and ends without the page; or the process restarts    *)
(* from a file that did not follow.                                         *)
LateFetchOnly ==
    [][\A d \in Days : plans[d] = "real" /\ plans'[d] = "estimate" =>
          \/ schedFetch = d /\ schedFetch' = NoDay
          \/ marketFetch = d /\ marketFetch' = NoDay
          \/ crashes' # crashes /\ file[d] = "estimate"]_vars

(* Nothing is assumed here of what may come in between a fetch and its      *)
(* answer, or of what fails: while the process runs, a push is lost only to *)
(* a computation that had begun before it.                                  *)
THEOREM OnlyLateFetchDowngrades == Spec => LateFetchOnly
<1>1. ASSUME PlannerTypeOK, [Next]_vars, NEW d \in Days,
             plans[d] = "real", plans'[d] = "estimate"
      PROVE  \/ schedFetch = d /\ schedFetch' = NoDay
             \/ marketFetch = d /\ marketFetch' = NoDay
             \/ crashes' # crashes /\ file[d] = "estimate"
  <2> USE PlannerAssumption
  <2>1. today \in Days /\ today \in Nat /\ {"real", "estimate", "operator"} = Sources
    BY <1>1 DEF PlannerTypeOK, Sources, Days
  <2>2. ASSUME NEW e \in Days, NEW source \in Sources,
               Compute(e, source) \/ Store(e, source)
        PROVE  d = e /\ source = "estimate"
    <3>1. plans' = Saved(e, source)
      BY <1>1, <2>2 DEF Compute, Store
    <3> QED
      BY <1>1, <3>1, SavedPlans DEF None
  <2>3. CASE SchedFromKnown
    BY <1>1, <2>1, <2>2, <2>3, KnownSourceType DEF SchedFromKnown, None
  <2>4. CASE MarketFromKnown
    <3>1. today + 1 \in Days /\ plans[today + 1] = None
      BY <2>1, <2>4 DEF MarketFromKnown, WantsTomorrow, Days
    <3> QED
      BY <1>1, <2>1, <2>2, <2>4, <3>1, KnownSourceType DEF MarketFromKnown, None
  <2>5. CASE SchedFetched
    <3>1. schedFetch \in Days /\ schedFetch' = NoDay
      BY <1>1, <2>1, <2>5 DEF SchedFetched, PlannerTypeOK, Days, NoDay
    <3> QED
      BY <2>1, <2>2, <2>5, <3>1 DEF SchedFetched
  <2>6. CASE MarketFetched
    <3>1. marketFetch \in Days /\ marketFetch' = NoDay
      BY <1>1, <2>6 DEF MarketFetched, PlannerTypeOK
    <3> QED
      BY <2>1, <2>2, <2>6, <3>1 DEF MarketFetched
  <2>7. CASE MarketPush
    BY <2>1, <2>2, <2>7 DEF MarketPush
  <2>8. CASE RemoteSchedule
    BY <2>1, <2>2, <2>8 DEF RemoteSchedule
  <2>9. CASE Restart
    BY <1>1, <2>9 DEF Restart, NoPlans, None, PlannerTypeOK
  <2>10. CASE plans' = plans
    BY <1>1, <2>10
  <2> QED
    BY <1>1, <2>3, <2>4, <2>5, <2>6, <2>7, <2>8, <2>9, <2>10
       DEF Next, ScheduleLoop, MarketLoop, SchedNothingToDo, SchedFetch, MarketFetch,
           Command, OverrideEnds, RetryDelayOver, CacheExpires, Afternoon, Midnight, vars
<1>2. PlannerTypeOK /\ [Next]_vars
         => [\A d \in Days : plans[d] = "real" /\ plans'[d] = "estimate" =>
               \/ schedFetch = d /\ schedFetch' = NoDay
               \/ marketFetch = d /\ marketFetch' = NoDay
               \/ crashes' # crashes /\ file[d] = "estimate"]_vars
  BY <1>1
<1> QED
  BY <1>2, PlannerTypeCorrect, PTL DEF Spec, LateFetchOnly

-----------------------------------------------------------------------------
(* What becomes of plans, when no fetch is disturbed                        *)

(* A fetch under way is for today or tomorrow, of whose exact curve nothing *)
(* has been seen yet.                                                       *)
FetchInv ==
    /\ schedFetch # NoDay =>
          schedFetch = today /\ schedFetch \notin curves /\ plans[schedFetch] # "real"
    /\ marketFetch # NoDay =>
          marketFetch = today + 1 /\ marketFetch \notin curves /\ plans[marketFetch] # "real"

(* A plan made from an estimate is for a day whose curve is not stored, or  *)
(* comes from the cache, for a day without a plan.                          *)
Justified(d, source) ==
    source = "estimate" =>
        \/ d \notin curves /\ plans[d] # "real"
        \/ d >= today /\ cache[d] = "estimate" /\ plans[d] = None

(* What an action has to do with the plans while the process runs.          *)
LEMMA PlanSteps ==
    ASSUME PlannerTypeOK, FetchInv, [Next]_vars, crashes' = crashes
    PROVE  /\ today' >= today /\ failures' >= failures
           /\ \/ plans' = plans
              \/ \E d \in Days, source \in Sources :
                    Saves(d, source) /\ Justified(d, source)
<1> USE PlannerAssumption
<1>1. /\ today \in Days /\ today \in Nat /\ crashes \in Nat /\ failures \in Nat
      /\ {"real", "estimate", "operator"} = Sources
      /\ Reach \in Nat /\ Reach >= 1 /\ Reach >= Horizon
  BY DEF PlannerTypeOK, Sources, Reach, Days
<1> DEFINE Goal == /\ today' >= today /\ failures' >= failures
                   /\ \/ plans' = plans
                      \/ \E d \in Days, source \in Sources :
                            Saves(d, source) /\ Justified(d, source)
<1>2. ASSUME NEW d \in Days, NEW source \in Sources, Compute(d, source),
             today' = today, d <= today + 1, Justified(d, source)
      PROVE  Goal
  <2>1. d <= today + Reach /\ today' >= today
    BY <1>1, <1>2 DEF Days
  <2>2. failures' >= failures
    BY <1>1, <1>2, ComputeType
  <2> QED
    BY <1>2, <2>1, <2>2, ComputeSaves
<1>3. ASSUME NEW d \in Days, KnowsPrices(d), plans[d] = None, d >= today
      PROVE  KnownSource(d) \in Sources /\ Justified(d, KnownSource(d))
  BY <1>1, <1>3, KnownSourceType DEF KnownSource, Justified
<1>4. CASE SchedFromKnown
  <2>1. /\ KnowsPrices(today) /\ plans[today] = None /\ today' = today
        /\ Compute(today, KnownSource(today)) /\ today >= today /\ today <= today + 1
    BY <1>1, <1>4 DEF SchedFromKnown
  <2>2. KnownSource(today) \in Sources /\ Justified(today, KnownSource(today))
    BY <1>1, <1>3, <2>1
  <2> QED
    BY <1>1, <1>2, <2>1, <2>2
<1>5. CASE MarketFromKnown
  <2>1. today + 1 \in Days
    BY <1>1, <1>5 DEF MarketFromKnown, WantsTomorrow, Days
  <2>2. /\ KnowsPrices(today + 1) /\ plans[today + 1] = None /\ today' = today
        /\ Compute(today + 1, KnownSource(today + 1))
        /\ today + 1 >= today /\ today + 1 <= today + 1
    BY <1>1, <1>5 DEF MarketFromKnown, WantsTomorrow
  <2>3. KnownSource(today + 1) \in Sources /\ Justified(today + 1, KnownSource(today + 1))
    BY <1>3, <2>1, <2>2
  <2> QED
    BY <1>2, <2>1, <2>2, <2>3
<1>6. CASE SchedFetched
  <2>1. PICK s \in {"real", "estimate"} : Compute(schedFetch, s)
    BY <1>6 DEF SchedFetched
  <2>2. /\ schedFetch = today /\ schedFetch <= today + 1 /\ today' = today
        /\ Justified(schedFetch, s)
    BY <1>1, <1>6 DEF SchedFetched, FetchInv, Justified
  <2> QED
    BY <1>1, <1>2, <2>1, <2>2
<1>7. CASE MarketFetched
  <2>1. PICK s \in {"real", "estimate"} : Compute(marketFetch, s)
    BY <1>7 DEF MarketFetched
  <2>2. /\ marketFetch \in Days /\ marketFetch <= today + 1 /\ today' = today
        /\ Justified(marketFetch, s)
    BY <1>7 DEF MarketFetched, FetchInv, Justified, PlannerTypeOK
  <2> QED
    BY <1>1, <1>2, <2>1, <2>2
<1>8. CASE MarketPush
  <2>1. PICK d \in {today, today + 1} \cap Days : Compute(d, "real")
    BY <1>8 DEF MarketPush
  <2>2. today' = today /\ d <= today + 1 /\ Justified(d, "real")
    BY <1>1, <1>8, <2>1 DEF MarketPush, Justified
  <2> QED
    BY <1>1, <1>2, <2>1, <2>2
<1>9. CASE RemoteSchedule
  <2>1. PICK d \in Days : d <= today + Horizon /\ Store(d, "operator")
    BY <1>9 DEF RemoteSchedule
  <2>2. d <= today + Reach
    BY <1>1, <2>1 DEF Days
  <2>3. Saves(d, "operator") /\ Justified(d, "operator")
    BY <1>1, <1>9, <2>1, <2>2, StoreType DEF RemoteSchedule, Saves, Justified
  <2>4. failures' >= failures /\ today' >= today
    BY <1>1, <1>9, <2>1, StoreType DEF RemoteSchedule
  <2> QED
    BY <1>1, <2>3, <2>4
<1>10. CASE Restart
  BY <1>1, <1>10 DEF Restart
<1>11. CASE SchedNothingToDo \/ SchedFetch \/ MarketFetch \/ Command \/ OverrideEnds
            \/ RetryDelayOver \/ CacheExpires \/ Afternoon \/ Midnight \/ UNCHANGED vars
  <2>1. /\ plans' = plans /\ failures' = failures
        /\ today' = today \/ today' = today + 1
    BY <1>11 DEF SchedNothingToDo, SchedFetch, MarketFetch, Command, OverrideEnds,
                 RetryDelayOver, CacheExpires, Afternoon, Midnight, vars
  <2> QED
    BY <1>1, <2>1
<1> QED
  BY <1>4, <1>5, <1>6, <1>7, <1>8, <1>9, <1>10, <1>11
     DEF Next, ScheduleLoop, MarketLoop

(* FetchInv is inductive when nothing intervenes in a fetch.                *)
LEMMA FetchNext ==
    ASSUME FetchDisturbed = FALSE, PlannerTypeOK, FetchInv, [Next]_vars
    PROVE  FetchInv'
<1> USE PlannerAssumption
<1>1. today \in Days /\ today \in Nat
  BY DEF PlannerTypeOK, Days
<1>2. ASSUME NEW d \in Days, NEW source \in Sources,
             Compute(d, source) \/ Store(d, source)
      PROVE  \A e \in Days \ {d} : plans[e] # "real" => plans'[e] # "real"
  <2>1. plans' = plans \/ plans' = Saved(d, source)
    BY <1>2 DEF Compute, Store
  <2> QED
    BY <2>1, SavedPlans DEF None
<1>3. CASE SchedFromKnown
  <2>1. \A e \in Days \ {today} : plans[e] # "real" => plans'[e] # "real"
    BY <1>1, <1>2, <1>3, KnownSourceType DEF SchedFromKnown, Sources
  <2> QED
    BY <1>1, <1>3, <2>1 DEF SchedFromKnown, FetchInv, PlannerTypeOK, NoDay
<1>4. CASE SchedFetch
  BY <1>1, <1>4 DEF SchedFetch, FetchInv, KnowsPrices, None
<1>5. CASE SchedFetched
  <2>1. PICK source \in {"real", "estimate"} :
           Fetched(schedFetch, source) /\ Compute(schedFetch, source)
    BY <1>5 DEF SchedFetched
  <2>2. schedFetch = today
    BY <1>5 DEF SchedFetched, FetchInv
  <2>3. \A e \in Days \ {today} : plans[e] # "real" => plans'[e] # "real"
    BY <1>1, <1>2, <2>1, <2>2 DEF Sources
  <2>4. curves' \subseteq curves \cup {today}
    BY <2>1, <2>2 DEF Fetched
  <2> QED
    BY <1>1, <1>5, <2>2, <2>3, <2>4 DEF SchedFetched, FetchInv, PlannerTypeOK, NoDay
<1>6. CASE MarketFromKnown
  <2>1. today + 1 \in Days
    BY <1>1, <1>6 DEF MarketFromKnown, WantsTomorrow, Days
  <2>2. \A e \in Days \ {today + 1} : plans[e] # "real" => plans'[e] # "real"
    BY <1>2, <1>6, <2>1, KnownSourceType DEF MarketFromKnown, Sources
  <2> QED
    BY <1>1, <1>6, <2>2 DEF MarketFromKnown, WantsTomorrow, FetchInv, NoDay
<1>7. CASE MarketFetch
  BY <1>1, <1>7 DEF MarketFetch, WantsTomorrow, FetchInv, KnowsPrices, None
<1>8. CASE MarketFetched
  <2>1. PICK source \in {"real", "estimate"} :
           Fetched(marketFetch, source) /\ Compute(marketFetch, source)
    BY <1>8 DEF MarketFetched
  <2>2. marketFetch = today + 1 /\ marketFetch \in Days
    BY <1>8 DEF MarketFetched, FetchInv, PlannerTypeOK
  <2>3. \A e \in Days \ {today + 1} : plans[e] # "real" => plans'[e] # "real"
    BY <1>2, <2>1, <2>2 DEF Sources
  <2>4. curves' \subseteq curves \cup {today + 1}
    BY <2>1, <2>2 DEF Fetched
  <2> QED
    BY <1>1, <1>8, <2>2, <2>3, <2>4 DEF MarketFetched, FetchInv, NoDay
<1>9. CASE MarketPush \/ Midnight
  BY <1>9 DEF MarketPush, Midnight, MayIntervene, FetchInv
<1>10. CASE RemoteSchedule
  <2>1. PICK d \in Days : Store(d, "operator")
    BY <1>10 DEF RemoteSchedule
  <2>2. \A e \in Days : plans[e] # "real" => plans'[e] # "real"
    BY <2>1, SavedPlans DEF Store, None, Sources
  <2>3. schedFetch # NoDay => schedFetch \in Days
    BY <1>1 DEF FetchInv
  <2> QED
    BY <1>10, <2>2, <2>3 DEF RemoteSchedule, FetchInv, PlannerTypeOK
<1>11. CASE Command \/ OverrideEnds \/ RetryDelayOver \/ CacheExpires \/ Afternoon
            \/ SchedNothingToDo \/ UNCHANGED vars
  <2>1. UNCHANGED <<schedFetch, marketFetch, today, curves, plans>>
    BY <1>11 DEF Command, OverrideEnds, RetryDelayOver, CacheExpires, Afternoon,
                 SchedNothingToDo, vars
  <2> QED
    BY <2>1 DEF FetchInv
<1>12. CASE Restart
  BY <1>12 DEF Restart, FetchInv
<1> QED
  BY <1>3, <1>4, <1>5, <1>6, <1>7, <1>8, <1>9, <1>10, <1>11, <1>12
     DEF Next, ScheduleLoop, MarketLoop

(* Without disturbed fetches, a plan made from the day's exact curve is     *)
(* never replaced by one made from an average or a static curve, while the  *)
(* process runs, whatever attempts at plans fail.                           *)
THEOREM RealPlanIsKept ==
    ASSUME FetchDisturbed = FALSE
    PROVE  Spec => RealPlanKept
<1>1. Init => FetchInv
  BY DEF Init, FetchInv
<1>2. ASSUME PlannerTypeOK, FetchInv, [Next]_vars, NEW d \in Days,
             plans[d] = "real", plans'[d] = "estimate"
      PROVE  crashes' # crashes
  <2> SUFFICES ASSUME crashes' = crashes PROVE FALSE
    OBVIOUS
  <2>1. PICK e \in Days, source \in Sources : Saves(e, source) /\ Justified(e, source)
    BY <1>2, PlanSteps
  <2>2. /\ plans'[e] \in {source, None}
        /\ \A f \in Days \ {e} : plans'[f] \in {plans[f], None}
    BY <1>2, <2>1, SavedPlans DEF Saves
  <2>3. d = e => source # "estimate"
    BY <1>2, <2>1 DEF Justified, None
  <2> QED
    BY <1>2, <2>2, <2>3 DEF None
<1>3. PlannerTypeOK /\ FetchInv /\ [Next]_vars
         => [\A d \in Days :
                plans[d] = "real" /\ plans'[d] = "estimate" => crashes' # crashes]_vars
  BY <1>2
<1>4. PlannerTypeOK /\ FetchInv /\ [Next]_vars => FetchInv'
  BY FetchNext
<1> QED
  BY <1>1, <1>3, <1>4, PlannerTypeCorrect, PTL DEF Spec, RealPlanKept

-----------------------------------------------------------------------------
(* ... and operators push schedules for fewer days than are stored          *)

(* Besides, an estimate is in the cache for a day to come that has no plan  *)
(* only after an attempt at one has failed; and if that day's exact curve   *)
(* is stored, after two.                                                    *)
CacheInv ==
    /\ AheadInv
    /\ \A d \in Days :
          d >= today /\ cache[d] = "estimate" /\ plans[d] = None =>
              failures > 0 /\ (d \in curves => failures > 1)

(* A failed attempt aside, an estimate comes into the cache with a plan, of *)
(* a day whose curve is not stored; and a curve is stored with a plan,      *)
(* unless the cache has it as well.                                         *)
CacheSteps(e) ==
    /\ cache'[e] = "estimate" /\ cache[e] # "estimate" =>
          e \notin curves' /\ (plans'[e] # None \/ failures' > failures)
    /\ e \in curves' \ curves /\ cache'[e] = "estimate" =>
          plans'[e] # None \/ failures' > failures

LEMMA CacheStep ==
    ASSUME Reach < MaxStored, PlannerTypeOK, FetchInv, AheadInv, [Next]_vars,
           crashes' = crashes, NEW e \in Days
    PROVE  CacheSteps(e)
<1> USE PlannerAssumption
<1>1. /\ today \in Days /\ today \in Nat /\ crashes \in Nat /\ failures \in Nat
      /\ cache \in [Days -> {"real", "estimate", None}]
      /\ {"real", "estimate", "operator"} = Sources
      /\ Reach \in Nat /\ Reach >= 1
  BY DEF PlannerTypeOK, Sources, Reach, Days
<1>2. ASSUME NEW d \in Days, NEW source \in Sources, Compute(d, source),
             d >= today, d <= today + 1
      PROVE  plans'[d] # None \/ failures' > failures
  <2>1. d <= today + Reach
    BY <1>1, <1>2 DEF Days
  <2>2. Saved(d, source)[d] = source
    BY <1>2, <2>1, SavedKeeps
  <2>3. plans' = Saved(d, source) \/ failures' = failures + 1
    BY <1>2, ComputeType
  <2> QED
    BY <1>1, <2>2, <2>3 DEF Sources, None
<1>3. ASSUME NEW d \in Days, cache' = [cache EXCEPT ![d] = KnownSource(d)], curves' = curves
      PROVE  CacheSteps(e)
  <2>1. cache'[e] = "estimate" => cache[e] = "estimate"
    BY <1>1, <1>3 DEF KnownSource
  <2> QED
    BY <1>3, <2>1 DEF CacheSteps
<1>4. ASSUME NEW d \in Days, NEW source \in {"real", "estimate"}, Fetched(d, source),
             Compute(d, source), d \notin curves, d >= today, d <= today + 1
      PROVE  CacheSteps(e)
  <2>1. /\ cache'[e] = IF e = d THEN source ELSE cache[e]
        /\ curves' = curves \/ (source = "real" /\ curves' = curves \cup {d})
    BY <1>1, <1>4 DEF Fetched
  <2>2. plans'[d] # None \/ failures' > failures
    BY <1>1, <1>2, <1>4
  <2> QED
    BY <1>4, <2>1, <2>2 DEF CacheSteps
<1>5. CASE SchedFromKnown
  BY <1>1, <1>3, <1>5 DEF SchedFromKnown
<1>6. CASE MarketFromKnown
  <2>1. today + 1 \in Days
    BY <1>1, <1>6 DEF MarketFromKnown, WantsTomorrow, Days
  <2> QED
    BY <1>3, <1>6, <2>1 DEF MarketFromKnown
<1>7. CASE SchedFetched
  <2>1. PICK s \in {"real", "estimate"} : Fetched(schedFetch, s) /\ Compute(schedFetch, s)
    BY <1>7 DEF SchedFetched
  <2>2. /\ schedFetch = today /\ schedFetch \notin curves
        /\ schedFetch >= today /\ schedFetch <= today + 1
    BY <1>1, <1>7 DEF SchedFetched, FetchInv
  <2> QED
    BY <1>1, <1>4, <2>1, <2>2
<1>8. CASE MarketFetched
  <2>1. PICK s \in {"real", "estimate"} : Fetched(marketFetch, s) /\ Compute(marketFetch, s)
    BY <1>8 DEF MarketFetched
  <2>2. /\ marketFetch \in Days /\ marketFetch \notin curves
        /\ marketFetch >= today /\ marketFetch <= today + 1
    BY <1>1, <1>8 DEF MarketFetched, FetchInv, PlannerTypeOK
  <2> QED
    BY <1>4, <2>1, <2>2
<1>9. CASE MarketPush
  <2>1. PICK d \in {today, today + 1} \cap Days :
           curves' \in {curves, curves \cup {d}} /\ Compute(d, "real")
    BY <1>9 DEF MarketPush
  <2>2. plans'[d] # None \/ failures' > failures
    BY <1>1, <1>2, <2>1
  <2>3. cache' = cache
    BY <1>9 DEF MarketPush
  <2> QED
    BY <2>1, <2>2, <2>3 DEF CacheSteps
<1>10. CASE CacheExpires
  BY <1>1, <1>10 DEF CacheExpires, CacheSteps, None
<1>11. CASE Midnight
  BY <1>1, <1>11 DEF Midnight, CacheSteps, None
<1>12. CASE Restart
  BY <1>1, <1>12 DEF Restart
<1>13. CASE SchedNothingToDo \/ SchedFetch \/ MarketFetch \/ Command \/ OverrideEnds
            \/ RetryDelayOver \/ Afternoon \/ RemoteSchedule \/ UNCHANGED vars
  <2>1. cache' = cache /\ curves' = curves
    BY <1>13 DEF SchedNothingToDo, SchedFetch, MarketFetch, Command, OverrideEnds,
                 RetryDelayOver, Afternoon, RemoteSchedule, vars
  <2> QED
    BY <2>1 DEF CacheSteps
<1> QED
  BY <1>5, <1>6, <1>7, <1>8, <1>9, <1>10, <1>11, <1>12, <1>13
     DEF Next, ScheduleLoop, MarketLoop

(* CacheInv is inductive when no day still to come is ever pruned.          *)
LEMMA CacheNext ==
    ASSUME Reach < MaxStored, PlannerTypeOK, FetchInv, CacheInv, [Next]_vars
    PROVE  CacheInv'
<1>1. /\ today \in Nat /\ today' \in Nat /\ Days \subseteq Nat /\ failures \in Nat
      /\ failures' \in Nat /\ AheadInv /\ AheadInv'
  BY TypeNext, AheadNext, PlannerAssumption DEF PlannerTypeOK, CacheInv, Days
<1>2. CASE crashes' # crashes
  <2>1. \A e \in Days : cache'[e] = None
    BY <1>2 DEF Next, ScheduleLoop, MarketLoop, SchedNothingToDo, SchedFromKnown,
       SchedFetch, SchedFetched, MarketFromKnown, MarketFetch, MarketFetched, MarketPush,
       RemoteSchedule, Command, OverrideEnds, RetryDelayOver, CacheExpires, Afternoon,
       Midnight, Restart, vars
  <2> QED
    BY <1>1, <2>1 DEF CacheInv, None
<1>3. CASE crashes' = crashes
  <2>1. /\ today' >= today /\ failures' >= failures
        /\ plans' = plans \/ \E d \in Days, source \in Sources : Saves(d, source)
    BY <1>3, PlanSteps
  <2>2. ASSUME NEW e \in Days, e >= today', cache'[e] = "estimate", plans'[e] = None
        PROVE  failures' > 0 /\ (e \in curves' => failures' > 1)
    <3>1. e >= today
      BY <1>1, <2>1, <2>2
    <3>2. plans[e] = None
      <4>1. CASE plans' = plans
        BY <2>2, <4>1
      <4>2. CASE \E d \in Days, source \in Sources : Saves(d, source)
        <5>1. PICK d \in Days, source \in Sources : Saves(d, source)
          BY <4>2
        <5>2. plans'[e] = IF e = d THEN source ELSE plans[e]
          BY <1>1, <3>1, <5>1, SavedKeeps DEF Saves
        <5> QED
          BY <2>2, <5>2 DEF Sources, None
      <4> QED
        BY <2>1, <4>1, <4>2
    <3>3. CacheSteps(e)
      BY <1>1, <1>3, CacheStep
    <3>4. CASE cache[e] = "estimate"
      <4>1. failures > 0 /\ (e \in curves => failures > 1)
        BY <3>1, <3>2, <3>4 DEF CacheInv
      <4>2. e \in curves' \ curves => failures' > failures
        BY <2>2, <3>3 DEF CacheSteps
      <4> QED
        BY <1>1, <2>1, <4>1, <4>2
    <3>5. CASE cache[e] # "estimate"
      BY <1>1, <2>2, <3>3, <3>5 DEF CacheSteps
    <3> QED
      BY <3>4, <3>5
  <2> QED
    BY <1>1, <2>2 DEF CacheInv
<1> QED
  BY <1>2, <1>3

(* What holds then of every step.                                           *)
LEMMA NearSightedSteps ==
    ASSUME FetchDisturbed = FALSE, Reach < MaxStored
    PROVE  Spec => [](PlannerTypeOK /\ FetchInv /\ CacheInv)
<1>1. Init => PlannerTypeOK /\ FetchInv /\ CacheInv
  BY TypeInit, NoPlansHeld DEF Init, FetchInv, CacheInv, AheadInv, None
<1>2. PlannerTypeOK /\ FetchInv /\ CacheInv /\ [Next]_vars
         => (PlannerTypeOK /\ FetchInv /\ CacheInv)'
  BY TypeNext, FetchNext, CacheNext
<1> QED
  BY <1>1, <1>2, PTL DEF Spec

(* As long as a day's exact curve is stored no plan is made from less, the  *)
(* estimate that the cache may still hold included, unless two attempts     *)
(* have failed.                                                             *)
THEOREM StoredCurveIsUsed ==
    ASSUME FetchDisturbed = FALSE, Reach < MaxStored
    PROVE  Spec => StoredCurveWins
<1>1. ASSUME PlannerTypeOK, FetchInv, CacheInv, [Next]_vars,
             NEW d \in curves, plans'[d] = "estimate"
      PROVE  plans[d] = "estimate" \/ crashes' # crashes \/ failures > 1
  <2> SUFFICES ASSUME plans[d] # "estimate", crashes' = crashes PROVE failures > 1
    OBVIOUS
  <2>1. d \in Days
    BY <1>1 DEF PlannerTypeOK
  <2>2. PICK e \in Days, source \in Sources : Saves(e, source) /\ Justified(e, source)
    BY <1>1, PlanSteps
  <2>3. /\ plans'[e] \in {source, None}
        /\ \A f \in Days \ {e} : plans'[f] \in {plans[f], None}
    BY <1>1, <2>2, SavedPlans DEF Saves
  <2>4. d = e /\ source = "estimate"
    BY <1>1, <2>1, <2>3 DEF None
  <2>5. d >= today /\ cache[d] = "estimate" /\ plans[d] = None
    BY <1>1, <2>2, <2>4 DEF Justified
  <2> QED
    BY <1>1, <2>1, <2>5 DEF CacheInv
<1>2. PlannerTypeOK /\ FetchInv /\ CacheInv /\ [Next]_vars
         => [\A d \in curves :
                plans'[d] = "estimate" =>
                    plans[d] = "estimate" \/ crashes' # crashes \/ failures > 1]_vars
  BY <1>1
<1> QED
  BY <1>2, NearSightedSteps, PTL DEF Spec, StoredCurveWins
=============================================================================
