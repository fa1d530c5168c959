----------------------------- MODULE EdgePlanner -----------------------------
(***************************************************************************)
(* How the edge comes to have a dispatch plan for the day and to follow    *)
(* it: FallbackController (edge/src/control/fallback.py), the price lookup *)
(* of DAMClient (edge/src/market_data/dam_client.py) and the loops and     *)
(* downlink handlers of EdgeOrchestrator (edge/src/main.py) around them.   *)
(*                                                                         *)
(* A plan is abstracted to where its prices come from: "real" (the day's   *)
(* exact curve), "estimate" (the history average or the static curve) or   *)
(* "operator" (a schedule pushed from the cloud).  All of it runs on one   *)
(* event loop; the only suspension inside a computation is the HTTP fetch  *)
(* of DAMClient.get_prices, so every other stretch is one action.          *)
(*                                                                         *)
(* An attempt at a plan may end in an exception, which is logged: of the   *)
(* store, the forecast or the solver, before the plan is saved, or of the  *)
(* file it is saved to.  What fails behind that, the publication and the   *)
(* event log, is of no account here.  The attempt is stamped by then and   *)
(* what it fetched is cached, so it is made again after a delay and from   *)
(* what was cached.  dam_prices can always be read.                        *)
(***************************************************************************)
EXTENDS Naturals, FiniteSets

CONSTANTS LastDay,        \* model bound: days are 1 .. LastDay
          MaxStored,      \* _MAX_STORED_SCHEDULES (3)
          Horizon,        \* how many days ahead operators push schedules
          FetchDisturbed, \* a push or midnight can fall within a price fetch
          MaxCrashes,     \* model bound: process restarts
          MaxFailures     \* model bound: attempts that end in an exception

ASSUME PlannerAssumption ==
    /\ LastDay \in Nat \ {0} /\ MaxStored \in Nat \ {0}
    /\ Horizon \in Nat /\ MaxCrashes \in Nat /\ MaxFailures \in Nat
    /\ FetchDisturbed \in BOOLEAN

Days == 1 .. LastDay
NoDay == 0
None == "none"
Sources == {"real", "estimate", "operator"}

VARIABLES today,         \* the UTC date
          due,           \* it is 14:05 UTC or later
          plans,         \* FallbackController._schedules
          file,          \* what load_schedule makes of its file
          curves,        \* days whose exact curve SQLite's dam_prices holds
          cache,         \* DAMClient._cache: what get_prices last returned
                         \* (both: without the days that are over, for which
                         \* nobody asks again)
          schedFetch,    \* day _ensure_today_schedule awaits prices for
          marketFetch,   \* day _market_loop awaits prices for
          triedToday,    \* day of _last_schedule_attempt, while under 300 s old
          triedTomorrow, \* day of _last_tomorrow_attempt, likewise
          override,      \* _override_until lies ahead
          mode,          \* what the emulator was last told to follow
          crashes,
          failures

vars == <<today, due, plans, file, curves, cache, schedFetch, marketFetch,
          triedToday, triedTomorrow, override, mode, crashes, failures>>

NoPlans == [d \in Days |-> None]

Held(p) == {d \in Days : p[d] # None}

(* Type invariant: never more than MaxStored dates are held, in memory or   *)
(* in the file, and no fetch is for a day further ahead than tomorrow.      *)
PlannerTypeOK ==
    /\ today \in Days /\ due \in BOOLEAN
    /\ plans \in [Days -> Sources \cup {None}]
    /\ file \in [Days -> Sources \cup {None}]
    /\ Cardinality(Held(plans)) <= MaxStored
    /\ Cardinality(Held(file)) <= MaxStored
    /\ curves \subseteq Days
    /\ cache \in [Days -> {"real", "estimate", None}]
    /\ schedFetch \in 0 .. today
    /\ marketFetch \in Days \cup {NoDay} /\ marketFetch <= today + 1
    /\ triedToday \in 0 .. today
    /\ triedTomorrow \in Days \cup {NoDay}
    /\ override \in BOOLEAN
    /\ mode \in {"plan", "default", "override"}
    /\ crashes \in 0 .. MaxCrashes /\ failures \in 0 .. MaxFailures

Init ==
    /\ today = 1 /\ due = FALSE
    /\ plans = NoPlans /\ file = NoPlans /\ curves = {}
    /\ cache = [d \in Days |-> None]
    /\ schedFetch = NoDay /\ marketFetch = NoDay
    /\ triedToday = NoDay /\ triedTomorrow = NoDay
    /\ override = FALSE /\ mode = "default"
    /\ crashes = 0 /\ failures = 0

-----------------------------------------------------------------------------
(* FallbackController                                                       *)

(* _prune: the oldest dates go until MaxStored are left.                    *)
Pruned(p) ==
    LET newer(d) == {e \in Held(p) : e > d}
    IN  [d \in Days |-> IF Cardinality(newer(d)) < MaxStored THEN p[d] ELSE None]

(* Mutants of Saved: one slot for whatever day comes last, and no pruning.  *)
SavedInOneSlot(d, source) == [e \in Days |-> IF e = d THEN source ELSE None]

SavedUnpruned(d, source) == [plans EXCEPT ![d] = source]

(* The schedules that save_schedule leaves in memory.                       *)
Saved(d, source) == Pruned([plans EXCEPT ![d] = source])

(* An attempt ends in an exception.                                         *)
Fails == failures < MaxFailures /\ failures' = failures + 1

(* save_schedule: if _persist fails, the plan is in memory only, and the    *)
(* file may be truncated.                                                   *)
Store(d, source) ==
    /\ plans' = Saved(d, source)
    /\ \/ file' = plans' /\ UNCHANGED failures
       \/ Fails /\ file' \in {file, NoPlans}

(* _run_optimizer_and_publish                                               *)
Compute(d, source) == Store(d, source) \/ (Fails /\ UNCHANGED <<plans, file>>)

(* get_current_action: today's plan, or the rule-based default.             *)
CurrentAction(p) == IF p[today] = None THEN "default" ELSE "plan"

-----------------------------------------------------------------------------
(* DAMClient.get_prices: the in-memory cache, then the stored curve, then   *)
(* the network (a suspension), then a fallback curve.                       *)

(* A mutant of KnowsPrices: the stored curve is not looked at.              *)
KnowsCachedPrices(d) == cache[d] # None

KnowsPrices(d) == cache[d] # None \/ d \in curves

KnownSource(d) == IF cache[d] # None THEN cache[d] ELSE "real"

(* The fetch of d is over and brought a curve of this source.  A fetched    *)
(* curve goes to SQLite, if it can be written, a fallback one to the cache  *)
(* alone.                                                                   *)
Fetched(d, source) ==
    /\ cache' = [cache EXCEPT ![d] = source]
    /\ curves' = curves \/ (source = "real" /\ curves' = curves \cup {d})

-----------------------------------------------------------------------------
(* _schedule_loop                                                           *)

(* A mutant: the hourly plan is applied over an operator's override.        *)
ApplyPlanAlways == mode' = CurrentAction(plans')

(* What follows _ensure_today_schedule in the loop's body, unless the store *)
(* cannot be read.                                                          *)
ApplyPlan ==
    mode' = mode \/ (~override /\ mode' = CurrentAction(plans'))

(* The loop wakes; today is covered, or the last attempt is too recent.     *)
SchedNothingToDo ==
    /\ schedFetch = NoDay
    /\ plans[today] # None \/ triedToday = today
    /\ UNCHANGED plans
    /\ ApplyPlan
    /\ UNCHANGED <<today, due, file, curves, cache, schedFetch, marketFetch,
                   triedToday, triedTomorrow, override, crashes, failures>>

(* Today has no plan and its prices are at hand.                            *)
SchedFromKnown ==
    /\ schedFetch = NoDay /\ plans[today] = None /\ triedToday # today
    /\ KnowsPrices(today)
    /\ triedToday' = today
    /\ cache' = [cache EXCEPT ![today] = KnownSource(today)]
    /\ Compute(today, KnownSource(today))
    /\ ApplyPlan
    /\ UNCHANGED <<today, due, curves, schedFetch, marketFetch, triedTomorrow,
                   override, crashes>>

(* Today has no plan and its prices must be fetched.                        *)
SchedFetch ==
    /\ schedFetch = NoDay /\ plans[today] = None /\ triedToday # today
    /\ ~KnowsPrices(today)
    /\ triedToday' = today
    /\ schedFetch' = today
    /\ UNCHANGED <<today, due, plans, file, curves, cache, marketFetch,
                   triedTomorrow, override, mode, crashes, failures>>

(* The awaited prices arrive: a plan is computed from them, for the day     *)
(* they were asked for, and whether or not that succeeds the loop goes on   *)
(* to apply today's.                                                        *)
SchedFetched ==
    /\ schedFetch # NoDay
    /\ \E source \in {"real", "estimate"} :
          /\ Fetched(schedFetch, source)
          /\ Compute(schedFetch, source)
    /\ schedFetch' = NoDay
    /\ ApplyPlan
    /\ UNCHANGED <<today, due, marketFetch, triedToday, triedTomorrow,
                   override, crashes>>

-----------------------------------------------------------------------------
(* _market_loop: from 14:05 UTC, a plan for tomorrow if there is none.      *)

(* A mutant: tomorrow is computed again though it has a plan.               *)
WantsTomorrowAgain ==
    /\ marketFetch = NoDay
    /\ due /\ today < LastDay
    /\ triedTomorrow # today + 1

WantsTomorrow ==
    /\ marketFetch = NoDay
    /\ due /\ today < LastDay
    /\ plans[today + 1] = None /\ triedTomorrow # today + 1

MarketFromKnown ==
    /\ WantsTomorrow /\ KnowsPrices(today + 1)
    /\ triedTomorrow' = today + 1
    /\ cache' = [cache EXCEPT ![today + 1] = KnownSource(today + 1)]
    /\ Compute(today + 1, KnownSource(today + 1))
    /\ UNCHANGED <<today, due, curves, schedFetch, marketFetch, triedToday,
                   override, mode, crashes>>

MarketFetch ==
    /\ WantsTomorrow /\ ~KnowsPrices(today + 1)
    /\ triedTomorrow' = today + 1
    /\ marketFetch' = today + 1
    /\ UNCHANGED <<today, due, plans, file, curves, cache, schedFetch, triedToday,
                   override, mode, crashes, failures>>

MarketFetched ==
    /\ marketFetch # NoDay
    /\ \E source \in {"real", "estimate"} :
          /\ Fetched(marketFetch, source)
          /\ Compute(marketFetch, source)
    /\ marketFetch' = NoDay
    /\ UNCHANGED <<today, due, schedFetch, triedToday, triedTomorrow,
                   override, mode, crashes>>

-----------------------------------------------------------------------------
(* Downlinks and the local API                                              *)

(* What can happen while get_prices awaits a fetch is a parameter.          *)
MayIntervene == FetchDisturbed \/ (schedFetch = NoDay /\ marketFetch = NoDay)

(* _apply_market_push: a curve for today or tomorrow (the retained message  *)
(* comes again with each connection); one for a past day is ignored.  A     *)
(* curve that cannot be stored is planned with all the same.                *)
MarketPush ==
    /\ MayIntervene
    /\ \E d \in {today, today + 1} \cap Days :
          /\ curves' \in {curves, curves \cup {d}}
          /\ Compute(d, "real")
    /\ UNCHANGED <<today, due, cache, schedFetch, marketFetch, triedToday,
                   triedTomorrow, override, mode, crashes>>

(* _apply_remote_schedule: an operator's schedule, for any date.            *)
RemoteSchedule ==
    /\ \E d \in {e \in Days : e <= today + Horizon} : Store(d, "operator")
    /\ UNCHANGED <<today, due, curves, cache, schedFetch, marketFetch,
                   triedToday, triedTomorrow, override, mode, crashes>>

(* _apply_command, from the cloud or the local API, once accepted.          *)
Command ==
    /\ override' = TRUE /\ mode' = "override"
    /\ UNCHANGED <<today, due, plans, file, curves, cache, schedFetch, marketFetch,
                   triedToday, triedTomorrow, crashes, failures>>

-----------------------------------------------------------------------------
(* Time and restarts                                                        *)

(* The override's deadline passes; the emulator, which keeps the same one,  *)
(* falls back to SOLAR_PRIORITY.                                            *)
OverrideEnds ==
    /\ override
    /\ override' = FALSE /\ mode' = "default"
    /\ UNCHANGED <<today, due, plans, file, curves, cache, schedFetch, marketFetch,
                   triedToday, triedTomorrow, crashes, failures>>

(* A mutant: one attempt at today's plan a day.                             *)
RetryDelayOverTomorrow ==
    /\ triedTomorrow # NoDay /\ triedTomorrow' = NoDay
    /\ UNCHANGED <<today, due, plans, file, curves, cache, schedFetch, marketFetch,
                   triedToday, override, mode, crashes, failures>>

(* _SCHEDULE_RETRY_S after an attempt.                                      *)
RetryDelayOver ==
    /\ \/ triedToday # NoDay /\ triedToday' = NoDay /\ UNCHANGED triedTomorrow
       \/ triedTomorrow # NoDay /\ triedTomorrow' = NoDay /\ UNCHANGED triedToday
    /\ UNCHANGED <<today, due, plans, file, curves, cache, schedFetch, marketFetch,
                   override, mode, crashes, failures>>

CacheExpires ==
    /\ \E d \in Days : cache[d] # None /\ cache' = [cache EXCEPT ![d] = None]
    /\ UNCHANGED <<today, due, plans, file, curves, schedFetch, marketFetch,
                   triedToday, triedTomorrow, override, mode, crashes, failures>>

Afternoon ==
    /\ ~due /\ due' = TRUE
    /\ UNCHANGED <<today, plans, file, curves, cache, schedFetch, marketFetch,
                   triedToday, triedTomorrow, override, mode, crashes, failures>>

Midnight ==
    /\ MayIntervene
    /\ today < LastDay /\ today' = today + 1 /\ due' = FALSE
    /\ curves' = curves \ {today} /\ cache' = [cache EXCEPT ![today] = None]
    /\ UNCHANGED <<plans, file, schedFetch, marketFetch, triedToday,
                   triedTomorrow, override, mode, crashes, failures>>

(* The process restarts.  load_schedule finds the file, or, when the crash  *)
(* hit _persist between truncating and writing it, nothing it can parse.    *)
Restart ==
    /\ crashes < MaxCrashes /\ crashes' = crashes + 1
    /\ plans' \in {file, NoPlans} /\ file' = plans'
    /\ cache' = [d \in Days |-> None]
    /\ schedFetch' = NoDay /\ marketFetch' = NoDay
    /\ triedToday' = NoDay /\ triedTomorrow' = NoDay
    /\ override' = FALSE /\ mode' = "default"
    /\ UNCHANGED <<today, due, curves, failures>>

-----------------------------------------------------------------------------
ScheduleLoop == SchedNothingToDo \/ SchedFromKnown \/ SchedFetch \/ SchedFetched

MarketLoop == MarketFromKnown \/ MarketFetch \/ MarketFetched

Next ==
    \/ ScheduleLoop \/ MarketLoop
    \/ MarketPush \/ RemoteSchedule \/ Command
    \/ OverrideEnds \/ RetryDelayOver \/ CacheExpires
    \/ Afternoon \/ Midnight \/ Restart

Spec == Init /\ [][Next]_vars

(* Both loops keep polling, a fetch ends (it has a timeout), the retry      *)
(* delay and an override run out.  No day has to end, nothing has to be     *)
(* pushed, no restart has to happen.                                        *)
Fairness ==
    /\ WF_vars(ScheduleLoop) /\ WF_vars(MarketLoop)
    /\ SF_vars(SchedFromKnown) /\ SF_vars(SchedFetch)
    /\ WF_vars(triedToday # NoDay /\ RetryDelayOver)

FairSpec == Spec /\ Fairness

-----------------------------------------------------------------------------
(* Properties                                                               *)

(* main.py:336-339, dam_client.py:86-91: while the process runs, a plan     *)
(* made from the day's exact curve is never replaced by one made from an    *)
(* average or a static curve.  (After a restart the file may hold an older  *)
(* plan, if the last ones could not be written.)                            *)
RealPlanKept ==
    [][\A d \in Days :
          plans[d] = "real" /\ plans'[d] = "estimate" => crashes' # crashes]_vars

(* dam_client.py:86-91: as long as a day's exact curve is stored, no plan   *)
(* for that day is made from anything less, whatever the in-memory price    *)
(* cache still holds.  One failed attempt does not change that; two do: one *)
(* that leaves an estimate in the cache and no plan, and the push's own.    *)
StoredCurveWins ==
    [][\A d \in curves :
          plans'[d] = "estimate" =>
              plans[d] = "estimate" \/ crashes' # crashes \/ failures > 1]_vars

(* fallback.py:24-28: no date still in use is evicted, however many other   *)
(* dates are saved: while the day lasts and the process runs, today's plan  *)
(* may be replaced but never disappears.                                    *)
TodayStays ==
    [][(today' = today /\ crashes' = crashes /\ plans[today] # None)
          => plans'[today] # None]_vars

(* main.py:243-256: the edge never spends a day without a plan: within that *)
(* day, whatever is pushed, cached or lost in a restart and however many    *)
(* attempts have failed, one is found.                                      *)
TodayPlanned ==
    \A d \in Days : (today = d) ~> (plans[d] # None \/ today # d)

(* main.py:105-108: while an operator override runs, nothing else decides   *)
(* what the emulator follows, the fetch that was under way when the         *)
(* override came in included.                                               *)
OverrideHolds == override => mode = "override"
=============================================================================
