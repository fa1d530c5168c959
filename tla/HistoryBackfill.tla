---------------------------- MODULE HistoryBackfill ----------------------------
(***************************************************************************)
(* The cloud's hourly maintenance pass over the past: ensure_history and   *)
(* its helpers (cloud/api/src/history.py), driven by _backfill_history_task*)
(* (cloud/api/src/main.py), against an InfluxDB that the subscriber fills  *)
(* with the edge's telemetry at the same time.                             *)
(*                                                                         *)
(* Every database call is an await, so telemetry that the edge had         *)
(* buffered can arrive, and the pass can be abandoned (its runtime budget, *)
(* a restart), between any two of them.  A call that fails is logged and   *)
(* goes unnoticed: InfluxWriter writes nothing, or answers a query with no *)
(* rows.  The days before the window of BACKFILL_DAYS are left out, and so *)
(* are the battery's state of charge and the projection that follows.      *)
(*                                                                         *)
(* The process is one that found InfluxDB at its start.  One that did not  *)
(* skips every pass (`if not writer.is_connected: return'), until it is    *)
(* restarted: to the database that is a time without passes.               *)
(***************************************************************************)
EXTENDS Naturals

CONSTANTS LastHour,     \* model bound: hours are 0 .. LastHour
          HoursPerDay,  \* 24
          Ticks,        \* synthetic points per hour (60 / TICK_MINUTES)
          MaxTroubles   \* model bound: passes abandoned half-way and calls
                        \* that the database fails

ASSUME BackfillAssumption ==
    /\ LastHour \in Nat /\ MaxTroubles \in Nat
    /\ HoursPerDay \in Nat \ {0} /\ Ticks \in Nat \ {0}

Hours == 0 .. LastHour
DayOf(h) == h \div HoursPerDay
Days == 0 .. DayOf(LastHour)
HoursOf(d) == {h \in Hours : DayOf(h) = d}
None == "none"

VARIABLES now,       \* the hour in progress
          real,      \* hours with live points in `telemetry'
          synth,     \* ticks of an hour with a synthetic point in `telemetry'
          doubled,   \* those with two, in series of different tags
          price,     \* best source of a day's market_price
          planned,   \* days with a stored schedule
          at,        \* the await the pass is at
          today, cutoff, day, source,  \* its locals: current_hour is cutoff
          todo,      \* hours it still has to purge or to replay,
          tick,      \* and the next tick of the first of them
          troubles

edgeVars == <<now, real>>
database == <<synth, doubled, price, planned>>
locals == <<today, cutoff, day, source, todo, tick>>
vars == <<edgeVars, database, at, locals, troubles>>

Steps == {"off", "purge", "survey", "retry", "prices", "replay", "store",
          "lookup", "record"}

(* Type invariant: while it replays a day, what the pass has in hand are    *)
(* hours of that day, and a tick is doubled only if it is there.            *)
BackfillTypeOK ==
    /\ now \in Hours /\ real \subseteq Hours
    /\ synth \in [Hours -> SUBSET (1 .. Ticks)]
    /\ doubled \in [Hours -> SUBSET (1 .. Ticks)]
    /\ \A h \in Hours : doubled[h] \subseteq synth[h]
    /\ price \in [Days -> {None, "fallback", "oree"}]
    /\ planned \subseteq Days
    /\ at \in Steps /\ source \in {None, "fallback", "oree"}
    /\ today \in Days /\ cutoff \in 0 .. HoursPerDay - 1
    /\ day \in 0 .. today + 1
    /\ todo \subseteq Hours /\ tick \in 1 .. Ticks
    /\ at = "replay" => todo \subseteq HoursOf(day)
    /\ troubles \in 0 .. MaxTroubles

Init ==
    /\ now = 0 /\ real = {}
    /\ synth = [h \in Hours |-> {}] /\ doubled = [h \in Hours |-> {}]
    /\ price = [d \in Days |-> None] /\ planned = {}
    /\ at = "off" /\ today = 0 /\ cutoff = 0 /\ day = 0
    /\ source = None /\ todo = {} /\ tick = 1
    /\ troubles = 0

(* A call of InfluxWriter: it does what it says, or it fails unnoticed.     *)
Call(ok) ==
    IF ok THEN UNCHANGED troubles
    ELSE troubles < MaxTroubles /\ troubles' = troubles + 1

-----------------------------------------------------------------------------
(* Queries                                                                  *)

(* Mutants of Overlapping: hours are labelled by the end of their window;   *)
(* the range of the query stops at midnight.                                *)
OverlappingByEnd(d) ==
    {h \in Hours : h > 0 /\ DayOf(h) <= d /\ h - 1 \in real /\ synth[h - 1] # {}}

OverlappingYesterday(d) ==
    {h \in Hours : DayOf(h) < d /\ h \in real /\ synth[h] # {}}

(* The first query of _purge_synthetic_overlaps: hours up to the end of day *)
(* d with points of both kinds.                                             *)
Overlapping(d) ==
    {h \in Hours : DayOf(h) <= d /\ h \in real /\ synth[h] # {}}

(* A mutant: a parallel series is not looked for.                           *)
StackedNever(d) == {}

(* The second: hours with two synthetic points at one instant.              *)
Stacked(d) ==
    {h \in Hours : DayOf(h) <= d /\ doubled[h] # {}}

(* What the loop looks at of day d: today, only hours before the current.   *)
Eligible(d) == {h \in HoursOf(d) : d = today => h % HoursPerDay < cutoff}

(* Mutants of Missing: the query has no end; the hour in progress and those *)
(* to come are missing too; hours are labelled by the end of their window.  *)
MissingFromDay(d) ==
    {h \in Hours :
        /\ DayOf(h) >= d /\ h \notin real /\ synth[h] = {}
        /\ d = today => h % HoursPerDay < cutoff}

MissingWholeDay(d) == {h \in HoursOf(d) : h \notin real /\ synth[h] = {}}

MissingByEnd(d) ==
    {h \in Eligible(d) :
        h - 1 \in HoursOf(d) /\ h - 1 \notin real /\ synth[h - 1] = {}}

(* _missing_hours: those with no telemetry at all.                          *)
Missing(d) == {h \in Eligible(d) : h \notin real /\ synth[h] = {}}

-----------------------------------------------------------------------------
(* The pass                                                                 *)

First(h) == h \in todo /\ \A i \in todo : h <= i

(* The loops over the ticks of hour h and over the hours in hand.           *)
NextTick(h) ==
    IF tick < Ticks THEN tick' = tick + 1 /\ UNCHANGED todo
    ELSE tick' = 1 /\ todo' = todo \ {h}

NextDay == day' = day + 1 /\ at' = "survey"

(* ensure_history reads the date and asks which hours hold too much; one or *)
(* both of the queries may fail.                                            *)
StartPass ==
    /\ at = "off"
    /\ at' = "purge" /\ today' = DayOf(now)
    /\ tick' = 1
    /\ LET d == DayOf(now) IN
       \E ok \in BOOLEAN :
          /\ Call(ok)
          /\ IF ok THEN todo' = Overlapping(d) \cup Stacked(d)
                   ELSE todo' \in {Overlapping(d), Stacked(d), {}}
    /\ UNCHANGED <<edgeVars, database, cutoff, day, source>>

(* The next synthetic point of such an hour, if there is one, is deleted.   *)
PurgePoint ==
    /\ at = "purge"
    /\ \E h \in todo, ok \in BOOLEAN :
          /\ First(h) /\ NextTick(h)
          /\ Call(ok)
          /\ synth' = IF ok THEN [synth EXCEPT ![h] = @ \ {tick}] ELSE synth
          /\ doubled' = IF ok THEN [doubled EXCEPT ![h] = @ \ {tick}] ELSE doubled
    /\ UNCHANGED <<edgeVars, price, planned, at, today, cutoff, day, source>>

(* The query for the points of an hour fails: there is nothing to delete.   *)
PurgeSkipsHour ==
    /\ at = "purge" /\ tick = 1
    /\ \E h \in todo : First(h) /\ todo' = todo \ {h}
    /\ Call(FALSE)
    /\ UNCHANGED <<edgeVars, database, at, today, cutoff, day, source, tick>>

(* The purge is over; the loop reads the clock once more and starts with    *)
(* the oldest day.                                                          *)
PurgeDone ==
    /\ at = "purge" /\ todo = {}
    /\ cutoff' = now % HoursPerDay
    /\ day' = 0 /\ at' = "survey"
    /\ UNCHANGED <<edgeVars, database, today, source, todo, tick, troubles>>

(* A mutant: a day without gaps is done with, whatever its prices are.      *)
SurveySkipsCovered ==
    /\ at = "survey" /\ day <= today
    /\ \E ok \in BOOLEAN :
          /\ Call(ok)
          /\ todo' = IF ok THEN Missing(day) ELSE Eligible(day)
    /\ IF todo' # {} THEN at' = "prices" /\ UNCHANGED day ELSE NextDay
    /\ UNCHANGED <<edgeVars, database, today, cutoff, source, tick>>

(* What is missing of the next day; if the query fails, everything is.  A   *)
(* past day that is covered but was priced with the fallback curve has its  *)
(* prices fetched again.                                                    *)
Survey ==
    /\ at = "survey" /\ day <= today
    /\ \E ok \in BOOLEAN :
          /\ Call(ok)
          /\ todo' = IF ok THEN Missing(day) ELSE Eligible(day)
    /\ IF todo' # {} THEN at' = "prices" /\ UNCHANGED day
       ELSE IF day < today /\ price[day] = "fallback"
            THEN at' = "retry" /\ UNCHANGED day
            ELSE NextDay
    /\ UNCHANGED <<edgeVars, database, today, cutoff, source, tick>>

(* The window is done; what follows is the projection.                      *)
PassDone ==
    /\ at = "survey" /\ day > today
    /\ at' = "off"
    /\ UNCHANGED <<edgeVars, database, locals, troubles>>

RetrySucceeds ==
    /\ at = "retry"
    /\ price' = [price EXCEPT ![day] = "oree"]
    /\ NextDay
    /\ UNCHANGED <<edgeVars, synth, doubled, planned, today, cutoff, source, todo,
                   tick, troubles>>

(* The page is not there, or one of the two calls of the database fails.    *)
RetryFails ==
    /\ at = "retry"
    /\ NextDay
    /\ UNCHANGED <<edgeVars, database, today, cutoff, source, todo, tick, troubles>>

(* _prices_for: stored real prices, else fetched ones, else the static      *)
(* curve; then the schedule is computed from them.                          *)
PricesFor ==
    /\ at = "prices"
    /\ \E ok \in BOOLEAN :
          /\ Call(ok)
          /\ source' \in IF ok /\ price[day] = "oree" THEN {"oree"}
                         ELSE {"oree", "fallback"}
    /\ at' = "replay"
    /\ UNCHANGED <<edgeVars, database, today, cutoff, day, todo, tick>>

(* _replay_day writes the next point of the hours in hand.  Where there is  *)
(* one already, the new one replaces it if its tags are the same.  The      *)
(* table may hold live points of that hour by now.                          *)
ReplayPoint ==
    /\ at = "replay"
    /\ \E h \in todo, ok \in BOOLEAN :
          /\ First(h) /\ NextTick(h)
          /\ Call(ok)
          /\ synth' = IF ok THEN [synth EXCEPT ![h] = @ \cup {tick}] ELSE synth
          /\ \/ UNCHANGED doubled
             \/ /\ ok /\ tick \in synth[h]
                /\ doubled' = [doubled EXCEPT ![h] = @ \cup {tick}]
    /\ UNCHANGED <<edgeVars, price, planned, at, today, cutoff, day, source>>

ReplayDone ==
    /\ at = "replay" /\ todo = {}
    /\ at' = "store"
    /\ UNCHANGED <<edgeVars, database, locals, troubles>>

(* The prices are stored; "oree" wins over "fallback", a series of its own. *)
StorePrices ==
    /\ at = "store"
    /\ \E ok \in BOOLEAN :
          /\ Call(ok)
          /\ price' = IF ok /\ price[day] # "oree"
                      THEN [price EXCEPT ![day] = source] ELSE price
    /\ at' = "lookup"
    /\ UNCHANGED <<edgeVars, synth, doubled, planned, locals>>

(* A mutant: the plan of the replay is never recorded.                      *)
LookForPlanOnly ==
    /\ at = "lookup"
    /\ NextDay
    /\ UNCHANGED <<edgeVars, database, today, cutoff, source, todo, tick, troubles>>

(* Has the day a plan?                                                      *)
LookForPlan ==
    /\ at = "lookup"
    /\ \E ok \in BOOLEAN :
          /\ Call(ok)
          /\ IF ok /\ day \in planned THEN NextDay
             ELSE at' = "record" /\ UNCHANGED day
    /\ UNCHANGED <<edgeVars, database, today, cutoff, source, todo, tick>>

(* There was none: the plan of the replay is stored.                        *)
RecordPlan ==
    /\ at = "record"
    /\ \E ok \in BOOLEAN :
          /\ Call(ok)
          /\ planned' = IF ok THEN planned \cup {day} ELSE planned
    /\ NextDay
    /\ UNCHANGED <<edgeVars, synth, doubled, price, today, cutoff, source, todo,
                   tick>>

(* BACKFILL_MAX_RUNTIME_S is up or the process restarts.                    *)
Abort ==
    /\ at # "off" /\ troubles < MaxTroubles
    /\ troubles' = troubles + 1
    /\ at' = "off"
    /\ UNCHANGED <<edgeVars, database, locals>>

-----------------------------------------------------------------------------
(* The edge and the clock                                                   *)

(* Telemetry of an hour reaches the database: at once, or from the edge's   *)
(* buffer at any time after it, or (the host sleeps) never.                 *)
Telemetry ==
    /\ \E h \in (0 .. now) \ real : real' = real \cup {h}
    /\ UNCHANGED <<now, database, at, locals, troubles>>

(* The device's own schedule of a day, perhaps late.                        *)
EdgeSchedule ==
    /\ \E d \in Days :
          d <= DayOf(now) + 1 /\ d \notin planned /\ planned' = planned \cup {d}
    /\ UNCHANGED <<edgeVars, synth, doubled, price, at, locals, troubles>>

Clock ==
    /\ now < LastHour /\ now' = now + 1
    /\ UNCHANGED <<real, database, at, locals, troubles>>

-----------------------------------------------------------------------------
Pass ==
    \/ StartPass \/ PurgePoint \/ PurgeSkipsHour \/ PurgeDone
    \/ Survey \/ PassDone \/ RetrySucceeds \/ RetryFails
    \/ PricesFor \/ ReplayPoint \/ ReplayDone
    \/ StorePrices \/ LookForPlan \/ RecordPlan

Environment == Telemetry \/ EdgeSchedule \/ Clock

Next == Pass \/ Abort \/ Environment

Spec == Init /\ [][Next]_vars

(* The task starts a pass every BACKFILL_INTERVAL_S and its calls return;   *)
(* a page that is asked for a day again and again is there one day.         *)
FairSpec == Spec /\ WF_vars(Pass) /\ SF_vars(RetrySucceeds)

-----------------------------------------------------------------------------
(* Properties                                                               *)

(* No pass has been abandoned and no call has failed so far.                *)
Undisturbed == troubles = 0

(* history.py:108-119: no synthetic point is ever written into the hour in  *)
(* progress or a later one, also when the pass runs across midnight and     *)
(* reads the date and the hour at different moments, and when a query       *)
(* fails.                                                                   *)
NeverAheadOfClock == \A h \in Hours : synth[h] # {} => h < now

(* history.py:380-385: "Real data wins": as long as no call has failed, a   *)
(* synthetic point is deleted only from an hour that has live telemetry, so *)
(* no hour loses its only record.                                           *)
PurgeLeavesTheReal ==
    [][\A h \in Hours :
          Undisturbed /\ ~ synth[h] \subseteq synth'[h] => h \in real]_vars

(* history.py:380-385: an hour that comes to hold both kinds of points      *)
(* (buffered telemetry arrived after, or during, its replay) is cleaned,    *)
(* also after an abandoned pass and a failed call.                          *)
RealWins ==
    \A h \in Hours : (h \in real /\ synth[h] # {}) ~> (synth[h] = {})

(* history.py:402-408: an hour that was replayed twice, which a failed      *)
(* query brings about, gets rid of its parallel series.                     *)
StacksGo ==
    \A h \in Hours : (doubled[h] # {}) ~> (doubled[h] = {})

(* main.py:70-88 (_backfill_history_task): an hour that is over and has no  *)
(* telemetry is filled, and filled completely, unless its real points come. *)
(* An abandoned pass or a failed write may leave it half filled for good.   *)
GapsClose ==
    \A h \in Hours :
        (h < now /\ h \notin real /\ synth[h] = {})
            ~> (h \in real \/ synth[h] = 1 .. Ticks \/ ~Undisturbed)

(* history.py:121-128: a past day does not keep the fallback curve forever. *)
PricesUpgraded ==
    \A d \in Days : (price[d] = "fallback" /\ d < DayOf(now)) ~> (price[d] = "oree")

(* history.py:146-152: a day that was replayed has a plan to be judged by,  *)
(* unless the pass got no further than its prices.                          *)
ReplayedDayHasPlan ==
    \A d \in Days : (price[d] # None) ~> (d \in planned \/ ~Undisturbed)

(* history.py:473-475: the caller "backfills only the missing hours, never  *)
(* touching the ones with real data": an hour in which live telemetry is    *)
(* stored is not set down for a replay.                                     *)
ReplaySparesReal ==
    [][at = "survey" /\ at' = "prices" => todo' \cap real = {}]_vars
=============================================================================
